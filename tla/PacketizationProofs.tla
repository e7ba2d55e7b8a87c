----------------------- MODULE PacketizationProofs -----------------------
(***************************************************************************)
(* Packetization keeps what it promises for every stream that Picture      *)
(* Decision can decide on, and every size of the queues and pools that     *)
(* suffices for it.                                                        *)
(*                                                                         *)
(* The reorder queue is a window on decode order: it holds the pictures    *)
(* that are packed and not sent, each in the place of its order.  That the *)
(* next picture has a place in it follows from what the kernel saw when it *)
(* went to sleep: a unit at the head that is not complete.                 *)
(***************************************************************************)
EXTENDS Packetization, FiniteSetTheorems, WellFoundedInduction, TLAPS

-----------------------------------------------------------------------------
\* Numbers, finite sets and sequences.

\* A nonempty set of natural numbers has a least element.
LEMMA Least ==
    ASSUME NEW T \in SUBSET Nat, T # {}
    PROVE  \E x \in T : \A y \in T : x <= y
<1> DEFINE S == {0 .. x : x \in T}
<1>1. S \subseteq FiniteSubsetsOf(Nat) /\ S # {}
  <2>1. \A x \in T : IsFiniteSet(0 .. x) /\ 0 .. x \in SUBSET Nat
    BY FS_Interval
  <2> QED BY <2>1 DEF FiniteSubsetsOf
<1>2. IsWellFoundedOn(StrictSubsetOrdering(Nat), FiniteSubsetsOf(Nat))
  BY FS_StrictSubsetOrderingWellFounded
<1>3. \E x \in S : \A y \in S : ~ (<<y, x>> \in StrictSubsetOrdering(Nat))
  <2> HIDE DEF S
  <2> QED BY <1>1, <1>2, WFMin
<1>4. PICK x \in T : \A y \in T : ~ (<<0 .. y, 0 .. x>> \in StrictSubsetOrdering(Nat))
  BY <1>3
<1>5. \A y \in T : y < x => <<0 .. y, 0 .. x>> \in StrictSubsetOrdering(Nat)
  <2> TAKE y \in T
  <2> SUFFICES ASSUME y < x
               PROVE  <<0 .. y, 0 .. x>> \in StrictSubsetOrdering(Nat)
    OBVIOUS
  <2>1. 0 .. y \in SUBSET Nat /\ 0 .. x \in SUBSET Nat /\ 0 .. y \subseteq 0 .. x
    OBVIOUS
  <2>2. x \in 0 .. x /\ x \notin 0 .. y
    OBVIOUS
  <2> DEFINE a == 0 .. y
  <2> DEFINE b == 0 .. x
  <2>3. a \in SUBSET Nat /\ b \in SUBSET Nat /\ a \subseteq b /\ a # b
    BY <2>1, <2>2
  <2> HIDE DEF a, b
  <2>4. <<a, b>> \in StrictSubsetOrdering(Nat)
    BY <2>3 DEF StrictSubsetOrdering
  <2> QED BY <2>4 DEF a, b
<1>6. \A y \in T : ~(y < x)
  BY <1>4, <1>5
<1>7. \A y \in T : x <= y
  BY <1>6
<1> QED BY <1>7

\* Numbers less than a window apart have places of their own in a queue of its size.
LEMMA PlacesDiffer ==
    ASSUME NEW a \in Nat, NEW b \in Nat, a - b \in 1 - Depth..Depth - 1, Slot(a) = Slot(b)
    PROVE  a = b
<1>1. Depth \in Nat \ {0}
  BY BoundAssumption
<1>2. a = Depth * (a \div Depth) + (a % Depth) /\ b = Depth * (b \div Depth) + (b % Depth)
  BY <1>1
<1> DEFINE k == (a \div Depth) - (b \div Depth)
<1>3. a \div Depth \in Int /\ b \div Depth \in Int
  BY <1>1
<1>4. a - b = Depth * k /\ k \in Int
  BY <1>1, <1>2, <1>3 DEF Slot
<1> HIDE DEF k
<1>5. k = 0
  <2> DEFINE d == Depth
  <2>1. ASSUME k >= 1 PROVE d * k >= d
    <3>1. d * k = d + d * (k - 1)
      BY <1>1, <1>4
    <3>2. d * (k - 1) \in Nat
      BY <1>1, <1>4, <2>1
    <3> QED BY <1>1, <3>1, <3>2
  <2>2. ASSUME k <= -1 PROVE d * k <= -d
    <3>1. -(d * k) = d + d * (-k - 1)
      BY <1>1, <1>4
    <3>2. d * (-k - 1) \in Nat
      BY <1>1, <1>4, <2>2
    <3> QED BY <1>1, <1>4, <3>1, <3>2
  <2> QED BY <1>1, <1>4, <2>1, <2>2
<1>6. Depth * k = 0
  BY <1>1, <1>5
<1> QED BY <1>4, <1>6

\* Every number has a place in the queue.
LEMMA PlaceIsSlot ==
    ASSUME NEW n \in Nat
    PROVE  Slot(n) \in Slots
BY BoundAssumption DEF Slot, Slots

\* A sequence of different elements is as long as the set of its elements.
LEMMA DistinctLength ==
    ASSUME NEW S, NEW s \in Seq(S), \A i, j \in DOMAIN s : s[i] = s[j] => i = j
    PROVE  /\ Range(s) \in SUBSET S /\ IsFiniteSet(Range(s)) /\ Cardinality(Range(s)) = Len(s)
<1>1. s \in [1..Len(s) -> Range(s)] /\ Len(s) \in Nat /\ DOMAIN s = 1..Len(s)
  BY DEF Range
<1>2. s \in Surjection(1..Len(s), Range(s))
  BY <1>1 DEF Surjection, Range
<1>3. s \in Injection(1..Len(s), Range(s))
  BY <1>1 DEF Injection, IsInjective
<1>4. IsFiniteSet(1..Len(s)) /\ Cardinality(1..Len(s)) = Len(s)
  <2>1. \A n \in Nat : IsFiniteSet(1..n) /\ Cardinality(1..n) = n
    <3> TAKE n \in Nat
    <3>1. IsFiniteSet(1..n) /\ Cardinality(1..n) = IF 1 > n THEN 0 ELSE n - 1 + 1
      BY FS_Interval
    <3> QED BY <3>1
  <2> QED BY <1>1, <2>1
<1>5. IsFiniteSet(Range(s)) /\ Cardinality(Range(s)) = Cardinality(1..Len(s))
  BY <1>2, <1>3, <1>4, FS_Surjection
<1> QED BY <1>4, <1>5 DEF Range

\* A sequence of as many different elements as the set has holds all of them.
LEMMA DistinctCover ==
    ASSUME NEW S, IsFiniteSet(S), NEW s \in [1..Cardinality(S) -> S],
           \A i, j \in DOMAIN s : s[i] = s[j] => i = j
    PROVE  s \in Seq(S) /\ Range(s) = S /\ Len(s) = Cardinality(S)
<1>1. Cardinality(S) \in Nat
  BY FS_CardinalityType
<1>2. s \in Seq(S) /\ Len(s) = Cardinality(S)
  BY <1>1
<1>3. Range(s) \in SUBSET S /\ Cardinality(Range(s)) = Cardinality(S)
  BY <1>2, DistinctLength
<1> QED BY <1>2, <1>3, FS_Subset

\* Of the finite sets in a nonempty set one has the fewest elements.
LEMMA SmallestSet ==
    ASSUME NEW C, C # {}, \A s \in C : IsFiniteSet(s)
    PROVE  \E s \in C : \A t : IsFiniteSet(t) /\ Cardinality(t) < Cardinality(s) => t \notin C
<1> DEFINE T == {Cardinality(s) : s \in C}
<1>1. \A s \in C : Cardinality(s) \in Nat
  BY FS_CardinalityType
<1>2. T \in SUBSET Nat /\ T # {}
  BY <1>1
<1>3. \E x \in T : \A y \in T : x <= y
  <2> HIDE DEF T
  <2> QED BY <1>2, Least
<1>4. PICK s \in C : \A t \in C : Cardinality(s) <= Cardinality(t)
  BY <1>3
<1>5. \A t \in C : ~(Cardinality(t) < Cardinality(s))
  BY <1>1, <1>4
<1> QED BY <1>5

\* A finite set can be put in order by a key that tells its elements apart.
LEMMA OrderExists ==
    ASSUME NEW S, IsFiniteSet(S), NEW key \in [S -> Nat],
           \A x, y \in S : key[x] = key[y] => x = y
    PROVE  \E s \in [1..Cardinality(S) -> S] :
               \A i, j \in 1..Cardinality(S) : i < j => key[s[i]] > key[s[j]]
<1> DEFINE Ordered(T, s) ==
      /\ s \in [1..Cardinality(T) -> T]
      /\ \A i, j \in 1..Cardinality(T) : i < j => key[s[i]] > key[s[j]]
<1> DEFINE C == {T \in SUBSET S : ~ \E s : Ordered(T, s)}
<1>1. \A T \in SUBSET S : IsFiniteSet(T)
  BY FS_Subset
<1>2. C = {}
  <2> SUFFICES ASSUME C # {}
               PROVE  FALSE
    OBVIOUS
  <2>1. PICK T \in C : \A U : IsFiniteSet(U) /\ Cardinality(U) < Cardinality(T) => U \notin C
    <3> HIDE DEF C
    <3>1. \A U \in C : IsFiniteSet(U)
      BY <1>1 DEF C
    <3> QED BY <3>1, SmallestSet
  <2>2. T \in SUBSET S /\ IsFiniteSet(T) /\ ~ \E s : Ordered(T, s)
    BY <1>1
  <2>3. T # {}
    <3> SUFFICES ASSUME T = {} PROVE FALSE
      OBVIOUS
    <3>1. Cardinality(T) = 0
      BY FS_EmptySet
    <3> DEFINE e == [i \in 1..0 |-> i]
    <3>2. Ordered(T, e)
      BY <3>1
    <3> QED BY <2>2, <3>2
  <2>4. PICK x \in T : \A y \in T : key[x] <= key[y]
    <3> DEFINE K == {key[y] : y \in T}
    <3>1. K \in SUBSET Nat /\ K # {}
      BY <2>2, <2>3
    <3>2. \E a \in K : \A b \in K : a <= b
      <4> HIDE DEF K
      <4> QED BY <3>1, Least
    <3> QED BY <3>2
  <2> DEFINE U == T \ {x}
  <2> DEFINE n == Cardinality(U)
  <2>5. IsFiniteSet(U) /\ n \in Nat /\ Cardinality(T) = n + 1 /\ Cardinality(U) < Cardinality(T)
    <3>1. IsFiniteSet(U) /\ Cardinality(U) = Cardinality(T) - 1
      BY <2>2, FS_RemoveElement
    <3>2. Cardinality(U) \in Nat /\ Cardinality(T) \in Nat
      BY <2>2, <3>1, FS_CardinalityType
    <3> QED BY <3>1, <3>2
  <2>6. U \in SUBSET S /\ U \notin C
    <3>1. U \in SUBSET S
      BY <2>2
    <3> HIDE DEF C, U
    <3> QED BY <2>1, <2>5, <3>1
  <2>7. PICK s : s \in [1..n -> U] /\ \A i, j \in 1..n : i < j => key[s[i]] > key[s[j]]
    BY <2>6
  <2>14. U \in SUBSET T /\ x \notin U /\ x \in T /\ T \in SUBSET S
    BY <2>2
  <2>11. \A y \in U : key[y] > key[x]
    BY <2>2, <2>4
  <2> HIDE DEF n, U
  <2> DEFINE t == [i \in 1..n + 1 |-> IF i = n + 1 THEN x ELSE s[i]]
  <2>8. \A i \in 1..n : t[i] = s[i] /\ s[i] \in U
    BY <2>5, <2>7
  <2>9. t[n + 1] = x
    BY <2>5
  <2>10. t \in [1..n + 1 -> T]
    <3>1. \A i \in 1..n + 1 : t[i] \in T
      <4> TAKE i \in 1..n + 1
      <4>1. i \in 1..n \/ i = n + 1
        BY <2>5
      <4> HIDE DEF t
      <4> QED BY <2>8, <2>9, <2>14, <4>1
    <3> QED BY <3>1
  <2>12. \A i, j \in 1..n + 1 : i < j => key[t[i]] > key[t[j]]
    <3> TAKE i, j \in 1..n + 1
    <3> HAVE i < j
    <3>1. i \in 1..n
      BY <2>5
    <3>2. CASE j = n + 1
      BY <2>8, <2>9, <2>11, <3>1, <3>2
    <3>3. CASE j \in 1..n
      BY <2>7, <2>8, <3>1, <3>3
    <3> QED BY <2>5, <3>2, <3>3
  <2> HIDE DEF t
  <2>13. Ordered(T, t)
    BY <2>5, <2>10, <2>12
  <2> QED BY <2>2, <2>13
<1>3. S \notin C
  BY <1>2
<1>4. \E s : Ordered(S, s)
  BY <1>3
<1> QED BY <1>4

\* f flattens the first n of the sequences in ss, one after the other.
Flattens(ss, n, f) ==
    f = [i \in 1..n |-> IF i = 1 THEN ss[i] ELSE f[i - 1] \o ss[i]]

\* There is one way to flatten at most.
LEMMA FlatIsUnique ==
    ASSUME NEW ss, NEW m \in Nat, NEW n \in Nat, NEW f, NEW g,
           Flattens(ss, m, f), Flattens(ss, n, g), NEW k \in 1..m, k <= n
    PROVE  f[k] = g[k]
<1> DEFINE C == {i \in 1..m : i <= n /\ f[i] # g[i]}
<1>1. C = {}
  <2> SUFFICES ASSUME C # {} PROVE FALSE
    OBVIOUS
  <2>1. PICK i \in C : \A j \in C : i <= j
    <3>1. C \in SUBSET Nat
      OBVIOUS
    <3> HIDE DEF C
    <3> QED BY <3>1, Least
  <2>2. i \in 1..m /\ i \in 1..n
    OBVIOUS
  <2>3. /\ f[i] = IF i = 1 THEN ss[i] ELSE f[i - 1] \o ss[i]
        /\ g[i] = IF i = 1 THEN ss[i] ELSE g[i - 1] \o ss[i]
    BY <2>2 DEF Flattens
  <2>4. i # 1 => f[i - 1] = g[i - 1]
    <3> SUFFICES ASSUME i # 1 PROVE f[i - 1] = g[i - 1]
      OBVIOUS
    <3>1. i - 1 \in 1..m /\ i - 1 <= n /\ ~(i <= i - 1)
      BY <2>2
    <3>2. i - 1 \notin C
      BY <2>1, <3>1
    <3> QED BY <3>1, <3>2
  <2> QED BY <2>3, <2>4
<1> QED BY <1>1

\* Sequences can be flattened, one of them at a time.
LEMMA FlatExists ==
    ASSUME NEW S, NEW ss \in Seq(Seq(S)), NEW n \in 0..Len(ss)
    PROVE  \E f : Flattens(ss, n, f) /\ \A i \in 1..n : f[i] \in Seq(S)
<1> DEFINE Flat(k, f) == Flattens(ss, k, f) /\ \A i \in 1..k : f[i] \in Seq(S)
<1> DEFINE C == {k \in 0..Len(ss) : ~ \E f : Flat(k, f)}
<1>0. Len(ss) \in Nat /\ \A i \in 1..Len(ss) : ss[i] \in Seq(S)
  OBVIOUS
<1>1. C = {}
  <2> SUFFICES ASSUME C # {} PROVE FALSE
    OBVIOUS
  <2>1. PICK k \in C : \A j \in C : k <= j
    <3>1. C \in SUBSET Nat
      OBVIOUS
    <3> HIDE DEF C
    <3> QED BY <3>1, Least
  <2>2. k \in 0..Len(ss) /\ ~ \E f : Flat(k, f)
    OBVIOUS
  <2>3. k # 0
    <3> SUFFICES ASSUME k = 0 PROVE FALSE
      OBVIOUS
    <3> DEFINE e == [i \in 1..0 |-> i]
    <3>1. e = [i \in 1..0 |-> IF i = 1 THEN ss[i] ELSE e[i - 1] \o ss[i]]
      OBVIOUS
    <3>2. Flat(0, e)
      BY <3>1 DEF Flattens
    <3> QED BY <2>2, <3>2
  <2>4. k - 1 \in 0..Len(ss) /\ k - 1 \notin C
    <3>1. k - 1 \in 0..Len(ss) /\ ~(k <= k - 1)
      BY <1>0, <2>2, <2>3
    <3> QED BY <2>1, <3>1
  <2>5. PICK f : Flat(k - 1, f)
    BY <2>4
  <2> DEFINE last == IF k = 1 THEN ss[k] ELSE f[k - 1] \o ss[k]
  <2> DEFINE g == [i \in 1..k |-> IF i = k THEN last ELSE f[i]]
  <2>6. \A i \in 1..k - 1 : g[i] = f[i] /\ f[i] = (IF i = 1 THEN ss[i] ELSE f[i - 1] \o ss[i])
    <3> TAKE i \in 1..k - 1
    <3>1. f[i] = (IF i = 1 THEN ss[i] ELSE f[i - 1] \o ss[i])
      BY <2>5 DEF Flattens
    <3>2. i \in 1..k /\ i # k
      BY <2>2
    <3> QED BY <3>1, <3>2
  <2>7. g[k] = last
    BY <2>2, <2>3
  <2>8. k # 1 => g[k - 1] = f[k - 1] /\ f[k - 1] \in Seq(S)
    BY <2>2, <2>3, <2>5, <2>6
  <2>9. last \in Seq(S)
    <3>1. ss[k] \in Seq(S)
      BY <1>0, <2>2, <2>3
    <3> QED BY <2>8, <3>1
  <2>10. \A i \in 1..k : g[i] \in Seq(S)
    <3> TAKE i \in 1..k
    <3>1. i = k \/ i \in 1..k - 1
      BY <2>2
    <3> HIDE DEF g, last
    <3> QED BY <2>5, <2>6, <2>7, <2>9, <3>1
  <2>11. \A i \in 1..k : g[i] = IF i = 1 THEN ss[i] ELSE g[i - 1] \o ss[i]
    <3> TAKE i \in 1..k
    <3>1. i = k \/ i \in 1..k - 1
      BY <2>2
    <3>2. i \in 1..k - 1 /\ i # 1 => i - 1 \in 1..k - 1
      BY <2>2
    <3>3. CASE i = k
      <4> HIDE DEF g
      <4> QED BY <2>7, <2>8, <3>3
    <3>4. CASE i \in 1..k - 1
      <4> HIDE DEF g
      <4> QED BY <2>6, <3>2, <3>4
    <3> QED BY <3>1, <3>3, <3>4
  <2>12. g = [i \in 1..k |-> g[i]]
    OBVIOUS
  <2> HIDE DEF g
  <2>13. Flat(k, g)
    BY <2>10, <2>11, <2>12 DEF Flattens
  <2> QED BY <2>2, <2>13
<1>2. n \notin C
  BY <1>1
<1>3. \E f : Flat(n, f)
  BY <1>2
<1> QED BY <1>3

\* What FlattenSeq is.
LEMMA FlatIs ==
    ASSUME NEW S, NEW ss \in Seq(Seq(S)), ss # <<>>
    PROVE  \E f : /\ Flattens(ss, Len(ss), f) /\ FlattenSeq(ss) = f[Len(ss)]
                  /\ \A i \in 1..Len(ss) : f[i] \in Seq(S)
<1>1. Len(ss) \in Nat /\ Len(ss) # 0
  OBVIOUS
<1>2. PICK h : Flattens(ss, Len(ss), h) /\ \A i \in 1..Len(ss) : h[i] \in Seq(S)
  BY <1>1, FlatExists
<1> DEFINE f == CHOOSE f : Flattens(ss, Len(ss), f)
<1>3. FlattenSeq(ss) = f[Len(ss)]
  BY <1>1 DEF FlattenSeq, Flattens
<1>4. Flattens(ss, Len(ss), f)
  BY <1>2
<1> HIDE DEF f
<1>5. \A i \in 1..Len(ss) : f[i] = h[i]
  BY <1>1, <1>2, <1>4, FlatIsUnique
<1> QED BY <1>2, <1>3, <1>4, <1>5

\* Nothing flattens to nothing.
LEMMA FlatOfNothing == FlattenSeq(<<>>) = <<>>
BY DEF FlattenSeq

\* What Append makes of a sequence.
LEMMA AppendFacts ==
    ASSUME NEW T, NEW s \in Seq(T), NEW x \in T
    PROVE  /\ Append(s, x) \in Seq(T) /\ Append(s, x) # <<>>
           /\ Len(s) \in Nat /\ Len(Append(s, x)) = Len(s) + 1
           /\ DOMAIN s = 1..Len(s) /\ DOMAIN Append(s, x) = 1..Len(s) + 1
           /\ \A i \in 1..Len(s) : Append(s, x)[i] = s[i] /\ s[i] \in T
           /\ Append(s, x)[Len(s) + 1] = x
OBVIOUS

\* One more sequence is put at the end.
LEMMA FlatGrows ==
    ASSUME NEW S, NEW ss \in Seq(Seq(S)), NEW t \in Seq(S)
    PROVE  /\ FlattenSeq(ss) \in Seq(S)
           /\ FlattenSeq(Append(ss, t)) = FlattenSeq(ss) \o t
<1> DEFINE tt == Append(ss, t)
<1> DEFINE n == Len(ss)
<1>1. /\ tt \in Seq(Seq(S)) /\ tt # <<>> /\ Len(tt) = n + 1 /\ n \in Nat /\ tt[n + 1] = t
      /\ \A i \in 1..n : tt[i] = ss[i]
  BY AppendFacts
<1> HIDE DEF tt
<1>2. PICK g : Flattens(tt, n + 1, g) /\ FlattenSeq(tt) = g[n + 1]
  <2> HIDE DEF n
  <2> QED BY <1>1, FlatIs
<1>3. g[n + 1] = IF n + 1 = 1 THEN t ELSE g[n] \o t
  <2>1. n + 1 \in 1..n + 1
    BY <1>1
  <2>2. g[n + 1] = IF n + 1 = 1 THEN tt[n + 1] ELSE g[n + 1 - 1] \o tt[n + 1]
    <3> DEFINE m == n + 1
    <3>1. m \in 1..m /\ Flattens(tt, m, g)
      BY <1>2, <2>1
    <3> HIDE DEF m
    <3>2. g[m] = IF m = 1 THEN tt[m] ELSE g[m - 1] \o tt[m]
      BY <3>1 DEF Flattens
    <3> QED BY <3>2 DEF m
  <2>3. n + 1 - 1 = n
    BY <1>1
  <2> QED BY <1>1, <2>2, <2>3
<1>4. CASE ss = <<>>
  <2>1. n = 0 /\ FlattenSeq(ss) = <<>>
    BY <1>4, FlatOfNothing
  <2>2. <<>> \o t = t
    OBVIOUS
  <2> QED BY <1>2, <1>3, <2>1, <2>2 DEF tt
<1>5. CASE ss # <<>>
  <2>1. PICK f : /\ Flattens(ss, n, f) /\ FlattenSeq(ss) = f[n]
                 /\ \A i \in 1..n : f[i] \in Seq(S)
    BY <1>5, FlatIs
  <2>2. n # 0
    BY <1>5
  <2>3. Flattens(tt, n, f)
    <3> HIDE DEF n
    <3>1. f = [i \in 1..n |-> IF i = 1 THEN ss[i] ELSE f[i - 1] \o ss[i]]
      BY <2>1 DEF Flattens
    <3>2. [i \in 1..n |-> IF i = 1 THEN ss[i] ELSE f[i - 1] \o ss[i]]
          = [i \in 1..n |-> IF i = 1 THEN tt[i] ELSE f[i - 1] \o tt[i]]
      BY <1>1
    <3>3. f = [i \in 1..n |-> IF i = 1 THEN tt[i] ELSE f[i - 1] \o tt[i]]
      BY <3>1, <3>2
    <3> QED BY <3>3 DEF Flattens
  <2>4. f[n] = g[n]
    <3> DEFINE m == n + 1
    <3>1. m \in Nat /\ n \in Nat /\ n \in 1..n /\ n <= m /\ Flattens(tt, m, g)
      BY <1>1, <1>2, <2>2
    <3> HIDE DEF m, n
    <3> QED BY <2>3, <3>1, FlatIsUnique
  <2>5. n \in 1..n
    BY <1>1, <2>2
  <2> QED BY <1>1, <1>2, <1>3, <2>1, <2>2, <2>4, <2>5 DEF tt
<1> QED BY <1>4, <1>5

-----------------------------------------------------------------------------
\* Streams.

\* The fields of a decision.
LEMMA DecisionFacts ==
    ASSUME NEW s \in Streams, NEW p \in DOMAIN s
    PROVE  /\ s[p].number \in Nat /\ s[p].order \in Nat /\ s[p].refs \in SUBSET DOMAIN s
           /\ s[p].cdf \in BOOLEAN /\ s[p].shown \in BOOLEAN /\ s[p].existing \in BOOLEAN
           /\ s[p].altRef \in BOOLEAN /\ s[p].overlay \in BOOLEAN
           /\ Displays(s[p]) \in 1..2
<1>1. s \in [DOMAIN s -> Decisions(DOMAIN s)]
  BY StreamAssumption
<1>2. s[p] \in Decisions(DOMAIN s)
  BY <1>1
<1> QED BY <1>2 DEF Decisions, Displays

\* The pictures have the numbers below their count as orders, each its own.
LEMMA OrderFacts ==
    ASSUME NEW s \in Streams
    PROVE  /\ Cardinality(DOMAIN s) \in Nat /\ IsFiniteSet(DOMAIN s) /\ None \notin DOMAIN s
           /\ \A p \in DOMAIN s : s[p].order \in 0..Cardinality(DOMAIN s) - 1
           /\ \A k \in 0..Cardinality(DOMAIN s) - 1 : \E p \in DOMAIN s : s[p].order = k
           /\ \A p, q \in DOMAIN s : s[p].order = s[q].order => p = q
<1> DEFINE P == DOMAIN s
<1> DEFINE n == Cardinality(P)
<1> DEFINE f == [p \in P |-> s[p].order]
<1>1. IsFiniteSet(P) /\ None \notin P /\ {s[p].order : p \in P} = 0..n - 1
  BY StreamAssumption
<1>2. n \in Nat
  BY <1>1, FS_CardinalityType
<1> HIDE DEF n, P
<1>3. f \in Surjection(P, 0..n - 1)
  <2>1. f \in [P -> 0..n - 1]
    BY <1>1
  <2>2. \A k \in 0..n - 1 : \E p \in P : f[p] = k
    BY <1>1
  <2> HIDE DEF f
  <2> QED BY <2>1, <2>2 DEF Surjection
<1>4. Cardinality(0..n - 1) = n
  <2>1. Cardinality(0..n - 1) = IF 0 > n - 1 THEN 0 ELSE n - 1 - 0 + 1
    BY <1>2, FS_Interval
  <2> QED BY <1>2, <2>1
<1>5. f \in Injection(P, 0..n - 1)
  <2> HIDE DEF f
  <2>1. Cardinality(P) = Cardinality(0..n - 1)
    BY <1>4 DEF n
  <2> QED BY <1>1, <1>3, <2>1, FS_SurjSameCardinalityImpliesInj
<1>6. \A p, q \in P : f[p] = f[q] => p = q
  <2> HIDE DEF f
  <2> QED BY <1>5 DEF Injection, IsInjective
<1>7. \A p, q \in P : s[p].order = s[q].order => p = q
  BY <1>6
<1> QED BY <1>1, <1>2, <1>7 DEF n, P

\* A picture shows one hidden picture, which no other shows.
LEMMA ShowingFacts ==
    ASSUME NEW s \in Streams, NEW p \in DOMAIN s, NEW h \in DOMAIN s, ShowsNext(s, p, h)
    PROVE  /\ s[p].shown /\ p # h
           /\ \A g \in DOMAIN s : ShowsNext(s, p, g) => g = h
           /\ \A q \in DOMAIN s : ShowsNext(s, q, h) => q = p
<1>1. /\ s[p].shown
      /\ \A a, b \in DOMAIN s :
            s[a].number = s[b].number =>
              a = b \/ (s[a].altRef /\ s[b].overlay) \/ (s[a].overlay /\ s[b].altRef)
      /\ \A a \in DOMAIN s : (s[a].overlay \/ s[a].existing => s[a].shown) /\ (s[a].altRef => ~s[a].shown)
  BY StreamAssumption DEF HiddenAreDisplayed, ShowsNext
<1>2. \A a \in DOMAIN s : s[a].number \in Nat
  BY DecisionFacts
<1>3. \A g \in DOMAIN s : ShowsNext(s, p, g) => g = h
  BY <1>1 DEF ShowsNext
<1>4. \A q \in DOMAIN s : ShowsNext(s, q, h) => q = p
  BY <1>1, <1>2 DEF ShowsNext
<1> QED BY <1>1, <1>3, <1>4 DEF ShowsNext

\* The picture decoded last is shown, and nothing has a higher number than it and the
\* picture it shows.
LEMMA LastDecoded ==
    ASSUME NEW s \in Streams, NEW z \in DOMAIN s, s[z].order = Cardinality(DOMAIN s) - 1
    PROVE  /\ s[z].shown
           /\ \A p \in DOMAIN s : s[p].number <= s[z].number + Displays(s[z]) - 1
           /\ \A p \in DOMAIN s : s[p].shown /\ p # z =>
                 s[p].number + Displays(s[p]) <= s[z].number
<1> DEFINE n == Cardinality(DOMAIN s)
<1>1. /\ n \in Nat
      /\ \A p \in DOMAIN s : s[p].order \in 0..n - 1 /\ (s[p].order = s[z].order => p = z)
      /\ \A p \in DOMAIN s : s[p].number \in Nat /\ Displays(s[p]) \in 1..2
  BY OrderFacts, DecisionFacts
<1>2. s[z].shown
  <2>1. PICK q \in DOMAIN s : s[q].order \in s[z].order..s[z].order + Depth - MaxLag /\ s[q].shown
    BY StreamAssumption DEF QueuesSuffice
  <2>2. s[q].order >= n - 1 /\ s[q].order \in 0..n - 1
    BY <1>1, <2>1
  <2>3. q = z
    BY <1>1, <2>2
  <2> QED BY <2>1, <2>3
<1>3. \A p \in DOMAIN s : s[p].shown /\ p # z => s[p].number + Displays(s[p]) <= s[z].number
  <2> TAKE p \in DOMAIN s
  <2> HAVE s[p].shown /\ p # z
  <2>1. s[p].order < s[z].order
    BY <1>1
  <2> QED BY <1>2, <2>1, StreamAssumption DEF DisplayedInTurn
<1>4. \A p \in DOMAIN s : s[p].shown => s[p].number <= s[z].number
  BY <1>1, <1>3
<1>5. \A p \in DOMAIN s : s[p].number <= s[z].number + Displays(s[z]) - 1
  <2> TAKE p \in DOMAIN s
  <2>1. CASE s[p].shown
    BY <1>1, <1>4, <2>1
  <2>2. CASE s[p].altRef
    <3>1. PICK q \in DOMAIN s : s[q].overlay /\ s[q].number = s[p].number
      BY <2>2, StreamAssumption DEF HiddenAreDisplayed
    <3>2. s[q].shown
      BY <3>1, StreamAssumption DEF HiddenAreDisplayed
    <3> QED BY <1>1, <1>4, <3>1, <3>2
  <2>3. CASE \E q \in DOMAIN s : ShowsNext(s, q, p)
    <3>1. PICK q \in DOMAIN s : ShowsNext(s, q, p)
      BY <2>3
    <3>2. s[q].shown /\ s[q].existing /\ s[p].number = s[q].number + 1 /\ Displays(s[q]) = 2
      BY <3>1, ShowingFacts DEF ShowsNext, Displays
    <3>3. CASE q = z
      BY <1>1, <3>2, <3>3
    <3>4. CASE q # z
      <4>1. s[q].number + 2 <= s[z].number
        BY <1>3, <3>2, <3>4
      <4> QED BY <1>1, <3>2, <4>1
    <3> QED BY <3>3, <3>4
  <2> QED BY <2>1, <2>2, <2>3, StreamAssumption DEF HiddenAreDisplayed
<1> QED BY <1>2, <1>3, <1>5

\* The mark is put on the picture that is last in decode order, although it is found by
\* the last in display order.
LEMMA EndIsLast ==
    ASSUME stream \in Streams, NEW p \in Pictures
    PROVE  EndsStream(p) <=> stream[p].order = Cardinality(Pictures) - 1
<1> DEFINE n == Cardinality(Pictures)
<1>1. /\ n \in Nat /\ IsFiniteSet(Pictures)
      /\ \A q \in Pictures : stream[q].order \in 0..n - 1
      /\ \A k \in 0..n - 1 : \E q \in Pictures : stream[q].order = k
      /\ \A q \in Pictures : stream[q].number \in Nat /\ stream[q].overlay \in BOOLEAN
  BY OrderFacts, DecisionFacts DEF Pictures
<1>2. \A q \in Pictures : IsLast(q) => AltNumber(q) = n - 1
  <2> TAKE q \in Pictures
  <2> HAVE IsLast(q)
  <2>1. {r \in Pictures : Before(r, q)} = Pictures \ {q}
    BY <1>1 DEF IsLast, Before
  <2>2. Cardinality(Pictures \ {q}) = n - 1
    BY <1>1, FS_RemoveElement
  <2> QED BY <2>1, <2>2 DEF AltNumber
<1>3. \E q \in Pictures : IsLast(q)
  <2>1. n - 1 \in 0..n - 1
    BY <1>1
  <2>2. PICK z \in Pictures : stream[z].order = n - 1
    BY <1>1, <2>1
  <2>3. /\ stream[z].shown
        /\ \A r \in Pictures : stream[r].number <= stream[z].number + Displays(stream[z]) - 1
    BY <2>2, LastDecoded DEF Pictures
  <2>4. \A a, b \in Pictures :
            stream[a].number = stream[b].number =>
              \/ a = b \/ (stream[a].altRef /\ stream[b].overlay)
              \/ (stream[a].overlay /\ stream[b].altRef)
    BY StreamAssumption DEF HiddenAreDisplayed, Pictures
  <2>5. \A a \in Pictures : (stream[a].overlay => stream[a].shown) /\ (stream[a].altRef => ~stream[a].shown)
    BY StreamAssumption DEF HiddenAreDisplayed, Pictures
  <2>6. CASE ~stream[z].existing
    <3>1. \A r \in Pictures : stream[r].number <= stream[z].number
      BY <1>1, <2>3, <2>6 DEF Displays
    <3>2. \A r \in Pictures \ {z} : Before(r, z)
      <4> TAKE r \in Pictures \ {z}
      <4>1. CASE stream[r].number = stream[z].number
        BY <2>3, <2>4, <2>5, <4>1 DEF Before
      <4>2. CASE stream[r].number # stream[z].number
        BY <1>1, <3>1, <4>2 DEF Before
      <4> QED BY <4>1, <4>2
    <3> QED BY <3>2 DEF IsLast
  <2>7. CASE stream[z].existing
    <3>1. PICK h \in Pictures : ShowsNext(stream, z, h)
      BY <2>7, StreamAssumption DEF HiddenAreDisplayed, Pictures
    <3>2. \A r \in Pictures : stream[r].number <= stream[h].number
      BY <1>1, <2>3, <2>7, <3>1 DEF Displays, ShowsNext
    <3>3. ~stream[h].overlay /\ ~stream[h].altRef
      BY <2>5, <3>1 DEF ShowsNext
    <3>4. \A r \in Pictures \ {h} : Before(r, h)
      <4> TAKE r \in Pictures \ {h}
      <4>1. stream[r].number # stream[h].number
        BY <2>4, <3>3
      <4> QED BY <1>1, <3>2, <4>1 DEF Before
    <3> QED BY <3>4 DEF IsLast
  <2> QED BY <2>6, <2>7
<1>4. EndsStream(p) => stream[p].order = n - 1
  BY <1>2 DEF EndsStream
<1>5. stream[p].order = n - 1 => EndsStream(p)
  BY <1>2, <1>3 DEF EndsStream
<1> QED BY <1>4, <1>5

-----------------------------------------------------------------------------
\* The reorder queue.

Count == Cardinality(Pictures)
Stages == {"waiting", "reconstructed", "coded", "packed"}

Types ==
    /\ stream \in Streams /\ stage \in [Pictures -> Stages]
    /\ results \in Seq(Pictures) /\ pc \in {"idle", "head"}
    /\ queue \in [Slots -> Pictures \cup {None}] /\ head \in 0..Count
    /\ metadata \in [Slots -> Pictures \cup {None}] /\ existing \in [Slots -> Pictures \cup {None}]
    /\ eos \in SUBSET Pictures

\* The results are of the coded pictures, each once; no picture is far ahead in decode
\* order of one that is not packed, and one that waits for its references' feedback has
\* got it.
CodingInOrder ==
    /\ \A i \in DOMAIN results : stage[results[i]] = "coded"
    /\ \A i, j \in DOMAIN results : results[i] = results[j] => i = j
    /\ \A p, q \in Pictures :
          stage[p] # "waiting" /\ stream[q].order + MaxLag <= stream[p].order => stage[q] = "packed"
    /\ \A p \in Pictures : stage[p] # "waiting" /\ stream[p].cdf =>
          \A r \in stream[p].refs : stage[r] = "packed"

\* The queue holds what is packed and not sent, in the window from its head on; the
\* kernel sleeps when the unit at the head is not complete.
QueueInOrder ==
    /\ \A i \in Slots : queue[i] # None =>
          /\ stage[queue[i]] = "packed" /\ i = Slot(stream[queue[i]].order)
          /\ stream[queue[i]].order \in head..head + Depth - 1
    /\ \A p \in Pictures : stream[p].order < head => stage[p] = "packed"
    /\ \A p \in Pictures : stage[p] = "packed" /\ stream[p].order >= head =>
          queue[Slot(stream[p].order)] = p
    /\ pc = "idle" => FramesInTu = 0

QueueInvariant == Types /\ CodingInOrder /\ QueueInOrder

\* The units that may end n places after the head.
UnitEnds ==
    {n \in 0..Depth - 1 : /\ \A i \in 0..n : Entry(i) # None
                          /\ stream[Entry(n)].shown
                          /\ \A i \in 0..n - 1 : ~stream[Entry(i)].shown}

\* What FramesInTu counts.
LEMMA FramesAre ==
    \/ FramesInTu = 0 /\ UnitEnds = {}
    \/ FramesInTu \in 1..Depth /\ FramesInTu - 1 \in UnitEnds
<1>1. FramesInTu = IF UnitEnds = {} THEN 0 ELSE (CHOOSE n \in UnitEnds : TRUE) + 1
  BY DEF FramesInTu, UnitEnds
<1>2. CASE UnitEnds = {}
  BY <1>1, <1>2
<1>3. CASE UnitEnds # {}
  <2>1. PICK n \in UnitEnds : FramesInTu = n + 1
    BY <1>1, <1>3
  <2>2. n \in 0..Depth - 1
    BY DEF UnitEnds
  <2>3. FramesInTu \in 1..Depth /\ FramesInTu - 1 = n
    BY <2>1, <2>2, BoundAssumption
  <2> QED BY <2>3
<1> QED BY <1>2, <1>3

\* The count depends on the queue, its head and the stream.
LEMMA FramesAreTheSame ==
    ASSUME UNCHANGED <<stream, queue, head>>
    PROVE  FramesInTu' = FramesInTu
BY DEF FramesInTu, Entry

\* The numbers a stage has to do with.
LEMMA Numbers ==
    ASSUME Types
    PROVE  /\ Count \in Nat /\ head \in Nat /\ Depth \in Nat \ {0} /\ MaxLag \in 1..Depth
           /\ None \notin Pictures
           /\ \A p \in Pictures :
                 /\ stream[p].order \in 0..Count - 1 /\ stream[p].order \in Nat
                 /\ stream[p].number \in Nat /\ Displays(stream[p]) \in 1..2
                 /\ Slot(stream[p].order) \in Slots /\ Slot(stream[p].number) \in Slots
                 /\ Slot(stream[p].number + 1) \in Slots
                 /\ stream[p].refs \in SUBSET Pictures
           /\ \A p, q \in Pictures : stream[p].order = stream[q].order => p = q
           /\ \A k \in 0..Count - 1 : \E p \in Pictures : stream[p].order = k
<1>1. stream \in Streams
  BY DEF Types
<1>2. /\ Count \in Nat /\ None \notin Pictures
      /\ \A p \in Pictures : stream[p].order \in 0..Count - 1
      /\ \A k \in 0..Count - 1 : \E p \in Pictures : stream[p].order = k
      /\ \A p, q \in Pictures : stream[p].order = stream[q].order => p = q
  BY <1>1, OrderFacts DEF Count, Pictures
<1>3. \A p \in Pictures :
         /\ stream[p].order \in Nat /\ stream[p].number \in Nat /\ Displays(stream[p]) \in 1..2
         /\ stream[p].refs \in SUBSET Pictures
  BY <1>1, DecisionFacts DEF Pictures
<1>4. \A p \in Pictures : /\ Slot(stream[p].order) \in Slots /\ Slot(stream[p].number) \in Slots
                          /\ Slot(stream[p].number + 1) \in Slots
  BY <1>3, PlaceIsSlot
<1>5. head \in Nat
  BY <1>2 DEF Types
<1> QED BY <1>2, <1>3, <1>4, <1>5, BoundAssumption

\* The entry n places after the head is that of the n-th order after the head.
LEMMA EntryInPlace ==
    ASSUME QueueInvariant, NEW n \in 0..Depth - 1, Entry(n) # None
    PROVE  Entry(n) \in Pictures /\ stream[Entry(n)].order = head + n /\ stage[Entry(n)] = "packed"
<1>1. /\ head \in Nat /\ Depth \in Nat \ {0}
      /\ \A p \in Pictures : stream[p].order \in Nat
  BY Numbers DEF QueueInvariant
<1>2. Slot(head + n) \in Slots
  BY <1>1, PlaceIsSlot
<1>3. /\ Entry(n) \in Pictures /\ stage[Entry(n)] = "packed"
      /\ Slot(head + n) = Slot(stream[Entry(n)].order)
      /\ stream[Entry(n)].order \in head..head + Depth - 1
  BY <1>2 DEF QueueInvariant, Types, QueueInOrder, Entry
<1> DEFINE o == stream[Entry(n)].order
<1>4. o \in Nat /\ head + n \in Nat /\ o - (head + n) \in 1 - Depth..Depth - 1 /\ Slot(o) = Slot(head + n)
  BY <1>1, <1>3
<1> HIDE DEF o
<1>5. o = head + n
  BY <1>4, PlacesDiffer
<1> QED BY <1>3, <1>5 DEF o

\* A unit at the head is a stretch of decode order that is packed and ends with its only
\* shown picture.
LEMMA UnitFacts ==
    ASSUME QueueInvariant, FramesInTu # 0
    PROVE  /\ FramesInTu \in 1..Depth /\ head + FramesInTu <= Count
           /\ \A i \in 0..FramesInTu - 1 :
                 /\ Entry(i) \in Pictures /\ stream[Entry(i)].order = head + i
                 /\ stage[Entry(i)] = "packed"
                 /\ stream[Entry(i)].shown <=> i = FramesInTu - 1
           /\ \A p \in Pictures : stream[p].order \in head..head + FramesInTu - 1 =>
                 p = Entry(stream[p].order - head)
<1>0. Types
  BY DEF QueueInvariant
<1> DEFINE n == FramesInTu
<1>1. n \in 1..Depth /\ n - 1 \in UnitEnds
  BY FramesAre
<1> HIDE DEF n
<1>2. /\ \A i \in 0..n - 1 : Entry(i) # None
      /\ stream[Entry(n - 1)].shown
      /\ \A i \in 0..n - 1 - 1 : ~stream[Entry(i)].shown
  BY <1>1 DEF UnitEnds
<1>3. /\ head \in Nat /\ Depth \in Nat \ {0} /\ Count \in Nat
      /\ \A p \in Pictures : stream[p].order \in 0..Count - 1
      /\ \A p, q \in Pictures : stream[p].order = stream[q].order => p = q
  BY <1>0, Numbers
<1>4. \A i \in 0..n - 1 :
         Entry(i) \in Pictures /\ stream[Entry(i)].order = head + i /\ stage[Entry(i)] = "packed"
  <2> TAKE i \in 0..n - 1
  <2>1. i \in 0..Depth - 1
    BY <1>1, <1>3
  <2> QED BY <1>2, <2>1, EntryInPlace
<1>5. \A i \in 0..n - 1 : stream[Entry(i)].shown <=> i = n - 1
  <2> TAKE i \in 0..n - 1
  <2>1. i = n - 1 \/ i \in 0..n - 1 - 1
    BY <1>1
  <2>2. i \in 0..n - 1 - 1 => i # n - 1
    BY <1>1
  <2> QED BY <1>2, <2>1, <2>2
<1>6. head + n <= Count
  <2>1. n - 1 \in 0..n - 1
    BY <1>1
  <2>2. head + (n - 1) \in 0..Count - 1
    BY <1>3, <1>4, <2>1
  <2> QED BY <1>1, <1>3, <2>2
<1>7. \A p \in Pictures : stream[p].order \in head..head + n - 1 => p = Entry(stream[p].order - head)
  <2> TAKE p \in Pictures
  <2> HAVE stream[p].order \in head..head + n - 1
  <2>1. stream[p].order - head \in 0..n - 1 /\ head + (stream[p].order - head) = stream[p].order
    BY <1>1, <1>3
  <2> QED BY <1>3, <1>4, <2>1
<1> QED BY <1>1, <1>4, <1>5, <1>6, <1>7 DEF n

\* When the kernel was idle the next picture has a place in the window that nothing else is in.
LEMMA NextHasPlace ==
    ASSUME QueueInvariant, pc = "idle", NEW p \in Pictures, stage[p] \notin {"waiting", "packed"}
    PROVE  /\ stream[p].order \in head..head + Depth - 1
           /\ queue[Slot(stream[p].order)] = None
<1>0. Types
  BY DEF QueueInvariant
<1>1. /\ head \in Nat /\ Depth \in Nat \ {0} /\ MaxLag \in 1..Depth /\ Count \in Nat
      /\ None \notin Pictures
      /\ \A q \in Pictures : stream[q].order \in 0..Count - 1 /\ Slot(stream[q].order) \in Slots
      /\ \A a, b \in Pictures : stream[a].order = stream[b].order => a = b
      /\ \A k \in 0..Count - 1 : \E q \in Pictures : stream[q].order = k
  BY <1>0, Numbers
<1>2. UnitEnds = {}
  <2>1. FramesInTu = 0
    BY DEF QueueInvariant, QueueInOrder
  <2> QED BY <2>1, FramesAre
<1>3. stream[p].order >= head
  BY <1>1 DEF QueueInvariant, QueueInOrder
<1>4. stream[p].order < head + Depth
  <2> SUFFICES ASSUME stream[p].order >= head + Depth PROVE FALSE
    BY <1>1
  <2>1. PICK h \in Pictures : stream[h].order = head
    <3>1. head \in 0..Count - 1
      BY <1>1
    <3> QED BY <1>1, <3>1
  <2>2. PICK q \in Pictures : /\ stream[q].order \in stream[h].order..stream[h].order + Depth - MaxLag
                              /\ stream[q].shown
    BY <1>0, StreamAssumption DEF Types, QueuesSuffice, Pictures
  <2>3. \A r \in Pictures : stream[r].order \in head..head + Depth - MaxLag =>
            /\ stream[r].order - head \in 0..Depth - 1
            /\ Entry(stream[r].order - head) = r
    <3> TAKE r \in Pictures
    <3> HAVE stream[r].order \in head..head + Depth - MaxLag
    <3>1. stream[r].order + MaxLag <= stream[p].order /\ stream[r].order >= head
      BY <1>1
    <3>2. stage[r] = "packed"
      BY <3>1 DEF QueueInvariant, CodingInOrder
    <3>3. queue[Slot(stream[r].order)] = r
      BY <3>1, <3>2 DEF QueueInvariant, QueueInOrder
    <3>4. stream[r].order - head \in 0..Depth - 1 /\ head + (stream[r].order - head) = stream[r].order
      BY <1>1
    <3> QED BY <3>3, <3>4 DEF Entry
  <2> DEFINE T == {n \in 0..Depth - MaxLag : \E r \in Pictures : stream[r].order = head + n /\ stream[r].shown}
  <2>4. stream[q].order - head \in T
    <3>1. stream[q].order - head \in 0..Depth - MaxLag /\ head + (stream[q].order - head) = stream[q].order
      BY <1>1, <2>1, <2>2
    <3> QED BY <2>2, <3>1
  <2>5. PICK n \in T : \A m \in T : n <= m
    <3>1. T \in SUBSET Nat /\ T # {}
      BY <2>4
    <3> HIDE DEF T
    <3> QED BY <3>1, Least
  <2>6. n \in 0..Depth - MaxLag /\ n \in 0..Depth - 1
    BY <1>1
  <2>7. PICK r \in Pictures : stream[r].order = head + n /\ stream[r].shown
    OBVIOUS
  <2>8. \A i \in 0..n : \E x \in Pictures :
            stream[x].order = head + i /\ Entry(i) = x /\ i \in 0..Depth - MaxLag
    <3> TAKE i \in 0..n
    <3>1. head + i \in 0..Count - 1 /\ head + i \in head..head + Depth - MaxLag /\ head + i - head = i
      BY <1>1, <2>6, <2>7
    <3>2. PICK x \in Pictures : stream[x].order = head + i
      BY <1>1, <3>1
    <3> QED BY <1>1, <2>3, <2>6, <3>1, <3>2
  <2>9. \A i \in 0..n : Entry(i) # None
    BY <1>1, <2>8
  <2>10. stream[Entry(n)].shown
    <3>1. n \in 0..n
      BY <2>6
    <3> QED BY <1>1, <2>7, <2>8, <3>1
  <2>11. \A i \in 0..n - 1 : ~stream[Entry(i)].shown
    <3> TAKE i \in 0..n - 1
    <3> SUFFICES ASSUME stream[Entry(i)].shown PROVE FALSE
      OBVIOUS
    <3>1. i \in 0..n /\ ~(n <= i)
      BY <2>6
    <3>2. PICK x \in Pictures : stream[x].order = head + i /\ Entry(i) = x /\ i \in 0..Depth - MaxLag
      BY <2>8, <3>1
    <3>3. i \in T
      BY <3>2
    <3> QED BY <2>5, <3>1, <3>3
  <2>12. n \in UnitEnds
    BY <2>6, <2>9, <2>10, <2>11 DEF UnitEnds
  <2> QED BY <1>2, <2>12
<1>5. queue[Slot(stream[p].order)] = None
  <2> SUFFICES ASSUME queue[Slot(stream[p].order)] # None PROVE FALSE
    OBVIOUS
  <2> DEFINE q == queue[Slot(stream[p].order)]
  <2>1. /\ q \in Pictures /\ stage[q] = "packed" /\ Slot(stream[q].order) = Slot(stream[p].order)
        /\ stream[q].order \in head..head + Depth - 1
    BY <1>1 DEF QueueInvariant, Types, QueueInOrder
  <2>2. /\ stream[q].order \in Nat /\ stream[p].order \in Nat
        /\ stream[q].order - stream[p].order \in 1 - Depth..Depth - 1
    BY <1>1, <1>3, <1>4, <2>1
  <2>3. stream[q].order = stream[p].order
    BY <2>1, <2>2, PlacesDiffer
  <2>4. q = p
    BY <1>1, <2>1, <2>3
  <2> QED BY <2>1, <2>4
<1> QED BY <1>1, <1>3, <1>4, <1>5

\* Nothing is coded yet.
LEMMA QueueInit == Init => QueueInvariant
<1> SUFFICES ASSUME Init PROVE QueueInvariant
  OBVIOUS
<1>1. Count \in Nat
  BY OrderFacts DEF Init, Count, Pictures
<1>2. Types
  BY <1>1 DEF Init, Types, Stages
<1>3. /\ \A p \in Pictures : stream[p].order \in Nat /\ Slot(stream[p].order) \in Slots
      /\ Depth \in Nat \ {0}
  BY <1>2, Numbers
<1>4. CodingInOrder
  BY DEF Init, CodingInOrder
<1>5. FramesInTu = 0
  <2> SUFFICES ASSUME FramesInTu - 1 \in UnitEnds PROVE FALSE
    BY FramesAre
  <2>1. PICK n \in 0..Depth - 1 : \A i \in 0..n : Entry(i) # None
    BY DEF UnitEnds
  <2>2. 0 \in 0..n
    BY <1>3
  <2>3. Slot(head + 0) \in Slots
    BY PlaceIsSlot DEF Init
  <2> QED BY <2>1, <2>2, <2>3 DEF Entry, Init
<1>6. QueueInOrder
  BY <1>3, <1>5 DEF Init, QueueInOrder
<1> QED BY <1>2, <1>4, <1>6 DEF QueueInvariant

\* A picture is started in the window of the pictures that are not packed.
LEMMA QueueReconstruct ==
    ASSUME QueueInvariant, NEW p \in Pictures, Reconstruct(p)
    PROVE  QueueInvariant'
<1>1. Types'
  BY DEF QueueInvariant, Types, Reconstruct, kernelVars, Stages, Pictures, Count, Slots
<1>2. /\ stage[p] = "waiting" /\ UNCHANGED <<stream, results, pc, queue, head>>
      /\ \A q \in Pictures : q # p => stage'[q] = stage[q]
      /\ stage'[p] = "reconstructed"
      /\ \A q \in Pictures : stream[q].order + MaxLag <= stream[p].order => stage[q] = "packed"
      /\ stream[p].cdf => \A r \in stream[p].refs : stage[r] = "packed"
      /\ Pictures' = Pictures
  BY DEF Reconstruct, kernelVars, QueueInvariant, Types, Pictures
<1>3. /\ \A i \in DOMAIN results : results[i] \in Pictures
      /\ \A q \in Pictures : stream[q].refs \in SUBSET Pictures
  BY Numbers DEF QueueInvariant, Types
<1>4. CodingInOrder'
  BY <1>2, <1>3 DEF QueueInvariant, CodingInOrder
<1>5. FramesInTu' = FramesInTu
  BY <1>2, FramesAreTheSame
<1>6. \A i \in Slots : queue[i] # None => queue[i] \in Pictures
  BY DEF QueueInvariant, Types
<1>7. QueueInOrder'
  BY <1>2, <1>5, <1>6 DEF QueueInvariant, QueueInOrder, Slots, Slot
<1> QED BY <1>1, <1>4, <1>7 DEF QueueInvariant

\* A coded picture is at the end of the results.
LEMMA QueueCode ==
    ASSUME QueueInvariant, NEW p \in Pictures, Code(p)
    PROVE  QueueInvariant'
<1>0. results \in Seq(Pictures) /\ stage \in [Pictures -> Stages]
  BY DEF QueueInvariant, Types
<1>1. /\ results' \in Seq(Pictures) /\ Len(results) \in Nat
      /\ DOMAIN results = 1..Len(results) /\ DOMAIN results' = 1..Len(results) + 1
      /\ \A i \in 1..Len(results) : results'[i] = results[i] /\ results[i] \in Pictures
      /\ results'[Len(results) + 1] = p
  BY <1>0, AppendFacts DEF Code
<1>2. /\ stage[p] = "reconstructed" /\ UNCHANGED <<stream, pc, queue, head>>
      /\ \A q \in Pictures : q # p => stage'[q] = stage[q]
      /\ stage'[p] = "coded" /\ Pictures' = Pictures
  BY <1>0 DEF Code, kernelVars, Pictures
<1>3. Types'
  BY <1>1 DEF QueueInvariant, Types, Code, kernelVars, Stages, Pictures, Count, Slots
<1>4. \A i \in 1..Len(results) : results[i] # p
  BY <1>1, <1>2 DEF QueueInvariant, CodingInOrder
<1>5. \A i \in DOMAIN results' : i \in 1..Len(results) \/ i = Len(results) + 1
  BY <1>1
<1>6. /\ \A i \in DOMAIN results' : stage'[results'[i]] = "coded"
      /\ \A i, j \in DOMAIN results' : results'[i] = results'[j] => i = j
  BY <1>1, <1>2, <1>4, <1>5 DEF QueueInvariant, CodingInOrder
<1>7. \A q \in Pictures : stream[q].refs \in SUBSET Pictures
  BY Numbers DEF QueueInvariant
<1>8. CodingInOrder'
  BY <1>2, <1>6, <1>7 DEF QueueInvariant, CodingInOrder
<1>9. FramesInTu' = FramesInTu
  BY <1>2, FramesAreTheSame
<1>10. \A i \in Slots : queue[i] # None => queue[i] \in Pictures
  BY DEF QueueInvariant, Types
<1>11. QueueInOrder'
  BY <1>2, <1>9, <1>10 DEF QueueInvariant, QueueInOrder, Slots, Slot
<1> QED BY <1>3, <1>8, <1>11 DEF QueueInvariant

\* What Packetize does: the first result goes to its place in the queue, which is free.
LEMMA PacketizeFacts ==
    ASSUME QueueInvariant, Packetize
    PROVE  \E p \in Pictures :
              /\ p = Head(results) /\ stage[p] = "coded"
              /\ stream[p].order \in head..head + Depth - 1
              /\ queue[Slot(stream[p].order)] = None /\ Slot(stream[p].order) \in Slots
              /\ queue' = [queue EXCEPT ![Slot(stream[p].order)] = p]
              /\ stage' = [stage EXCEPT ![p] = "packed"]
              /\ eos' = IF EndsStream(p) THEN eos \cup {p} ELSE eos
              /\ results' = Tail(results) /\ results # <<>>
              /\ pc = "idle" /\ pc' = "head" /\ UNCHANGED <<stream, head, undisplayed, output>>
              /\ Pictures' = Pictures
<1>0. Types /\ results # <<>> /\ pc = "idle"
  BY DEF QueueInvariant, Packetize
<1> DEFINE p == Head(results)
<1>1. p \in Pictures /\ p = results[1] /\ 1 \in DOMAIN results
  BY <1>0 DEF Types
<1>2. stage[p] = "coded"
  BY <1>1 DEF QueueInvariant, CodingInOrder
<1>3. Slot(stream[p].order) \in Slots
  BY <1>0, <1>1, Numbers
<1>4. stream[p].order \in head..head + Depth - 1 /\ queue[Slot(stream[p].order)] = None
  BY <1>0, <1>1, <1>2, NextHasPlace
<1> QED BY <1>0, <1>1, <1>2, <1>3, <1>4 DEF Packetize, DecodeSlot, Pictures

\* The picture is put into the window, beside the others.
LEMMA QueuePacketize ==
    ASSUME QueueInvariant, Packetize
    PROVE  QueueInvariant'
<1>0. Types /\ results \in Seq(Pictures) /\ stage \in [Pictures -> Stages]
  BY DEF QueueInvariant, Types
<1>1. PICK p \in Pictures :
              /\ p = Head(results) /\ stage[p] = "coded"
              /\ stream[p].order \in head..head + Depth - 1
              /\ queue[Slot(stream[p].order)] = None /\ Slot(stream[p].order) \in Slots
              /\ queue' = [queue EXCEPT ![Slot(stream[p].order)] = p]
              /\ stage' = [stage EXCEPT ![p] = "packed"]
              /\ eos' = IF EndsStream(p) THEN eos \cup {p} ELSE eos
              /\ results' = Tail(results) /\ results # <<>>
              /\ pc = "idle" /\ pc' = "head" /\ UNCHANGED <<stream, head, undisplayed, output>>
              /\ Pictures' = Pictures
  BY PacketizeFacts
<1> DEFINE at == Slot(stream[p].order)
<1>2. /\ results' \in Seq(Pictures) /\ DOMAIN results' = 1..Len(results) - 1
      /\ Len(results) \in Nat /\ DOMAIN results = 1..Len(results) /\ Len(results) # 0
      /\ \A i \in 1..Len(results) - 1 : results'[i] = results[i + 1]
      /\ p = results[1] /\ \A i \in DOMAIN results : results[i] \in Pictures
  BY <1>0, <1>1
<1>3. \A i \in DOMAIN results' : results'[i] = results[i + 1] /\ i + 1 \in DOMAIN results /\ results[i + 1] # p
  <2> TAKE i \in DOMAIN results'
  <2>1. i + 1 \in DOMAIN results /\ 1 \in DOMAIN results /\ i + 1 # 1
    BY <1>2
  <2> QED BY <1>2, <2>1 DEF QueueInvariant, CodingInOrder
<1>4. /\ \A q \in Pictures : stage'[q] = IF q = p THEN "packed" ELSE stage[q]
      /\ \A i \in Slots : queue'[i] = IF i = at THEN p ELSE queue[i]
  BY <1>0, <1>1 DEF Types
<1>5. /\ \A q \in Pictures : /\ stream[q].order \in Nat /\ Slot(stream[q].order) \in Slots
                             /\ Slot(stream[q].number) \in Slots /\ Slot(stream[q].number + 1) \in Slots
                             /\ stream[q].refs \in SUBSET Pictures
      /\ \A a, b \in Pictures : stream[a].order = stream[b].order => a = b
      /\ None \notin Pictures /\ head \in Nat /\ Depth \in Nat \ {0}
  BY <1>0, Numbers
<1>6. Types'
  <2>1. /\ stream' \in Streams /\ stage' \in [Pictures' -> Stages] /\ results' \in Seq(Pictures')
        /\ pc' \in {"idle", "head"} /\ queue' \in [Slots -> Pictures' \cup {None}] /\ head' \in 0..Count'
        /\ eos' \in SUBSET Pictures'
    BY <1>0, <1>1, <1>2 DEF Types, Stages, Count
  <2> DEFINE kept == IF stream[p].shown THEN metadata ELSE [metadata EXCEPT ![Slot(stream[p].number)] = p]
  <2>2. kept \in [Slots -> Pictures \cup {None}]
    BY <1>0, <1>5 DEF Types
  <2>3. /\ existing' = IF stream[p].existing
                       THEN [existing EXCEPT ![DecodeSlot(p)] = kept[ExistingSlot(p)]] ELSE existing
        /\ metadata' = IF stream[p].existing THEN [kept EXCEPT ![ExistingSlot(p)] = None] ELSE kept
    BY <1>1 DEF Packetize
  <2> HIDE DEF kept
  <2>4. ExistingSlot(p) \in Slots /\ kept[ExistingSlot(p)] \in Pictures \cup {None}
    BY <1>5, <2>2 DEF ExistingSlot
  <2>5. metadata' \in [Slots -> Pictures \cup {None}] /\ existing' \in [Slots -> Pictures \cup {None}]
    BY <1>0, <2>2, <2>3, <2>4 DEF Types
  <2> QED BY <1>1, <2>1, <2>5 DEF Types, Slots
<1>7. CodingInOrder'
  <2>1. /\ \A i \in DOMAIN results' : stage'[results'[i]] = "coded"
        /\ \A i, j \in DOMAIN results' : results'[i] = results'[j] => i = j
    BY <1>2, <1>3, <1>4 DEF QueueInvariant, CodingInOrder
  <2> QED BY <1>1, <1>4, <1>5, <2>1 DEF QueueInvariant, CodingInOrder
<1>8. QueueInOrder'
  <2>1. \A i \in Slots : queue'[i] # None =>
            /\ stage'[queue'[i]] = "packed" /\ i = Slot(stream[queue'[i]].order)
            /\ stream[queue'[i]].order \in head..head + Depth - 1
    BY <1>1, <1>4, <1>0 DEF QueueInvariant, QueueInOrder, Types
  <2>2. \A q \in Pictures : stage'[q] = "packed" /\ stream[q].order >= head =>
            queue'[Slot(stream[q].order)] = q
    <3> TAKE q \in Pictures
    <3> HAVE stage'[q] = "packed" /\ stream[q].order >= head
    <3>1. CASE q = p
      BY <1>1, <1>4, <3>1
    <3>2. CASE q # p
      <4>1. queue[Slot(stream[q].order)] = q
        BY <1>4, <3>2 DEF QueueInvariant, QueueInOrder
      <4> QED BY <1>1, <1>4, <1>5, <4>1
    <3> QED BY <3>1, <3>2
  <2>3. \A q \in Pictures : stream[q].order < head => stage'[q] = "packed"
    BY <1>4 DEF QueueInvariant, QueueInOrder
  <2> QED BY <1>1, <2>1, <2>2, <2>3 DEF QueueInOrder, Slots, Slot
<1> QED BY <1>6, <1>7, <1>8 DEF QueueInvariant

\* What a unit leaves of the queue.
LEMMA QueueEmit ==
    ASSUME QueueInvariant, Emit
    PROVE  QueueInvariant'
<1>0. Types /\ pc = "head" /\ FramesInTu # 0
  BY DEF QueueInvariant, Emit
<1> DEFINE n == FramesInTu
<1>1. /\ queue' = Reset(n) /\ head' = head + n
      /\ UNCHANGED <<stream, stage, results, pc, metadata, existing, eos>>
      /\ Pictures' = Pictures
  BY DEF Emit, NextHead, Pictures
<1>2. /\ n \in 1..Depth /\ head + n <= Count
      /\ \A p \in Pictures : stream[p].order \in head..head + n - 1 => stage[p] = "packed"
  <2>1. \A p \in Pictures : stream[p].order \in head..head + n - 1 =>
            p = Entry(stream[p].order - head) /\ stream[p].order - head \in 0..n - 1
    BY <1>0, UnitFacts, Numbers
  <2> QED BY <1>0, <2>1, UnitFacts
<1> HIDE DEF n
<1>3. /\ \A p \in Pictures : /\ stream[p].order \in Nat /\ Slot(stream[p].order) \in Slots
      /\ None \notin Pictures /\ head \in Nat /\ Depth \in Nat \ {0} /\ Count \in Nat
  BY <1>0, Numbers
<1>4. \A i \in Slots : queue'[i] = IF \E k \in 0..n - 1 : i = Slot(head + k) THEN None ELSE queue[i]
  BY <1>1 DEF Reset
<1>5. Types'
  <2>1. queue' \in [Slots -> Pictures \cup {None}]
    BY <1>0, <1>1 DEF Types, Reset
  <2>2. head' \in 0..Count
    BY <1>1, <1>2, <1>3
  <2> QED BY <1>0, <1>1, <2>1, <2>2 DEF Types, Count, Slots
<1>6. CodingInOrder'
  BY <1>1 DEF QueueInvariant, CodingInOrder
<1>7. \A i \in Slots : queue'[i] # None =>
          /\ stage[queue'[i]] = "packed" /\ i = Slot(stream[queue'[i]].order)
          /\ stream[queue'[i]].order \in head + n..head + n + Depth - 1
  <2> TAKE i \in Slots
  <2> HAVE queue'[i] # None
  <2>1. queue'[i] = queue[i] /\ \A k \in 0..n - 1 : i # Slot(head + k)
    BY <1>4
  <2>2. /\ queue[i] \in Pictures /\ stage[queue[i]] = "packed" /\ i = Slot(stream[queue[i]].order)
        /\ stream[queue[i]].order \in head..head + Depth - 1
    BY <1>0, <2>1 DEF QueueInvariant, QueueInOrder, Types
  <2>3. stream[queue[i]].order >= head + n
    <3> SUFFICES ASSUME stream[queue[i]].order < head + n PROVE FALSE
      BY <1>2, <1>3, <2>2
    <3> DEFINE k == stream[queue[i]].order - head
    <3>1. k \in 0..n - 1 /\ head + k = stream[queue[i]].order
      BY <1>2, <1>3, <2>2
    <3> QED BY <2>1, <2>2, <3>1
  <2> QED BY <1>2, <1>3, <2>1, <2>2, <2>3
<1>8. \A p \in Pictures : stream[p].order < head + n => stage[p] = "packed"
  <2> TAKE p \in Pictures
  <2> HAVE stream[p].order < head + n
  <2>1. stream[p].order < head \/ stream[p].order \in head..head + n - 1
    BY <1>2, <1>3
  <2> QED BY <1>2, <2>1 DEF QueueInvariant, QueueInOrder
<1>9. \A p \in Pictures : stage[p] = "packed" /\ stream[p].order >= head + n =>
          queue'[Slot(stream[p].order)] = p
  <2> TAKE p \in Pictures
  <2> HAVE stage[p] = "packed" /\ stream[p].order >= head + n
  <2>1. stream[p].order >= head
    BY <1>2, <1>3
  <2>2. queue[Slot(stream[p].order)] = p
    BY <2>1 DEF QueueInvariant, QueueInOrder
  <2>3. stream[p].order \in head..head + Depth - 1
    BY <1>3, <2>2 DEF QueueInvariant, QueueInOrder
  <2>4. \A k \in 0..n - 1 : Slot(stream[p].order) # Slot(head + k)
    <3> TAKE k \in 0..n - 1
    <3> SUFFICES ASSUME Slot(stream[p].order) = Slot(head + k) PROVE FALSE
      OBVIOUS
    <3> DEFINE o == stream[p].order
    <3>1. o \in Nat /\ head + k \in Nat /\ o - (head + k) \in 1 - Depth..Depth - 1 /\ o # head + k
      BY <1>2, <1>3, <2>3
    <3>2. Slot(o) = Slot(head + k)
      OBVIOUS
    <3> HIDE DEF o
    <3> QED BY <3>1, <3>2, PlacesDiffer
  <2> QED BY <1>3, <1>4, <2>2, <2>4
<1>10. pc' # "idle"
  BY <1>0, <1>1
<1>11. QueueInOrder'
  BY <1>1, <1>7, <1>8, <1>9, <1>10 DEF QueueInOrder, Slots, Slot
<1> QED BY <1>5, <1>6, <1>11 DEF QueueInvariant

\* The other steps leave the queue alone, and the kernel sleeps when no unit is complete.
LEMMA QueueQuiet ==
    ASSUME QueueInvariant, Wait \/ GetPacket \/ ReleaseBuffer \/ UNCHANGED vars
    PROVE  QueueInvariant'
<1>1. /\ UNCHANGED <<stream, stage, results, queue, head, metadata, existing, eos>>
      /\ pc' \in {"idle", "head"} /\ (pc' = "idle" => FramesInTu = 0)
  BY DEF Wait, GetPacket, ReleaseBuffer, vars, kernelVars, QueueInvariant, QueueInOrder, Types
<1>2. Types'
  BY <1>1 DEF QueueInvariant, Types, Pictures, Count, Slots
<1>3. CodingInOrder'
  BY <1>1 DEF QueueInvariant, CodingInOrder, Pictures
<1>4. FramesInTu' = FramesInTu
  BY <1>1, FramesAreTheSame
<1>5. QueueInOrder'
  BY <1>1, <1>4 DEF QueueInvariant, QueueInOrder, Pictures, Slots, Slot
<1> QED BY <1>2, <1>3, <1>5 DEF QueueInvariant

\* The queue is in order whatever happens.
LEMMA QueueStep ==
    ASSUME QueueInvariant, [Next]_vars
    PROVE  QueueInvariant'
<1>1. CASE Packetize
  BY <1>1, QueuePacketize
<1>2. CASE Emit
  BY <1>2, QueueEmit
<1>3. CASE \E p \in Pictures : Coding(p)
  BY <1>3, QueueReconstruct, QueueCode DEF Coding
<1>4. CASE Wait \/ GetPacket \/ ReleaseBuffer \/ UNCHANGED vars
  BY <1>4, QueueQuiet
<1> QED BY <1>1, <1>2, <1>3, <1>4 DEF Next, Kernel

\* The reorder queue of packetization holds the packed pictures that were not sent, each in
\* the place of its decode order, and no picture is put over another one.
THEOREM QueueIsInOrder == Spec => []QueueInvariant
<1> QED BY QueueInit, QueueStep, PTL DEF Spec

-----------------------------------------------------------------------------
\* The undisplayed queue.

Falling(s) == \A i, j \in DOMAIN s : i < j => stream[s[i]].number > stream[s[j]].number

\* The hidden pictures before the k-th in decode order that one after it shows.
Pending(k) ==
    {h \in Pictures : /\ ~stream[h].shown /\ ~stream[h].altRef /\ stream[h].order < k
                      /\ \E p \in Pictures : ShowsNext(stream, p, h) /\ stream[p].order >= k}

\* The undisplayed queue holds the hidden pictures that were sent and not shown, the
\* first one to be displayed last.
UndisplayedInOrder ==
    undisplayed \in Seq(Pictures) /\ Range(undisplayed) = Pending(head) /\ Falling(undisplayed)

\* What Descending returns.
LEMMA DescendingFacts ==
    ASSUME NEW S \in SUBSET Nat, IsFiniteSet(S)
    PROVE  /\ Descending(S) \in Seq(S) /\ Range(Descending(S)) = S
           /\ \A i, j \in DOMAIN Descending(S) : Descending(S)[i] = Descending(S)[j] => i = j
<1> DEFINE key == [x \in S |-> x]
<1> DEFINE d == Descending(S)
<1>1. key \in [S -> Nat] /\ \A x, y \in S : key[x] = key[y] => x = y
  OBVIOUS
<1>2. PICK s \in [1..Cardinality(S) -> S] : \A i, j \in 1..Cardinality(S) : i < j => key[s[i]] > key[s[j]]
  <2> HIDE DEF key
  <2> QED BY <1>1, OrderExists
<1>3. DOMAIN s = 1..Cardinality(S) /\ \A i, j \in DOMAIN s : i < j => s[i] > s[j]
  BY <1>2
<1>4. d \in [1..Cardinality(S) -> S] /\ \A i, j \in DOMAIN d : i < j => d[i] > d[j]
  BY <1>3 DEF Descending
<1> HIDE DEF d
<1>5. Cardinality(S) \in Nat
  BY FS_CardinalityType
<1>6. \A i, j \in DOMAIN d : d[i] = d[j] => i = j
  <2> TAKE i, j \in DOMAIN d
  <2>1. DOMAIN d = 1..Cardinality(S) /\ d[i] \in S /\ d[j] \in S
    BY <1>4
  <2>2. d[i] \in Nat /\ d[j] \in Nat
    BY <2>1
  <2>3. i \in Nat /\ j \in Nat
    BY <1>5, <2>1
  <2>4. (~(i < j) /\ ~(j < i)) \/ d[i] # d[j]
    BY <1>4, <2>2
  <2> QED BY <2>3, <2>4
<1>7. d \in Seq(S) /\ Range(d) = S
  BY <1>4, <1>6, DistinctCover
<1> QED BY <1>6, <1>7 DEF d

\* Two sequences without a common element, one after the other.
LEMMA JoinFacts ==
    ASSUME NEW S, NEW s \in Seq(S), NEW t \in Seq(S),
           \A i, j \in DOMAIN s : s[i] = s[j] => i = j,
           \A i, j \in DOMAIN t : t[i] = t[j] => i = j,
           \A i \in DOMAIN s, j \in DOMAIN t : s[i] # t[j]
    PROVE  /\ s \o t \in Seq(S) /\ Range(s \o t) = Range(s) \cup Range(t)
           /\ \A i, j \in DOMAIN (s \o t) : (s \o t)[i] = (s \o t)[j] => i = j
<1> DEFINE u == s \o t
<1> DEFINE m == Len(s)
<1> DEFINE n == Len(t)
<1>1. /\ m \in Nat /\ n \in Nat /\ u \in Seq(S) /\ Len(u) = m + n
      /\ DOMAIN s = 1..m /\ DOMAIN t = 1..n /\ DOMAIN u = 1..m + n
      /\ \A i \in 1..m : u[i] = s[i]
      /\ \A i \in m + 1..m + n : u[i] = t[i - m]
  OBVIOUS
<1> HIDE DEF u, m, n
<1>2. \A k \in 1..n : m + k \in m + 1..m + n /\ m + k - m = k /\ m + k \in 1..m + n
  BY <1>1
<1>3. \A k \in 1..n : u[m + k] = t[k]
  BY <1>1, <1>2
<1>4. \A i \in 1..m + n : (i \in 1..m /\ u[i] = s[i]) \/ \E k \in 1..n : i = m + k /\ u[i] = t[k]
  <2> TAKE i \in 1..m + n
  <2>1. CASE i \in 1..m
    BY <1>1, <2>1
  <2>2. CASE i \notin 1..m
    <3>1. i - m \in 1..n /\ i = m + (i - m)
      BY <1>1, <2>2
    <3> QED BY <1>3, <3>1
  <2> QED BY <2>1, <2>2
<1>5. Range(u) = Range(s) \cup Range(t)
  <2>1. \A x \in Range(u) : x \in Range(s) \cup Range(t)
    <3> TAKE x \in Range(u)
    <3>1. PICK i \in 1..m + n : x = u[i]
      BY <1>1 DEF Range
    <3>2. CASE i \in 1..m /\ u[i] = s[i]
      <4>1. i \in DOMAIN s
        BY <1>1, <3>2
      <4> QED BY <3>1, <3>2, <4>1 DEF Range
    <3>3. CASE \E k \in 1..n : i = m + k /\ u[i] = t[k]
      <4>1. \E k \in DOMAIN t : u[i] = t[k]
        BY <1>1, <3>3
      <4> QED BY <3>1, <4>1 DEF Range
    <3> QED BY <1>4, <3>2, <3>3
  <2>2. \A x \in Range(s) : x \in Range(u)
    <3>1. \A i \in 1..m : i \in 1..m + n
      BY <1>1
    <3> QED BY <1>1, <3>1 DEF Range
  <2>3. \A x \in Range(t) : x \in Range(u)
    <3> TAKE x \in Range(t)
    <3>1. PICK k \in 1..n : x = t[k]
      BY <1>1 DEF Range
    <3>2. m + k \in DOMAIN u /\ u[m + k] = x
      BY <1>1, <1>2, <1>3, <3>1
    <3> QED BY <3>2 DEF Range
  <2> QED BY <2>1, <2>2, <2>3
<1>6. \A i, j \in DOMAIN u : u[i] = u[j] => i = j
  <2> TAKE i, j \in DOMAIN u
  <2> HAVE u[i] = u[j]
  <2>1. i \in 1..m + n /\ j \in 1..m + n
    BY <1>1
  <2>2. CASE i \in 1..m /\ u[i] = s[i]
    <3>1. CASE j \in 1..m /\ u[j] = s[j]
      BY <1>1, <2>2, <3>1
    <3>2. CASE \E k \in 1..n : j = m + k /\ u[j] = t[k]
      BY <1>1, <2>2, <3>2
    <3> QED BY <1>4, <2>1, <3>1, <3>2
  <2>3. CASE \E k \in 1..n : i = m + k /\ u[i] = t[k]
    <3>1. CASE j \in 1..m /\ u[j] = s[j]
      BY <1>1, <2>3, <3>1
    <3>2. CASE \E k \in 1..n : j = m + k /\ u[j] = t[k]
      <4>1. PICK k \in 1..n : i = m + k /\ u[i] = t[k]
        BY <2>3
      <4>2. PICK l \in 1..n : j = m + l /\ u[j] = t[l]
        BY <3>2
      <4>3. k \in DOMAIN t /\ l \in DOMAIN t /\ t[k] = t[l]
        BY <1>1, <4>1, <4>2
      <4> QED BY <4>1, <4>2, <4>3
    <3> QED BY <1>4, <2>1, <3>1, <3>2
  <2> QED BY <1>4, <2>1, <2>2, <2>3
<1> QED BY <1>1, <1>5, <1>6 DEF u

\* The pictures that stay hidden for a time have numbers of their own.
LEMMA PendingNumbers ==
    ASSUME Types, NEW k \in Nat
    PROVE  /\ Pending(k) \in SUBSET Pictures
           /\ \A g, h \in Pending(k) : stream[g].number = stream[h].number => g = h
<1>1. stream \in Streams
  BY DEF Types
<1>2. \A g, h \in Pictures : ~stream[g].altRef /\ ~stream[h].altRef /\ stream[g].number = stream[h].number => g = h
  BY <1>1, StreamAssumption DEF HiddenAreDisplayed, Pictures
<1> QED BY <1>2 DEF Pending

\* At a shown picture the others to come have higher numbers, and the hidden ones that
\* it does not show itself yet higher ones; the undisplayed queue has room for them.
LEMMA PendingAtShown ==
    ASSUME Types, NEW p \in Pictures, stream[p].shown
    PROVE  /\ \A h \in Pending(stream[p].order) :
                 /\ stream[h].number > stream[p].number
                 /\ ShowsNext(stream, p, h) \/ stream[h].number > stream[p].number + 1
           /\ IsFiniteSet(Pending(stream[p].order))
           /\ Cardinality(Pending(stream[p].order)) <= UndisplayedMax
<1>1. /\ stream \in Streams /\ IsFiniteSet(Pictures)
      /\ \A q \in Pictures : /\ stream[q].number \in Nat /\ stream[q].order \in Nat
                             /\ Displays(stream[q]) \in 1..2
      /\ \A a, b \in Pictures : stream[a].order = stream[b].order => a = b
  BY Numbers, OrderFacts DEF Types, Pictures
<1>2. \A h \in Pending(stream[p].order) :
         /\ stream[h].number > stream[p].number
         /\ ShowsNext(stream, p, h) \/ stream[h].number > stream[p].number + 1
  <2> TAKE h \in Pending(stream[p].order)
  <2>1. PICK q \in Pictures : ShowsNext(stream, q, h) /\ stream[q].order >= stream[p].order
    BY DEF Pending
  <2>2. stream[h].number = stream[q].number + 1 /\ h \in Pictures /\ stream[q].shown
    BY <1>1, <2>1, ShowingFacts DEF ShowsNext, Pending, Pictures
  <2>3. CASE q = p
    BY <1>1, <2>1, <2>2, <2>3
  <2>4. CASE q # p
    <3>1. stream[p].order < stream[q].order
      BY <1>1, <2>1, <2>4
    <3>2. stream[p].number + Displays(stream[p]) <= stream[q].number
      BY <1>1, <2>2, <3>1, StreamAssumption DEF DisplayedInTurn, Pictures
    <3> QED BY <1>1, <2>2, <3>2
  <2> QED BY <2>3, <2>4
<1> DEFINE hidden == {q \in Pictures : ~stream[q].shown}
<1> DEFINE H == {h \in hidden : /\ ~stream[h].altRef /\ stream[h].order < stream[p].order
                                /\ stream[h].number > stream[p].number}
<1>3. Cardinality(H) <= UndisplayedMax
  <2>1. p \in Pictures \ hidden
    OBVIOUS
  <2> QED BY <1>1, <2>1, StreamAssumption DEF QueuesSuffice, Pictures
<1>4. H \in SUBSET Pictures /\ Pending(stream[p].order) \in SUBSET H
  BY <1>2 DEF Pending
<1> HIDE DEF H
<1>5. IsFiniteSet(H)
  BY <1>1, <1>4, FS_Subset
<1>6. IsFiniteSet(Pending(stream[p].order)) /\ Cardinality(Pending(stream[p].order)) <= Cardinality(H)
  BY <1>4, <1>5, FS_Subset
<1>7. Cardinality(H) \in Nat /\ Cardinality(Pending(stream[p].order)) \in Nat
  BY <1>5, <1>6, FS_CardinalityType
<1> QED BY <1>2, <1>3, <1>6, <1>7, BoundAssumption

\* The hidden pictures of a unit are pending at its end.
LEMMA PendingInUnit ==
    ASSUME QueueInvariant, FramesInTu # 0
    PROVE  Pending(head + FramesInTu - 1)
           = Pending(head) \cup {Entry(i) : i \in {j \in 0..FramesInTu - 2 : KeepsBuffer(Entry(j))}}
<1> DEFINE n == FramesInTu
<1>1. /\ n \in 1..Depth
      /\ \A i \in 0..n - 1 : /\ Entry(i) \in Pictures /\ stream[Entry(i)].order = head + i
                             /\ stream[Entry(i)].shown <=> i = n - 1
      /\ \A p \in Pictures : stream[p].order \in head..head + n - 1 => p = Entry(stream[p].order - head)
  BY UnitFacts
<1> HIDE DEF n
<1>2. /\ head \in Nat /\ Depth \in Nat /\ stream \in Streams
      /\ \A p \in Pictures : stream[p].order \in Nat
  BY Numbers DEF QueueInvariant, Types
<1>3. \A p \in Pictures : stream[p].shown /\ stream[p].order >= head => stream[p].order >= head + n - 1
  <2> TAKE p \in Pictures
  <2> HAVE stream[p].shown /\ stream[p].order >= head
  <2> SUFFICES ASSUME stream[p].order < head + n - 1 PROVE FALSE
    BY <1>1, <1>2
  <2>1. /\ stream[p].order - head \in 0..n - 1 /\ stream[p].order - head # n - 1
        /\ stream[p].order \in head..head + n - 1
    BY <1>1, <1>2
  <2> QED BY <1>1, <2>1
<1>4. \A p, h \in Pictures : ShowsNext(stream, p, h) => stream[p].shown /\ stream[p].order > stream[h].order
  BY <1>2, ShowingFacts DEF ShowsNext, Pictures
<1>5. \A h \in Pending(head) : h \in Pending(head + n - 1)
  BY <1>1, <1>2, <1>3, <1>4 DEF Pending
<1>6. \A i \in 0..n - 2 : KeepsBuffer(Entry(i)) => Entry(i) \in Pending(head + n - 1)
  <2> TAKE i \in 0..n - 2
  <2> HAVE KeepsBuffer(Entry(i))
  <2>1. i \in 0..n - 1 /\ i # n - 1
    BY <1>1
  <2>2. /\ Entry(i) \in Pictures /\ stream[Entry(i)].order = head + i
        /\ ~stream[Entry(i)].shown /\ ~stream[Entry(i)].altRef
    BY <1>1, <2>1 DEF KeepsBuffer
  <2>3. PICK p \in Pictures : ShowsNext(stream, p, Entry(i))
    BY <1>2, <2>2, StreamAssumption DEF HiddenAreDisplayed, Pictures
  <2>4. stream[p].order >= head + n - 1
    BY <1>2, <1>3, <1>4, <2>2, <2>3
  <2>5. stream[Entry(i)].order < head + n - 1
    BY <1>1, <1>2, <2>2
  <2> QED BY <2>2, <2>3, <2>4, <2>5 DEF Pending
<1>7. \A h \in Pending(head + n - 1) :
         h \in Pending(head) \/ \E i \in 0..n - 2 : KeepsBuffer(Entry(i)) /\ h = Entry(i)
  <2> TAKE h \in Pending(head + n - 1)
  <2>1. h \in Pictures /\ ~stream[h].shown /\ ~stream[h].altRef /\ stream[h].order < head + n - 1
    BY DEF Pending
  <2>2. PICK p \in Pictures : ShowsNext(stream, p, h) /\ stream[p].order >= head + n - 1
    BY DEF Pending
  <2>3. CASE stream[h].order < head
    <3>1. stream[p].order >= head
      BY <1>1, <1>2, <2>2
    <3> QED BY <2>1, <2>2, <2>3, <3>1 DEF Pending
  <2>4. CASE stream[h].order >= head
    <3>1. stream[h].order \in head..head + n - 1 /\ stream[h].order - head \in 0..n - 2
      BY <1>1, <1>2, <2>1, <2>4
    <3>2. h = Entry(stream[h].order - head)
      BY <1>1, <2>1, <3>1
    <3> QED BY <2>1, <3>1, <3>2 DEF KeepsBuffer
  <2> QED BY <1>2, <2>1, <2>3, <2>4
<1> QED BY <1>5, <1>6, <1>7 DEF n

\* The undisplayed queue when a unit has been made of n frames.
Kept(n) == IF n > 1 THEN ByDescendingPts(Pushed(n)) ELSE undisplayed

\* Numbers that fall along a sequence tell its places apart.
LEMMA FallingIsDistinct ==
    ASSUME Types, NEW s \in Seq(Pictures), Falling(s)
    PROVE  \A i, j \in DOMAIN s : s[i] = s[j] => i = j
<1>1. \A p \in Pictures : stream[p].number \in Nat
  BY Numbers
<1>2. /\ DOMAIN s = 1..Len(s) /\ Len(s) \in Nat
      /\ \A i \in DOMAIN s : s[i] \in Pictures
  OBVIOUS
<1> SUFFICES ASSUME NEW i \in DOMAIN s, NEW j \in DOMAIN s, s[i] = s[j] PROVE i = j
  OBVIOUS
<1>3. i \in Nat /\ j \in Nat
  BY <1>2
<1>4. stream[s[i]].number \in Nat /\ stream[s[j]].number = stream[s[i]].number
  BY <1>1, <1>2
<1>5. ~(i < j)
  BY <1>4 DEF Falling
<1>6. ~(j < i)
  BY <1>4 DEF Falling
<1> QED BY <1>3, <1>5, <1>6

\* Sorting a sequence of pictures with numbers of their own.
LEMMA SortingFacts ==
    ASSUME Types, NEW s \in Seq(Pictures), \A i, j \in DOMAIN s : s[i] = s[j] => i = j,
           \A g, h \in Range(s) : stream[g].number = stream[h].number => g = h
    PROVE  /\ ByDescendingPts(s) \in Seq(Pictures) /\ Range(ByDescendingPts(s)) = Range(s)
           /\ Falling(ByDescendingPts(s))
<1>1. /\ Range(s) \in SUBSET Pictures /\ IsFiniteSet(Range(s)) /\ Cardinality(Range(s)) = Len(s)
      /\ DOMAIN s = 1..Len(s) /\ Len(s) \in Nat
  BY DistinctLength
<1>2. \A p \in Pictures : stream[p].number \in Nat
  BY Numbers
<1> DEFINE R == Range(s)
<1> DEFINE key == [p \in R |-> stream[p].number]
<1> DEFINE t == ByDescendingPts(s)
<1> HIDE DEF R
<1>3. key \in [R -> Nat] /\ \A x, y \in R : key[x] = key[y] => x = y
  BY <1>1, <1>2 DEF R
<1>4. PICK f \in [1..Cardinality(R) -> R] :
         \A i, j \in 1..Cardinality(R) : i < j => key[f[i]] > key[f[j]]
  <2> HIDE DEF key
  <2> QED BY <1>1, <1>3, OrderExists DEF R
<1>5. DOMAIN s = 1..Cardinality(R)
  BY <1>1 DEF R
<1>6. f \in [DOMAIN s -> R] /\ \A i, j \in DOMAIN f : i < j => stream[f[i]].number > stream[f[j]].number
  BY <1>4, <1>5
<1>7. t \in [DOMAIN s -> R] /\ \A i, j \in DOMAIN t : i < j => stream[t[i]].number > stream[t[j]].number
  BY <1>6 DEF ByDescendingPts, R
<1> HIDE DEF t
<1>8. t \in [1..Cardinality(R) -> R] /\ Falling(t)
  BY <1>5, <1>7 DEF Falling
<1>9. t \in Seq(Pictures)
  BY <1>1, <1>5, <1>8 DEF R
<1>10. \A i, j \in DOMAIN t : t[i] = t[j] => i = j
  BY <1>8, <1>9, FallingIsDistinct
<1>11. Range(t) = R
  BY <1>1, <1>8, <1>10, DistinctCover DEF R
<1> QED BY <1>8, <1>9, <1>11 DEF R, t

\* What the queue holds at a unit: the hidden pictures up to it that are not shown yet,
\* in order, none of them lost.
LEMMA KeptFacts ==
    ASSUME QueueInvariant, UndisplayedInOrder, FramesInTu # 0
    PROVE  /\ Kept(FramesInTu) \in Seq(Pictures) /\ Falling(Kept(FramesInTu))
           /\ Range(Kept(FramesInTu)) = Pending(head + FramesInTu - 1)
<1> DEFINE n == FramesInTu
<1> DEFINE S == {j \in 0..n - 2 : KeepsBuffer(Entry(j))}
<1>0. Types /\ head \in Nat
  BY Numbers DEF QueueInvariant
<1>1. /\ n \in 1..Depth /\ n \in Nat
      /\ \A i \in 0..n - 1 : /\ Entry(i) \in Pictures /\ stream[Entry(i)].order = head + i
                             /\ stream[Entry(i)].shown <=> i = n - 1
  BY UnitFacts, BoundAssumption
<1>2. Pending(head + n - 1) = Pending(head) \cup {Entry(i) : i \in S}
  BY PendingInUnit
<1> HIDE DEF n
<1>3. CASE n = 1
  <2>1. S = {} /\ Pending(head + n - 1) = Pending(head)
    BY <1>2, <1>3
  <2>2. Kept(n) = undisplayed
    BY <1>3 DEF Kept
  <2> QED BY <2>1, <2>2 DEF UndisplayedInOrder, n
<1>4. CASE n > 1
  <2> DEFINE places == Descending(S)
  <2> DEFINE hidden == [k \in DOMAIN places |-> Entry(places[k])]
  <2> DEFINE all == undisplayed \o hidden
  <2>1. IsFiniteSet(S) /\ S \in SUBSET Nat
    <3>1. IsFiniteSet(0..n - 2) /\ S \in SUBSET (0..n - 2) /\ 0..n - 2 \in SUBSET Nat
      BY <1>1, FS_Interval
    <3> QED BY <3>1, FS_Subset
  <2>2. /\ places \in Seq(S) /\ Range(places) = S
        /\ \A i, j \in DOMAIN places : places[i] = places[j] => i = j
    BY <2>1, DescendingFacts
  <2>3. \A i \in S : Entry(i) \in Pictures /\ stream[Entry(i)].order = head + i /\ i \in Nat
    BY <1>1
  <2> HIDE DEF S, places
  <2>4. /\ DOMAIN places = 1..Len(places) /\ Len(places) \in Nat
        /\ \A k \in DOMAIN places : places[k] \in S
    BY <2>2
  <2>5. hidden \in Seq(Pictures) /\ DOMAIN hidden = DOMAIN places
    BY <2>3, <2>4
  <2>6. \A k \in DOMAIN hidden : hidden[k] = Entry(places[k]) /\ stream[hidden[k]].order = head + places[k]
    BY <2>3, <2>4
  <2>7. Range(hidden) = {Entry(i) : i \in S}
    BY <2>2 DEF Range
  <2> HIDE DEF hidden
  <2>8. \A i, j \in DOMAIN hidden : hidden[i] = hidden[j] => i = j
    <3> TAKE i, j \in DOMAIN hidden
    <3> HAVE hidden[i] = hidden[j]
    <3>1. head + places[i] = head + places[j] /\ places[i] \in Nat /\ places[j] \in Nat
      BY <2>3, <2>4, <2>5, <2>6
    <3>2. places[i] = places[j]
      BY <1>0, <3>1
    <3> QED BY <2>2, <2>5, <3>2
  <2>9. /\ undisplayed \in Seq(Pictures) /\ Range(undisplayed) = Pending(head)
        /\ \A i, j \in DOMAIN undisplayed : undisplayed[i] = undisplayed[j] => i = j
    BY <1>0, FallingIsDistinct DEF UndisplayedInOrder
  <2>10. \A i \in DOMAIN undisplayed, j \in DOMAIN hidden : undisplayed[i] # hidden[j]
    <3> TAKE i \in DOMAIN undisplayed, j \in DOMAIN hidden
    <3>1. undisplayed[i] \in Pending(head)
      BY <2>9 DEF Range
    <3>2. stream[undisplayed[i]].order < head
      BY <3>1 DEF Pending
    <3>3. stream[hidden[j]].order = head + places[j] /\ places[j] \in Nat
      BY <2>3, <2>4, <2>5, <2>6
    <3>4. ~(head + places[j] < head)
      BY <1>0, <3>3
    <3> QED BY <3>2, <3>3, <3>4
  <2>11. /\ all \in Seq(Pictures) /\ Range(all) = Pending(head + n - 1)
         /\ \A i, j \in DOMAIN all : all[i] = all[j] => i = j
    <3>1. /\ all \in Seq(Pictures) /\ Range(all) = Range(undisplayed) \cup Range(hidden)
          /\ \A i, j \in DOMAIN all : all[i] = all[j] => i = j
      <4>1. undisplayed \in Seq(Pictures) /\ hidden \in Seq(Pictures)
        BY <2>5, <2>9
      <4> QED BY <2>8, <2>9, <2>10, <4>1, JoinFacts
    <3> HIDE DEF all
    <3> QED BY <1>2, <2>7, <2>9, <3>1
  <2>12. Cardinality(Range(all)) = Len(all)
    <3> HIDE DEF all
    <3> QED BY <2>11, DistinctLength
  <2>13. Cardinality(Pending(head + n - 1)) <= UndisplayedMax
    <3>1. n - 1 \in 0..n - 1 /\ head + (n - 1) = head + n - 1
      BY <1>0, <1>1
    <3>2. Entry(n - 1) \in Pictures /\ stream[Entry(n - 1)].shown /\ stream[Entry(n - 1)].order = head + n - 1
      BY <1>1, <3>1
    <3> QED BY <1>0, <3>2, PendingAtShown
  <2>14. Pushed(n) = SubSeq(all, 1, Min({Len(all), UndisplayedMax}))
    BY DEF Pushed, all, hidden, places, S
  <2>15. Pushed(n) = all
    <3> HIDE DEF all
    <3>1. Len(all) <= UndisplayedMax /\ Len(all) \in Nat
      BY <2>11, <2>12, <2>13
    <3>2. Min({Len(all), UndisplayedMax}) = Len(all)
      BY <3>1, BoundAssumption DEF Min
    <3>3. SubSeq(all, 1, Len(all)) = all
      BY <2>11
    <3> QED BY <2>14, <3>2, <3>3
  <2> HIDE DEF all
  <2>16. \A g, h \in Range(all) : stream[g].number = stream[h].number => g = h
    <3>1. head + n - 1 \in Nat
      BY <1>0, <1>1
    <3> QED BY <1>0, <2>11, <3>1, PendingNumbers
  <2>17. Kept(n) = ByDescendingPts(all)
    BY <1>4, <2>15 DEF Kept
  <2> QED BY <1>0, <2>11, <2>16, <2>17, SortingFacts DEF n
<1> QED BY <1>1, <1>3, <1>4

\* The last of the sequence has the least number; without it the others are left.
LEMMA FrontOfFalling ==
    ASSUME Types, NEW s \in Seq(Pictures), Falling(s), NEW h \in Range(s),
           \A g \in Range(s) : g = h \/ stream[g].number > stream[h].number
    PROVE  /\ s # <<>> /\ s[Len(s)] = h
           /\ Front(s) \in Seq(Pictures) /\ Falling(Front(s)) /\ Range(Front(s)) = Range(s) \ {h}
<1> DEFINE n == Len(s)
<1>1. /\ DOMAIN s = 1..n /\ n \in Nat /\ \A i \in DOMAIN s : s[i] \in Pictures
      /\ \A p \in Pictures : stream[p].number \in Nat
  BY Numbers
<1> HIDE DEF n
<1>2. PICK k \in 1..n : s[k] = h
  BY <1>1 DEF Range
<1>3. s # <<>> /\ n \in 1..n
  BY <1>1, <1>2 DEF n
<1>4. k = n
  <2> SUFFICES ASSUME k < n PROVE FALSE
    BY <1>1, <1>2
  <2>1. stream[s[k]].number > stream[s[n]].number
    BY <1>1, <1>2, <1>3 DEF Falling
  <2>2. s[n] \in Range(s) /\ s[n] \in Pictures /\ s[k] \in Pictures
    BY <1>1, <1>2, <1>3 DEF Range
  <2>3. stream[s[n]].number \in Nat /\ stream[s[k]].number \in Nat
    BY <1>1, <2>2
  <2> QED BY <1>2, <2>1, <2>2, <2>3
<1> DEFINE f == Front(s)
<1>5. f = SubSeq(s, 1, n - 1)
  BY DEF Front, n
<1>6. /\ f \in Seq(Pictures) /\ DOMAIN f = 1..n - 1
      /\ \A i \in 1..n - 1 : f[i] = s[i]
  BY <1>1, <1>3, <1>5 DEF n
<1> HIDE DEF f
<1>7. \A i \in 1..n - 1 : i \in 1..n /\ i # n
  BY <1>1
<1>8. Falling(f)
  BY <1>1, <1>6, <1>7 DEF Falling
<1>9. \A i, j \in DOMAIN s : s[i] = s[j] => i = j
  BY FallingIsDistinct
<1>10. Range(f) = Range(s) \ {h}
  <2>1. \A x \in Range(f) : x \in Range(s) /\ x # h
    BY <1>1, <1>2, <1>4, <1>6, <1>7, <1>9 DEF Range
  <2>2. \A x \in Range(s) \ {h} : x \in Range(f)
    <3> TAKE x \in Range(s) \ {h}
    <3>1. PICK i \in 1..n : s[i] = x
      BY <1>1 DEF Range
    <3>2. i \in 1..n - 1
      BY <1>1, <1>2, <1>4, <3>1
    <3> QED BY <1>6, <3>1, <3>2 DEF Range
  <2> QED BY <2>1, <2>2
<1> QED BY <1>2, <1>3, <1>4, <1>6, <1>8, <1>10 DEF f, n

-----------------------------------------------------------------------------
\* The packets.

Packets == [frames : Seq(Pictures), shows : Nat, pts : Nat, eos : BOOLEAN, metadata : Nat \cup {None}]

\* The pictures before the head are in the packets; the last of them is shown, and so
\* many packets were posted as pictures are displayed up to it.
SentInOrder ==
    /\ output \in Seq(Packets)
    /\ head = 0 => output = <<>>
    /\ \A p \in Pictures : stream[p].order = head - 1 =>
          stream[p].shown /\ Len(output) = stream[p].number + Displays(stream[p])
    /\ \A p \in Pictures : stream[p].order < head =>
          \E j \in DOMAIN output : p \in Range(output[j].frames)

PacketInvariant == QueueInvariant /\ UndisplayedInOrder /\ SentInOrder

\* The two packets of a unit of n frames.
Unit(n) ==
    Packet([i \in 1..n |-> Entry(i - 1)], stream[Entry(n - 1)].number, stream[Entry(n - 1)].number,
           Entry(n - 1) \in eos /\ KeepsEos(Entry(n - 1)), stream[Entry(n - 1)].number)
Header(n) == existing[Slot(head + n - 1)]
Showing(n) ==
    Packet(<<>>, stream[Entry(n - 1)].number + 1, stream[Kept(n)[Len(Kept(n))]].number,
           Entry(n - 1) \in eos, IF Header(n) = None THEN None ELSE stream[Header(n)].number)

\* The number of the picture that ends a unit is the count of the packets before it.
LEMMA NumberIsCount ==
    ASSUME PacketInvariant, FramesInTu # 0
    PROVE  stream[Entry(FramesInTu - 1)].number = Len(output)
<1> DEFINE n == FramesInTu
<1> DEFINE last == Entry(n - 1)
<1>0. QueueInvariant /\ Types /\ SentInOrder
  BY DEF PacketInvariant, QueueInvariant
<1>1. /\ n \in 1..Depth
      /\ \A i \in 0..n - 1 : /\ Entry(i) \in Pictures /\ stream[Entry(i)].order = head + i
                             /\ stream[Entry(i)].shown <=> i = n - 1
      /\ \A p \in Pictures : stream[p].order \in head..head + n - 1 => p = Entry(stream[p].order - head)
  BY <1>0, UnitFacts
<1>2. /\ head \in Nat /\ Depth \in Nat /\ Count \in Nat /\ head \in 0..Count
      /\ \A p \in Pictures : /\ stream[p].order \in Nat /\ stream[p].number \in Nat
                             /\ Displays(stream[p]) \in 1..2
      /\ \A k \in 0..Count - 1 : \E p \in Pictures : stream[p].order = k
      /\ \A a, b \in Pictures : stream[a].order = stream[b].order => a = b
  BY <1>0, Numbers DEF Types
<1> HIDE DEF n
<1>3. last \in Pictures /\ stream[last].order = head + (n - 1) /\ stream[last].shown
  <2>1. n - 1 \in 0..n - 1
    BY <1>1, <1>2
  <2> QED BY <1>1, <2>1
<1> HIDE DEF last
<1>4. \A p \in Pictures : stream[p].shown /\ stream[p].order < stream[last].order => stream[p].order < head
  <2> TAKE p \in Pictures
  <2> HAVE stream[p].shown /\ stream[p].order < stream[last].order
  <2> SUFFICES ASSUME stream[p].order >= head PROVE FALSE
    BY <1>2
  <2>1. /\ stream[p].order - head \in 0..n - 1 /\ stream[p].order - head # n - 1
        /\ stream[p].order \in head..head + n - 1
    BY <1>1, <1>2, <1>3
  <2> QED BY <1>1, <2>1
<1>5. /\ \A p \in Pictures : stream[p].shown /\ stream[p].order < stream[last].order =>
            stream[p].number + Displays(stream[p]) <= stream[last].number
      /\ \/ stream[last].number = 0
         \/ \E p \in Pictures : /\ stream[p].shown /\ stream[p].order < stream[last].order
                                /\ stream[last].number = stream[p].number + Displays(stream[p])
  BY <1>0, <1>3, StreamAssumption DEF DisplayedInTurn, Types, Pictures
<1>6. CASE head = 0
  <2>1. \A p \in Pictures : ~(stream[p].order < head)
    BY <1>2, <1>6
  <2>2. stream[last].number = 0
    BY <1>4, <1>5, <2>1
  <2> QED BY <1>0, <1>6, <2>2 DEF SentInOrder, last, n
<1>7. CASE head # 0
  <2>1. head - 1 \in 0..Count - 1
    BY <1>2, <1>7
  <2>2. PICK q \in Pictures : stream[q].order = head - 1
    BY <1>2, <2>1
  <2>3. stream[q].shown /\ Len(output) = stream[q].number + Displays(stream[q])
    BY <1>0, <2>2 DEF SentInOrder
  <2>4. stream[q].order < stream[last].order
    BY <1>1, <1>2, <1>3, <2>2
  <2>5. stream[q].number + Displays(stream[q]) <= stream[last].number
    BY <1>5, <2>3, <2>4
  <2>6. PICK p \in Pictures : /\ stream[p].shown /\ stream[p].order < stream[last].order
                              /\ stream[last].number = stream[p].number + Displays(stream[p])
    BY <1>2, <1>5, <2>5
  <2>7. stream[p].order < head
    BY <1>4, <2>6
  <2>8. CASE p = q
    BY <2>3, <2>6, <2>8 DEF last, n
  <2>9. CASE p # q
    <3>1. stream[p].order < stream[q].order
      BY <1>2, <2>2, <2>7, <2>9
    <3>2. stream[p].number + Displays(stream[p]) <= stream[q].number
      BY <1>0, <2>3, <2>6, <3>1, StreamAssumption DEF DisplayedInTurn, Types, Pictures
    <3> QED BY <1>2, <2>5, <2>6, <3>2
  <2> QED BY <2>8, <2>9
<1> QED BY <1>6, <1>7

\* What a step posts: the unit, and the hidden picture that it shows if it has one.
LEMMA EmitFacts ==
    ASSUME PacketInvariant, Emit
    PROVE  \E n \in 1..Depth, last \in Pictures :
              /\ n = FramesInTu /\ last = Entry(n - 1) /\ head + n <= Count
              /\ stream[last].order = head + n - 1 /\ stream[last].shown
              /\ stream[last].number = Len(output)
              /\ head' = head + n /\ UNCHANGED <<stream, stage, metadata, existing, eos>>
              /\ Pictures' = Pictures
              /\ undisplayed' \in Seq(Pictures) /\ Falling(undisplayed')
              /\ Range(undisplayed') = Pending(head + n)
              /\ \/ ~stream[last].existing /\ output' = Append(output, Unit(n))
                 \/ /\ stream[last].existing
                    /\ \E h \in Pictures :
                          ShowsNext(stream, last, h) /\ Kept(n)[Len(Kept(n))] = h
                    /\ output' = output \o <<Unit(n), Showing(n)>>
<1> DEFINE n == FramesInTu
<1> DEFINE last == Entry(n - 1)
<1>0. QueueInvariant /\ Types /\ UndisplayedInOrder /\ FramesInTu # 0
  BY DEF PacketInvariant, QueueInvariant, Emit
<1>1. /\ n \in 1..Depth /\ head + n <= Count
      /\ \A i \in 0..n - 1 : /\ Entry(i) \in Pictures /\ stream[Entry(i)].order = head + i
                             /\ stream[Entry(i)].shown <=> i = n - 1
  BY <1>0, UnitFacts
<1>2. /\ head \in Nat /\ Depth \in Nat /\ stream \in Streams
      /\ \A p \in Pictures : stream[p].number \in Nat /\ stream[p].order \in Nat
      /\ \A a, b \in Pictures : stream[a].order = stream[b].order => a = b
  BY <1>0, Numbers DEF Types
<1>3. stream[last].number = Len(output)
  BY <1>0, NumberIsCount
<1>4. Kept(n) \in Seq(Pictures) /\ Falling(Kept(n)) /\ Range(Kept(n)) = Pending(head + n - 1)
  BY <1>0, KeptFacts
<1>5. /\ IF stream[last].existing /\ Kept(n) # <<>>
         THEN output' = output \o <<Unit(n), Showing(n)>> /\ undisplayed' = Front(Kept(n))
         ELSE output' = Append(output, Unit(n)) /\ undisplayed' = Kept(n)
      /\ head' = head + n /\ UNCHANGED <<stream, stage, metadata, existing, eos>> /\ Pictures' = Pictures
  BY DEF Emit, Unit, Showing, Header, Kept, NextHead, Pictures
<1> HIDE DEF n
<1>6. last \in Pictures /\ stream[last].order = head + n - 1 /\ stream[last].shown
  <2>1. n - 1 \in 0..n - 1 /\ head + (n - 1) = head + n - 1
    BY <1>1, <1>2
  <2> QED BY <1>1, <2>1
<1> HIDE DEF last
<1>7. \A h \in Pending(head + n - 1) :
         stream[h].number > stream[last].number
         /\ (ShowsNext(stream, last, h) \/ stream[h].number > stream[last].number + 1)
  BY <1>0, <1>6, PendingAtShown
<1>8. \A h \in Pictures : h \in Pending(head + n) <=> h \in Pending(head + n - 1) /\ ~ShowsNext(stream, last, h)
  <2> TAKE h \in Pictures
  <2>1. ASSUME h \in Pending(head + n)
        PROVE  h \in Pending(head + n - 1) /\ ~ShowsNext(stream, last, h)
    <3>1. PICK p \in Pictures : ShowsNext(stream, p, h) /\ stream[p].order >= head + n
      BY <2>1 DEF Pending
    <3>2. h # last /\ ~stream[h].shown /\ ~stream[h].altRef /\ stream[h].order < head + n
      BY <1>6, <2>1 DEF Pending
    <3>3. stream[h].order < head + n - 1 /\ stream[p].order >= head + n - 1 /\ p # last
      BY <1>1, <1>2, <1>6, <3>1, <3>2
    <3>4. ~ShowsNext(stream, last, h)
      BY <1>2, <1>6, <3>1, <3>3, ShowingFacts DEF Pictures
    <3> QED BY <3>1, <3>2, <3>3, <3>4 DEF Pending
  <2>2. ASSUME h \in Pending(head + n - 1), ~ShowsNext(stream, last, h)
        PROVE  h \in Pending(head + n)
    <3>1. PICK p \in Pictures : ShowsNext(stream, p, h) /\ stream[p].order >= head + n - 1
      BY <2>2 DEF Pending
    <3>2. ~stream[h].shown /\ ~stream[h].altRef /\ stream[h].order < head + n - 1
      BY <2>2 DEF Pending
    <3>3. p # last /\ stream[p].order # stream[last].order
      BY <1>2, <1>6, <2>2, <3>1
    <3>4. stream[h].order < head + n /\ stream[p].order >= head + n
      BY <1>1, <1>2, <1>6, <3>1, <3>2, <3>3
    <3> QED BY <3>1, <3>2, <3>4 DEF Pending
  <2> QED BY <2>1, <2>2
<1>9. Pending(head + n) \in SUBSET Pictures /\ Pending(head + n - 1) \in SUBSET Pictures
  BY DEF Pending
<1>10. CASE ~stream[last].existing
  <2>1. Pending(head + n) = Pending(head + n - 1)
    BY <1>8, <1>9, <1>10 DEF ShowsNext
  <2>2. undisplayed' = Kept(n) /\ output' = Append(output, Unit(n))
    BY <1>5, <1>10
  <2> QED BY <1>1, <1>3, <1>4, <1>5, <1>6, <1>10, <2>1, <2>2 DEF n, last
<1>11. CASE stream[last].existing
  <2>1. PICK h \in Pictures : ShowsNext(stream, last, h)
    BY <1>2, <1>6, <1>11, StreamAssumption DEF HiddenAreDisplayed, Pictures
  <2>2. h \in Pending(head + n - 1)
    <3>1. stream[h].order < head + n - 1 /\ ~stream[h].shown /\ ~stream[h].altRef
      BY <1>6, <2>1 DEF ShowsNext
    <3>2. stream[last].order >= head + n - 1
      BY <1>1, <1>2, <1>6
    <3> QED BY <1>6, <2>1, <3>1, <3>2 DEF Pending
  <2>3. \A g \in Pictures : ShowsNext(stream, last, g) => g = h
    BY <1>2, <1>6, <2>1, ShowingFacts DEF Pictures
  <2>4. stream[h].number = stream[last].number + 1
    BY <2>1 DEF ShowsNext
  <2>5. \A g \in Pending(head + n - 1) : g = h \/ stream[g].number > stream[h].number
    BY <1>7, <1>9, <2>3, <2>4
  <2>6. /\ Kept(n) # <<>> /\ Kept(n)[Len(Kept(n))] = h
        /\ Front(Kept(n)) \in Seq(Pictures) /\ Falling(Front(Kept(n)))
        /\ Range(Front(Kept(n))) = Pending(head + n - 1) \ {h}
    BY <1>0, <1>4, <2>2, <2>5, FrontOfFalling
  <2>7. Pending(head + n) = Pending(head + n - 1) \ {h}
    BY <1>8, <1>9, <2>1, <2>3
  <2>8. undisplayed' = Front(Kept(n)) /\ output' = output \o <<Unit(n), Showing(n)>>
    BY <1>5, <1>11, <2>6
  <2> QED BY <1>1, <1>3, <1>5, <1>6, <1>11, <2>1, <2>6, <2>7, <2>8 DEF n, last
<1> QED BY <1>10, <1>11

\* A step posts packets or leaves the stream, the head and both queues behind it alone.
LEMMA OnlyEmitPosts ==
    ASSUME QueueInvariant, [Next]_vars
    PROVE  Emit \/ UNCHANGED <<stream, head, undisplayed, output>>
BY PacketizeFacts DEF Next, Kernel, Coding, Reconstruct, Code, Wait, GetPacket, ReleaseBuffer, vars, kernelVars

\* The packets of a unit are packets.
LEMMA UnitTypes ==
    ASSUME PacketInvariant, FramesInTu # 0
    PROVE  /\ Unit(FramesInTu) \in Packets
           /\ Unit(FramesInTu).frames \in Seq(Pictures)
           /\ Unit(FramesInTu).frames = [i \in 1..FramesInTu |-> Entry(i - 1)]
           /\ \A k \in Pictures : Kept(FramesInTu)[Len(Kept(FramesInTu))] = k => Showing(FramesInTu) \in Packets
<1> DEFINE n == FramesInTu
<1>0. QueueInvariant /\ Types
  BY DEF PacketInvariant, QueueInvariant
<1>1. /\ n \in 1..Depth /\ \A i \in 0..n - 1 : Entry(i) \in Pictures
  BY <1>0, UnitFacts
<1>2. /\ head \in Nat /\ Depth \in Nat /\ \A p \in Pictures : stream[p].number \in Nat
  BY <1>0, Numbers
<1> HIDE DEF n
<1> DEFINE frames == [i \in 1..n |-> Entry(i - 1)]
<1>3. frames \in Seq(Pictures)
  <2>1. \A i \in 1..n : i - 1 \in 0..n - 1
    BY <1>1, <1>2
  <2>2. \A i \in 1..n : Entry(i - 1) \in Pictures
    BY <1>1, <2>1
  <2> QED BY <1>1, <1>2, <2>2
<1>4. Entry(n - 1) \in Pictures
  <2>1. n - 1 \in 0..n - 1
    BY <1>1, <1>2
  <2> QED BY <1>1, <2>1
<1>5. Unit(n).frames = frames
  BY DEF Unit, Packet
<1>6. Unit(n) \in Packets
  <2> HIDE DEF frames
  <2>1. Unit(n) = [frames |-> frames, shows |-> stream[Entry(n - 1)].number,
                   pts |-> stream[Entry(n - 1)].number,
                   eos |-> Entry(n - 1) \in eos /\ KeepsEos(Entry(n - 1)),
                   metadata |-> stream[Entry(n - 1)].number]
    BY DEF Unit, Packet, frames
  <2>2. stream[Entry(n - 1)].number \in Nat /\ (Entry(n - 1) \in eos /\ KeepsEos(Entry(n - 1))) \in BOOLEAN
    BY <1>2, <1>4 DEF KeepsEos
  <2> QED BY <1>3, <2>1, <2>2 DEF Packets
<1>7. \A k \in Pictures : Kept(n)[Len(Kept(n))] = k => Showing(n) \in Packets
  <2> TAKE k \in Pictures
  <2> HAVE Kept(n)[Len(Kept(n))] = k
  <2> DEFINE md == IF Header(n) = None THEN None ELSE stream[Header(n)].number
  <2>1. md \in Nat \cup {None}
    <3>1. head + n - 1 \in Nat
      BY <1>1, <1>2
    <3>2. Slot(head + n - 1) \in Slots
      BY <3>1, PlaceIsSlot
    <3>3. Header(n) \in Pictures \cup {None}
      BY <1>0, <3>2 DEF Types, Header
    <3> QED BY <1>2, <3>3
  <2>2. Showing(n) = [frames |-> <<>>, shows |-> stream[Entry(n - 1)].number + 1, pts |-> stream[k].number,
                      eos |-> Entry(n - 1) \in eos, metadata |-> md]
    BY DEF Showing, Packet
  <2>3. /\ stream[Entry(n - 1)].number + 1 \in Nat /\ stream[k].number \in Nat
        /\ (Entry(n - 1) \in eos) \in BOOLEAN /\ <<>> \in Seq(Pictures)
    BY <1>2, <1>4
  <2> HIDE DEF md
  <2> QED BY <2>1, <2>2, <2>3 DEF Packets
<1> QED BY <1>3, <1>5, <1>6, <1>7 DEF n

\* Two more elements are one and one more.
LEMMA TwoMore ==
    ASSUME NEW T, NEW s \in Seq(T), NEW a \in T, NEW b \in T
    PROVE  s \o <<a, b>> = Append(Append(s, a), b)
OBVIOUS

\* The packets that a step posts, by their places.
LEMMA PostedPackets ==
    ASSUME PacketInvariant, NEW n \in 1..Depth, n = FramesInTu, NEW last \in Pictures,
           \/ ~stream[last].existing /\ output' = Append(output, Unit(n))
           \/ /\ stream[last].existing
              /\ \E h \in Pictures : ShowsNext(stream, last, h) /\ Kept(n)[Len(Kept(n))] = h
              /\ output' = output \o <<Unit(n), Showing(n)>>
    PROVE  /\ output' \in Seq(Packets) /\ Len(output) \in Nat
           /\ DOMAIN output = 1..Len(output) /\ DOMAIN output' = 1..Len(output')
           /\ Len(output') = Len(output) + Displays(stream[last])
           /\ \A i \in 1..Len(output) : output'[i] = output[i]
           /\ output'[Len(output) + 1] = Unit(n)
           /\ stream[last].existing => output'[Len(output) + 2] = Showing(n)
           /\ output' = IF stream[last].existing THEN Append(Append(output, Unit(n)), Showing(n))
                        ELSE Append(output, Unit(n))
<1>1. output \in Seq(Packets) /\ FramesInTu # 0
  BY BoundAssumption DEF PacketInvariant, SentInOrder
<1> DEFINE one == Append(output, Unit(n))
<1>2. Unit(n) \in Packets
  BY <1>1, UnitTypes
<1>3. /\ one \in Seq(Packets) /\ Len(output) \in Nat /\ Len(one) = Len(output) + 1
      /\ DOMAIN output = 1..Len(output) /\ DOMAIN one = 1..Len(output) + 1
      /\ \A i \in 1..Len(output) : one[i] = output[i]
      /\ one[Len(output) + 1] = Unit(n)
  BY <1>1, <1>2, AppendFacts
<1>4. CASE ~stream[last].existing
  <2>1. output' = one /\ Displays(stream[last]) = 1
    BY <1>4 DEF Displays
  <2> HIDE DEF one
  <2> QED BY <1>3, <1>4, <2>1 DEF one
<1>5. CASE stream[last].existing
  <2>1. Showing(n) \in Packets
    BY <1>1, <1>5, UnitTypes
  <2>2. output' = Append(one, Showing(n)) /\ Displays(stream[last]) = 2
    BY <1>1, <1>2, <1>5, <2>1, TwoMore DEF Displays
  <2> HIDE DEF one
  <2>3. /\ output' \in Seq(Packets) /\ Len(output') = Len(one) + 1 /\ DOMAIN output' = 1..Len(one) + 1
        /\ \A i \in 1..Len(one) : output'[i] = one[i]
        /\ output'[Len(one) + 1] = Showing(n)
    BY <1>3, <2>1, <2>2, AppendFacts
  <2>4. /\ Len(one) + 1 = Len(output) + 2 /\ Len(output) + 1 \in 1..Len(one)
        /\ \A i \in 1..Len(output) : i \in 1..Len(one)
    BY <1>3
  <2> QED BY <1>3, <1>5, <2>2, <2>3, <2>4 DEF one
<1> QED BY <1>4, <1>5

\* Nothing is posted yet.
LEMMA PacketInit == Init => PacketInvariant
<1> SUFFICES ASSUME Init PROVE PacketInvariant
  OBVIOUS
<1>1. QueueInvariant
  BY QueueInit
<1>2. head = 0 /\ undisplayed = <<>> /\ output = <<>>
  BY DEF Init
<1>3. \A p \in Pictures : stream[p].order \in Nat
  BY <1>1, Numbers DEF QueueInvariant
<1>4. Pending(head) = {} /\ Range(undisplayed) = {}
  BY <1>2, <1>3 DEF Pending, Range
<1>5. UndisplayedInOrder
  <2>1. undisplayed \in Seq(Pictures) /\ DOMAIN undisplayed = {}
    BY <1>2
  <2>2. Falling(undisplayed)
    BY <2>1 DEF Falling
  <2> QED BY <1>2, <1>4, <2>1, <2>2 DEF UndisplayedInOrder
<1>6. SentInOrder
  BY <1>2, <1>3 DEF SentInOrder
<1> QED BY <1>1, <1>5, <1>6 DEF PacketInvariant

\* Every step leaves the packets and both queues in order.
LEMMA PacketStep ==
    ASSUME PacketInvariant, [Next]_vars
    PROVE  PacketInvariant'
<1>0. QueueInvariant /\ QueueInvariant'
  BY QueueStep DEF PacketInvariant
<1>1. CASE UNCHANGED <<stream, head, undisplayed, output>>
  <2>1. UndisplayedInOrder'
    BY <1>1 DEF PacketInvariant, UndisplayedInOrder, Pending, Falling, Pictures
  <2>2. SentInOrder'
    BY <1>1 DEF PacketInvariant, SentInOrder, Packets, Pictures
  <2> QED BY <1>0, <2>1, <2>2 DEF PacketInvariant
<1>2. CASE Emit
  <2>1. PICK n \in 1..Depth, last \in Pictures :
              /\ n = FramesInTu /\ last = Entry(n - 1) /\ head + n <= Count
              /\ stream[last].order = head + n - 1 /\ stream[last].shown
              /\ stream[last].number = Len(output)
              /\ head' = head + n /\ UNCHANGED <<stream, stage, metadata, existing, eos>>
              /\ Pictures' = Pictures
              /\ undisplayed' \in Seq(Pictures) /\ Falling(undisplayed')
              /\ Range(undisplayed') = Pending(head + n)
              /\ \/ ~stream[last].existing /\ output' = Append(output, Unit(n))
                 \/ /\ stream[last].existing
                    /\ \E h \in Pictures :
                          ShowsNext(stream, last, h) /\ Kept(n)[Len(Kept(n))] = h
                    /\ output' = output \o <<Unit(n), Showing(n)>>
    BY <1>2, EmitFacts
  <2>2. UndisplayedInOrder'
    BY <2>1 DEF UndisplayedInOrder, Pending, Falling
  <2>3. /\ output' \in Seq(Packets) /\ Len(output) \in Nat
        /\ DOMAIN output = 1..Len(output) /\ DOMAIN output' = 1..Len(output')
        /\ Len(output') = Len(output) + Displays(stream[last])
        /\ \A i \in 1..Len(output) : output'[i] = output[i]
        /\ output'[Len(output) + 1] = Unit(n)
    BY <2>1, PostedPackets
  <2>4. /\ head \in Nat /\ Depth \in Nat
        /\ \A p \in Pictures : stream[p].order \in Nat /\ Displays(stream[p]) \in 1..2
        /\ \A a, b \in Pictures : stream[a].order = stream[b].order => a = b
    BY <1>0, Numbers DEF QueueInvariant
  <2>5. \A p \in Pictures : stream[p].order = head + n - 1 =>
            stream[p].shown /\ Len(output') = stream[p].number + Displays(stream[p])
    BY <2>1, <2>3, <2>4
  <2>6. \A p \in Pictures : stream[p].order < head + n =>
            \E j \in DOMAIN output' : p \in Range(output'[j].frames)
    <3> TAKE p \in Pictures
    <3> HAVE stream[p].order < head + n
    <3>1. CASE stream[p].order < head
      <4>1. PICK j \in DOMAIN output : p \in Range(output[j].frames)
        BY <3>1 DEF PacketInvariant, SentInOrder
      <4>2. j \in DOMAIN output' /\ output'[j] = output[j]
        BY <2>3, <2>4
      <4> QED BY <4>1, <4>2
    <3>2. CASE stream[p].order >= head
      <4>0. n \in Nat
        BY <2>1, <2>4
      <4>1. stream[p].order \in head..head + n - 1 /\ stream[p].order - head \in 0..n - 1
        BY <2>4, <3>2, <4>0
      <4>2. PICK k \in 0..n - 1 : p = Entry(k)
        BY <1>0, <2>1, <2>4, <4>1, UnitFacts
      <4>3. FramesInTu # 0
        BY <2>1, <2>4
      <4>4. Unit(n).frames = [i \in 1..n |-> Entry(i - 1)]
        BY <2>1, <4>3, UnitTypes
      <4>5. p \in Range(Unit(n).frames)
        <5> DEFINE frames == Unit(n).frames
        <5>1. DOMAIN frames = 1..n /\ \A i \in 1..n : frames[i] = Entry(i - 1)
          BY <4>4
        <5> HIDE DEF frames
        <5>2. PICK m \in 1..n : m - 1 = k
          <6>1. k + 1 \in 1..n /\ k + 1 - 1 = k
            BY <4>0
          <6> QED BY <6>1
        <5>3. frames[m] = p
          BY <4>2, <5>1, <5>2
        <5>4. p \in Range(frames)
          BY <5>1, <5>3 DEF Range
        <5> QED BY <5>4 DEF frames
      <4>6. Len(output) + 1 \in DOMAIN output'
        BY <2>1, <2>3, <2>4
      <4> QED BY <2>3, <4>5, <4>6
    <3> QED BY <2>4, <3>1, <3>2
  <2>7. head + n # 0
    BY <2>1, <2>4
  <2>8. SentInOrder'
    <3>1. output' \in Seq(Packets')
      BY <2>1, <2>3 DEF Packets
    <3>2. head' = head + n /\ head' # 0 /\ head' - 1 = head + n - 1 /\ stream' = stream
      BY <2>1, <2>4, <2>7
    <3>3. \A p \in Pictures' : stream'[p].order = head' - 1 =>
              stream'[p].shown /\ Len(output') = stream'[p].number + Displays(stream'[p])
      BY <2>1, <2>5, <3>2
    <3>4. \A p \in Pictures' : stream'[p].order < head' =>
              \E j \in DOMAIN output' : p \in Range(output'[j].frames)
      BY <2>1, <2>6, <3>2
    <3> QED BY <3>1, <3>2, <3>3, <3>4 DEF SentInOrder
  <2> QED BY <1>0, <2>2, <2>8 DEF PacketInvariant
<1> QED BY <1>0, <1>1, <1>2, OnlyEmitPosts

\* What packetization has sent, keeps and has still to send are the parts of the stream
\* before, in and after the window.
THEOREM PacketInvariantHolds == Spec => []PacketInvariant
<1> QED BY PacketInit, PacketStep, PTL DEF Spec


-----------------------------------------------------------------------------
\* Display order.

\* What a unit posts, by places: the packets before stay, and the new ones are the
\* unit's and that of the hidden picture it shows.
LEMMA EmitPosts ==
    ASSUME PacketInvariant, Emit
    PROVE  \E n \in 1..Depth, last \in Pictures :
              /\ n = FramesInTu /\ last = Entry(n - 1) /\ head + n <= Count
              /\ stream[last].order = head + n - 1 /\ stream[last].shown
              /\ stream[last].number = Len(output) /\ stage[last] = "packed"
              /\ head' = head + n /\ UNCHANGED <<stream, stage, metadata, existing, eos>>
              /\ Pictures' = Pictures
              /\ Unit(n) \in Packets /\ Unit(n).frames = [i \in 1..n |-> Entry(i - 1)]
              /\ output \in Seq(Packets) /\ output' \in Seq(Packets)
              /\ Len(output) \in Nat
              /\ DOMAIN output = 1..Len(output) /\ DOMAIN output' = 1..Len(output')
              /\ Len(output') = Len(output) + Displays(stream[last])
              /\ \A i \in DOMAIN output' :
                    \/ i \in DOMAIN output /\ output'[i] = output[i]
                    \/ i = Len(output) + 1 /\ output'[i] = Unit(n)
                    \/ i = Len(output) + 2 /\ output'[i] = Showing(n) /\ stream[last].existing
              /\ stream[last].existing =>
                    \E h \in Pictures : /\ ShowsNext(stream, last, h) /\ Kept(n)[Len(Kept(n))] = h
                                        /\ Showing(n) \in Packets
              /\ output' = IF stream[last].existing THEN Append(Append(output, Unit(n)), Showing(n))
                           ELSE Append(output, Unit(n))
<1>0. QueueInvariant /\ Types /\ FramesInTu # 0
  BY DEF PacketInvariant, QueueInvariant, Emit
<1>1. PICK n \in 1..Depth, last \in Pictures :
              /\ n = FramesInTu /\ last = Entry(n - 1) /\ head + n <= Count
              /\ stream[last].order = head + n - 1 /\ stream[last].shown
              /\ stream[last].number = Len(output)
              /\ head' = head + n /\ UNCHANGED <<stream, stage, metadata, existing, eos>>
              /\ Pictures' = Pictures
              /\ \/ ~stream[last].existing /\ output' = Append(output, Unit(n))
                 \/ /\ stream[last].existing
                    /\ \E h \in Pictures :
                          ShowsNext(stream, last, h) /\ Kept(n)[Len(Kept(n))] = h
                    /\ output' = output \o <<Unit(n), Showing(n)>>
  BY EmitFacts
<1>2. /\ output' \in Seq(Packets) /\ Len(output) \in Nat
      /\ DOMAIN output = 1..Len(output) /\ DOMAIN output' = 1..Len(output')
      /\ Len(output') = Len(output) + Displays(stream[last])
      /\ \A i \in 1..Len(output) : output'[i] = output[i]
      /\ output'[Len(output) + 1] = Unit(n)
      /\ stream[last].existing => output'[Len(output) + 2] = Showing(n)
      /\ output' = IF stream[last].existing THEN Append(Append(output, Unit(n)), Showing(n))
                   ELSE Append(output, Unit(n))
  BY <1>1, PostedPackets
<1>3. output \in Seq(Packets)
  BY DEF PacketInvariant, SentInOrder
<1>4. stage[last] = "packed"
  <2>1. n - 1 \in 0..n - 1 /\ n \in Nat
    BY BoundAssumption
  <2> QED BY <1>0, <1>1, <2>1, UnitFacts
<1>5. /\ Unit(n) \in Packets /\ Unit(n).frames = [i \in 1..n |-> Entry(i - 1)]
      /\ \A k \in Pictures : Kept(n)[Len(Kept(n))] = k => Showing(n) \in Packets
  BY <1>0, <1>1, UnitTypes
<1>6. stream[last].existing =>
         \E h \in Pictures : /\ ShowsNext(stream, last, h) /\ Kept(n)[Len(Kept(n))] = h
                             /\ Showing(n) \in Packets
  BY <1>1, <1>5
<1>7. \A i \in DOMAIN output' :
         \/ i \in DOMAIN output /\ output'[i] = output[i]
         \/ i = Len(output) + 1 /\ output'[i] = Unit(n)
         \/ i = Len(output) + 2 /\ output'[i] = Showing(n) /\ stream[last].existing
  <2> TAKE i \in DOMAIN output'
  <2> DEFINE m == Len(output)
  <2>1. i \in 1..m + Displays(stream[last]) /\ m \in Nat
    BY <1>2
  <2> HIDE DEF m
  <2>2. i \in 1..m \/ i = m + 1 \/ (i = m + 2 /\ stream[last].existing)
    BY <2>1 DEF Displays
  <2> QED BY <1>2, <2>2 DEF m
<1> QED BY <1>1, <1>2, <1>3, <1>4, <1>5, <1>6, <1>7

\* What the packets show.
LEMMA WhatIsShown ==
    ASSUME NEW n, NEW h, Kept(n)[Len(Kept(n))] = h
    PROVE  /\ Unit(n).shows = stream[Entry(n - 1)].number /\ Unit(n).pts = stream[Entry(n - 1)].number
           /\ Unit(n).metadata = stream[Entry(n - 1)].number
           /\ Unit(n).eos = (Entry(n - 1) \in eos /\ KeepsEos(Entry(n - 1)))
           /\ Showing(n).shows = stream[Entry(n - 1)].number + 1 /\ Showing(n).pts = stream[h].number
           /\ Showing(n).eos = (Entry(n - 1) \in eos) /\ Showing(n).frames = <<>>
           /\ Showing(n).metadata = IF Header(n) = None THEN None ELSE stream[Header(n)].number
BY DEF Unit, Showing, Packet

\* Every step posts the next packets in display order.
LEMMA DisplayStep ==
    ASSUME PacketInvariant, OutputInDisplayOrder, [Next]_vars
    PROVE  OutputInDisplayOrder'
<1>0. QueueInvariant
  BY DEF PacketInvariant
<1>1. CASE UNCHANGED <<stream, head, undisplayed, output>>
  BY <1>1 DEF OutputInDisplayOrder
<1>2. CASE Emit
  <2>1. PICK n \in 1..Depth, last \in Pictures :
              /\ last = Entry(n - 1) /\ stream[last].number = Len(output) /\ Len(output) \in Nat
              /\ \A i \in DOMAIN output' :
                    \/ i \in DOMAIN output /\ output'[i] = output[i]
                    \/ i = Len(output) + 1 /\ output'[i] = Unit(n)
                    \/ i = Len(output) + 2 /\ output'[i] = Showing(n) /\ stream[last].existing
              /\ stream[last].existing =>
                    \E h \in Pictures : ShowsNext(stream, last, h) /\ Kept(n)[Len(Kept(n))] = h
    BY <1>2, EmitPosts
  <2> DEFINE m == Len(output)
  <2>2. Unit(n).shows = m /\ Unit(n).pts = m
    BY <2>1, WhatIsShown
  <2>3. stream[last].existing => Showing(n).shows = m + 1 /\ Showing(n).pts = m + 1
    BY <2>1, WhatIsShown DEF ShowsNext
  <2>4. m \in Nat
    BY <2>1
  <2> HIDE DEF m
  <2>5. \A i \in DOMAIN output' : output'[i].shows = i - 1 /\ output'[i].pts = i - 1
    <3> TAKE i \in DOMAIN output'
    <3>1. CASE i \in DOMAIN output /\ output'[i] = output[i]
      BY <3>1 DEF OutputInDisplayOrder
    <3>2. CASE i = m + 1 /\ output'[i] = Unit(n)
      BY <2>2, <2>4, <3>2
    <3>3. CASE i = m + 2 /\ output'[i] = Showing(n) /\ stream[last].existing
      BY <2>3, <2>4, <3>3
    <3> QED BY <2>1, <3>1, <3>2, <3>3 DEF m
  <2> QED BY <2>5 DEF OutputInDisplayOrder
<1> QED BY <1>0, <1>1, <1>2, OnlyEmitPosts

\* The packets come in display order, whatever order the pictures were coded in.
THEOREM DisplayOrderHolds == Spec => []OutputInDisplayOrder
<1>1. Init => OutputInDisplayOrder
  BY DEF Init, OutputInDisplayOrder
<1> QED BY <1>1, PacketInvariantHolds, DisplayStep, PTL DEF Spec

-----------------------------------------------------------------------------
\* Decode order.

Frames(o) == [i \in DOMAIN o |-> o[i].frames]

\* The pictures sent are those before the head, in decode order.
SentExactly ==
    LET sent == FlattenSeq(Frames(output))
    IN  Len(sent) = head /\ \A i \in 1..head : stream[sent[i]].order = i - 1

\* What is shown was sent in this packet or before.
ShownAfterSent ==
    \A i \in DOMAIN output :
        \E j \in 1..i : \E p \in Range(output[j].frames) : stream[p].number = output[i].shows

DecodeOrderInvariant == SentExactly /\ ShownAfterSent

\* The frames of one more packet come after the others.
LEMMA FramesGrow ==
    ASSUME NEW o \in Seq(Packets), NEW x \in Packets
    PROVE  /\ FlattenSeq(Frames(o)) \in Seq(Pictures)
           /\ FlattenSeq(Frames(Append(o, x))) = FlattenSeq(Frames(o)) \o x.frames
<1>1. /\ Append(o, x) \in Seq(Packets) /\ Len(o) \in Nat /\ Len(Append(o, x)) = Len(o) + 1
      /\ DOMAIN o = 1..Len(o) /\ DOMAIN Append(o, x) = 1..Len(o) + 1
      /\ \A i \in 1..Len(o) : Append(o, x)[i] = o[i] /\ o[i] \in Packets
      /\ Append(o, x)[Len(o) + 1] = x
  BY AppendFacts
<1> DEFINE f == Frames(o)
<1> DEFINE g == Frames(Append(o, x))
<1> DEFINE n == Len(o)
<1>2. \A y \in Packets : y.frames \in Seq(Pictures)
  BY DEF Packets
<1>3. f \in Seq(Seq(Pictures)) /\ Len(f) = n /\ DOMAIN f = 1..n /\ \A i \in 1..n : f[i] = o[i].frames
  <2>1. f = [i \in 1..n |-> o[i].frames]
    BY <1>1 DEF Frames
  <2>2. \A i \in 1..n : o[i].frames \in Seq(Pictures)
    BY <1>1, <1>2
  <2> QED BY <1>1, <2>1, <2>2
<1>4. /\ Append(f, x.frames) \in Seq(Seq(Pictures)) /\ DOMAIN Append(f, x.frames) = 1..n + 1
      /\ \A i \in 1..n : Append(f, x.frames)[i] = f[i]
      /\ Append(f, x.frames)[n + 1] = x.frames
  <2>1. x.frames \in Seq(Pictures)
    BY <1>2
  <2> HIDE DEF f, n
  <2> QED BY <1>3, <2>1, AppendFacts
<1>5. g = Append(f, x.frames)
  <2> DEFINE a == Append(f, x.frames)
  <2> DEFINE b == Append(o, x)
  <2>1. g = [i \in 1..n + 1 |-> b[i].frames]
    BY <1>1 DEF Frames
  <2>2. a = [i \in 1..n + 1 |-> a[i]]
    <3> HIDE DEF f, n
    <3>1. a \in Seq(Seq(Pictures)) /\ DOMAIN a = 1..n + 1
      BY <1>4
    <3> HIDE DEF a
    <3>2. a \in [1..Len(a) -> Seq(Pictures)] /\ DOMAIN a = 1..Len(a)
      BY <3>1
    <3> QED BY <3>1, <3>2
  <2>3. \A i \in 1..n + 1 : a[i] = b[i].frames
    <3> TAKE i \in 1..n + 1
    <3>1. i \in 1..n \/ i = n + 1
      BY <1>1
    <3> HIDE DEF f, n, b, a
    <3>2. CASE i \in 1..n
      BY <1>1, <1>3, <1>4, <3>2 DEF a, b, n
    <3>3. CASE i = n + 1
      BY <1>1, <1>4, <3>3 DEF a, b, n
    <3> QED BY <3>1, <3>2, <3>3
  <2> HIDE DEF a, b, g, n
  <2>4. a = g
    BY <2>1, <2>2, <2>3
  <2> QED BY <2>4 DEF a
<1>6. x.frames \in Seq(Pictures)
  BY <1>2
<1>7. FlattenSeq(f) \in Seq(Pictures) /\ FlattenSeq(Append(f, x.frames)) = FlattenSeq(f) \o x.frames
  <2> HIDE DEF f
  <2> QED BY <1>3, <1>6, FlatGrows
<1> QED BY <1>5, <1>7

\* The pictures of a unit are the next ones in decode order.
LEMMA SentStep ==
    ASSUME PacketInvariant, SentExactly, Emit
    PROVE  SentExactly'
<1>1. PICK n \in 1..Depth, last \in Pictures :
              /\ n = FramesInTu
              /\ head' = head + n /\ stream' = stream
              /\ Unit(n) \in Packets /\ Unit(n).frames = [i \in 1..n |-> Entry(i - 1)]
              /\ output \in Seq(Packets)
              /\ stream[last].existing =>
                    \E h \in Pictures : Kept(n)[Len(Kept(n))] = h /\ Showing(n) \in Packets
              /\ output' = IF stream[last].existing THEN Append(Append(output, Unit(n)), Showing(n))
                           ELSE Append(output, Unit(n))
  BY EmitPosts
<1>2. /\ head \in Nat /\ n \in Nat
      /\ \A i \in 0..n - 1 : Entry(i) \in Pictures /\ stream[Entry(i)].order = head + i
  <2>1. QueueInvariant /\ Types /\ FramesInTu # 0
    BY DEF PacketInvariant, QueueInvariant, Emit
  <2>2. head \in Nat /\ n \in Nat
    BY <2>1, Numbers
  <2> QED BY <1>1, <2>1, <2>2, UnitFacts
<1> DEFINE s == FlattenSeq(Frames(output))
<1> DEFINE u == Unit(n).frames
<1>3. s \in Seq(Pictures) /\ FlattenSeq(Frames(Append(output, Unit(n)))) = s \o u
  BY <1>1, FramesGrow
<1>4. u \in Seq(Pictures)
  BY <1>1 DEF Packets
<1>5. FlattenSeq(Frames(output')) = s \o u
  <2>1. CASE ~stream[last].existing
    BY <1>1, <1>3, <2>1
  <2>2. CASE stream[last].existing
    <3> DEFINE one == Append(output, Unit(n))
    <3>1. one \in Seq(Packets)
      BY <1>1, AppendFacts
    <3>2. Showing(n) \in Packets /\ Showing(n).frames = <<>>
      BY <1>1, <2>2, WhatIsShown
    <3> HIDE DEF one
    <3>3. FlattenSeq(Frames(Append(one, Showing(n)))) = FlattenSeq(Frames(one)) \o <<>>
      BY <3>1, <3>2, FramesGrow
    <3>4. FlattenSeq(Frames(one)) = s \o u
      BY <1>3 DEF one
    <3>5. \A t \in Seq(Pictures) : t \o <<>> = t
      OBVIOUS
    <3>6. s \o u \in Seq(Pictures)
      <4> HIDE DEF s, u
      <4> QED BY <1>3, <1>4
    <3> HIDE DEF s, u
    <3> QED BY <1>1, <2>2, <3>3, <3>4, <3>5, <3>6 DEF one
  <2> QED BY <2>1, <2>2
<1>6. Len(u) = n /\ \A i \in 1..n : u[i] = Entry(i - 1)
  BY <1>1, <1>2
<1>7. Len(s) = head /\ \A i \in 1..head : stream[s[i]].order = i - 1
  BY DEF SentExactly
<1> DEFINE t == s \o u
<1>8. /\ Len(t) = head + n
      /\ \A i \in 1..head : t[i] = s[i]
      /\ \A i \in head + 1..head + n : t[i] = u[i - head]
  <2> HIDE DEF s, u
  <2>1. \A S : \A a, b \in Seq(S) :
           /\ Len(a \o b) = Len(a) + Len(b)
           /\ \A i \in 1..Len(a) : (a \o b)[i] = a[i]
           /\ \A i \in Len(a) + 1..Len(a) + Len(b) : (a \o b)[i] = b[i - Len(a)]
    OBVIOUS
  <2>2. /\ Len(t) = Len(s) + Len(u)
        /\ \A i \in 1..Len(s) : t[i] = s[i]
        /\ \A i \in Len(s) + 1..Len(s) + Len(u) : t[i] = u[i - Len(s)]
    BY <1>3, <1>4, <2>1
  <2> HIDE DEF t
  <2> QED BY <1>6, <1>7, <2>2
<1> HIDE DEF s, u, t
<1>9. \A i \in 1..head + n : stream[t[i]].order = i - 1
  <2> TAKE i \in 1..head + n
  <2>1. CASE i \in 1..head
    BY <1>7, <1>8, <2>1
  <2>2. CASE i \in head + 1..head + n
    <3> DEFINE k == i - head
    <3>1. k \in 1..n /\ k - 1 \in 0..n - 1 /\ head + (k - 1) = i - 1
      BY <1>2, <2>2
    <3>2. t[i] = u[k]
      BY <1>8, <2>2
    <3> HIDE DEF k
    <3>3. t[i] = Entry(k - 1)
      BY <1>6, <3>1, <3>2
    <3> QED BY <1>2, <3>1, <3>3
  <2> QED BY <1>2, <2>1, <2>2
<1>10. Len(t) = head' /\ \A i \in 1..head' : stream'[t[i]].order = i - 1
  BY <1>1, <1>8, <1>9
<1>11. FlattenSeq(Frames(output')) = t
  BY <1>5 DEF t
<1> QED BY <1>10, <1>11 DEF SentExactly, Frames

\* A unit ends with the picture it shows; a hidden picture was sent before the one that
\* shows it.
LEMMA ShownStep ==
    ASSUME PacketInvariant, ShownAfterSent, Emit
    PROVE  ShownAfterSent'
<1>1. PICK n \in 1..Depth, last \in Pictures :
              /\ n = FramesInTu /\ last = Entry(n - 1)
              /\ stream[last].order = head + n - 1
              /\ head' = head + n /\ stream' = stream /\ Pictures' = Pictures
              /\ Unit(n).frames = [i \in 1..n |-> Entry(i - 1)]
              /\ Len(output) \in Nat
              /\ DOMAIN output = 1..Len(output) /\ DOMAIN output' = 1..Len(output')
              /\ Len(output') = Len(output) + Displays(stream[last])
              /\ \A i \in DOMAIN output' :
                    \/ i \in DOMAIN output /\ output'[i] = output[i]
                    \/ i = Len(output) + 1 /\ output'[i] = Unit(n)
                    \/ i = Len(output) + 2 /\ output'[i] = Showing(n) /\ stream[last].existing
              /\ stream[last].existing =>
                    \E h \in Pictures : ShowsNext(stream, last, h) /\ Kept(n)[Len(Kept(n))] = h
  BY EmitPosts
<1>2. /\ Types /\ head \in Nat /\ n \in Nat /\ Displays(stream[last]) \in 1..2
      /\ \A p \in Pictures : stream[p].order \in Nat
  BY Numbers DEF PacketInvariant, QueueInvariant
<1> DEFINE m == Len(output)
<1>3. last \in Range(Unit(n).frames) /\ stream[last].number = Unit(n).shows
  <2>1. n \in 1..n
    BY <1>2
  <2> DEFINE frames == Unit(n).frames
  <2>2. n \in DOMAIN frames /\ frames[n] = last
    BY <1>1, <2>1
  <2> HIDE DEF frames
  <2>3. last \in Range(frames)
    BY <2>2 DEF Range
  <2> QED BY <1>1, <2>3, WhatIsShown DEF frames
<1> SUFFICES ASSUME NEW i \in DOMAIN output'
             PROVE  \E j \in 1..i : \E p \in Range(output'[j].frames) : stream[p].number = output'[i].shows
  BY <1>1 DEF ShownAfterSent
<1>4. CASE i \in DOMAIN output /\ output'[i] = output[i]
  <2>1. PICK j \in 1..i : \E p \in Range(output[j].frames) : stream[p].number = output[i].shows
    BY <1>4 DEF ShownAfterSent
  <2>2. j \in DOMAIN output /\ j # m + 1 /\ j # m + 2
    BY <1>1, <1>4
  <2>3. j \in DOMAIN output'
    BY <1>1, <1>2, <2>2
  <2>4. output'[j] = output[j]
    BY <1>1, <2>2, <2>3
  <2> QED BY <1>4, <2>1, <2>4
<1>5. CASE i = m + 1 /\ output'[i] = Unit(n)
  <2>1. i \in 1..i
    BY <1>1, <1>5
  <2> QED BY <1>3, <1>5, <2>1
<1>6. CASE i = m + 2 /\ output'[i] = Showing(n) /\ stream[last].existing
  <2>1. PICK h \in Pictures : ShowsNext(stream, last, h) /\ Kept(n)[Len(Kept(n))] = h
    BY <1>1, <1>6
  <2>2. output'[i].shows = stream[h].number
    BY <1>1, <1>6, <2>1, WhatIsShown DEF ShowsNext
  <2>3. stream[h].order < head + n
    <3>1. stream[h].order < stream[last].order
      BY <2>1 DEF ShowsNext
    <3> QED BY <1>1, <1>2, <3>1
  <2>4. PacketInvariant'
    BY PacketStep DEF Next, Kernel
  <2>5. h \in Pictures' /\ stream'[h].order < head'
    BY <1>1, <2>3
  <2>6. \E j \in DOMAIN output' : h \in Range(output'[j].frames)
    BY <2>4, <2>5 DEF PacketInvariant, SentInOrder
  <2>7. DOMAIN output' = 1..i
    BY <1>1, <1>6 DEF Displays
  <2> QED BY <2>2, <2>6, <2>7
<1> QED BY <1>1, <1>4, <1>5, <1>6 DEF m

\* Every step keeps decode order.
LEMMA DecodeStep ==
    ASSUME PacketInvariant, DecodeOrderInvariant, [Next]_vars
    PROVE  DecodeOrderInvariant'
<1>0. QueueInvariant
  BY DEF PacketInvariant
<1>1. CASE UNCHANGED <<stream, head, undisplayed, output>>
  BY <1>1 DEF DecodeOrderInvariant, SentExactly, ShownAfterSent, Frames
<1>2. CASE Emit
  BY <1>2, SentStep, ShownStep DEF DecodeOrderInvariant
<1> QED BY <1>0, <1>1, <1>2, OnlyEmitPosts

\* Nothing is sent yet.
LEMMA DecodeInit == Init => DecodeOrderInvariant
<1> SUFFICES ASSUME Init PROVE DecodeOrderInvariant
  OBVIOUS
<1>1. head = 0 /\ output = <<>> /\ DOMAIN output = {}
  BY DEF Init
<1>2. Frames(output) = <<>>
  BY <1>1 DEF Frames
<1>3. FlattenSeq(Frames(output)) = <<>>
  BY <1>2, FlatOfNothing
<1> QED BY <1>1, <1>3 DEF DecodeOrderInvariant, SentExactly, ShownAfterSent

\* This is what OutputInDecodeOrder says.
LEMMA DecodeOrderImplied ==
    ASSUME PacketInvariant, DecodeOrderInvariant
    PROVE  OutputInDecodeOrder
<1> DEFINE sent == FlattenSeq(Frames(output))
<1>1. FlattenSeq([i \in DOMAIN output |-> output[i].frames]) = sent
  BY DEF Frames
<1>2. DOMAIN sent = 1..head
  <2>1. output \in Seq(Packets)
    BY DEF PacketInvariant, SentInOrder
  <2>2. sent \in Seq(Pictures)
    <3> DEFINE x == [frames |-> <<>>, shows |-> 0, pts |-> 0, eos |-> FALSE, metadata |-> 0]
    <3>1. x \in Packets
      BY DEF Packets
    <3> HIDE DEF x
    <3> QED BY <2>1, <3>1, FramesGrow
  <2>3. Len(sent) = head
    BY DEF DecodeOrderInvariant, SentExactly
  <2> HIDE DEF sent
  <2> QED BY <2>2, <2>3
<1>3. \A i \in 1..head : stream[sent[i]].order = i - 1
  BY DEF DecodeOrderInvariant, SentExactly
<1>4. ShownAfterSent
  BY DEF DecodeOrderInvariant
<1> HIDE DEF sent
<1> QED BY <1>1, <1>2, <1>3, <1>4 DEF OutputInDecodeOrder, ShownAfterSent

\* The packets hold the pictures once each and in decode order, and a picture is shown
\* after it was sent.
THEOREM DecodeOrderHolds == Spec => []OutputInDecodeOrder
<1>1. Spec => []DecodeOrderInvariant
  BY DecodeInit, DecodeStep, PacketInvariantHolds, PTL DEF Spec
<1> QED BY <1>1, DecodeOrderImplied, PacketInvariantHolds, PTL

-----------------------------------------------------------------------------
\* The end of the stream.

\* The pictures are displayed under all numbers below a bound, which the picture that is
\* decoded last reaches.
LEMMA NumbersCovered ==
    ASSUME NEW s \in Streams, NEW z \in DOMAIN s, s[z].order = Cardinality(DOMAIN s) - 1
    PROVE  Cardinality({s[p].number : p \in DOMAIN s}) = s[z].number + Displays(s[z])
<1> DEFINE P == DOMAIN s
<1> DEFINE D == {s[p].number : p \in P}
<1> DEFINE shown == {p \in P : s[p].shown}
<1> DEFINE M == s[z].number + Displays(s[z])
<1>1. /\ \A p \in P : s[p].number \in Nat /\ s[p].order \in Nat /\ Displays(s[p]) \in 1..2
      /\ s[z].shown
      /\ \A p \in P : s[p].number <= s[z].number + Displays(s[z]) - 1
  BY DecisionFacts, LastDecoded
<1>2. \A q \in shown :
         \/ s[q].number = 0
         \/ \E p \in shown : /\ s[p].order < s[q].order
                             /\ s[q].number = s[p].number + Displays(s[p])
  BY StreamAssumption DEF DisplayedInTurn
<1>3. \A q \in shown : Displays(s[q]) = 2 => s[q].number + 1 \in D
  <2> TAKE q \in shown
  <2> HAVE Displays(s[q]) = 2
  <2>1. s[q].existing
    BY DEF Displays
  <2>2. PICK h \in P : ShowsNext(s, q, h)
    BY <2>1, StreamAssumption DEF HiddenAreDisplayed
  <2> QED BY <2>2 DEF ShowsNext
<1> DEFINE Covered(q) == \A k \in 0..s[q].number + Displays(s[q]) - 1 : k \in D
<1>4. \A q \in shown : Covered(q)
  <2> DEFINE T == {s[q].order : q \in {r \in shown : ~Covered(r)}}
  <2>1. T = {}
    <3> SUFFICES ASSUME T # {} PROVE FALSE
      OBVIOUS
    <3>1. T \in SUBSET Nat
      BY <1>1
    <3>2. PICK x \in T : \A y \in T : x <= y
      <4> HIDE DEF T
      <4> QED BY <3>1, Least
    <3>3. PICK q \in shown : ~Covered(q) /\ x = s[q].order
      OBVIOUS
    <3>4. \A p \in shown : s[p].order < s[q].order => Covered(p)
      <4> TAKE p \in shown
      <4> HAVE s[p].order < s[q].order
      <4> SUFFICES ASSUME ~Covered(p) PROVE FALSE
        OBVIOUS
      <4> HIDE DEF Covered
      <4>1. s[p].order \in T
        OBVIOUS
      <4>2. s[q].order <= s[p].order
        BY <3>2, <3>3, <4>1
      <4> QED BY <1>1, <4>2
    <3>5. PICK k \in 0..s[q].number + Displays(s[q]) - 1 : k \notin D
      BY <3>3
    <3>6. s[q].number \in D
      OBVIOUS
    <3>7. Displays(s[q]) = 1 \/ Displays(s[q]) = 2
      BY <1>1
    <3>8. k # s[q].number /\ (Displays(s[q]) = 2 => k # s[q].number + 1)
      BY <1>3, <3>5, <3>6
    <3>9. k \in Nat /\ k < s[q].number
      <4> HIDE DEF D
      <4> QED BY <1>1, <3>5, <3>7, <3>8
    <3>10. PICK p \in shown : s[p].order < s[q].order /\ s[q].number = s[p].number + Displays(s[p])
      BY <1>1, <1>2, <3>9
    <3>11. k \in 0..s[p].number + Displays(s[p]) - 1
      BY <1>1, <3>9, <3>10
    <3> QED BY <3>4, <3>5, <3>10, <3>11
  <2> QED BY <2>1
<1>5. z \in shown /\ M \in Nat
  BY <1>1
<1>6. \A k \in 0..M - 1 : k \in D
  <2> HIDE DEF D, shown
  <2>1. \A q \in shown : \A k \in 0..s[q].number + Displays(s[q]) - 1 : k \in D
    BY <1>4
  <2> HIDE DEF Covered, M
  <2>2. s[z].number + Displays(s[z]) - 1 = M - 1
    BY <1>1 DEF M
  <2> QED BY <1>5, <2>1, <2>2
<1>7. \A k \in D : k \in 0..M - 1
  BY <1>1
<1>8. D = 0..M - 1
  BY <1>6, <1>7
<1>9. Cardinality(0..M - 1) = M
  <2> HIDE DEF M
  <2>1. Cardinality(0..M - 1) = IF 0 > M - 1 THEN 0 ELSE M - 1 - 0 + 1
    BY <1>5, FS_Interval
  <2> QED BY <1>5, <2>1
<1> QED BY <1>8, <1>9

\* The buffer of the picture decoded last is marked when it is packed, and no other.
MarkIsOnLast == eos = {p \in Pictures : stage[p] = "packed" /\ stream[p].order = Count - 1}

EndInvariant == MarkIsOnLast /\ EndIsMarkedLast

\* Every step marks the buffer of that picture only.
LEMMA MarkStep ==
    ASSUME QueueInvariant, MarkIsOnLast, [Next]_vars
    PROVE  MarkIsOnLast'
<1>0. Types /\ stage \in [Pictures -> Stages]
  BY DEF QueueInvariant, Types
<1>1. CASE Packetize
  <2>1. PICK p \in Pictures :
              /\ stage' = [stage EXCEPT ![p] = "packed"]
              /\ eos' = IF EndsStream(p) THEN eos \cup {p} ELSE eos
              /\ stream' = stream /\ Pictures' = Pictures /\ stage[p] = "coded"
    BY <1>1, PacketizeFacts
  <2>2. EndsStream(p) <=> stream[p].order = Count - 1
    BY <1>0, EndIsLast DEF Types, Count
  <2>3. \A q \in Pictures : stage'[q] = IF q = p THEN "packed" ELSE stage[q]
    BY <1>0, <2>1
  <2>4. Count' = Count
    BY <2>1 DEF Count
  <2>5. eos' = {q \in Pictures : stage'[q] = "packed" /\ stream[q].order = Count - 1}
    BY <2>1, <2>2, <2>3 DEF MarkIsOnLast
  <2> QED BY <2>1, <2>4, <2>5 DEF MarkIsOnLast
<1>2. CASE \E p \in Pictures : Coding(p)
  <2>1. PICK p \in Pictures : /\ stage[p] # "packed" /\ stage'[p] # "packed"
                              /\ \A q \in Pictures : q # p => stage'[q] = stage[q]
                              /\ stream' = stream /\ eos' = eos /\ Pictures' = Pictures
    BY <1>0, <1>2 DEF Coding, Reconstruct, Code, kernelVars, Pictures
  <2>2. Count' = Count
    BY <2>1 DEF Count
  <2> QED BY <2>1, <2>2 DEF MarkIsOnLast
<1>3. CASE UNCHANGED <<stream, stage, eos>>
  BY <1>3 DEF MarkIsOnLast, Count, Pictures
<1>4. Packetize \/ (\E p \in Pictures : Coding(p)) \/ UNCHANGED <<stream, stage, eos>>
  BY DEF Next, Kernel, Emit, Wait, GetPacket, ReleaseBuffer, vars, kernelVars
<1> QED BY <1>1, <1>2, <1>3, <1>4

\* The packets of a unit are the last ones if its shown picture is decoded last, and the
\* mark is on the last of the two.
LEMMA EndStep ==
    ASSUME PacketInvariant, MarkIsOnLast, EndIsMarkedLast, Emit
    PROVE  EndIsMarkedLast'
<1>1. PICK n \in 1..Depth, last \in Pictures :
              /\ n = FramesInTu /\ last = Entry(n - 1) /\ stream[last].shown
              /\ stream[last].number = Len(output) /\ stage[last] = "packed"
              /\ stream' = stream /\ Pictures' = Pictures
              /\ Len(output) \in Nat
              /\ DOMAIN output = 1..Len(output)
              /\ \A i \in DOMAIN output' :
                    \/ i \in DOMAIN output /\ output'[i] = output[i]
                    \/ i = Len(output) + 1 /\ output'[i] = Unit(n)
                    \/ i = Len(output) + 2 /\ output'[i] = Showing(n) /\ stream[last].existing
  BY EmitPosts
<1> DEFINE m == Len(output)
<1> DEFINE D == Cardinality(Displayed)
<1>2. /\ Types /\ stream \in Streams /\ Count \in Nat
      /\ \A p \in Pictures : /\ stream[p].order \in 0..Count - 1 /\ stream[p].number \in Nat
                             /\ Displays(stream[p]) \in 1..2
      /\ \A p, q \in Pictures : stream[p].order = stream[q].order => p = q
      /\ \A k \in 0..Count - 1 : \E p \in Pictures : stream[p].order = k
  BY Numbers DEF PacketInvariant, QueueInvariant, Types
<1>3. PICK z \in Pictures : stream[z].order = Count - 1
  <2>1. Count - 1 \in 0..Count - 1
    BY <1>1, <1>2
  <2> QED BY <1>2, <2>1
<1>4. D = stream[z].number + Displays(stream[z])
  BY <1>2, <1>3, NumbersCovered DEF Displayed, Pictures, Count
<1>5. last # z => stream[last].number + Displays(stream[last]) <= stream[z].number
  BY <1>1, <1>2, <1>3, LastDecoded DEF Pictures, Count
<1>6. last \in eos <=> last = z
  BY <1>1, <1>2, <1>3 DEF MarkIsOnLast
<1>7. D' = D
  BY <1>1 DEF Displayed
<1>8. /\ Unit(n).eos <=> last \in eos /\ ~stream[last].existing
      /\ Showing(n).eos <=> last \in eos
  BY <1>1, WhatIsShown DEF KeepsEos
<1> HIDE DEF D
<1>9. /\ Unit(n).eos <=> m + 1 = D
      /\ stream[last].existing => (Showing(n).eos <=> m + 2 = D)
  <2>1. CASE last = z
    <3>1. D = m + Displays(stream[last])
      BY <1>1, <1>4, <2>1
    <3>2. CASE stream[last].existing
      <4>1. D = m + 2 /\ m \in Nat
        BY <1>1, <3>1, <3>2 DEF Displays
      <4> HIDE DEF m
      <4> QED BY <1>6, <1>8, <2>1, <3>2, <4>1
    <3>3. CASE ~stream[last].existing
      <4>1. D = m + 1
        BY <1>1, <3>1, <3>3 DEF Displays
      <4> QED BY <1>6, <1>8, <2>1, <3>3, <4>1
    <3> QED BY <3>2, <3>3
  <2>2. CASE last # z
    <3>1. ~Unit(n).eos /\ ~Showing(n).eos
      BY <1>6, <1>8, <2>2
    <3>2. m + Displays(stream[last]) <= stream[z].number
      BY <1>1, <1>5, <2>2
    <3>3. m + 1 # D /\ (stream[last].existing => m + 2 # D)
      <4>1. stream[last].existing => Displays(stream[last]) = 2
        BY DEF Displays
      <4>2. /\ m \in Nat /\ stream[z].number \in Nat /\ Displays(stream[z]) \in 1..2
            /\ Displays(stream[last]) \in 1..2
        BY <1>1, <1>2
      <4> HIDE DEF m
      <4> QED BY <1>4, <3>2, <4>1, <4>2
    <3> QED BY <3>1, <3>3
  <2> QED BY <2>1, <2>2
<1>10. \A i \in DOMAIN output' : output'[i].eos <=> i = D
  <2> TAKE i \in DOMAIN output'
  <2>1. CASE i \in DOMAIN output /\ output'[i] = output[i]
    BY <2>1 DEF EndIsMarkedLast, D
  <2>2. CASE i = m + 1 /\ output'[i] = Unit(n)
    BY <1>9, <2>2
  <2>3. CASE i = m + 2 /\ output'[i] = Showing(n) /\ stream[last].existing
    BY <1>9, <2>3
  <2> QED BY <1>1, <2>1, <2>2, <2>3
<1> QED BY <1>7, <1>10 DEF EndIsMarkedLast, D

\* Every step keeps the mark for the end where it belongs.
LEMMA EndInvariantStep ==
    ASSUME PacketInvariant, EndInvariant, [Next]_vars
    PROVE  EndInvariant'
<1>0. QueueInvariant
  BY DEF PacketInvariant
<1>1. MarkIsOnLast'
  BY <1>0, MarkStep DEF EndInvariant
<1>2. CASE UNCHANGED <<stream, head, undisplayed, output>>
  BY <1>1, <1>2 DEF EndInvariant, EndIsMarkedLast, Displayed, Pictures
<1>3. CASE Emit
  BY <1>1, <1>3, EndStep DEF EndInvariant
<1> QED BY <1>0, <1>2, <1>3, OnlyEmitPosts

\* The end of the stream is marked on the packet that shows its last picture.
THEOREM EndIsMarkedHolds == Spec => []EndIsMarkedLast
<1>1. Init => EndInvariant
  BY DEF Init, EndInvariant, EndIsMarkedLast, MarkIsOnLast
<1>2. Spec => []EndInvariant
  BY <1>1, EndInvariantStep, PacketInvariantHolds, PTL DEF Spec
<1> QED BY <1>2, PTL DEF EndInvariant

-----------------------------------------------------------------------------
\* The metadata of hidden pictures.

\* Every picture that shows another one waits for its references' feedback.
AllWait == \A p \in Pictures : stream[p].existing => stream[p].cdf

\* The metadata of a hidden picture is in the entry of its number until the picture that
\* shows it is packed, and then in the header at the place of that picture.
MetadataIsKept ==
    \A p, h \in Pictures : ShowsNext(stream, p, h) =>
        /\ stage[h] = "packed" /\ stage[p] # "packed" => metadata[Slot(stream[h].number)] = h
        /\ stage[p] = "packed" /\ stream[p].order >= head => existing[Slot(stream[p].order)] = h

MetadataInvariant == AllWait => MetadataIsKept /\ MetadataStaysWithPicture

\* No two hidden pictures whose metadata is kept at a time share an entry.
LEMMA EntriesDiffer ==
    ASSUME Types, NEW g \in Pictures, NEW h \in Pictures,
           ~stream[g].shown, ~stream[h].shown, ~stream[h].altRef, g # h,
           NEW i \in KeptUntil(stream, g), NEW j \in KeptUntil(stream, h),
           stream[g].order < j + MaxLag, stream[h].order < i + MaxLag
    PROVE  Slot(stream[g].number) # Slot(stream[h].number)
<1>1. stream \in Streams /\ stream[g].number \in Nat /\ stream[h].number \in Nat
  BY Numbers DEF Types
<1>2. stream[g].number - stream[h].number \in 1 - Depth..Depth - 1
  <2> DEFINE hidden == {p \in DOMAIN stream : ~stream[p].shown}
  <2>1. g \in hidden /\ h \in hidden
    BY DEF Pictures
  <2>2. QueuesSuffice(stream)
    BY <1>1, StreamAssumption
  <2>3. \A x, y \in hidden : \A a \in KeptUntil(stream, x), b \in KeptUntil(stream, y) :
            stream[x].order < b + MaxLag /\ stream[y].order < a + MaxLag =>
                stream[x].number - stream[y].number \in 1 - Depth..Depth - 1
    BY <2>2 DEF QueuesSuffice
  <2> HIDE DEF hidden
  <2> QED BY <2>1, <2>3
<1>3. stream[g].number # stream[h].number
  <2>1. HiddenAreDisplayed(stream)
    BY <1>1, StreamAssumption
  <2> QED BY <2>1 DEF HiddenAreDisplayed, Pictures
<1> QED BY <1>1, <1>2, <1>3, PlacesDiffer

\* What a picture that is packed does to the metadata.
LEMMA MetadataPacketize ==
    ASSUME QueueInvariant, AllWait, MetadataIsKept, Packetize
    PROVE  MetadataIsKept'
<1>0. /\ Types /\ CodingInOrder /\ QueueInOrder /\ stage \in [Pictures -> Stages]
      /\ metadata \in [Slots -> Pictures \cup {None}] /\ existing \in [Slots -> Pictures \cup {None}]
      /\ stream \in Streams
  BY DEF QueueInvariant, Types
<1>1. PICK q \in Pictures :
              /\ q = Head(results) /\ stage[q] = "coded"
              /\ queue[Slot(stream[q].order)] = None
              /\ stage' = [stage EXCEPT ![q] = "packed"]
              /\ stream' = stream /\ head' = head /\ Pictures' = Pictures
  BY PacketizeFacts
<1> DEFINE kept == IF stream[q].shown THEN metadata ELSE [metadata EXCEPT ![Slot(stream[q].number)] = q]
<1>2. /\ existing' = IF stream[q].existing
                     THEN [existing EXCEPT ![Slot(stream[q].order)] = kept[Slot(stream[q].number + 1)]]
                     ELSE existing
      /\ metadata' = IF stream[q].existing THEN [kept EXCEPT ![Slot(stream[q].number + 1)] = None] ELSE kept
  BY <1>1 DEF Packetize, DecodeSlot, ExistingSlot
<1>3. /\ \A p \in Pictures : /\ stream[p].order \in Nat /\ stream[p].number \in Nat
                             /\ Slot(stream[p].order) \in Slots /\ Slot(stream[p].number) \in Slots
                             /\ Slot(stream[p].number + 1) \in Slots
      /\ None \notin Pictures /\ head \in Nat /\ MaxLag \in 1..Depth /\ Depth \in Nat
  BY <1>0, Numbers
<1>4. \A p \in Pictures : stage'[p] = IF p = q THEN "packed" ELSE stage[p]
  BY <1>0, <1>1
<1>6. \A a, b \in Pictures : stage[a] # "waiting" /\ stage[b] # "packed" => stream[a].order < stream[b].order + MaxLag
  <2> TAKE a, b \in Pictures
  <2> HAVE stage[a] # "waiting" /\ stage[b] # "packed"
  <2>1. ~(stream[b].order + MaxLag <= stream[a].order)
    BY <1>0 DEF CodingInOrder
  <2> QED BY <1>3, <2>1
<1>7. kept \in [Slots -> Pictures \cup {None}]
  BY <1>0, <1>3
<1>8. \A i \in Slots : kept[i] = IF ~stream[q].shown /\ i = Slot(stream[q].number) THEN q ELSE metadata[i]
  BY <1>0
<1>9. \A i \in Slots : metadata'[i] = IF stream[q].existing /\ i = Slot(stream[q].number + 1) THEN None ELSE kept[i]
  <2> HIDE DEF kept
  <2> QED BY <1>2, <1>7
<1>10. \A i \in Slots : existing'[i] =
           IF stream[q].existing /\ i = Slot(stream[q].order) THEN kept[Slot(stream[q].number + 1)] ELSE existing[i]
  <2> HIDE DEF kept
  <2> QED BY <1>0, <1>2
<1> HIDE DEF kept
<1>11. stream[q].existing => stream[q].shown /\ \E g \in Pictures : ShowsNext(stream, q, g)
  BY <1>0, StreamAssumption DEF HiddenAreDisplayed, Pictures
<1> SUFFICES ASSUME NEW p \in Pictures, NEW h \in Pictures, ShowsNext(stream, p, h)
             PROVE  /\ stage'[h] = "packed" /\ stage'[p] # "packed" => metadata'[Slot(stream[h].number)] = h
                    /\ stage'[p] = "packed" /\ stream[p].order >= head => existing'[Slot(stream[p].order)] = h
  BY <1>1 DEF MetadataIsKept, Slot
<1>12. /\ stream[p].shown /\ ~stream[h].shown /\ ~stream[h].altRef /\ stream[p].existing
       /\ stream[h].number = stream[p].number + 1 /\ h \in stream[p].refs
       /\ \A x \in Pictures : ShowsNext(stream, x, h) => x = p
       /\ \A x \in Pictures : ShowsNext(stream, p, x) => x = h
  BY <1>0, ShowingFacts DEF ShowsNext, Pictures
<1>13. stream[p].order \in KeptUntil(stream, h)
  BY DEF KeptUntil, Pictures
<1>14. ASSUME stage'[h] = "packed", stage'[p] # "packed"
       PROVE  metadata'[Slot(stream[h].number)] = h
  <2>1. p # q /\ stage[p] # "packed"
    BY <1>4, <1>14
  <2>2. ~ShowsNext(stream, q, h)
    BY <1>12, <2>1
  <2>3. stage[h] # "waiting"
    BY <1>1, <1>4, <1>14
  <2>4. kept[Slot(stream[h].number)] = h
    <3>1. CASE h = q
      BY <1>3, <1>8, <1>12, <3>1
    <3>2. CASE h # q
      <4>1. metadata[Slot(stream[h].number)] = h
        BY <1>4, <1>14, <2>1, <3>2 DEF MetadataIsKept
      <4>2. ~stream[q].shown => Slot(stream[q].number) # Slot(stream[h].number)
        <5> SUFFICES ASSUME ~stream[q].shown
                     PROVE  Slot(stream[q].number) # Slot(stream[h].number)
          OBVIOUS
        <5>1. stream[q].order \in KeptUntil(stream, q)
          BY DEF KeptUntil
        <5>2. stream[q].order < stream[p].order + MaxLag /\ stream[h].order < stream[q].order + MaxLag
          BY <1>1, <1>6, <2>1, <2>3
        <5> QED BY <1>0, <1>12, <1>13, <3>2, <5>1, <5>2, EntriesDiffer
      <4> QED BY <1>3, <1>8, <4>1, <4>2
    <3> QED BY <3>1, <3>2
  <2>5. stream[q].existing => Slot(stream[q].number + 1) # Slot(stream[h].number)
    <3> SUFFICES ASSUME stream[q].existing
                 PROVE  Slot(stream[q].number + 1) # Slot(stream[h].number)
      OBVIOUS
    <3>1. PICK g \in Pictures : ShowsNext(stream, q, g)
      BY <1>11
    <3>2. /\ ~stream[g].shown /\ stream[g].number = stream[q].number + 1
          /\ stream[g].order < stream[q].order /\ g # h
      BY <2>2, <3>1 DEF ShowsNext
    <3>3. stream[q].order \in KeptUntil(stream, g)
      BY <3>1 DEF KeptUntil, Pictures
    <3>4. stream[q].order < stream[p].order + MaxLag /\ stream[h].order < stream[q].order + MaxLag
      BY <1>1, <1>6, <2>1, <2>3
    <3>5. stream[g].order < stream[p].order + MaxLag
      BY <1>3, <3>2, <3>4
    <3>6. Slot(stream[g].number) # Slot(stream[h].number)
      BY <1>0, <1>12, <1>13, <3>2, <3>3, <3>4, <3>5, EntriesDiffer
    <3> QED BY <3>2, <3>6
  <2> QED BY <1>3, <1>9, <2>4, <2>5
<1>15. ASSUME stage'[p] = "packed", stream[p].order >= head
       PROVE  existing'[Slot(stream[p].order)] = h
  <2>1. CASE p = q
    <3>1. stage[h] = "packed"
      <4>1. stream[q].cdf
        BY <1>12, <2>1 DEF AllWait
      <4> QED BY <1>0, <1>1, <1>12, <2>1, <4>1 DEF CodingInOrder
    <3>2. metadata[Slot(stream[h].number)] = h
      BY <1>1, <2>1, <3>1 DEF MetadataIsKept
    <3>3. kept[Slot(stream[q].number + 1)] = h
      BY <1>3, <1>8, <1>12, <2>1, <3>2
    <3> QED BY <1>3, <1>10, <1>12, <2>1, <3>3
  <2>2. CASE p # q
    <3>1. stage[p] = "packed"
      BY <1>4, <1>15, <2>2
    <3>2. existing[Slot(stream[p].order)] = h
      BY <1>15, <3>1 DEF MetadataIsKept
    <3>3. queue[Slot(stream[p].order)] = p
      BY <1>0, <1>15, <3>1 DEF QueueInOrder
    <3>4. Slot(stream[p].order) # Slot(stream[q].order)
      BY <1>1, <1>3, <3>3
    <3> QED BY <1>3, <1>10, <3>2, <3>4
  <2> QED BY <2>1, <2>2
<1> QED BY <1>14, <1>15

\* The other steps keep the metadata where it is.
LEMMA MetadataOthers ==
    ASSUME QueueInvariant, MetadataIsKept, [Next]_vars, ~Packetize
    PROVE  MetadataIsKept'
<1>0. Types /\ stage \in [Pictures -> Stages]
  BY DEF QueueInvariant, Types
<1>1. CASE Emit
  <2>1. FramesInTu \in Nat
    BY FramesAre, BoundAssumption
  <2>2. /\ UNCHANGED <<stream, stage, metadata, existing>> /\ Pictures' = Pictures
        /\ head \in Nat /\ head' >= head /\ head' \in Nat
        /\ \A p \in Pictures : stream[p].order \in Nat
    BY <1>0, <1>1, <2>1, Numbers DEF Emit, NextHead, Pictures
  <2>3. \A p \in Pictures : stream[p].order >= head' => stream[p].order >= head
    BY <2>2
  <2> QED BY <2>2, <2>3 DEF MetadataIsKept, Slot
<1>2. CASE \E p \in Pictures : Coding(p)
  <2>1. PICK p \in Pictures : /\ stage[p] # "packed" /\ stage'[p] # "packed"
                              /\ \A q \in Pictures : q # p => stage'[q] = stage[q]
                              /\ UNCHANGED <<stream, metadata, existing, head>> /\ Pictures' = Pictures
    BY <1>0, <1>2 DEF Coding, Reconstruct, Code, kernelVars, Pictures
  <2>2. \A q \in Pictures : stage'[q] = "packed" <=> stage[q] = "packed"
    BY <2>1
  <2> QED BY <2>1, <2>2 DEF MetadataIsKept, Slot
<1>3. CASE UNCHANGED <<stream, stage, metadata, existing, head>>
  BY <1>3 DEF MetadataIsKept, Pictures, Slot
<1>4. Emit \/ (\E p \in Pictures : Coding(p)) \/ UNCHANGED <<stream, stage, metadata, existing, head>>
  BY DEF Next, Kernel, Wait, GetPacket, ReleaseBuffer, vars, kernelVars
<1> QED BY <1>1, <1>2, <1>3, <1>4

\* What is posted has the metadata of the picture it shows.
LEMMA MetadataEmit ==
    ASSUME PacketInvariant, MetadataIsKept, AllWait, MetadataStaysWithPicture, Emit
    PROVE  MetadataStaysWithPicture'
<1>1. PICK n \in 1..Depth, last \in Pictures :
              /\ n = FramesInTu /\ last = Entry(n - 1)
              /\ stream[last].order = head + n - 1 /\ stage[last] = "packed"
              /\ stream' = stream /\ Pictures' = Pictures
              /\ \A i \in DOMAIN output' :
                    \/ i \in DOMAIN output /\ output'[i] = output[i]
                    \/ i = Len(output) + 1 /\ output'[i] = Unit(n)
                    \/ i = Len(output) + 2 /\ output'[i] = Showing(n) /\ stream[last].existing
              /\ stream[last].existing =>
                    \E h \in Pictures : ShowsNext(stream, last, h) /\ Kept(n)[Len(Kept(n))] = h
  BY EmitPosts
<1>2. head \in Nat /\ n \in Nat /\ None \notin Pictures
  BY Numbers DEF PacketInvariant, QueueInvariant
<1>3. Unit(n).metadata = Unit(n).shows
  BY WhatIsShown
<1>4. stream[last].existing => Showing(n).metadata = Showing(n).shows
  <2> SUFFICES ASSUME stream[last].existing PROVE Showing(n).metadata = Showing(n).shows
    OBVIOUS
  <2>1. PICK h \in Pictures : ShowsNext(stream, last, h)
    BY <1>1
  <2>2. head + n - 1 >= head
    BY <1>2
  <2>3. Header(n) = h
    BY <1>1, <2>1, <2>2 DEF MetadataIsKept, Header
  <2>4. stream[h].number = stream[last].number + 1
    BY <2>1 DEF ShowsNext
  <2> QED BY <1>1, <1>2, <2>3, <2>4, WhatIsShown
<1>5. \A i \in DOMAIN output : output[i].metadata = output[i].shows
  BY DEF MetadataStaysWithPicture, AllWait
<1>6. \A i \in DOMAIN output' : output'[i].metadata = output'[i].shows
  BY <1>1, <1>3, <1>4, <1>5
<1> QED BY <1>6 DEF MetadataStaysWithPicture

\* Every step keeps the metadata with its picture.
LEMMA MetadataStep ==
    ASSUME PacketInvariant, MetadataInvariant, [Next]_vars
    PROVE  MetadataInvariant'
<1>0. QueueInvariant
  BY DEF PacketInvariant
<1> SUFFICES ASSUME AllWait' PROVE MetadataIsKept' /\ MetadataStaysWithPicture'
  BY DEF MetadataInvariant
<1>1. stream' = stream /\ Pictures' = Pictures
  BY <1>0, OnlyEmitPosts DEF Emit, Pictures
<1>2. AllWait
  BY <1>1 DEF AllWait
<1>3. MetadataIsKept /\ MetadataStaysWithPicture
  BY <1>2 DEF MetadataInvariant
<1>4. MetadataIsKept'
  BY <1>0, <1>2, <1>3, MetadataPacketize, MetadataOthers
<1>5. MetadataStaysWithPicture'
  <2>1. CASE Emit
    BY <1>2, <1>3, <2>1, MetadataEmit
  <2>2. CASE UNCHANGED <<stream, head, undisplayed, output>>
    BY <1>3, <2>2 DEF MetadataStaysWithPicture, Pictures
  <2> QED BY <1>0, <2>1, <2>2, OnlyEmitPosts
<1> QED BY <1>4, <1>5

\* A packet carries the metadata of the picture it shows, as long as the pictures that
\* show others wait for their references' feedback.
THEOREM MetadataHolds == Spec => []MetadataStaysWithPicture
<1>1. Init => MetadataInvariant
  BY DEF Init, MetadataInvariant, MetadataIsKept, MetadataStaysWithPicture
<1>2. Spec => []MetadataInvariant
  BY <1>1, MetadataStep, PacketInvariantHolds, PTL DEF Spec
<1>3. MetadataInvariant => MetadataStaysWithPicture
  BY DEF MetadataInvariant, MetadataStaysWithPicture, AllWait
<1> QED BY <1>2, <1>3, PTL
=============================================================================
