---------------------------- MODULE EncDecProofs ----------------------------
(***************************************************************************)
(* The segments of a picture are coded by one worker each, in an order     *)
(* that gives every superblock its neighbours, and the picture is handed   *)
(* on complete: for every layout and every number of workers.              *)
(*                                                                         *)
(* The argument follows the rows of segments.  At any time a row is held   *)
(* by one owner at most: a task, or a worker that starts, codes or hands   *)
(* on a segment of it.  own says who that is, right and below which        *)
(* segments have cleared the dependency on their right and below them.     *)
(* The three are not variables of the program, and exist by the invariant. *)
(***************************************************************************)
EXTENDS EncDec, FiniteSetTheorems, WellFoundedInduction, TLAPS

-----------------------------------------------------------------------------
(* Sums of a function over a finite set, as the community modules fold     *)
(* them.  Induction goes by a least counterexample.                        *)

Sum(f, S) == FoldFunctionOnSet(+, 0, f, S)

\* it is the function the fold defines on the subsets of S.
Sums(f, S, it) ==
    it = [s \in SUBSET S |->
            IF s = {} THEN 0
            ELSE f[CHOOSE x \in s : TRUE] + it[s \ {CHOOSE x \in s : TRUE}]]

\* A nonempty set of natural numbers has a least element.
LEMMA Least ==
    ASSUME NEW T \in SUBSET Nat, T # {}
    PROVE  \E x \in T : \A y \in T : x <= y
<1> DEFINE S == {0 .. x : x \in T}
<1>1. S \subseteq FiniteSubsetsOf(Nat) /\ S # {}
  <2>1. \A x \in T : IsFiniteSet(0 .. x) /\ 0 .. x \in SUBSET Nat
    BY FS_Interval
  <2> QED BY <2>1 DEF FiniteSubsetsOf
<1>2. IsWellFoundedOn(StrictSubsetOrdering(Nat), FiniteSubsetsOf(Nat))
  BY FS_StrictSubsetOrderingWellFounded
<1>3. \E x \in S : \A y \in S : ~ (<<y, x>> \in StrictSubsetOrdering(Nat))
  <2> HIDE DEF S
  <2> QED BY <1>1, <1>2, WFMin
<1>4. PICK x \in T : \A y \in T : ~ (<<0 .. y, 0 .. x>> \in StrictSubsetOrdering(Nat))
  BY <1>3
<1>5. \A y \in T : y < x => <<0 .. y, 0 .. x>> \in StrictSubsetOrdering(Nat)
  <2> TAKE y \in T
  <2> SUFFICES ASSUME y < x
               PROVE  <<0 .. y, 0 .. x>> \in StrictSubsetOrdering(Nat)
    OBVIOUS
  <2>1. 0 .. y \in SUBSET Nat /\ 0 .. x \in SUBSET Nat /\ 0 .. y \subseteq 0 .. x
    OBVIOUS
  <2>2. x \in 0 .. x /\ x \notin 0 .. y
    OBVIOUS
  <2> DEFINE a == 0 .. y
  <2> DEFINE b == 0 .. x
  <2>3. a \in SUBSET Nat /\ b \in SUBSET Nat /\ a \subseteq b /\ a # b
    BY <2>1, <2>2
  <2> HIDE DEF a, b
  <2>4. <<a, b>> \in StrictSubsetOrdering(Nat)
    BY <2>3 DEF StrictSubsetOrdering
  <2> QED BY <2>4 DEF a, b
<1>6. \A y \in T : ~(y < x)
  BY <1>4, <1>5
<1>7. \A y \in T : x <= y
  BY <1>6
<1> QED BY <1>7

\* Of the finite sets in a nonempty set one has the fewest elements.
LEMMA SmallestSet ==
    ASSUME NEW C, C # {}, \A s \in C : IsFiniteSet(s)
    PROVE  \E s \in C : \A t : IsFiniteSet(t) /\ Cardinality(t) < Cardinality(s) => t \notin C
<1> DEFINE T == {Cardinality(s) : s \in C}
<1>1. \A s \in C : Cardinality(s) \in Nat
  BY FS_CardinalityType
<1>2. T \in SUBSET Nat /\ T # {}
  BY <1>1
<1>3. \E x \in T : \A y \in T : x <= y
  <2> HIDE DEF T
  <2> QED BY <1>2, Least
<1>4. PICK s \in C : \A t \in C : Cardinality(s) <= Cardinality(t)
  BY <1>3
<1>5. \A t \in C : ~(Cardinality(t) < Cardinality(s))
  BY <1>1, <1>4
<1> QED BY <1>5

\* One member less.
LEMMA OneLess ==
    ASSUME NEW S, IsFiniteSet(S), NEW x \in S
    PROVE  /\ IsFiniteSet(S \ {x}) /\ Cardinality(S \ {x}) < Cardinality(S)
           /\ Cardinality(S) \in Nat
<1>1. IsFiniteSet(S \ {x}) /\ Cardinality(S \ {x}) = Cardinality(S) - 1
  BY FS_RemoveElement
<1>2. Cardinality(S) \in Nat
  BY FS_CardinalityType
<1> QED BY <1>1, <1>2

\* There is one sum of a set at most.
LEMMA SumIsUnique ==
    ASSUME NEW f, NEW A, NEW B, NEW a, NEW b, Sums(f, A, a), Sums(f, B, b),
           NEW s \in SUBSET A, s \in SUBSET B, IsFiniteSet(s)
    PROVE  a[s] = b[s]
<1> DEFINE C == {t \in SUBSET s : a[t] # b[t]}
<1>1. \A t \in SUBSET s : IsFiniteSet(t)
  BY FS_Subset
<1>2. C = {}
  <2> SUFFICES ASSUME C # {}
               PROVE  FALSE
    OBVIOUS
  <2>1. PICK t \in C : \A u : IsFiniteSet(u) /\ Cardinality(u) < Cardinality(t) => u \notin C
    <3> HIDE DEF C
    <3>1. \A u \in C : IsFiniteSet(u)
      BY <1>1 DEF C
    <3> QED BY <3>1, SmallestSet
  <2> DEFINE x == CHOOSE x \in t : TRUE
  <2>2. t \in SUBSET A /\ t \in SUBSET B /\ IsFiniteSet(t)
    BY <1>1
  <2>3. /\ a[t] = IF t = {} THEN 0 ELSE f[x] + a[t \ {x}]
        /\ b[t] = IF t = {} THEN 0 ELSE f[x] + b[t \ {x}]
    BY <2>2 DEF Sums
  <2>4. t # {} => x \in t
    OBVIOUS
  <2> HIDE DEF x
  <2>5. t # {} => a[t \ {x}] = b[t \ {x}]
    <3> SUFFICES ASSUME t # {}
                 PROVE  a[t \ {x}] = b[t \ {x}]
      OBVIOUS
    <3>1. IsFiniteSet(t \ {x}) /\ Cardinality(t \ {x}) < Cardinality(t)
      BY <2>2, <2>4, OneLess
    <3>2. t \ {x} \in SUBSET s /\ t \ {x} \notin C
      BY <2>1, <3>1
    <3> QED BY <3>2
  <2>6. a[t] = b[t]
    BY <2>3, <2>5
  <2> QED BY <2>6
<1> QED BY <1>2

\* What Sum is when the fold defines a function.
LEMMA SumIsFold ==
    ASSUME NEW f, NEW S, \E it : Sums(f, S, it)
    PROVE  \E it : Sums(f, S, it) /\ Sum(f, S) = it[S]
<1>1. Sum(f, S) = (CHOOSE it : Sums(f, S, it))[S]
  BY DEF Sum, FoldFunctionOnSet, MapThenFoldSet, Sums
<1> QED BY <1>1

\* The fold of a finite set is defined, and takes an element away at a time.
LEMMA SumExists ==
    ASSUME NEW f, NEW S, IsFiniteSet(S)
    PROVE  \E it : Sums(f, S, it)
<1> DEFINE C == {T \in SUBSET S : ~ \E it : Sums(f, T, it)}
<1>1. \A T \in SUBSET S : IsFiniteSet(T)
  BY FS_Subset
<1>2. C = {}
  <2> SUFFICES ASSUME C # {}
               PROVE  FALSE
    OBVIOUS
  <2>1. PICK T \in C : \A U : IsFiniteSet(U) /\ Cardinality(U) < Cardinality(T) => U \notin C
    <3> HIDE DEF C
    <3>1. \A U \in C : IsFiniteSet(U)
      BY <1>1 DEF C
    <3> QED BY <3>1, SmallestSet
  <2> DEFINE x(s) == CHOOSE x \in s : TRUE
  <2>2. T \in SUBSET S /\ IsFiniteSet(T) /\ ~ \E it : Sums(f, T, it)
    BY <1>1
  <2>3. \A U \in SUBSET T : U # T => \E it : Sums(f, U, it) /\ Sum(f, U) = it[U]
    <3> TAKE U \in SUBSET T
    <3> SUFFICES ASSUME U # T
                 PROVE  \E it : Sums(f, U, it) /\ Sum(f, U) = it[U]
      OBVIOUS
    <3>1. IsFiniteSet(U) /\ Cardinality(U) < Cardinality(T)
      <4>1. /\ IsFiniteSet(U) /\ Cardinality(U) <= Cardinality(T)
            /\ Cardinality(T) = Cardinality(U) => T = U
        BY <2>2, FS_Subset
      <4>2. Cardinality(U) \in Nat /\ Cardinality(T) \in Nat
        BY <2>2, <4>1, FS_CardinalityType
      <4> QED BY <4>1, <4>2
    <3>2. U \in SUBSET S /\ U \notin C
      BY <2>1, <2>2, <3>1
    <3>3. \E it : Sums(f, U, it)
      BY <3>2
    <3> QED BY <3>3, SumIsFold
  <2>4. \A U \in SUBSET T : U # T =>
           Sum(f, U) = IF U = {} THEN 0 ELSE f[x(U)] + Sum(f, U \ {x(U)})
    <3> TAKE U \in SUBSET T
    <3> SUFFICES ASSUME U # T
                 PROVE  Sum(f, U) = IF U = {} THEN 0 ELSE f[x(U)] + Sum(f, U \ {x(U)})
      OBVIOUS
    <3>1. PICK it : Sums(f, U, it) /\ Sum(f, U) = it[U]
      BY <2>3
    <3>2. U \in SUBSET U
      OBVIOUS
    <3>3. it[U] = IF U = {} THEN 0 ELSE f[x(U)] + it[U \ {x(U)}]
      BY <3>1, <3>2 DEF Sums
    <3>4. CASE U = {}
      BY <3>1, <3>3, <3>4
    <3>5. CASE U # {}
      <4> DEFINE V == U \ {x(U)}
      <4>1. x(U) \in U
        BY <3>5
      <4>2. V \in SUBSET T /\ V # T /\ V \in SUBSET U
        BY <4>1
      <4>3. PICK jt : Sums(f, V, jt) /\ Sum(f, V) = jt[V]
        <5> HIDE DEF V
        <5> QED BY <2>3, <4>2
      <4>4. IsFiniteSet(V)
        <5> HIDE DEF V
        <5> QED BY <2>2, <4>2, FS_Subset
      <4>5. it[V] = jt[V]
        <5> HIDE DEF V
        <5>1. V \in SUBSET V
          OBVIOUS
        <5> QED BY <3>1, <4>2, <4>3, <4>4, <5>1, SumIsUnique
      <4> QED BY <3>1, <3>3, <3>5, <4>3, <4>5
    <3> QED BY <3>4, <3>5
  <2> DEFINE top == IF T = {} THEN 0 ELSE f[x(T)] + Sum(f, T \ {x(T)})
  <2> DEFINE it == [s \in SUBSET T |-> IF s = T THEN top ELSE Sum(f, s)]
  <2>5. \A s \in SUBSET T : it[s] = IF s = {} THEN 0 ELSE f[x(s)] + it[s \ {x(s)}]
    <3> TAKE s \in SUBSET T
    <3>1. s # {} => x(s) \in s
      OBVIOUS
    <3> HIDE DEF x
    <3>2. s # {} => it[s \ {x(s)}] = Sum(f, s \ {x(s)})
      BY <3>1
    <3>3. CASE s = T
      BY <3>2, <3>3
    <3>4. CASE s # T
      <4>1. it[s] = Sum(f, s)
        BY <3>4
      <4> HIDE DEF it
      <4> QED BY <2>4, <3>2, <3>4, <4>1
    <3> QED BY <3>3, <3>4
  <2>6. it = [s \in SUBSET T |-> it[s]]
    OBVIOUS
  <2> HIDE DEF it
  <2>7. Sums(f, T, it)
    BY <2>5, <2>6 DEF Sums
  <2> QED BY <2>2, <2>7
<1> QED BY <1>2

\* The sum over a set is what the fold says of the element it chooses.
LEMMA SumOfChosen ==
    ASSUME NEW f, NEW S, IsFiniteSet(S)
    PROVE  Sum(f, S) = IF S = {} THEN 0
                       ELSE f[CHOOSE x \in S : TRUE] + Sum(f, S \ {CHOOSE x \in S : TRUE})
<1> DEFINE x == CHOOSE x \in S : TRUE
<1> DEFINE V == S \ {x}
<1>1. PICK it : Sums(f, S, it) /\ Sum(f, S) = it[S]
  BY SumExists, SumIsFold
<1>2. it[S] = IF S = {} THEN 0 ELSE f[x] + it[V]
  <2>1. S \in SUBSET S
    OBVIOUS
  <2> QED BY <1>1, <2>1 DEF Sums
<1>3. it[V] = Sum(f, V)
  <2>1. V \in SUBSET S
    OBVIOUS
  <2> HIDE DEF V
  <2>2. IsFiniteSet(V) /\ V \in SUBSET V
    BY <2>1, FS_Subset
  <2>3. PICK jt : Sums(f, V, jt) /\ Sum(f, V) = jt[V]
    BY <2>2, SumExists, SumIsFold
  <2> QED BY <1>1, <2>1, <2>2, <2>3, SumIsUnique
<1> QED BY <1>1, <1>2, <1>3

\* Nothing sums to zero.
LEMMA SumOfNothing ==
    ASSUME NEW f
    PROVE  Sum(f, {}) = 0
BY SumOfChosen, FS_EmptySet

\* A sum of natural numbers is one.
LEMMA SumIsNumber ==
    ASSUME NEW S, IsFiniteSet(S), NEW f, \A x \in S : f[x] \in Nat
    PROVE  Sum(f, S) \in Nat
<1> DEFINE C == {T \in SUBSET S : Sum(f, T) \notin Nat}
<1>1. \A T \in SUBSET S : IsFiniteSet(T)
  BY FS_Subset
<1>2. C = {}
  <2> SUFFICES ASSUME C # {}
               PROVE  FALSE
    OBVIOUS
  <2>1. PICK T \in C : \A U : IsFiniteSet(U) /\ Cardinality(U) < Cardinality(T) => U \notin C
    <3> HIDE DEF C
    <3>1. \A U \in C : IsFiniteSet(U)
      BY <1>1 DEF C
    <3> QED BY <3>1, SmallestSet
  <2> DEFINE x == CHOOSE x \in T : TRUE
  <2>2. T \in SUBSET S /\ IsFiniteSet(T) /\ Sum(f, T) \notin Nat
    BY <1>1
  <2>3. Sum(f, T) = IF T = {} THEN 0 ELSE f[x] + Sum(f, T \ {x})
    BY <2>2, SumOfChosen
  <2>4. T # {} => x \in T
    OBVIOUS
  <2> HIDE DEF x
  <2>5. CASE T = {}
    BY <2>2, <2>3, <2>5
  <2>6. CASE T # {}
    <3>1. IsFiniteSet(T \ {x}) /\ Cardinality(T \ {x}) < Cardinality(T)
      BY <2>2, <2>4, <2>6, OneLess
    <3>2. T \ {x} \notin C
      BY <2>1, <3>1
    <3>3. Sum(f, T \ {x}) \in Nat /\ f[x] \in Nat
      BY <2>2, <2>4, <2>6, <3>2
    <3> QED BY <2>2, <2>3, <2>6, <3>3
  <2> QED BY <2>5, <2>6
<1> QED BY <1>2

\* Any element can be taken out of a sum.
LEMMA SumSplits ==
    ASSUME NEW S, IsFiniteSet(S), NEW f, \A x \in S : f[x] \in Nat, NEW y \in S
    PROVE  Sum(f, S) = f[y] + Sum(f, S \ {y})
<1> DEFINE C == {T \in SUBSET S : \E z \in T : Sum(f, T) # f[z] + Sum(f, T \ {z})}
<1>1. \A T \in SUBSET S : IsFiniteSet(T) /\ Sum(f, T) \in Nat
  <2> TAKE T \in SUBSET S
  <2>1. IsFiniteSet(T) /\ \A x \in T : f[x] \in Nat
    BY FS_Subset
  <2> QED BY <2>1, SumIsNumber
<1>2. C = {}
  <2> SUFFICES ASSUME C # {}
               PROVE  FALSE
    OBVIOUS
  <2>1. PICK T \in C : \A U : IsFiniteSet(U) /\ Cardinality(U) < Cardinality(T) => U \notin C
    <3> HIDE DEF C
    <3>1. \A U \in C : IsFiniteSet(U)
      BY <1>1 DEF C
    <3> QED BY <3>1, SmallestSet
  <2>2. T \in SUBSET S /\ IsFiniteSet(T)
    BY <1>1
  <2>3. PICK z \in T : Sum(f, T) # f[z] + Sum(f, T \ {z})
    BY <2>1
  <2> DEFINE x == CHOOSE x \in T : TRUE
  <2>4. Sum(f, T) = f[x] + Sum(f, T \ {x}) /\ x \in T
    BY <2>2, SumOfChosen
  <2> HIDE DEF x
  <2>5. x # z
    BY <2>3, <2>4
  <2>6. /\ Cardinality(T \ {x}) < Cardinality(T) /\ IsFiniteSet(T \ {x})
        /\ Cardinality(T \ {z}) < Cardinality(T) /\ IsFiniteSet(T \ {z})
    BY <2>2, <2>4, OneLess
  <2>7. Sum(f, T \ {x}) = f[z] + Sum(f, (T \ {x}) \ {z})
    <3>1. T \ {x} \in SUBSET S /\ T \ {x} \notin C /\ z \in T \ {x}
      BY <2>1, <2>2, <2>5, <2>6
    <3> QED BY <3>1
  <2>8. Sum(f, T \ {z}) = f[x] + Sum(f, (T \ {z}) \ {x})
    <3>1. T \ {z} \in SUBSET S /\ T \ {z} \notin C /\ x \in T \ {z}
      BY <2>1, <2>2, <2>4, <2>5, <2>6
    <3> QED BY <3>1
  <2>9. (T \ {x}) \ {z} = (T \ {z}) \ {x}
    OBVIOUS
  <2>10. Sum(f, (T \ {x}) \ {z}) \in Nat /\ f[x] \in Nat /\ f[z] \in Nat
    <3>1. (T \ {x}) \ {z} \in SUBSET S
      BY <2>2
    <3> QED BY <1>1, <2>2, <2>4, <3>1
  <2> QED BY <2>3, <2>4, <2>7, <2>8, <2>9, <2>10
<1>3. S \notin C
  BY <1>2
<1> QED BY <1>3

\* A sum depends on the summands only.
LEMMA SumOfSame ==
    ASSUME NEW S, IsFiniteSet(S), NEW f, NEW g, \A x \in S : f[x] = g[x]
    PROVE  Sum(f, S) = Sum(g, S)
<1> DEFINE C == {T \in SUBSET S : Sum(f, T) # Sum(g, T)}
<1>1. \A T \in SUBSET S : IsFiniteSet(T)
  BY FS_Subset
<1>2. C = {}
  <2> SUFFICES ASSUME C # {}
               PROVE  FALSE
    OBVIOUS
  <2>1. PICK T \in C : \A U : IsFiniteSet(U) /\ Cardinality(U) < Cardinality(T) => U \notin C
    <3> HIDE DEF C
    <3>1. \A U \in C : IsFiniteSet(U)
      BY <1>1 DEF C
    <3> QED BY <3>1, SmallestSet
  <2> DEFINE x == CHOOSE x \in T : TRUE
  <2>2. T \in SUBSET S /\ IsFiniteSet(T) /\ Sum(f, T) # Sum(g, T)
    BY <1>1
  <2>3. /\ Sum(f, T) = IF T = {} THEN 0 ELSE f[x] + Sum(f, T \ {x})
        /\ Sum(g, T) = IF T = {} THEN 0 ELSE g[x] + Sum(g, T \ {x})
    BY <2>2, SumOfChosen
  <2>4. T # {} => x \in T
    OBVIOUS
  <2> HIDE DEF x
  <2>5. T # {}
    BY <2>2, <2>3
  <2>6. IsFiniteSet(T \ {x}) /\ Cardinality(T \ {x}) < Cardinality(T)
    BY <2>2, <2>4, <2>5, OneLess
  <2>7. T \ {x} \notin C
    BY <2>1, <2>6
  <2>8. Sum(f, T \ {x}) = Sum(g, T \ {x}) /\ f[x] = g[x]
    BY <2>2, <2>4, <2>5, <2>7
  <2> QED BY <2>2, <2>3, <2>5, <2>8
<1>3. S \notin C
  BY <1>2
<1> QED BY <1>3

\* An element more adds its summand.
LEMMA SumGrows ==
    ASSUME NEW S, IsFiniteSet(S), NEW y, y \notin S, NEW f,
           \A x \in S \cup {y} : f[x] \in Nat
    PROVE  Sum(f, S \cup {y}) = f[y] + Sum(f, S)
<1>1. IsFiniteSet(S \cup {y}) /\ (S \cup {y}) \ {y} = S
  BY FS_AddElement
<1> QED BY <1>1, SumSplits

\* A sum is at least each of its summands, and zero only when all are.
LEMMA SumBounds ==
    ASSUME NEW S, IsFiniteSet(S), NEW f, \A x \in S : f[x] \in Nat, NEW y \in S
    PROVE  f[y] <= Sum(f, S)
<1>1. Sum(f, S) = f[y] + Sum(f, S \ {y})
  BY SumSplits
<1>2. Sum(f, S \ {y}) \in Nat
  <2>1. IsFiniteSet(S \ {y}) /\ \A x \in S \ {y} : f[x] \in Nat
    BY FS_RemoveElement
  <2> QED BY <2>1, SumIsNumber
<1> QED BY <1>1, <1>2

-----------------------------------------------------------------------------
(* What EncDec relies on of the geometry of segments, for tile groups and  *)
(* segment counts of any size.                                             *)

\* The segments of a row.
SegsIn(g, r) == StartOf(g, r) .. EndOf(g, r)

-----------------------------------------------------------------------------
(* Division.                                                               *)

\* A quotient is what its bounds say.
LEMMA Quotient ==
    ASSUME NEW a \in Nat, NEW n \in Nat \ {0}
    PROVE  /\ a \div n \in Nat /\ n * (a \div n) <= a /\ a < n * (a \div n) + n
           /\ \A q \in Nat : n * q <= a /\ a < n * q + n => a \div n = q
BY SMT

\* A quotient grows with its dividend.
LEMMA QuotientGrows ==
    ASSUME NEW a \in Nat, NEW b \in Nat, a <= b, NEW n \in Nat \ {0}
    PROVE  a \div n <= b \div n
BY SMT

\* Quotients of dividends that are less than a divisor apart.
LEMMA QuotientSteps ==
    ASSUME NEW a \in Nat, NEW b \in Nat, NEW n \in Nat \ {0}, a <= b, b <= a + n
    PROVE  b \div n \in a \div n .. a \div n + 1
BY SMT

\* The quotient rounded up is the first that is large enough.
LEMMA QuotientUp ==
    ASSUME NEW a \in Nat, NEW n \in Nat \ {0}, NEW k \in Nat
    PROVE  (a + n - 1) \div n <= k <=> a <= n * k
<1>1. (a + n - 1) \div n \in Nat /\ n * ((a + n - 1) \div n) <= a + n - 1
      /\ a + n - 1 < n * ((a + n - 1) \div n) + n
  BY SMT
<1> DEFINE q == (a + n - 1) \div n
<1>2. n * q \in Nat /\ n * k \in Nat /\ q \in Nat
  BY <1>1
<1>3. q <= k => n * q <= n * k
  BY <1>1, SMT
<1>4. q >= k + 1 => n * q >= n * k + n
  BY <1>1, SMT
<1> QED BY <1>1, <1>2, <1>3, <1>4

\* The multiple and the rest.
LEMMA Split ==
    ASSUME NEW r \in Nat, NEW n \in Nat \ {0}, NEW b \in 0 .. n - 1
    PROVE  (r * n + b) \div n = r /\ (r * n + b) % n = b
BY SMT

-----------------------------------------------------------------------------
(* Rows, bands and segments.                                               *)

\* The counts are positive, and no larger than the tile group.
LEMMA Counts ==
    ASSUME NEW g \in Shapes
    PROVE  /\ g.w \in Nat \ {0} /\ g.h \in Nat \ {0}
           /\ ColCount(g) \in 1 .. g.w /\ RowCount(g) \in 1 .. g.h
           /\ BandCount(g) \in Nat \ {0} /\ SbBandCount(g) \in Nat \ {0}
           /\ BandCount(g) <= SbBandCount(g) /\ BandCount(g) >= RowCount(g)
           /\ BandCount(g) = RowCount(g) + ColCount(g) - 1
           /\ SbBandCount(g) = g.h + g.w - 1
BY SMT DEF Shapes, ColCount, RowCount, BandCount, SbBandCount, AtMost

\* The first and the last line of a row of segments.
Top(g, r) == (r * g.h + RowCount(g) - 1) \div RowCount(g)
Bottom(g, r) == Top(g, r + 1) - 1

\* A line is in the row whose first and last line it is between.
LEMMA RowOfLine ==
    ASSUME NEW g \in Shapes
    PROVE  /\ Top(g, 0) = 0 /\ Top(g, RowCount(g)) = g.h
           /\ \A r \in 0 .. RowCount(g) : Top(g, r) \in 0 .. g.h
           /\ \A r \in Rows(g) : Top(g, r) <= Bottom(g, r)
           /\ \A y \in 0 .. g.h - 1 : RowIndex(g, y) \in Rows(g)
           /\ \A y \in 0 .. g.h - 1, r \in Rows(g) :
                 RowIndex(g, y) = r <=> Top(g, r) <= y /\ y <= Bottom(g, r)
<1> DEFINE R == RowCount(g)
<1> DEFINE h == g.h
<1>1. R \in Nat \ {0} /\ h \in Nat \ {0} /\ R <= h
  BY Counts
<1>2. \A r \in Nat : r * h \in Nat
  BY <1>1
<1>3. \A r \in Nat, y \in Nat : Top(g, r) <= y <=> r * h <= R * y
  <2> TAKE r \in Nat, y \in Nat
  <2> QED BY <1>1, <1>2, QuotientUp DEF Top
<1>4. \A r \in Nat : Top(g, r) \in Nat
  <2> TAKE r \in Nat
  <2>1. r * h + R - 1 \in Nat
    BY <1>1, <1>2
  <2> QED BY <1>1, <2>1, Quotient DEF Top
<1>5. Top(g, 0) = 0
  <2>1. 0 * h <= R * 0
    BY <1>1
  <2> QED BY <1>3, <1>4, <2>1
<1>6. Top(g, R) = h
  <2>1. R * h <= R * h /\ R * (h - 1) < R * h
    BY <1>1, SMT
  <2>2. h \in Nat /\ h - 1 \in Nat /\ R \in Nat
    BY <1>1
  <2>3. Top(g, R) <= h /\ ~(Top(g, R) <= h - 1)
    <3>1. R * h \in Nat /\ R * (h - 1) \in Nat
      BY <2>2
    <3> QED BY <1>3, <2>1, <2>2, <3>1
  <2> QED BY <1>4, <2>2, <2>3
<1>7. \A r \in 0 .. R : Top(g, r) \in 0 .. h
  <2> TAKE r \in 0 .. R
  <2>1. r * h <= R * h
    BY <1>1, SMT
  <2> QED BY <1>1, <1>3, <1>4, <2>1
<1>8. \A r \in Rows(g) : Top(g, r) <= Bottom(g, r)
  <2> TAKE r \in Rows(g)
  <2> DEFINE y == Top(g, r + 1) - 1
  <2>1. r \in Nat /\ r + 1 \in Nat /\ (r + 1) * h = r * h + h /\ r * h >= 0 /\ r * h \in Nat
    BY <1>1 DEF Rows
  <2>2. Top(g, r + 1) # 0
    <3>1. ~((r + 1) * h <= R * 0)
      BY <1>1, <2>1
    <3> QED BY <1>3, <1>4, <2>1, <3>1
  <2>3. y \in Nat /\ y + 1 = Top(g, r + 1)
    BY <1>4, <2>1, <2>2
  <2>4. (r + 1) * h <= R * (y + 1)
    BY <1>3, <1>4, <2>1, <2>3
  <2>5. R * (y + 1) = R * y + R /\ R * y \in Nat
    BY <1>1, <2>3
  <2>6. r * h <= R * y
    BY <1>1, <2>1, <2>4, <2>5
  <2> QED BY <1>3, <2>1, <2>3, <2>6 DEF Bottom
<1>9. \A y \in 0 .. h - 1 : RowIndex(g, y) \in Rows(g)
  <2> TAKE y \in 0 .. h - 1
  <2>1. y * R \in Nat /\ y * R < R * h
    BY <1>1, SMT
  <2>2. (y * R) \div h < R
    BY <1>1, <2>1, SMT
  <2> QED BY <1>1, <2>1, <2>2, Quotient DEF RowIndex, Rows
<1>10. \A y \in 0 .. h - 1, r \in Rows(g) :
          RowIndex(g, y) = r <=> Top(g, r) <= y /\ y <= Bottom(g, r)
  <2> TAKE y \in 0 .. h - 1, r \in Rows(g)
  <2>1. r \in Nat /\ r + 1 \in Nat /\ y \in Nat /\ (r + 1) * h = r * h + h
    BY <1>1 DEF Rows
  <2>2. y * R = R * y /\ R * y \in Nat /\ r * h = h * r /\ r * h \in Nat
    BY <1>1, <2>1
  <2>3. RowIndex(g, y) = r <=> h * r <= R * y /\ R * y < h * r + h
    <3>1. (R * y) \div h = r <=> h * r <= R * y /\ R * y < h * r + h
      BY <1>1, <2>1, <2>2, Quotient
    <3> QED BY <2>2, <3>1 DEF RowIndex
  <2>4. Top(g, r) <= y <=> r * h <= R * y
    BY <1>3, <2>1
  <2>5. Top(g, r + 1) <= y <=> (r + 1) * h <= R * y
    BY <1>3, <2>1
  <2>6. Top(g, r + 1) \in Nat
    BY <1>4, <2>1
  <2> QED BY <1>1, <2>1, <2>2, <2>3, <2>4, <2>5, <2>6 DEF Bottom
<1> QED BY <1>5, <1>6, <1>7, <1>8, <1>9, <1>10

\* The band of a diagonal, and the first diagonal of a band.
BandOf(g, d) == (d * BandCount(g)) \div SbBandCount(g)
FirstDiagonal(g, b) == (SbBandCount(g) * b + BandCount(g) - 1) \div BandCount(g)

\* The bands cut the diagonals into intervals, none of them empty.
LEMMA BandOfDiagonal ==
    ASSUME NEW g \in Shapes
    PROVE  /\ \A d \in 0 .. SbBandCount(g) - 1 : BandOf(g, d) \in 0 .. BandCount(g) - 1
           /\ \A b \in 0 .. BandCount(g) : FirstDiagonal(g, b) \in 0 .. SbBandCount(g)
           /\ \A d \in Nat, b \in Nat : FirstDiagonal(g, b) <= d <=> b <= BandOf(g, d)
           /\ \A b \in 0 .. BandCount(g) - 1 :
                 FirstDiagonal(g, b) < SbBandCount(g) /\ BandOf(g, FirstDiagonal(g, b)) = b
           /\ \A d \in Nat : BandOf(g, d) \in Nat /\ BandOf(g, d + 1) \in BandOf(g, d) .. BandOf(g, d) + 1
           /\ \A c, d \in Nat : c <= d => BandOf(g, c) <= BandOf(g, d)
<1> DEFINE B == BandCount(g)
<1> DEFINE S == SbBandCount(g)
<1>1. B \in Nat \ {0} /\ S \in Nat \ {0} /\ B <= S
  BY Counts
<1>2. \A d \in Nat : d * B \in Nat /\ S * d \in Nat /\ B * d = d * B
  BY <1>1
<1>3. \A d \in Nat : BandOf(g, d) \in Nat
  BY <1>1, <1>2, Quotient DEF BandOf
<1>4. \A d \in Nat, b \in Nat : FirstDiagonal(g, b) <= d <=> S * b <= B * d
  <2> TAKE d \in Nat, b \in Nat
  <2> QED BY <1>1, <1>2, QuotientUp DEF FirstDiagonal
<1>5. \A d \in Nat, b \in Nat : b <= BandOf(g, d) <=> S * b <= d * B
  <2> TAKE d \in Nat, b \in Nat
  <2> DEFINE q == (d * B) \div S
  <2>1. q \in Nat /\ S * q <= d * B /\ d * B < S * q + S
    BY <1>1, <1>2, Quotient
  <2> HIDE DEF q
  <2>2. b <= q => S * b <= S * q
    BY <1>1, <2>1, SMT
  <2>3. b >= q + 1 => S * b >= S * q + S
    BY <1>1, <2>1, SMT
  <2>4. S * b \in Nat /\ S * q \in Nat /\ d * B \in Nat
    BY <1>1, <1>2, <2>1
  <2>5. b <= q <=> S * b <= d * B
    BY <1>1, <2>1, <2>2, <2>3, <2>4
  <2> QED BY <2>5 DEF BandOf, q
<1>6. \A d \in Nat, b \in Nat : FirstDiagonal(g, b) <= d <=> b <= BandOf(g, d)
  BY <1>2, <1>4, <1>5
<1>7. \A b \in Nat : FirstDiagonal(g, b) \in Nat
  <2> TAKE b \in Nat
  <2>1. S * b + B - 1 \in Nat
    BY <1>1, <1>2
  <2> QED BY <1>1, <2>1, Quotient DEF FirstDiagonal
<1>8. \A d \in 0 .. S - 1 : BandOf(g, d) \in 0 .. B - 1
  <2> TAKE d \in 0 .. S - 1
  <2>1. ~(S * B <= d * B)
    BY <1>1, SMT
  <2>2. ~(B <= BandOf(g, d))
    BY <1>1, <1>5, <2>1
  <2> QED BY <1>1, <1>3, <2>2
<1>9. \A b \in 0 .. B : FirstDiagonal(g, b) \in 0 .. S
  <2> TAKE b \in 0 .. B
  <2>1. S * b <= B * S
    BY <1>1, SMT
  <2> QED BY <1>1, <1>4, <1>7, <2>1
<1>10. \A c, d \in Nat : c <= d => BandOf(g, c) <= BandOf(g, d)
  <2> TAKE c, d \in Nat
  <2> SUFFICES ASSUME c <= d
               PROVE  BandOf(g, c) <= BandOf(g, d)
    OBVIOUS
  <2>1. c * B <= d * B
    BY <1>1, SMT
  <2> QED BY <1>1, <1>2, <2>1, QuotientGrows DEF BandOf
<1>11. \A d \in Nat : BandOf(g, d + 1) \in BandOf(g, d) .. BandOf(g, d) + 1
  <2> TAKE d \in Nat
  <2> DEFINE a == d * B
  <2>1. (d + 1) * B = a + B
    BY <1>1, SMT
  <2>2. a \in Nat /\ a + B \in Nat /\ a <= a + B /\ a + B <= a + S
    BY <1>1, <1>2
  <2>3. (a + B) \div S \in a \div S .. a \div S + 1
    <3> HIDE DEF a, B, S
    <3> QED BY <1>1, <2>2, QuotientSteps
  <2> QED BY <2>1, <2>3 DEF BandOf
<1>12. \A b \in 0 .. B - 1 :
          FirstDiagonal(g, b) < S /\ BandOf(g, FirstDiagonal(g, b)) = b
  <2> TAKE b \in 0 .. B - 1
  <2> DEFINE f == FirstDiagonal(g, b)
  <2>1. f \in Nat /\ b \in Nat /\ b <= BandOf(g, f)
    BY <1>6, <1>7
  <2>2. S * b <= B * (S - 1) \/ B = S
    <3>1. S * b <= S * (B - 1)
      BY <1>1, SMT
    <3>2. S * (B - 1) = S * B - S /\ B * (S - 1) = S * B - B /\ S * B \in Nat /\ S * b \in Nat
      BY <1>1, SMT
    <3> QED BY <1>1, <3>1, <3>2
  <2>3. f <= S - 1
    <3>1. S * b <= B * (S - 1)
      <4>1. B = S => S * b <= B * (S - 1)
        BY <1>1, SMT
      <4> QED BY <2>2, <4>1
    <3> QED BY <1>1, <1>4, <3>1
  <2>4. ~(b + 1 <= BandOf(g, f))
    <3>1. CASE f = 0
      <4>1. BandOf(g, 0) = 0
        <5>1. 0 * B = 0
          BY <1>1
        <5> QED BY <1>1, <5>1, Quotient DEF BandOf
      <4> QED BY <2>1, <3>1, <4>1
    <3>2. CASE f # 0
      <4>1. f - 1 \in Nat /\ ~(f <= f - 1)
        BY <2>1, <3>2
      <4>2. ~(b <= BandOf(g, f - 1))
        BY <1>6, <2>1, <4>1
      <4>3. BandOf(g, f) <= BandOf(g, f - 1) + 1
        <5>1. BandOf(g, (f - 1) + 1) <= BandOf(g, f - 1) + 1
          BY <1>3, <1>11, <4>1
        <5> QED BY <2>1, <5>1
      <4> QED BY <1>3, <2>1, <4>1, <4>2, <4>3
    <3> QED BY <3>1, <3>2
  <2> QED BY <1>1, <1>3, <2>1, <2>3, <2>4
<1> QED BY <1>3, <1>6, <1>8, <1>9, <1>10, <1>11, <1>12

\* A segment is a row and a band.
LEMMA SegmentParts ==
    ASSUME NEW g \in Shapes, NEW r \in Rows(g), NEW b \in 0 .. BandCount(g) - 1
    PROVE  /\ SegmentRow(g, r * BandCount(g) + b) = r
           /\ (r * BandCount(g) + b) % BandCount(g) = b
           /\ r * BandCount(g) + b \in Indices(g)
<1> DEFINE B == BandCount(g)
<1>1. B \in Nat \ {0} /\ RowCount(g) \in Nat \ {0} /\ r \in Nat /\ r <= RowCount(g) - 1
  BY Counts DEF Rows
<1>2. (r * B + b) \div B = r /\ (r * B + b) % B = b
  BY <1>1, Split
<1>3. r * B + b \in 0 .. RowCount(g) * B - 1
  <2>1. (r + 1) * B <= RowCount(g) * B /\ (r + 1) * B = r * B + B /\ r * B \in Nat
        /\ RowCount(g) * B \in Nat
    BY <1>1, SMT
  <2> QED BY <1>1, <2>1
<1> QED BY <1>2, <1>3 DEF SegmentRow, Indices

\* A row's segments are those from the band of its first superblock to that of its last.
LEMMA SegmentsOfRow ==
    ASSUME NEW g \in Shapes, NEW r \in Rows(g)
    PROVE  /\ r * BandCount(g) \in Nat
           /\ Top(g, r) \in 0 .. g.h - 1 /\ Bottom(g, r) \in Top(g, r) .. g.h - 1
           /\ BandOf(g, Top(g, r)) \in 0 .. BandCount(g) - 1
           /\ BandOf(g, g.w - 1 + Bottom(g, r)) \in BandOf(g, Top(g, r)) .. BandCount(g) - 1
           /\ StartOf(g, r) = r * BandCount(g) + BandOf(g, Top(g, r))
           /\ EndOf(g, r) = r * BandCount(g) + BandOf(g, g.w - 1 + Bottom(g, r))
<1>1. /\ g.w \in Nat \ {0} /\ g.h \in Nat \ {0} /\ RowCount(g) \in Nat \ {0}
      /\ BandCount(g) \in Nat \ {0} /\ SbBandCount(g) = g.h + g.w - 1
  BY Counts
<1>2. r \in Nat /\ r + 1 \in 0 .. RowCount(g) /\ r \in 0 .. RowCount(g)
  BY <1>1 DEF Rows
<1>3. Top(g, r) \in 0 .. g.h /\ Top(g, r + 1) \in 0 .. g.h /\ Top(g, r) <= Bottom(g, r)
  BY <1>2, RowOfLine
<1>4. Bottom(g, r) = Top(g, r + 1) - 1
  BY DEF Bottom
<1>5. Top(g, r) \in 0 .. g.h - 1 /\ Bottom(g, r) \in Top(g, r) .. g.h - 1
  BY <1>1, <1>3, <1>4
<1>6. StartOf(g, r) = r * BandCount(g) + BandOf(g, Top(g, r))
  <2>1. 0 + Top(g, r) = Top(g, r)
    BY <1>5
  <2> QED BY <2>1 DEF StartOf, BandIndex, BandOf, Top
<1>7. EndOf(g, r) = r * BandCount(g) + BandOf(g, g.w - 1 + Bottom(g, r))
  BY DEF EndOf, BandIndex, BandOf, Top, Bottom
<1>8. r * BandCount(g) \in Nat
  BY <1>1, <1>2
<1>9. /\ Top(g, r) \in 0 .. SbBandCount(g) - 1
      /\ g.w - 1 + Bottom(g, r) \in 0 .. SbBandCount(g) - 1
      /\ Top(g, r) <= g.w - 1 + Bottom(g, r)
  BY <1>1, <1>5
<1>10. /\ BandOf(g, Top(g, r)) \in 0 .. BandCount(g) - 1
       /\ BandOf(g, g.w - 1 + Bottom(g, r)) \in 0 .. BandCount(g) - 1
       /\ BandOf(g, Top(g, r)) <= BandOf(g, g.w - 1 + Bottom(g, r))
  <2> DEFINE c == Top(g, r)
  <2> DEFINE d == g.w - 1 + Bottom(g, r)
  <2>1. c \in 0 .. SbBandCount(g) - 1 /\ d \in 0 .. SbBandCount(g) - 1 /\ c \in Nat /\ d \in Nat /\ c <= d
    BY <1>1, <1>9
  <2> HIDE DEF c, d
  <2>2. /\ BandOf(g, c) \in 0 .. BandCount(g) - 1 /\ BandOf(g, d) \in 0 .. BandCount(g) - 1
        /\ BandOf(g, c) <= BandOf(g, d)
    BY <2>1, BandOfDiagonal
  <2> QED BY <2>2 DEF c, d
<1>11. BandOf(g, g.w - 1 + Bottom(g, r)) \in BandOf(g, Top(g, r)) .. BandCount(g) - 1
  BY <1>1, <1>10
<1> QED BY <1>5, <1>6, <1>7, <1>8, <1>10, <1>11

\* The segments of a row belong to it.
LEMMA RowOfSegment ==
    ASSUME NEW g \in Shapes, NEW r \in Rows(g)
    PROVE  /\ StartOf(g, r) \in Nat /\ EndOf(g, r) \in Nat /\ StartOf(g, r) <= EndOf(g, r)
           /\ \A s \in SegsIn(g, r) : SegmentRow(g, s) = r /\ s \in Indices(g)
           /\ \A s \in SegsIn(g, r) : s - r * BandCount(g) \in 0 .. BandCount(g) - 1
<1>1. /\ r * BandCount(g) \in Nat /\ BandCount(g) \in Nat \ {0}
      /\ BandOf(g, Top(g, r)) \in 0 .. BandCount(g) - 1
      /\ BandOf(g, g.w - 1 + Bottom(g, r)) \in BandOf(g, Top(g, r)) .. BandCount(g) - 1
      /\ StartOf(g, r) = r * BandCount(g) + BandOf(g, Top(g, r))
      /\ EndOf(g, r) = r * BandCount(g) + BandOf(g, g.w - 1 + Bottom(g, r))
  BY SegmentsOfRow, Counts
<1>2. /\ StartOf(g, r) \in Nat /\ EndOf(g, r) \in Nat /\ StartOf(g, r) <= EndOf(g, r)
  BY <1>1
<1>3. \A s \in SegsIn(g, r) : s - r * BandCount(g) \in 0 .. BandCount(g) - 1
  BY <1>1 DEF SegsIn
<1>4. \A s \in SegsIn(g, r) : SegmentRow(g, s) = r /\ s \in Indices(g)
  <2> TAKE s \in SegsIn(g, r)
  <2> DEFINE b == s - r * BandCount(g)
  <2>1. b \in 0 .. BandCount(g) - 1 /\ s = r * BandCount(g) + b
    BY <1>1, <1>2, <1>3 DEF SegsIn
  <2> HIDE DEF b
  <2> QED BY <2>1, SegmentParts
<1> QED BY <1>2, <1>3, <1>4

\* Every superblock is in a segment of its row.
LEMMA SegmentOfSuperblock ==
    ASSUME NEW g \in Shapes, NEW x \in 0 .. g.w - 1, NEW y \in 0 .. g.h - 1
    PROVE  /\ RowIndex(g, y) \in Rows(g)
           /\ BandIndex(g, x, y) = BandOf(g, x + y)
           /\ x + y \in 0 .. SbBandCount(g) - 1
           /\ SegmentIndex(g, x, y) \in SegsIn(g, RowIndex(g, y))
<1> DEFINE r == RowIndex(g, y)
<1>1. r \in Rows(g) /\ Top(g, r) <= y /\ y <= Bottom(g, r)
  BY RowOfLine
<1>2. BandIndex(g, x, y) = BandOf(g, x + y)
  BY DEF BandIndex, BandOf
<1>3. /\ r * BandCount(g) \in Nat /\ Top(g, r) \in 0 .. g.h - 1
      /\ Bottom(g, r) \in Top(g, r) .. g.h - 1 /\ g.w \in Nat \ {0} /\ g.h \in Nat \ {0}
      /\ SbBandCount(g) = g.h + g.w - 1
      /\ StartOf(g, r) = r * BandCount(g) + BandOf(g, Top(g, r))
      /\ EndOf(g, r) = r * BandCount(g) + BandOf(g, g.w - 1 + Bottom(g, r))
  BY <1>1, SegmentsOfRow, Counts
<1>4. /\ Top(g, r) \in Nat /\ x + y \in Nat /\ g.w - 1 + Bottom(g, r) \in Nat
      /\ Top(g, r) <= x + y /\ x + y <= g.w - 1 + Bottom(g, r)
      /\ x + y \in 0 .. SbBandCount(g) - 1
  BY <1>1, <1>3
<1>5. /\ BandOf(g, Top(g, r)) <= BandOf(g, x + y)
      /\ BandOf(g, x + y) <= BandOf(g, g.w - 1 + Bottom(g, r))
      /\ BandOf(g, Top(g, r)) \in Nat /\ BandOf(g, x + y) \in Nat
      /\ BandOf(g, g.w - 1 + Bottom(g, r)) \in Nat
  BY <1>4, BandOfDiagonal
<1>6. SegmentIndex(g, x, y) = r * BandCount(g) + BandOf(g, x + y)
  BY <1>2 DEF SegmentIndex
<1>7. SegmentIndex(g, x, y) \in SegsIn(g, r)
  BY <1>3, <1>5, <1>6 DEF SegsIn
<1> QED BY <1>1, <1>2, <1>4, <1>7

\* The superblocks of a segment, by their lines and diagonals.
LEMMA SuperblocksOfSegment ==
    ASSUME NEW g \in Shapes, NEW r \in Rows(g), NEW b \in 0 .. BandCount(g) - 1,
           NEW x \in 0 .. g.w - 1, NEW y \in 0 .. g.h - 1
    PROVE  <<x, y>> \in SbsOf(g, r * BandCount(g) + b) <=>
              /\ Top(g, r) <= y /\ y <= Bottom(g, r)
              /\ FirstDiagonal(g, b) <= x + y /\ x + y < FirstDiagonal(g, b + 1)
<1> DEFINE s == r * BandCount(g) + b
<1>1. BandCount(g) \in Nat \ {0} /\ r \in Nat /\ b \in Nat /\ b + 1 \in Nat
  BY Counts DEF Rows
<1>2. /\ RowIndex(g, y) \in Rows(g) /\ x + y \in 0 .. SbBandCount(g) - 1 /\ x + y \in Nat
      /\ BandOf(g, x + y) \in 0 .. BandCount(g) - 1
      /\ SegmentIndex(g, x, y) = RowIndex(g, y) * BandCount(g) + BandOf(g, x + y)
  <2>1. /\ RowIndex(g, y) \in Rows(g) /\ x + y \in 0 .. SbBandCount(g) - 1
        /\ BandIndex(g, x, y) = BandOf(g, x + y)
    BY SegmentOfSuperblock
  <2>2. BandOf(g, x + y) \in 0 .. BandCount(g) - 1
    BY <2>1, BandOfDiagonal
  <2>3. x + y \in Nat
    OBVIOUS
  <2> QED BY <2>1, <2>2, <2>3 DEF SegmentIndex
<1>3. SegmentIndex(g, x, y) = s <=> RowIndex(g, y) = r /\ BandOf(g, x + y) = b
  <2>1. /\ SegmentRow(g, SegmentIndex(g, x, y)) = RowIndex(g, y)
        /\ SegmentIndex(g, x, y) % BandCount(g) = BandOf(g, x + y)
        /\ SegmentRow(g, s) = r /\ s % BandCount(g) = b
    BY <1>2, SegmentParts
  <2> QED BY <1>2, <2>1
<1>4. RowIndex(g, y) = r <=> Top(g, r) <= y /\ y <= Bottom(g, r)
  BY RowOfLine
<1>5. /\ FirstDiagonal(g, b) <= x + y <=> b <= BandOf(g, x + y)
      /\ FirstDiagonal(g, b + 1) <= x + y <=> b + 1 <= BandOf(g, x + y)
  BY <1>1, <1>2, BandOfDiagonal
<1>6. FirstDiagonal(g, b) \in Nat /\ FirstDiagonal(g, b + 1) \in Nat
  <2>1. b \in 0 .. BandCount(g) /\ b + 1 \in 0 .. BandCount(g) /\ SbBandCount(g) \in Nat
    BY <1>1, Counts
  <2>2. /\ FirstDiagonal(g, b) \in 0 .. SbBandCount(g)
        /\ FirstDiagonal(g, b + 1) \in 0 .. SbBandCount(g)
    BY <2>1, BandOfDiagonal
  <2> QED BY <2>1, <2>2
<1>7. BandOf(g, x + y) = b <=> FirstDiagonal(g, b) <= x + y /\ x + y < FirstDiagonal(g, b + 1)
  BY <1>1, <1>2, <1>5, <1>6
<1>8. <<x, y>> \in SbsOf(g, s) <=> SegmentIndex(g, x, y) = s
  BY DEF SbsOf, Superblocks
<1> QED BY <1>3, <1>4, <1>7, <1>8

\* Every segment between the first and the last of a row has a superblock.
LEMMA SegmentHasSuperblocks ==
    ASSUME NEW g \in Shapes, NEW r \in Rows(g), NEW s \in SegsIn(g, r)
    PROVE  SbsOf(g, s) # {}
<1> DEFINE b == s - r * BandCount(g)
<1> DEFINE top == Top(g, r)
<1> DEFINE bottom == Bottom(g, r)
<1>1. /\ r * BandCount(g) \in Nat /\ top \in 0 .. g.h - 1 /\ bottom \in top .. g.h - 1
      /\ StartOf(g, r) = r * BandCount(g) + BandOf(g, top)
      /\ EndOf(g, r) = r * BandCount(g) + BandOf(g, g.w - 1 + bottom)
      /\ g.w \in Nat \ {0} /\ g.h \in Nat \ {0} /\ BandCount(g) \in Nat \ {0}
  BY SegmentsOfRow, Counts
<1>2. top \in Nat /\ bottom \in Nat /\ g.w - 1 + bottom \in Nat /\ top <= bottom
  BY <1>1
<1>3. BandOf(g, top) \in Nat /\ BandOf(g, g.w - 1 + bottom) \in Nat
  <2> HIDE DEF top, bottom
  <2> QED BY <1>2, BandOfDiagonal
<1>4. /\ b \in 0 .. BandCount(g) - 1 /\ s = r * BandCount(g) + b
      /\ BandOf(g, top) <= b /\ b <= BandOf(g, g.w - 1 + bottom)
  <2>1. b \in 0 .. BandCount(g) - 1
    BY RowOfSegment
  <2> QED BY <1>1, <1>3, <2>1 DEF SegsIn
<1> DEFINE first == FirstDiagonal(g, b)
<1> DEFINE end == FirstDiagonal(g, b + 1)
<1> HIDE DEF b, top, bottom
<1>5. b \in Nat /\ b + 1 \in Nat /\ b \in 0 .. BandCount(g) /\ b + 1 \in 0 .. BandCount(g)
  BY <1>1, <1>4
<1>6. first \in Nat /\ end \in Nat
  <2>1. SbBandCount(g) \in Nat
    BY Counts
  <2>2. first \in 0 .. SbBandCount(g) /\ end \in 0 .. SbBandCount(g)
    BY <1>5, BandOfDiagonal
  <2> QED BY <2>1, <2>2
<1>7. first <= g.w - 1 + bottom
  BY <1>2, <1>4, <1>5, BandOfDiagonal
<1>8. top < end
  <2>1. ~(b + 1 <= BandOf(g, top))
    BY <1>3, <1>4, <1>5
  <2>2. ~(end <= top)
    BY <1>2, <1>5, <2>1, BandOfDiagonal
  <2> QED BY <1>2, <1>6, <2>2
<1>9. first < end
  <2>1. b <= BandOf(g, first) /\ BandOf(g, first) = b
    BY <1>4, <1>5, BandOfDiagonal
  <2>2. ~(b + 1 <= BandOf(g, first))
    BY <1>5, <2>1
  <2>3. ~(end <= first)
    BY <1>5, <1>6, <2>2, BandOfDiagonal
  <2> QED BY <1>6, <2>3
<1> DEFINE d == IF first <= top THEN top ELSE first
<1> DEFINE y == IF d <= bottom THEN d ELSE bottom
<1> HIDE DEF first, end
<1>10. /\ d \in Nat /\ top <= d /\ d <= g.w - 1 + bottom /\ first <= d /\ d < end
  BY <1>1, <1>2, <1>6, <1>7, <1>8, <1>9
<1> HIDE DEF d
<1>11. /\ y \in 0 .. g.h - 1 /\ top <= y /\ y <= bottom /\ d - y \in 0 .. g.w - 1
       /\ (d - y) + y = d
  BY <1>1, <1>2, <1>10
<1> HIDE DEF y
<1>12. <<d - y, y>> \in SbsOf(g, r * BandCount(g) + b)
  BY <1>4, <1>10, <1>11, SuperblocksOfSegment DEF top, bottom, first, end
<1> QED BY <1>4, <1>12

\* The segment below one that clears a dependency there is in the next row.
LEMMA SegmentBelow ==
    ASSUME NEW g \in Shapes, NEW r \in Rows(g), NEW s \in SegsIn(g, r)
    PROVE  HasBelow(g, s) <=> r + 1 \in Rows(g) /\ s + BandCount(g) \in SegsIn(g, r + 1)
<1> DEFINE B == BandCount(g)
<1>1. SegmentRow(g, s) = r /\ s \in Nat /\ r \in Nat /\ RowCount(g) \in Nat /\ B \in Nat
  BY RowOfSegment, Counts DEF SegsIn, Rows
<1>2. r + 1 \in Rows(g) <=> r < RowCount(g) - 1
  BY <1>1 DEF Rows
<1>3. ASSUME r + 1 \in Rows(g)
      PROVE  s + B <= EndOf(g, r + 1) /\ EndOf(g, r + 1) \in Nat /\ StartOf(g, r + 1) \in Nat
  <2>1. /\ r * B \in Nat /\ EndOf(g, r) = r * B + BandOf(g, g.w - 1 + Bottom(g, r))
        /\ Bottom(g, r) \in Top(g, r) .. g.h - 1 /\ Top(g, r) \in 0 .. g.h - 1
    BY SegmentsOfRow
  <2>2. /\ (r + 1) * B \in Nat
        /\ EndOf(g, r + 1) = (r + 1) * B + BandOf(g, g.w - 1 + Bottom(g, r + 1))
        /\ Bottom(g, r + 1) \in Top(g, r + 1) .. g.h - 1 /\ Top(g, r + 1) \in 0 .. g.h - 1
    BY <1>3, SegmentsOfRow
  <2>3. (r + 1) * B = r * B + B
    BY <1>1
  <2>4. g.w \in Nat \ {0} /\ g.h \in Nat \ {0}
    BY Counts
  <2>5. Bottom(g, r) = Top(g, r + 1) - 1
    BY DEF Bottom
  <2> DEFINE c == g.w - 1 + Bottom(g, r)
  <2> DEFINE d == g.w - 1 + Bottom(g, r + 1)
  <2>6. c \in Nat /\ d \in Nat /\ c <= d
    BY <2>1, <2>2, <2>4, <2>5
  <2> HIDE DEF c, d
  <2>7. BandOf(g, c) <= BandOf(g, d) /\ BandOf(g, c) \in Nat /\ BandOf(g, d) \in Nat
    BY <2>6, BandOfDiagonal
  <2>8. EndOf(g, r) = r * B + BandOf(g, c) /\ EndOf(g, r + 1) = (r + 1) * B + BandOf(g, d)
    BY <2>1, <2>2 DEF c, d
  <2>9. s + B <= EndOf(g, r + 1)
    <3>1. s <= EndOf(g, r)
      BY <1>1, RowOfSegment DEF SegsIn
    <3> QED BY <1>1, <2>1, <2>3, <2>7, <2>8, <3>1
  <2> QED BY <1>3, <2>9, RowOfSegment
<1> QED BY <1>1, <1>2, <1>3 DEF HasBelow, SegsIn

-----------------------------------------------------------------------------
(* Dependencies.                                                           *)

\* Whether the segment s of row r has to wait for one on its left or above.
AfterLeft(g, r, s) == s - 1 \in SegsIn(g, r)
AfterAbove(g, r, s) == r - 1 \in Rows(g) /\ s - BandCount(g) \in SegsIn(g, r - 1)

\* The number of dependencies is the number of these neighbours.
LEMMA DependencyCount ==
    ASSUME NEW g \in Shapes, NEW r \in Rows(g), NEW s \in SegsIn(g, r)
    PROVE  Dependencies(g)[s] = (IF AfterLeft(g, r, s) THEN 1 ELSE 0)
                                + (IF AfterAbove(g, r, s) THEN 1 ELSE 0)
<1> DEFINE B == BandCount(g)
<1> DEFINE source == UNION {SegmentsOf(g, q) : q \in Rows(g)}
<1> DEFINE left == {f \in source : f + 1 = s /\ HasRight(g, f)}
<1> DEFINE above == {f \in source : f + B = s /\ HasBelow(g, f)}
<1>1. /\ s \in Indices(g) /\ s \in Nat /\ SegmentRow(g, s) = r /\ B \in Nat \ {0} /\ r \in Nat
      /\ StartOf(g, r) \in Nat /\ EndOf(g, r) \in Nat
  BY RowOfSegment, Counts DEF SegsIn, Rows
<1>2. \A f : f \in source <=> \E q \in Rows(g) : f \in SegsIn(g, q)
  <2>1. \A q \in Rows(g) : SegmentsOf(g, q) = SegsIn(g, q)
    <3> TAKE q \in Rows(g)
    <3>1. \A f \in SegsIn(g, q) : SbsOf(g, f) # {}
      BY SegmentHasSuperblocks
    <3> QED BY <3>1 DEF SegmentsOf, SegsIn
  <2> QED BY <2>1
<1>3. Dependencies(g)[s] = Cardinality(left) + Cardinality(above)
  BY <1>1 DEF Dependencies
<1> HIDE DEF source
<1>4. left = IF AfterLeft(g, r, s) THEN {s - 1} ELSE {}
  <2>1. \A f \in left : f = s - 1 /\ AfterLeft(g, r, s)
    <3> TAKE f \in left
    <3>1. PICK q \in Rows(g) : f \in SegsIn(g, q)
      BY <1>2
    <3>2. f \in Nat /\ f + 1 = s /\ SegmentRow(g, f) = q /\ EndOf(g, q) \in Nat /\ StartOf(g, q) \in Nat
      BY <3>1, RowOfSegment DEF SegsIn
    <3>3. s \in SegsIn(g, q)
      BY <1>1, <3>1, <3>2 DEF SegsIn, HasRight
    <3>4. q = r
      BY <1>1, <3>3, RowOfSegment
    <3> QED BY <1>1, <3>1, <3>2, <3>4 DEF AfterLeft
  <2>2. AfterLeft(g, r, s) => s - 1 \in left
    <3> SUFFICES ASSUME AfterLeft(g, r, s)
                 PROVE  s - 1 \in left
      OBVIOUS
    <3>1. s - 1 \in SegsIn(g, r) /\ SegmentRow(g, s - 1) = r
      BY RowOfSegment DEF AfterLeft
    <3>2. HasRight(g, s - 1) /\ (s - 1) + 1 = s
      BY <1>1, <3>1 DEF HasRight, SegsIn
    <3> QED BY <1>2, <3>1, <3>2
  <2> QED BY <2>1, <2>2
<1>5. above = IF AfterAbove(g, r, s) THEN {s - B} ELSE {}
  <2>1. \A f \in above : f = s - B /\ AfterAbove(g, r, s)
    <3> TAKE f \in above
    <3>1. PICK q \in Rows(g) : f \in SegsIn(g, q)
      BY <1>2
    <3>2. f \in Nat /\ f + B = s /\ q \in Nat /\ q + 1 \in Rows(g) /\ s \in SegsIn(g, q + 1)
      BY <3>1, RowOfSegment, SegmentBelow DEF SegsIn, Rows
    <3>3. q + 1 = r
      BY <1>1, <3>2, RowOfSegment
    <3>4. r - 1 = q /\ f = s - B
      BY <1>1, <3>2, <3>3
    <3> QED BY <3>1, <3>4 DEF AfterAbove
  <2>2. AfterAbove(g, r, s) => s - B \in above
    <3> SUFFICES ASSUME AfterAbove(g, r, s)
                 PROVE  s - B \in above
      OBVIOUS
    <3>1. /\ r - 1 \in Rows(g) /\ s - B \in SegsIn(g, r - 1) /\ (s - B) + B = s /\ (r - 1) + 1 = r
      BY <1>1 DEF AfterAbove
    <3>2. HasBelow(g, s - B)
      BY <3>1, SegmentBelow
    <3> QED BY <1>2, <3>1, <3>2
  <2> QED BY <2>1, <2>2
<1> HIDE DEF left, above
<1>6. Cardinality(left) = IF AfterLeft(g, r, s) THEN 1 ELSE 0
  BY <1>4, FS_EmptySet, FS_Singleton
<1>7. Cardinality(above) = IF AfterAbove(g, r, s) THEN 1 ELSE 0
  BY <1>5, FS_EmptySet, FS_Singleton
<1> QED BY <1>3, <1>6, <1>7

-----------------------------------------------------------------------------
(* The first superblock, and the walk.                                     *)

\* A set of superblocks has a first one.
LEMMA FirstIsFirst ==
    ASSUME NEW g \in Shapes, NEW sbs \in SUBSET Superblocks(g), sbs # {}
    PROVE  First(sbs) \in sbs /\ \A c \in sbs : First(sbs) = c \/ Before(First(sbs), c)
<1> DEFINE key(b) == b[2] * g.w + b[1]
<1>1. g.w \in Nat \ {0} /\ g.h \in Nat \ {0}
  BY Counts
<1>2. \A b \in sbs : b = <<b[1], b[2]>> /\ b[1] \in 0 .. g.w - 1 /\ b[2] \in 0 .. g.h - 1
  BY DEF Superblocks
<1>3. \A b \in sbs : key(b) \in Nat
  BY <1>1, <1>2, SMT
<1>4. \E x \in {key(b) : b \in sbs} : \A y \in {key(b) : b \in sbs} : x <= y
  <2> DEFINE T == {key(b) : b \in sbs}
  <2>1. T \in SUBSET Nat /\ T # {}
    BY <1>3
  <2> HIDE DEF T
  <2>2. \E x \in T : \A y \in T : x <= y
    BY <2>1, Least
  <2> QED BY <2>2 DEF T
<1>5. PICK b \in sbs : \A c \in sbs : key(b) <= key(c)
  BY <1>4
<1>6. \A c \in sbs : b = c \/ Before(b, c)
  <2> TAKE c \in sbs
  <2>1. /\ b[1] \in 0 .. g.w - 1 /\ b[2] \in Nat /\ c[1] \in 0 .. g.w - 1 /\ c[2] \in Nat
        /\ b = <<b[1], b[2]>> /\ c = <<c[1], c[2]>>
    BY <1>1, <1>2
  <2>2. ~(c[2] < b[2])
    <3> SUFFICES ASSUME c[2] < b[2]
                 PROVE  FALSE
      OBVIOUS
    <3>1. c[2] * g.w + g.w <= b[2] * g.w /\ c[2] * g.w \in Nat /\ b[2] * g.w \in Nat
      BY <1>1, <2>1, SMT
    <3>2. key(b) <= key(c)
      BY <1>5
    <3> QED BY <1>1, <2>1, <3>1, <3>2
  <2>3. b[2] = c[2] => b[1] <= c[1]
    <3> SUFFICES ASSUME b[2] = c[2]
                 PROVE  b[1] <= c[1]
      OBVIOUS
    <3>1. key(b) <= key(c) /\ b[2] * g.w = c[2] * g.w /\ b[2] * g.w \in Nat
      BY <1>1, <1>5, <2>1
    <3> QED BY <1>1, <2>1, <3>1
  <2>4. b[2] = c[2] /\ b[1] = c[1] => b = c
    BY <2>1
  <2> QED BY <2>1, <2>2, <2>3, <2>4 DEF Before
<1> QED BY <1>6 DEF First

\* The superblocks of a tile group are finitely many.
LEMMA FiniteSuperblocks ==
    ASSUME NEW g \in Shapes
    PROVE  /\ IsFiniteSet(Superblocks(g))
           /\ \A sbs \in SUBSET Superblocks(g) : IsFiniteSet(sbs) /\ Cardinality(sbs) \in Nat
<1>1. g.w \in Nat \ {0} /\ g.h \in Nat \ {0}
  BY Counts
<1>2. IsFiniteSet(0 .. g.w - 1) /\ IsFiniteSet(0 .. g.h - 1)
  <2>1. 0 \in Int /\ g.w - 1 \in Int /\ g.h - 1 \in Int
    BY <1>1
  <2> QED BY <2>1, FS_Interval
<1>3. IsFiniteSet(Superblocks(g))
  BY <1>2, FS_Product DEF Superblocks
<1> QED BY <1>3, FS_Subset, FS_CardinalityType

\* The walk visits the superblocks of its segment.
THEOREM WalkVisitsSegment ==
    ASSUME NEW g \in Shapes, NEW r \in Rows(g), NEW s \in SegsIn(g, r)
    PROVE  Walk(g, s) = SbsOf(g, s)
<1> DEFINE b == s - r * BandCount(g)
<1> DEFINE first == FirstDiagonal(g, b)
<1> DEFINE end == FirstDiagonal(g, b + 1)
<1> DEFINE f == FirstOf(g, s)
<1> DEFINE top == Top(g, r)
<1> DEFINE bottom == Bottom(g, r)
<1>1. /\ g.w \in Nat \ {0} /\ g.h \in Nat \ {0} /\ BandCount(g) \in Nat \ {0}
      /\ r * BandCount(g) \in Nat /\ top \in 0 .. g.h - 1 /\ bottom \in top .. g.h - 1
  BY SegmentsOfRow, Counts
<1>2. b \in 0 .. BandCount(g) - 1 /\ s = r * BandCount(g) + b
  <2>1. s \in Int
    BY RowOfSegment DEF SegsIn
  <2> QED BY <1>1, <2>1, RowOfSegment
<1>3. \A x \in 0 .. g.w - 1, y \in 0 .. g.h - 1 :
         <<x, y>> \in SbsOf(g, s) <=> top <= y /\ y <= bottom /\ first <= x + y /\ x + y < end
  <2> HIDE DEF b
  <2> QED BY <1>2, SuperblocksOfSegment
<1>4. first \in Nat /\ end \in Nat
  <2> HIDE DEF b
  <2>1. b \in 0 .. BandCount(g) /\ b + 1 \in 0 .. BandCount(g) /\ SbBandCount(g) \in Nat
    BY <1>1, <1>2, Counts
  <2>2. first \in 0 .. SbBandCount(g) /\ end \in 0 .. SbBandCount(g)
    BY <2>1, BandOfDiagonal
  <2> QED BY <2>1, <2>2
<1>5. BandSize(g, s) = end
  <2> HIDE DEF b
  <2>1. s % BandCount(g) = b
    BY <1>2, SegmentParts
  <2> QED BY <2>1 DEF BandSize, FirstDiagonal
<1> HIDE DEF b, first, end, top, bottom
<1>6. SbsOf(g, s) \in SUBSET Superblocks(g)
  BY DEF SbsOf
<1>7. f \in SbsOf(g, s) /\ \A c \in SbsOf(g, s) : f = c \/ Before(f, c)
  BY <1>6, SegmentHasSuperblocks, FirstIsFirst DEF FirstOf
<1>8. \A c \in Superblocks(g) : c = <<c[1], c[2]>> /\ c[1] \in 0 .. g.w - 1 /\ c[2] \in 0 .. g.h - 1
  BY DEF Superblocks
<1>9. /\ f[1] \in 0 .. g.w - 1 /\ f[2] \in 0 .. g.h - 1 /\ f = <<f[1], f[2]>>
      /\ top <= f[2] /\ f[2] <= bottom /\ first <= f[1] + f[2] /\ f[1] + f[2] < end
  <2>1. f \in Superblocks(g)
    BY <1>6, <1>7
  <2>2. f[1] \in 0 .. g.w - 1 /\ f[2] \in 0 .. g.h - 1 /\ f = <<f[1], f[2]>>
    BY <1>8, <2>1
  <2>3. <<f[1], f[2]>> \in SbsOf(g, s)
    BY <1>7, <2>2
  <2> QED BY <1>3, <2>2, <2>3
<1>10. f[1] = 0 \/ f[1] + f[2] = first
  <2> SUFFICES ASSUME f[1] # 0, f[1] + f[2] # first
               PROVE  FALSE
    OBVIOUS
  <2> DEFINE c == <<f[1] - 1, f[2]>>
  <2>1. f[1] - 1 \in 0 .. g.w - 1 /\ first <= (f[1] - 1) + f[2] /\ (f[1] - 1) + f[2] < end
    BY <1>1, <1>4, <1>9
  <2>2. c \in SbsOf(g, s)
    BY <1>3, <1>9, <2>1
  <2>3. c[1] < f[1] /\ c[2] = f[2]
    BY <1>1, <1>9
  <2> QED BY <1>1, <1>7, <1>9, <2>2, <2>3 DEF Before
<1> DEFINE start(y) == IF f[1] - (y - f[2]) > 0 THEN f[1] - (y - f[2]) ELSE 0
<1>11. \A y : LineStart(g, s, y) = start(y)
  BY DEF LineStart
<1> HIDE DEF f
<1>12. SbsOf(g, s) \subseteq InLines(g, s)
  <2> SUFFICES ASSUME NEW c \in SbsOf(g, s)
               PROVE  c \in InLines(g, s)
    OBVIOUS
  <2>1. c \in Superblocks(g) /\ c[1] \in 0 .. g.w - 1 /\ c[2] \in 0 .. g.h - 1 /\ c = <<c[1], c[2]>>
    BY <1>6, <1>8
  <2>2. first <= c[1] + c[2] /\ c[1] + c[2] < end
    BY <1>3, <2>1
  <2>3. f[2] <= c[2] /\ (f[2] = c[2] => f[1] <= c[1])
    BY <1>1, <1>7, <1>9, <2>1 DEF Before
  <2>4. c[1] >= start(c[2])
    BY <1>1, <1>4, <1>9, <1>10, <2>1, <2>2, <2>3
  <2>5. c[1] >= LineStart(g, s, c[2]) /\ c[2] >= FirstOf(g, s)[2]
    BY <1>1, <1>9, <1>11, <2>1, <2>3, <2>4 DEF f
  <2> QED BY <1>5, <2>1, <2>2, <2>5 DEF InLines
<1>13. \A c \in InLines(g, s) \ SbsOf(g, s) : \A d \in SbsOf(g, s) : Before(d, c)
  <2> TAKE c \in InLines(g, s) \ SbsOf(g, s)
  <2>1. c \in Superblocks(g) /\ c[1] \in 0 .. g.w - 1 /\ c[2] \in 0 .. g.h - 1 /\ c = <<c[1], c[2]>>
    BY <1>8 DEF InLines
  <2>2. c[2] >= f[2] /\ c[1] >= start(c[2]) /\ c[1] + c[2] < end
    BY <1>5, <1>11 DEF InLines, f
  <2>3. first <= c[1] + c[2]
    BY <1>1, <1>4, <1>9, <1>10, <2>1, <2>2
  <2>4. ~(c[2] <= bottom)
    <3>1. <<c[1], c[2]>> \notin SbsOf(g, s)
      BY <2>1
    <3>2. top <= c[2]
      BY <1>1, <1>9, <2>1, <2>2
    <3> QED BY <1>3, <2>1, <2>2, <2>3, <3>1, <3>2
  <2> TAKE d \in SbsOf(g, s)
  <2>5. d[1] \in 0 .. g.w - 1 /\ d[2] \in 0 .. g.h - 1 /\ d = <<d[1], d[2]>>
    BY <1>6, <1>8
  <2>6. d[2] <= bottom
    BY <1>3, <2>5
  <2> QED BY <1>1, <2>1, <2>4, <2>5, <2>6 DEF Before
<1> DEFINE before(c) == {d \in InLines(g, s) : Before(d, c)}
<1>14. /\ IsFiniteSet(SbsOf(g, s)) /\ Cardinality(SbsOf(g, s)) \in Nat
       /\ \A c : before(c) \in SUBSET Superblocks(g) /\ IsFiniteSet(before(c))
                /\ Cardinality(before(c)) \in Nat
  <2>1. \A c : before(c) \in SUBSET Superblocks(g)
    BY DEF InLines
  <2> HIDE DEF before
  <2> QED BY <1>6, <2>1, FiniteSuperblocks
<1>15. \A c \in InLines(g, s) \ SbsOf(g, s) : ~(Cardinality(before(c)) < Cardinality(SbsOf(g, s)))
  <2> TAKE c \in InLines(g, s) \ SbsOf(g, s)
  <2>1. SbsOf(g, s) \in SUBSET before(c)
    BY <1>12, <1>13
  <2>2. IsFiniteSet(before(c)) /\ Cardinality(before(c)) \in Nat
    BY <1>14
  <2> HIDE DEF before
  <2>3. Cardinality(SbsOf(g, s)) <= Cardinality(before(c))
    BY <2>1, <2>2, FS_Subset
  <2> QED BY <1>14, <2>2, <2>3
<1>16. \A c \in SbsOf(g, s) : Cardinality(before(c)) < Cardinality(SbsOf(g, s))
  <2> TAKE c \in SbsOf(g, s)
  <2>1. \A d \in before(c) : d \in SbsOf(g, s) /\ d # c
    <3> TAKE d \in before(c)
    <3>1. /\ d[1] \in 0 .. g.w - 1 /\ d[2] \in 0 .. g.h - 1
          /\ c[1] \in 0 .. g.w - 1 /\ c[2] \in 0 .. g.h - 1
      BY <1>6, <1>8 DEF InLines
    <3>2. ~Before(c, d) /\ d # c
      BY <1>1, <3>1 DEF Before
    <3> QED BY <1>13, <3>2
  <2>2. before(c) \in SUBSET (SbsOf(g, s) \ {c})
    BY <2>1
  <2>3. /\ IsFiniteSet(SbsOf(g, s) \ {c})
        /\ Cardinality(SbsOf(g, s) \ {c}) = Cardinality(SbsOf(g, s)) - 1
    BY <1>14, FS_RemoveElement
  <2> HIDE DEF before
  <2>4. Cardinality(before(c)) <= Cardinality(SbsOf(g, s) \ {c})
    BY <2>2, <2>3, FS_Subset
  <2> QED BY <1>14, <2>3, <2>4
<1> QED BY <1>12, <1>15, <1>16 DEF Walk

-----------------------------------------------------------------------------
(* Neighbours.                                                             *)

\* The neighbours of a superblock come before it, in its segment, in the one to the
\* left, above, or above to the left.
LEMMA SegmentsOfNeighbours ==
    ASSUME NEW g \in Shapes, NEW r \in Rows(g), NEW s \in SegsIn(g, r),
           NEW b \in SbsOf(g, s), NEW n \in Neighbours(g, b)
    PROVE  LET q == RowIndex(g, n[2])
               m == SegmentIndex(g, n[1], n[2])
           IN  /\ n \in Superblocks(g) /\ n \in SbsOf(g, m) /\ q \in Rows(g) /\ m \in SegsIn(g, q)
               /\ Before(n, b) /\ n # b
               /\ \/ q = r /\ m \in {s, s - 1}
                  \/ q = r - 1 /\ m \in {s - BandCount(g), s - BandCount(g) - 1}
<1> DEFINE B == BandCount(g)
<1> DEFINE q == RowIndex(g, n[2])
<1> DEFINE m == SegmentIndex(g, n[1], n[2])
<1>1. /\ g.w \in Nat \ {0} /\ g.h \in Nat \ {0} /\ B \in Nat \ {0} /\ RowCount(g) \in Nat \ {0}
      /\ RowCount(g) <= g.h
  BY Counts
<1>2. b[1] \in 0 .. g.w - 1 /\ b[2] \in 0 .. g.h - 1 /\ SegmentIndex(g, b[1], b[2]) = s
  BY DEF SbsOf, Superblocks
<1>3. /\ n \in Superblocks(g) /\ n[1] \in 0 .. g.w - 1 /\ n[2] \in 0 .. g.h - 1
      /\ n \in {<<b[1] - 1, b[2]>>, <<b[1], b[2] - 1>>, <<b[1] + 1, b[2] - 1>>}
  BY DEF Neighbours, Superblocks
<1>4. \/ n[2] = b[2] /\ n[1] + n[2] = b[1] + b[2] - 1 /\ n[1] < b[1]
      \/ n[2] = b[2] - 1 /\ n[1] + n[2] \in {b[1] + b[2], b[1] + b[2] - 1}
  BY <1>2, <1>3
<1>5. Before(n, b) /\ n # b
  BY <1>1, <1>2, <1>3, <1>4 DEF Before
<1>6. q \in Rows(g) /\ m \in SegsIn(g, q) /\ n \in SbsOf(g, m)
  BY <1>3, SegmentOfSuperblock DEF SbsOf
<1>7. RowIndex(g, b[2]) = r
  <2>1. RowIndex(g, b[2]) \in Rows(g) /\ s \in SegsIn(g, RowIndex(g, b[2]))
    BY <1>2, SegmentOfSuperblock
  <2> QED BY <2>1, RowOfSegment
<1>8. q = r \/ q = r - 1
  <2>1. CASE n[2] = b[2]
    BY <1>7, <2>1
  <2>2. CASE n[2] = b[2] - 1
    <3> DEFINE a == n[2] * RowCount(g)
    <3>1. b[2] * RowCount(g) = a + RowCount(g)
      BY <1>1, <1>2, <1>3, <2>2, SMT
    <3>2. a \in Nat /\ a + RowCount(g) \in Nat /\ a <= a + RowCount(g) /\ a + RowCount(g) <= a + g.h
      BY <1>1, <1>3
    <3>3. (a + RowCount(g)) \div g.h \in a \div g.h .. a \div g.h + 1 /\ a \div g.h \in Nat
      <4> HIDE DEF a
      <4> QED BY <1>1, <3>2, QuotientSteps, Quotient
    <3>4. r \in q .. q + 1 /\ q \in Nat
      BY <1>7, <3>1, <3>3 DEF RowIndex
    <3> QED BY <3>4
  <2> QED BY <1>4, <2>1, <2>2
<1> DEFINE d == b[1] + b[2]
<1> DEFINE e == n[1] + n[2]
<1>9. d \in Nat /\ e \in Nat /\ (e = d \/ d = e + 1)
  BY <1>1, <1>2, <1>3, <1>4
<1>10. /\ s = r * B + BandOf(g, d) /\ m = q * B + BandOf(g, e)
       /\ BandOf(g, d) \in Nat /\ BandOf(g, e) \in Nat
  <2>1. s = r * B + BandOf(g, d)
    BY <1>2, <1>7, SegmentOfSuperblock DEF SegmentIndex
  <2>2. m = q * B + BandOf(g, e)
    BY <1>3, SegmentOfSuperblock DEF SegmentIndex
  <2> HIDE DEF d, e
  <2> QED BY <1>9, <2>1, <2>2, BandOfDiagonal
<1>11. BandOf(g, e) = BandOf(g, d) \/ BandOf(g, e) = BandOf(g, d) - 1
  <2> HIDE DEF d, e
  <2>1. BandOf(g, e + 1) \in BandOf(g, e) .. BandOf(g, e) + 1
    BY <1>9, BandOfDiagonal
  <2> QED BY <1>9, <1>10, <2>1
<1>12. r * B \in Nat /\ (r - 1) * B = r * B - B
  BY <1>1, SMT DEF Rows
<1> HIDE DEF d, e
<1>13. \/ q = r /\ m \in {s, s - 1}
       \/ q = r - 1 /\ m \in {s - B, s - B - 1}
  <2>1. CASE q = r
    BY <1>1, <1>10, <1>11, <1>12, <2>1
  <2>2. CASE q = r - 1
    <3>1. m = (r - 1) * B + BandOf(g, e)
      BY <1>10, <2>2
    <3> QED BY <1>1, <1>10, <1>11, <1>12, <2>2, <3>1
  <2> QED BY <1>8, <2>1, <2>2
<1> QED BY <1>3, <1>5, <1>6, <1>13

-----------------------------------------------------------------------------
(* The invariant.                                                          *)

Segs(t, r) == SegsIn(layout[t], r)
SetOf(t, s) == {t} \X SbsOf(layout[t], s)
RowOf(t, s) == SegmentRow(layout[t], s)
IsSegment(t, s) == RowOf(t, s) \in Rows(layout[t]) /\ s \in Segs(t, RowOf(t, s))

\* The owner of a row that nobody holds, and the kinds of owners for which the
\* row's current segment is ready to be coded.
Free == <<"none", Mdc>>
Waiting == {"tasks", "posting", "start", "feedback"}

\* The domains of the functions.
Types ==
    /\ layout \in Layouts
    /\ DOMAIN current = TileGroups /\ DOMAIN dependency = TileGroups
    /\ \A t \in TileGroups :
          DOMAIN current[t] = Rows(layout[t]) /\ DOMAIN dependency[t] = Indices(layout[t])
    /\ DOMAIN posting = Threads \cup {Mdc}
    /\ DOMAIN pc = Threads /\ DOMAIN task = Threads /\ DOMAIN segment = Threads
    /\ DOMAIN todo = Threads /\ DOMAIN next = Threads /\ DOMAIN feedback = Threads
    /\ DOMAIN coded = Threads

\* A tile group of which nothing has been taken.
Untouched(own, t) ==
    \A r \in Rows(layout[t]) :
       current[t][r] = StartOf(layout[t], r) /\ (r # 0 => own[<<t, r>>] = Free)

\* Tasks hold the row they name; the task of a whole tile group, its first row.
IsTask(k) ==
    /\ k.group \in TileGroups /\ k.row \in Rows(layout[k.group])
    /\ k = Task(IF k.row = 0 THEN "MDC_INPUT" ELSE "ENCDEC_INPUT", k.group, k.row)
HeldBy(own, k, owner) ==
    /\ IsTask(k) /\ own[<<k.group, k.row>>] = owner
    /\ k.row = 0 => Untouched(own, k.group)
TasksInPlace(own) ==
    /\ \A k \in tasks : HeldBy(own, k, <<"tasks", Mdc>>)
    /\ \A p \in Threads \cup {Mdc} : \A k \in posting[p] :
          HeldBy(own, k, <<"posting", p>>) /\ k.row = 0

\* Worker w has segment s of tile group t to code: the last one issued of its row.
Issued(own, w, t, s) ==
    own[<<t, RowOf(t, s)>>] = <<"work", w>> /\ s = current[t][RowOf(t, s)] - 1

Places == {"idle", "startPicture", "startRow", "advance", "code", "right", "below",
           "feedback", "last", "release"}

Starting(own, w) ==
    /\ pc[w] \in {"startPicture", "startRow", "advance"} =>
          own[<<task[w].group, task[w].row>>] = <<"start", w>>
    /\ pc[w] = "startPicture" => task[w].row = 0 /\ Untouched(own, task[w].group)
    /\ pc[w] = "advance" => segment[w] = current[task[w].group][task[w].row]
Working(own, right, below, w) ==
    LET t == task[w].group
        s == segment[w]
    IN  /\ pc[w] \in {"code", "right", "below", "feedback"} => IsSegment(t, s)
        /\ pc[w] \in {"code", "right"} => Issued(own, w, t, s)
        /\ pc[w] = "code" =>
              /\ todo[w] # {} /\ todo[w] \subseteq SbsOf(layout[t], s)
              /\ \A b \in SbsOf(layout[t], s) : <<t, b>> \in done <=> b \notin todo[w]
        /\ pc[w] = "right" => SetOf(t, s) \subseteq done
        /\ pc[w] = "below" => <<t, s>> \in right /\ <<t, s>> \notin below
        /\ pc[w] \in {"right", "below", "feedback"} => coded[w] > 0
Going(own, w) ==
    LET t == task[w].group
    IN  /\ next[w] # None =>
              /\ pc[w] \in {"below", "feedback"}
              /\ IsSegment(t, next[w]) /\ Issued(own, w, t, next[w])
              /\ SetOf(t, next[w]) \cap done = {}
              /\ pc[w] = "below" => RowOf(t, next[w]) = RowOf(t, segment[w])
        /\ feedback[w] # None =>
              /\ pc[w] = "feedback" /\ feedback[w] \in Rows(layout[t]) /\ feedback[w] # 0
              /\ own[<<t, feedback[w]>>] = <<"feedback", w>>
WorkerInPlace(own, right, below, w) ==
    /\ pc[w] \in Places /\ coded[w] \in Nat
    /\ pc[w] # "idle" => IsTask(task[w])
    /\ Starting(own, w) /\ Working(own, right, below, w) /\ Going(own, w)

\* A row of segments: its owner, and the current segment ...
Owned(own, right, t, r) ==
    LET c == current[t][r]
        kind == own[<<t, r>>][1]
        first == StartOf(layout[t], r)
    IN  /\ c \in first .. EndOf(layout[t], r) + 1
        /\ kind \in Waiting \cup {"none", "work"}
        /\ kind \in Waiting => c \in Segs(t, r) /\ dependency[t][c] = 0
        /\ kind = "work" => c - 1 \in Segs(t, r) /\ <<t, c - 1>> \notin right
        \* ... which was made ready by a segment above, if there is a row above ...
        /\ kind # "none" \/ c > first =>
              r = 0 \/ first - BandCount(layout[t]) \in Segs(t, r - 1)
\* ... the dependencies of a segment, and how far it is ...
Depends(right, below, t, r, s) ==
    /\ dependency[t][s] =
          (IF AfterLeft(layout[t], r, s) /\ <<t, s - 1>> \notin right THEN 1 ELSE 0)
          + (IF AfterAbove(layout[t], r, s) /\ <<t, s - BandCount(layout[t])>> \notin below
             THEN 1 ELSE 0)
    /\ s < current[t][r] => dependency[t][s] = 0
    /\ <<t, s>> \in right => s < current[t][r] /\ SetOf(t, s) \subseteq done
    /\ <<t, s>> \in below => <<t, s>> \in right
    /\ s >= current[t][r] => SetOf(t, s) \cap done = {}
\* ... for all of them.
RowInOrder(own, right, below, t, r) ==
    /\ Owned(own, right, t, r)
    /\ \A s \in Segs(t, r) : Depends(right, below, t, r, s)
RowsInOrder(own, right, below) ==
    \A t \in TileGroups : \A r \in Rows(layout[t]) : RowInOrder(own, right, below, t, r)

\* The workers that look below look below different segments.
BelowOnce ==
    \A v, w \in Threads :
       /\ pc[v] = "below" /\ pc[w] = "below"
       /\ task[v].group = task[w].group /\ segment[v] = segment[w]
       => v = w

\* The counters.
Uncounted == {w \in Threads : pc[w] \notin {"idle", "last", "release"}}
CountsInOrder ==
    /\ codedCount \in Nat /\ results \in Nat /\ done \subseteq AllSuperblocks
    /\ CountsAreExact /\ BelowOnce
    /\ \A w \in Threads : posting[w] # {} => pc[w] = "release"
    /\ \A w \in Threads : pc[w] = "last" =>
          codedCount = Cardinality(AllSuperblocks) /\ \A v \in Threads : pc[v] = "last" => v = w
    /\ results > 0 =>
          codedCount = Cardinality(AllSuperblocks) /\ \A w \in Threads : pc[w] # "last"

Scheduled(own, right, below) ==
    /\ TasksInPlace(own)
    /\ \A w \in Threads : WorkerInPlace(own, right, below, w)
    /\ RowsInOrder(own, right, below)
    /\ CountsInOrder

ScheduleInvariant == Types /\ \E own, right, below : Scheduled(own, right, below)

-----------------------------------------------------------------------------
(* Layouts.                                                                *)

\* The geometries of a layout are shapes, and its superblocks are finitely many.
LEMMA LayoutShapes ==
    ASSUME layout \in Layouts
    PROVE  /\ \A t \in TileGroups : layout[t] \in Shapes /\ layout[t] \in Geometries
           /\ IsFiniteSet(TileGroups)
<1>1. layout \in Seq(Shapes)
  BY EncDecAssumption
<1>2. \A t \in TileGroups : layout[t] \in Shapes /\ layout[t] \in Geometries
  BY <1>1 DEF TileGroups, Geometries
<1>3. IsFiniteSet(TileGroups)
  <2>1. TileGroups = 1 .. Len(layout) /\ Len(layout) \in Nat
    BY <1>1 DEF TileGroups
  <2> QED BY <2>1, FS_Interval
<1> QED BY <1>2, <1>3

\* A row has segments, all of them with superblocks; segments of different rows differ.
LEMMA RowFacts ==
    ASSUME layout \in Layouts, NEW t \in TileGroups, NEW r \in Rows(layout[t])
    PROVE  /\ r \in Nat /\ BandCount(layout[t]) \in Nat \ {0}
           /\ StartOf(layout[t], r) \in Segs(t, r) /\ EndOf(layout[t], r) \in Segs(t, r)
           /\ \A s : s \in Segs(t, r) <=>
                 s \in Nat /\ StartOf(layout[t], r) <= s /\ s <= EndOf(layout[t], r)
           /\ \A s \in Segs(t, r) :
                 /\ RowOf(t, s) = r /\ s \in Indices(layout[t])
                 /\ HasRight(layout[t], s) <=> s + 1 \in Segs(t, r)
                 /\ HasBelow(layout[t], s) <=>
                       r + 1 \in Rows(layout[t]) /\ s + BandCount(layout[t]) \in Segs(t, r + 1)
                 /\ SbsOf(layout[t], s) # {}
                 /\ WalkTable[layout[t]][s] = SbsOf(layout[t], s)
                 /\ DependencyTable[layout[t]][s] =
                       (IF AfterLeft(layout[t], r, s) THEN 1 ELSE 0)
                       + (IF AfterAbove(layout[t], r, s) THEN 1 ELSE 0)
<1> DEFINE g == layout[t]
<1>1. g \in Shapes /\ g \in Geometries
  BY LayoutShapes
<1>2. r \in Nat /\ BandCount(g) \in Nat \ {0}
  BY <1>1, Counts DEF Rows
<1>3. /\ StartOf(g, r) \in Nat /\ EndOf(g, r) \in Nat /\ StartOf(g, r) <= EndOf(g, r)
      /\ \A s \in SegsIn(g, r) : SegmentRow(g, s) = r /\ s \in Indices(g)
  BY <1>1, RowOfSegment
<1>4. \A s : s \in SegsIn(g, r) <=> s \in Nat /\ StartOf(g, r) <= s /\ s <= EndOf(g, r)
  BY <1>3 DEF SegsIn
<1>5. \A s \in SegsIn(g, r) : HasRight(g, s) <=> s + 1 \in SegsIn(g, r)
  BY <1>3, <1>4 DEF HasRight
<1>6. \A s \in SegsIn(g, r) :
         HasBelow(g, s) <=> r + 1 \in Rows(g) /\ s + BandCount(g) \in SegsIn(g, r + 1)
  BY <1>1, SegmentBelow
<1>7. \A s \in SegsIn(g, r) : SbsOf(g, s) # {} /\ Walk(g, s) = SbsOf(g, s)
  BY <1>1, SegmentHasSuperblocks, WalkVisitsSegment
<1>8. \A s \in SegsIn(g, r) : WalkTable[g][s] = SbsOf(g, s)
  BY <1>1, <1>3, <1>7 DEF WalkTable
<1>9. \A s \in SegsIn(g, r) :
         DependencyTable[g][s] = (IF AfterLeft(g, r, s) THEN 1 ELSE 0)
                                 + (IF AfterAbove(g, r, s) THEN 1 ELSE 0)
  BY <1>1, DependencyCount DEF DependencyTable
<1>10. StartOf(g, r) \in SegsIn(g, r) /\ EndOf(g, r) \in SegsIn(g, r)
  BY <1>3, <1>4
<1> QED BY <1>2, <1>3, <1>4, <1>5, <1>6, <1>7, <1>8, <1>9, <1>10 DEF Segs, RowOf

\* Segments of one tile group have no superblock in common, and every superblock is
\* in a segment.
LEMMA SuperblockFacts ==
    ASSUME layout \in Layouts, NEW t \in TileGroups
    PROVE  /\ \A s, u : s # u => SbsOf(layout[t], s) \cap SbsOf(layout[t], u) = {}
           /\ \A s : SbsOf(layout[t], s) \subseteq Superblocks(layout[t])
           /\ \A b \in Superblocks(layout[t]) :
                 \E r \in Rows(layout[t]) : \E s \in Segs(t, r) : b \in SbsOf(layout[t], s)
<1> DEFINE g == layout[t]
<1>1. g \in Shapes
  BY LayoutShapes
<1>2. \A b \in Superblocks(g) : b[1] \in 0 .. g.w - 1 /\ b[2] \in 0 .. g.h - 1
  BY DEF Superblocks
<1>3. \A b \in Superblocks(g) :
         /\ RowIndex(g, b[2]) \in Rows(g)
         /\ SegmentIndex(g, b[1], b[2]) \in SegsIn(g, RowIndex(g, b[2]))
         /\ b \in SbsOf(g, SegmentIndex(g, b[1], b[2]))
  BY <1>1, <1>2, SegmentOfSuperblock DEF SbsOf
<1> QED BY <1>3 DEF SbsOf, Segs

\* The superblocks of a picture are finitely many.
LEMMA FinitelyMany ==
    ASSUME layout \in Layouts
    PROVE  IsFiniteSet(AllSuperblocks)
<1> DEFINE Of(t) == {t} \X Superblocks(layout[t])
<1>1. \A t \in TileGroups : IsFiniteSet(Superblocks(layout[t]))
  BY LayoutShapes, FiniteSuperblocks
<1>2. \A t \in TileGroups : IsFiniteSet(Of(t))
  <2> TAKE t \in TileGroups
  <2>1. IsFiniteSet({t})
    BY FS_Singleton
  <2> QED BY <1>1, <2>1, FS_Product
<1>3. IsFiniteSet({Of(t) : t \in TileGroups})
  <2> DEFINE sets == {Of(t) : t \in TileGroups}
  <2> DEFINE f == [t \in TileGroups |-> Of(t)]
  <2>1. IsFiniteSet(TileGroups)
    BY LayoutShapes
  <2>2. f \in Surjection(TileGroups, sets)
    BY DEF Surjection
  <2> HIDE DEF f, sets
  <2>3. IsFiniteSet(sets)
    BY <2>1, <2>2, FS_Surjection
  <2> QED BY <2>3 DEF sets
<1>4. IsFiniteSet(UNION {Of(t) : t \in TileGroups})
  BY <1>2, <1>3, FS_UNION
<1> QED BY <1>4 DEF AllSuperblocks

-----------------------------------------------------------------------------
(* What a step leaves alone.                                               *)

\* A worker that does nothing.
Keeps(v) ==
    /\ pc'[v] = pc[v] /\ task'[v] = task[v] /\ segment'[v] = segment[v] /\ todo'[v] = todo[v]
    /\ next'[v] = next[v] /\ feedback'[v] = feedback[v] /\ coded'[v] = coded[v]

\* The owners worker v can be.
Marks(v) == {<<"start", v>>, <<"work", v>>, <<"feedback", v>>}

\* A row is as it was, and if its last segment is still to be coded, so is that.
SamePlace(own, new, t, r) ==
    /\ new[<<t, r>>] = own[<<t, r>>] /\ current'[t][r] = current[t][r]
    /\ own[<<t, r>>][1] = "work" => \A b \in SbsOf(layout[t], current[t][r] - 1) : <<t, b>> \in done' <=> <<t, b>> \in done

\* A worker that does nothing is in place if the rows it holds are as they were.
LEMMA WorkerStays ==
    ASSUME NEW v \in Threads, NEW own, NEW right, NEW below, NEW new, NEW right2, NEW below2,
           WorkerInPlace(own, right, below, v), layout' = layout, Keeps(v),
           \A t \in TileGroups : \A r \in Rows(layout[t]) :
              own[<<t, r>>] \in Marks(v) => SamePlace(own, new, t, r),
           \A t \in TileGroups :
              pc[v] = "startPicture" /\ task[v].group = t => Untouched(new, t)',
           pc[v] = "below" => <<task[v].group, segment[v]>> \in right2
                              /\ <<task[v].group, segment[v]>> \notin below2
    PROVE  WorkerInPlace(new, right2, below2, v)'
<1> PICK t, k, s, n, f : t = task[v].group /\ k = task[v].row /\ s = segment[v] /\ n = next[v] /\ f = feedback[v]
  OBVIOUS
<1>1. /\ pc'[v] = pc[v] /\ task'[v] = task[v] /\ segment'[v] = s /\ todo'[v] = todo[v]
      /\ next'[v] = n /\ feedback'[v] = f /\ coded'[v] = coded[v] /\ layout' = layout
      /\ task'[v].group = t /\ task'[v].row = k
  BY DEF Keeps
<1>2. pc[v] \in Places /\ coded[v] \in Nat /\ (pc[v] # "idle" => IsTask(task[v]))
  BY DEF WorkerInPlace
<1>3. pc[v] # "idle" => t \in TileGroups /\ k \in Rows(layout[t])
  BY <1>2 DEF IsTask
<1>4. (pc[v] # "idle" => IsTask(task[v]))'
  BY <1>1, <1>2 DEF IsTask, TileGroups
<1>5. \A r \in Rows(layout[t]) : t \in TileGroups /\ own[<<t, r>>] \in Marks(v) =>
         /\ new[<<t, r>>] = own[<<t, r>>] /\ current'[t][r] = current[t][r]
         /\ own[<<t, r>>][1] = "work" =>
               \A b \in SbsOf(layout[t], current[t][r] - 1) : <<t, b>> \in done' <=> <<t, b>> \in done
  BY DEF SamePlace
<1>6. Starting(new, v)'
  <2>1. Starting(own, v)
    BY DEF WorkerInPlace
  <2>2. pc[v] \in {"startPicture", "startRow", "advance"} => own[<<t, k>>] = <<"start", v>>
    BY <2>1 DEF Starting
  <2>3. pc[v] \in {"startPicture", "startRow", "advance"} =>
           new[<<t, k>>] = <<"start", v>> /\ current'[t][k] = current[t][k]
    BY <1>3, <1>5, <2>2 DEF Marks
  <2>4. pc[v] = "startPicture" => k = 0 /\ Untouched(new, t)'
    BY <1>3, <2>1 DEF Starting
  <2>5. pc[v] = "advance" => s = current[t][k]
    BY <2>1 DEF Starting
  <2> QED BY <1>1, <2>3, <2>4, <2>5 DEF Starting, Untouched
<1> DEFINE R(x) == SegmentRow(layout[t], x)
<1>7. \A x : t \in TileGroups /\ IsSegment(t, x) /\ Issued(own, v, t, x) =>
         /\ new[<<t, R(x)>>] = <<"work", v>> /\ x = current'[t][R(x)] - 1
         /\ \A b \in SbsOf(layout[t], x) : <<t, b>> \in done' <=> <<t, b>> \in done
  BY <1>5 DEF IsSegment, Issued, RowOf, Marks
<1>8. Working(new, right2, below2, v)'
  <2>1. Working(own, right, below, v)
    BY DEF WorkerInPlace
  <2>2. pc[v] \in {"code", "right", "below", "feedback"} =>
           t \in TileGroups /\ R(s) \in Rows(layout[t]) /\ s \in SegsIn(layout[t], R(s))
    BY <1>3, <2>1 DEF Working, IsSegment, Segs, RowOf
  <2>3. pc[v] \in {"code", "right"} =>
           /\ new[<<t, R(s)>>] = <<"work", v>> /\ s = current'[t][R(s)] - 1
           /\ \A b \in SbsOf(layout[t], s) : <<t, b>> \in done' <=> <<t, b>> \in done
    BY <1>3, <1>7, <2>1 DEF Working
  <2>4. pc[v] = "code" =>
           /\ todo[v] # {} /\ todo[v] \subseteq SbsOf(layout[t], s)
           /\ \A b \in SbsOf(layout[t], s) : <<t, b>> \in done' <=> b \notin todo[v]
    BY <2>1, <2>3 DEF Working
  <2>5. pc[v] = "right" => SetOf(t, s) \subseteq done'
    BY <2>1, <2>3 DEF Working, SetOf
  <2>6. pc[v] = "below" => <<t, s>> \in right2 /\ <<t, s>> \notin below2
    OBVIOUS
  <2>7. pc[v] \in {"right", "below", "feedback"} => coded[v] > 0
    BY <2>1 DEF Working
  <2> QED BY <1>1, <2>2, <2>3, <2>4, <2>5, <2>6, <2>7 DEF Working, IsSegment, Issued, RowOf, Segs, SetOf
<1>9. Going(new, v)'
  <2>1. Going(own, v)
    BY DEF WorkerInPlace
  <2>2. n # None =>
           /\ pc[v] \in {"below", "feedback"}
           /\ R(n) \in Rows(layout[t]) /\ n \in SegsIn(layout[t], R(n))
           /\ new[<<t, R(n)>>] = <<"work", v>> /\ n = current'[t][R(n)] - 1
           /\ SetOf(t, n) \cap done' = {}
           /\ pc[v] = "below" => R(n) = R(s)
    <3> SUFFICES ASSUME n # None
                 PROVE  /\ pc[v] \in {"below", "feedback"}
                        /\ R(n) \in Rows(layout[t]) /\ n \in SegsIn(layout[t], R(n))
                        /\ new[<<t, R(n)>>] = <<"work", v>> /\ n = current'[t][R(n)] - 1
                        /\ SetOf(t, n) \cap done' = {}
                        /\ pc[v] = "below" => R(n) = R(s)
      OBVIOUS
    <3>1. /\ pc[v] \in {"below", "feedback"} /\ IsSegment(t, n) /\ Issued(own, v, t, n)
          /\ SetOf(t, n) \cap done = {} /\ (pc[v] = "below" => RowOf(t, n) = RowOf(t, s))
      BY <2>1 DEF Going
    <3>2. t \in TileGroups
      BY <1>3, <3>1
    <3>3. /\ new[<<t, R(n)>>] = <<"work", v>> /\ n = current'[t][R(n)] - 1
          /\ \A b \in SbsOf(layout[t], n) : <<t, b>> \in done' <=> <<t, b>> \in done
      BY <1>7, <3>1, <3>2
    <3>4. SetOf(t, n) \cap done' = {}
      BY <3>1, <3>3 DEF SetOf
    <3> QED BY <3>1, <3>3, <3>4 DEF IsSegment, RowOf, Segs
  <2>3. f # None =>
           /\ pc[v] = "feedback" /\ f \in Rows(layout[t]) /\ f # 0
           /\ new[<<t, f>>] = <<"feedback", v>>
    <3>1. f # None =>
             /\ pc[v] = "feedback" /\ f \in Rows(layout[t]) /\ f # 0
             /\ own[<<t, f>>] = <<"feedback", v>>
      BY <2>1 DEF Going
    <3> QED BY <1>3, <1>5, <3>1 DEF Marks
  <2> QED BY <1>1, <2>2, <2>3 DEF Going, IsSegment, Issued, RowOf, Segs, SetOf
<1> QED BY <1>1, <1>2, <1>4, <1>6, <1>8, <1>9 DEF WorkerInPlace

\* A task that is left alone keeps its row.
LEMMA TaskStays ==
    ASSUME NEW k, NEW owner, NEW own, NEW new, HeldBy(own, k, owner), layout' = layout,
           new[<<k.group, k.row>>] = owner, k.row = 0 => Untouched(new, k.group)'
    PROVE  HeldBy(new, k, owner)'
BY DEF HeldBy, IsTask, TileGroups

\* A row is in order if nothing that concerns it changes, but for who waits to code it.
LEMMA RowStays ==
    ASSUME layout \in Layouts, layout' = layout, NEW t \in TileGroups, NEW r \in Rows(layout[t]),
           NEW own, NEW right, NEW below, NEW new, NEW right2, NEW below2,
           RowInOrder(own, right, below, t, r),
           current'[t][r] = current[t][r],
           \/ new[<<t, r>>] = own[<<t, r>>]
           \/ own[<<t, r>>][1] \in Waiting /\ new[<<t, r>>][1] \in Waiting,
           \A s \in Segs(t, r) :
              /\ dependency'[t][s] = dependency[t][s]
              /\ <<t, s>> \in right2 <=> <<t, s>> \in right
              /\ <<t, s>> \in below2 => <<t, s>> \in right
              /\ AfterAbove(layout[t], r, s) =>
                    (<<t, s - BandCount(layout[t])>> \in below2
                        <=> <<t, s - BandCount(layout[t])>> \in below)
              /\ s >= current[t][r] => SetOf(t, s) \cap done' = {},
           done \subseteq done'
    PROVE  RowInOrder(new, right2, below2, t, r)'
<1> DEFINE g == layout[t]
<1> DEFINE c == current[t][r]
<1>1. Owned(new, right2, t, r)'
  <2>1. /\ c \in StartOf(g, r) .. EndOf(g, r) + 1
        /\ own[<<t, r>>][1] \in Waiting \cup {"none", "work"}
        /\ own[<<t, r>>][1] \in Waiting => c \in SegsIn(g, r) /\ dependency[t][c] = 0
        /\ own[<<t, r>>][1] = "work" => c - 1 \in SegsIn(g, r) /\ <<t, c - 1>> \notin right
        /\ own[<<t, r>>][1] # "none" \/ c > StartOf(g, r) =>
              r = 0 \/ StartOf(g, r) - BandCount(g) \in SegsIn(g, r - 1)
    BY DEF RowInOrder, Owned, Segs
  <2>2. \A s \in SegsIn(g, r) :
           dependency'[t][s] = dependency[t][s] /\ (<<t, s>> \in right2 <=> <<t, s>> \in right)
    BY DEF Segs
  <2>3. /\ new[<<t, r>>][1] \in Waiting => own[<<t, r>>][1] \in Waiting
        /\ new[<<t, r>>][1] = "work" => own[<<t, r>>][1] = "work"
        /\ new[<<t, r>>][1] # "none" => own[<<t, r>>][1] # "none"
        /\ new[<<t, r>>][1] \in Waiting \cup {"none", "work"}
    BY <2>1 DEF Waiting
  <2>4. /\ new[<<t, r>>][1] \in Waiting => c \in SegsIn(g, r) /\ dependency'[t][c] = 0
        /\ new[<<t, r>>][1] = "work" => c - 1 \in SegsIn(g, r) /\ <<t, c - 1>> \notin right2
    BY <2>1, <2>2, <2>3
  <2>5. new[<<t, r>>][1] # "none" \/ c > StartOf(g, r) =>
           r = 0 \/ StartOf(g, r) - BandCount(g) \in SegsIn(g, r - 1)
    BY <2>1, <2>3
  <2> QED BY <2>1, <2>3, <2>4, <2>5 DEF Owned, Segs
<1>2. ASSUME NEW s \in Segs(t, r)
      PROVE  Depends(right2, below2, t, r, s)'
  <2>1. Depends(right, below, t, r, s)
    BY DEF RowInOrder
  <2>2. AfterLeft(g, r, s) => (<<t, s - 1>> \in right2 <=> <<t, s - 1>> \in right)
    BY DEF AfterLeft, Segs
  <2>3. SetOf(t, s) \subseteq done => SetOf(t, s) \subseteq done'
    OBVIOUS
  <2>4. SetOf(t, s)' = SetOf(t, s)
    BY DEF SetOf
  <2>5. /\ dependency'[t][s] =
              (IF AfterLeft(g, r, s) /\ <<t, s - 1>> \notin right2 THEN 1 ELSE 0)
              + (IF AfterAbove(g, r, s) /\ <<t, s - BandCount(g)>> \notin below2 THEN 1 ELSE 0)
    BY <2>1, <2>2 DEF Depends
  <2>6. /\ s < current'[t][r] => dependency'[t][s] = 0
        /\ <<t, s>> \in right2 => s < current'[t][r] /\ SetOf(t, s) \subseteq done'
        /\ <<t, s>> \in below2 => <<t, s>> \in right2
        /\ s >= current'[t][r] => SetOf(t, s) \cap done' = {}
    BY <2>1, <2>3 DEF Depends
  <2> QED BY <2>4, <2>5, <2>6 DEF Depends
<1>3. Segs(t, r)' = Segs(t, r)
  BY DEF Segs
<1> QED BY <1>1, <1>2, <1>3 DEF RowInOrder

\* The rows do not change, but for their owners.
SameRows ==
    /\ layout' = layout /\ dependency' = dependency /\ done' = done
    /\ \A t \in TileGroups : \A r \in Rows(layout[t]) : current'[t][r] = current[t][r]

\* Who waits to code a row may change: nobody else is concerned.
LEMMA OwnersMove ==
    ASSUME NEW own, NEW right, NEW below, NEW new, layout \in Layouts, Scheduled(own, right, below),
           SameRows,
           \A t \in TileGroups : \A r \in Rows(layout[t]) :
              \/ new[<<t, r>>] = own[<<t, r>>]
              \/ own[<<t, r>>][1] \in Waiting /\ new[<<t, r>>][1] \in Waiting
    PROVE  /\ RowsInOrder(new, right, below)'
           /\ \A v \in Threads :
                 /\ Keeps(v)
                 /\ \A t \in TileGroups : \A r \in Rows(layout[t]) :
                       own[<<t, r>>] \in Marks(v) => new[<<t, r>>] = own[<<t, r>>]
                 => WorkerInPlace(new, right, below, v)'
           /\ \A k, owner : HeldBy(own, k, owner) /\ new[<<k.group, k.row>>] = owner
                               => HeldBy(new, k, owner)'
           /\ \A t \in TileGroups : Untouched(own, t) => Untouched(new, t)'
<1>1. layout' = layout /\ dependency' = dependency /\ done' = done
  BY DEF SameRows
<1>2. \A t \in TileGroups : \A r \in Rows(layout[t]) : current'[t][r] = current[t][r]
  BY DEF SameRows
<1>3. \A t \in TileGroups : Untouched(own, t) => Untouched(new, t)'
  <2> SUFFICES ASSUME NEW t \in TileGroups, Untouched(own, t)
               PROVE  Untouched(new, t)'
    OBVIOUS
  <2>1. \A r \in Rows(layout[t]) :
           current[t][r] = StartOf(layout[t], r) /\ (r # 0 => own[<<t, r>>] = Free)
    BY DEF Untouched
  <2>2. Free[1] \notin Waiting
    BY DEF Free, Waiting
  <2>3. \A r \in Rows(layout[t]) : r # 0 => new[<<t, r>>] = Free
    BY <2>1, <2>2
  <2> QED BY <1>1, <1>2, <2>1, <2>3 DEF Untouched
<1>4. ASSUME NEW t \in TileGroups, NEW r \in Rows(layout[t])
      PROVE  RowInOrder(new, right, below, t, r)'
  <2>1. RowInOrder(own, right, below, t, r)
    BY DEF Scheduled, RowsInOrder
  <2>2. \A s \in Segs(t, r) :
           /\ <<t, s>> \in below => <<t, s>> \in right
           /\ s >= current[t][r] => SetOf(t, s) \cap done' = {}
    BY <1>1, <2>1 DEF RowInOrder, Depends
  <2> QED BY <1>1, <1>2, <2>1, <2>2, RowStays
<1>5. RowsInOrder(new, right, below)'
  BY <1>1, <1>4 DEF RowsInOrder, TileGroups
<1>6. ASSUME NEW v \in Threads, Keeps(v),
             \A t \in TileGroups : \A r \in Rows(layout[t]) :
                own[<<t, r>>] \in Marks(v) => new[<<t, r>>] = own[<<t, r>>]
      PROVE  WorkerInPlace(new, right, below, v)'
  <2>1. WorkerInPlace(own, right, below, v)
    BY DEF Scheduled
  <2>2. \A t \in TileGroups : \A r \in Rows(layout[t]) :
           own[<<t, r>>] \in Marks(v) => SamePlace(own, new, t, r)
    BY <1>1, <1>2, <1>6 DEF SamePlace
  <2>3. \A t \in TileGroups :
           pc[v] = "startPicture" /\ task[v].group = t => Untouched(new, t)'
    <3>1. pc[v] = "startPicture" => Untouched(own, task[v].group)
      BY <2>1 DEF WorkerInPlace, Starting
    <3> QED BY <1>3, <3>1
  <2>4. pc[v] = "below" => /\ <<task[v].group, segment[v]>> \in right
                           /\ <<task[v].group, segment[v]>> \notin below
    BY <2>1 DEF WorkerInPlace, Working
  <2> QED BY <1>1, <1>6, <2>1, <2>2, <2>3, <2>4, WorkerStays
<1>7. ASSUME NEW k, NEW owner, HeldBy(own, k, owner), new[<<k.group, k.row>>] = owner
      PROVE  HeldBy(new, k, owner)'
  <2>1. k.row = 0 => Untouched(new, k.group)'
    BY <1>3, <1>7 DEF HeldBy, IsTask
  <2> QED BY <1>1, <1>7, <2>1, TaskStays
<1>8. \A v \in Threads :
         /\ Keeps(v)
         /\ \A t \in TileGroups : \A r \in Rows(layout[t]) :
               own[<<t, r>>] \in Marks(v) => new[<<t, r>>] = own[<<t, r>>]
         => WorkerInPlace(new, right, below, v)'
  BY <1>6
<1>9. \A k, owner : HeldBy(own, k, owner) /\ new[<<k.group, k.row>>] = owner
                       => HeldBy(new, k, owner)'
  BY <1>7
<1> QED BY <1>3, <1>5, <1>8, <1>9

-----------------------------------------------------------------------------
(* The counters.                                                           *)

\* What CountsAreExact says.
LEMMA ExactCounts ==
    /\ CountsAreExact <=> codedCount + Sum(coded, Uncounted) = Cardinality(done)
    /\ CountsAreExact' <=> codedCount' + Sum(coded', Uncounted') = Cardinality(done')
<1>1. CountsAreExact <=> codedCount + Sum(coded, Uncounted) = Cardinality(done)
  BY DEF CountsAreExact, Uncounted, Sum
<1>2. (CountsAreExact <=> codedCount + Sum(coded, Uncounted) = Cardinality(done))'
  BY <1>1, PTL
<1> QED BY <1>1, <1>2

\* The workers still counting are finitely many, and their counts are numbers.
LEMMA CountingWorkers ==
    ASSUME NEW own, NEW right, NEW below, Scheduled(own, right, below)
    PROVE  /\ IsFiniteSet(Uncounted) /\ \A w \in Uncounted : coded[w] \in Nat
           /\ Sum(coded, Uncounted) \in Nat
<1>1. IsFiniteSet(Uncounted) /\ Uncounted \subseteq Threads
  <2>1. Uncounted \subseteq Threads
    BY DEF Uncounted
  <2> QED BY <2>1, EncDecAssumption, FS_Subset
<1>2. \A w \in Uncounted : coded[w] \in Nat
  BY <1>1 DEF Scheduled, WorkerInPlace
<1> QED BY <1>1, <1>2, SumIsNumber

\* A step after which no other worker looks below.
LEMMA BelowStays ==
    ASSUME BelowOnce, \A v \in Threads : pc'[v] = "below" => Keeps(v)
    PROVE  BelowOnce'
BY DEF BelowOnce, Keeps

\* A step that changes none of the counts.
LEMMA CountsStay ==
    ASSUME NEW own, NEW right, NEW below, Scheduled(own, right, below),
           layout' = layout, codedCount' = codedCount, results' = results, done' = done,
           \A v \in Threads :
              /\ coded'[v] = coded[v]
              /\ posting'[v] # {} => posting[v] # {} /\ pc'[v] = pc[v]
              /\ pc'[v] = "last" <=> pc[v] = "last"
              /\ pc'[v] \in {"idle", "last", "release"} <=> pc[v] \in {"idle", "last", "release"},
           BelowOnce'
    PROVE  CountsInOrder'
<1>1. CountsInOrder
  BY DEF Scheduled
<1>2. Uncounted' = Uncounted
  BY DEF Uncounted
<1>3. Sum(coded', Uncounted) = Sum(coded, Uncounted)
  <2>1. \A v \in Uncounted : coded'[v] = coded[v]
    BY DEF Uncounted
  <2> QED BY <2>1, CountingWorkers, SumOfSame
<1>4. CountsAreExact'
  <2>1. CountsAreExact
    BY <1>1 DEF CountsInOrder
  <2> QED BY <1>2, <1>3, <2>1, ExactCounts
<1>5. AllSuperblocks' = AllSuperblocks
  BY DEF AllSuperblocks, TileGroups
<1> QED BY <1>1, <1>4, <1>5 DEF CountsInOrder

-----------------------------------------------------------------------------
(* Owners.                                                                 *)

\* Row r of group t gets an owner.
GivenTo(own, new, t, r, owner) ==
    /\ new[<<t, r>>] = owner
    /\ \A u \in TileGroups : \A q \in Rows(layout[u]) :
          u # t \/ q # r => new[<<u, q>>] = own[<<u, q>>]
\* An owner can be given to any row.
LEMMA HandOver ==
    \A own, owner : \A t \in TileGroups : \A r \in Rows(layout[t]) :
       \E new : GivenTo(own, new, t, r, owner)
<1> TAKE own, owner
<1> TAKE t \in TileGroups
<1> TAKE r \in Rows(layout[t])
<1> DEFINE places == UNION {{u} \X Rows(layout[u]) : u \in TileGroups}
<1> DEFINE new == [p \in places |-> IF p = <<t, r>> THEN owner ELSE own[p]]
<1>1. \A u \in TileGroups : \A q \in Rows(layout[u]) : <<u, q>> \in places
  OBVIOUS
<1>2. new[<<t, r>>] = owner
  BY <1>1
<1>3. \A u \in TileGroups : \A q \in Rows(layout[u]) :
         u # t \/ q # r => new[<<u, q>>] = own[<<u, q>>]
  BY <1>1
<1>4. GivenTo(own, new, t, r, owner)
  BY <1>2, <1>3 DEF GivenTo
<1> QED BY <1>4

\* A task is known by its row.
LEMMA TaskOfRow ==
    ASSUME NEW j, NEW k, IsTask(j), IsTask(k), j.group = k.group, j.row = k.row
    PROVE  j = k
BY DEF IsTask

\* What is known of a row.
LEMMA InRow ==
    ASSUME NEW own, NEW right, NEW below, layout \in Layouts, Scheduled(own, right, below),
           NEW t \in TileGroups, NEW r \in Rows(layout[t])
    PROVE  /\ RowInOrder(own, right, below, t, r) /\ Owned(own, right, t, r)
           /\ \A s \in Segs(t, r) : Depends(right, below, t, r, s)
           /\ StartOf(layout[t], r) \in Nat /\ EndOf(layout[t], r) \in Nat
           /\ current[t][r] \in Nat
           /\ StartOf(layout[t], r) <= current[t][r] /\ current[t][r] <= EndOf(layout[t], r) + 1
<1>1. RowInOrder(own, right, below, t, r)
  BY DEF Scheduled, RowsInOrder
<1>2. Owned(own, right, t, r) /\ \A s \in Segs(t, r) : Depends(right, below, t, r, s)
  BY <1>1 DEF RowInOrder
<1>3. StartOf(layout[t], r) \in Nat /\ EndOf(layout[t], r) \in Nat
  BY RowFacts
<1>4. current[t][r] \in StartOf(layout[t], r) .. EndOf(layout[t], r) + 1
  BY <1>2 DEF Owned
<1> QED BY <1>1, <1>2, <1>3, <1>4

\* A group of which something has been taken is no task of its own any more, and no
\* worker is about to start it.
NotPosted(t) ==
    /\ \A k \in tasks : k.row = 0 => k.group # t
    /\ \A p \in Threads \cup {Mdc} : \A k \in posting[p] : k.group # t
    /\ \A v \in Threads : pc[v] = "startPicture" => task[v].group # t
\* So it is for the group of a worker that goes on with a task.
LEMMA TakenOnce ==
    ASSUME NEW own, NEW right, NEW below, layout \in Layouts, Scheduled(own, right, below),
           NEW w \in Threads, pc[w] \in {"startRow", "advance", "code", "right", "below"}
    PROVE  NotPosted(task[w].group)
<1> DEFINE t == task[w].group
<1> DEFINE a == task[w].row
<1> DEFINE s == segment[w]
<1> DEFINE r == RowOf(t, s)
<1>1. IsTask(task[w]) /\ Starting(own, w) /\ Working(own, right, below, w) /\ t \in TileGroups
      /\ a \in Rows(layout[t])
  BY DEF Scheduled, WorkerInPlace, IsTask
<1>2. \/ pc[w] # "startPicture" /\ own[<<t, a>>] = <<"start", w>>
      \/ r \in Rows(layout[t]) /\ current[t][r] # StartOf(layout[t], r)
  <2>1. CASE pc[w] \in {"startRow", "advance"}
    BY <1>1, <2>1 DEF Starting
  <2>2. CASE pc[w] \in {"code", "right"}
    <3>1. r \in Rows(layout[t]) /\ s \in Segs(t, r) /\ s = current[t][r] - 1
      BY <1>1, <2>2 DEF Working, IsSegment, Issued
    <3>2. s \in Nat /\ StartOf(layout[t], r) \in Nat /\ StartOf(layout[t], r) <= s
      BY <1>1, <3>1, RowFacts
    <3>3. current[t][r] \in Int
      BY <1>1, <3>1, InRow
    <3> QED BY <3>1, <3>2, <3>3
  <2>3. CASE pc[w] = "below"
    <3>1. r \in Rows(layout[t]) /\ s \in Segs(t, r) /\ <<t, s>> \in right
      BY <1>1, <2>3 DEF Working, IsSegment
    <3>2. s < current[t][r]
      <4>1. Depends(right, below, t, r, s)
        <5> HIDE DEF r, s, t
        <5> QED BY <1>1, <3>1, InRow
      <4> QED BY <3>1, <4>1 DEF Depends
    <3>3. s \in Nat /\ StartOf(layout[t], r) \in Nat /\ StartOf(layout[t], r) <= s
      BY <1>1, <3>1, RowFacts
    <3> QED BY <3>1, <3>2, <3>3
  <2> QED BY <2>1, <2>2, <2>3
<1>3. ASSUME NEW owner, own[<<t, 0>>] = owner, Untouched(own, t)
      PROVE  owner = <<"start", w>> /\ pc[w] # "startPicture"
  <2>1. <<"start", w>> # Free
    BY DEF Free
  <2> QED BY <1>1, <1>2, <1>3, <2>1 DEF Untouched
<1>4. \A k \in tasks : k.row = 0 => k.group # t
  <2>1. \A k \in tasks : k.row = 0 /\ k.group = t => own[<<t, 0>>] = <<"tasks", Mdc>> /\ Untouched(own, t)
    BY DEF Scheduled, TasksInPlace, HeldBy
  <2>2. <<"tasks", Mdc>> # <<"start", w>>
    OBVIOUS
  <2> QED BY <1>3, <2>1, <2>2
<1>5. \A p \in Threads \cup {Mdc} : \A k \in posting[p] : k.group # t
  <2>1. \A p \in Threads \cup {Mdc} : \A k \in posting[p] :
           k.group = t => own[<<t, 0>>] = <<"posting", p>> /\ Untouched(own, t)
    BY DEF Scheduled, TasksInPlace, HeldBy
  <2>2. \A p : <<"posting", p>> # <<"start", w>>
    OBVIOUS
  <2> QED BY <1>3, <2>1, <2>2
<1>6. \A v \in Threads : pc[v] = "startPicture" => task[v].group # t
  <2>1. \A v \in Threads : pc[v] = "startPicture" /\ task[v].group = t =>
           own[<<t, 0>>] = <<"start", v>> /\ Untouched(own, t)
    BY DEF Scheduled, WorkerInPlace, Starting
  <2>2. \A v : <<"start", v>> = <<"start", w>> => v = w
    OBVIOUS
  <2> QED BY <1>3, <2>1, <2>2
<1> QED BY <1>4, <1>5, <1>6 DEF NotPosted

\* When all superblocks are counted, there is nothing left to do.
LEMMA AllCounted ==
    ASSUME NEW own, NEW right, NEW below, layout \in Layouts, Scheduled(own, right, below),
           codedCount = Cardinality(AllSuperblocks)
    PROVE  /\ done = AllSuperblocks /\ tasks = {}
           /\ \A p \in Threads \cup {Mdc} : posting[p] = {}
           /\ \A w \in Threads : pc[w] \in {"idle", "last", "release"}
<1>1. done \subseteq AllSuperblocks /\ codedCount \in Nat
  BY DEF Scheduled, CountsInOrder
<1>2. codedCount + Sum(coded, Uncounted) = Cardinality(done)
  BY ExactCounts DEF Scheduled, CountsInOrder
<1>3. IsFiniteSet(done) /\ Cardinality(done) \in Nat /\ Cardinality(done) <= Cardinality(AllSuperblocks)
      /\ (Cardinality(done) = Cardinality(AllSuperblocks) => done = AllSuperblocks)
  BY <1>1, FinitelyMany, FS_Subset, FS_CardinalityType
<1>4. IsFiniteSet(Uncounted) /\ (\A w \in Uncounted : coded[w] \in Nat) /\ Sum(coded, Uncounted) \in Nat
  BY CountingWorkers
<1>5. Sum(coded, Uncounted) = 0 /\ done = AllSuperblocks
  BY <1>1, <1>2, <1>3, <1>4
<1>6. \A w \in Uncounted : coded[w] = 0
  <2> TAKE w \in Uncounted
  <2>1. coded[w] <= Sum(coded, Uncounted)
    BY <1>4, SumBounds
  <2> QED BY <1>4, <1>5, <2>1
<1>7. \A t \in TileGroups : \A s : SetOf(t, s) \subseteq done
  <2> TAKE t \in TileGroups
  <2> TAKE s
  <2>1. SbsOf(layout[t], s) \subseteq Superblocks(layout[t])
    BY SuperblockFacts
  <2> QED BY <1>5, <2>1 DEF SetOf, AllSuperblocks
<1>8. \A t \in TileGroups : \A r \in Rows(layout[t]) : own[<<t, r>>][1] \notin Waiting
  <2> SUFFICES ASSUME NEW t \in TileGroups, NEW r \in Rows(layout[t]), own[<<t, r>>][1] \in Waiting
               PROVE  FALSE
    OBVIOUS
  <2>1. PICK c : c = current[t][r]
    OBVIOUS
  <2>2. c \in Segs(t, r) /\ c \in Nat
    BY <2>1, InRow DEF Owned
  <2>3. Depends(right, below, t, r, c) /\ SbsOf(layout[t], c) # {}
    BY <2>2, InRow, RowFacts
  <2>4. SetOf(t, c) \cap done = {}
    BY <2>1, <2>2, <2>3 DEF Depends
  <2>5. PICK b \in SbsOf(layout[t], c) : TRUE
    BY <2>3
  <2>6. <<t, b>> \in SetOf(t, c)
    BY <2>5 DEF SetOf
  <2> QED BY <1>7, <2>4, <2>6
<1>9. tasks = {} /\ \A p \in Threads \cup {Mdc} : posting[p] = {}
  <2>1. \A k, owner : HeldBy(own, k, owner) => owner[1] \notin Waiting
    BY <1>8 DEF HeldBy, IsTask
  <2>2. <<"tasks", Mdc>>[1] \in Waiting /\ \A p : <<"posting", p>>[1] \in Waiting
    BY DEF Waiting
  <2> QED BY <2>1, <2>2 DEF Scheduled, TasksInPlace
<1>10. ASSUME NEW w \in Threads
       PROVE  pc[w] \in {"idle", "last", "release"}
  <2>1. WorkerInPlace(own, right, below, w)
    BY DEF Scheduled
  <2>2. PICK t, s, k : t = task[w].group /\ s = segment[w] /\ k = task[w].row
    OBVIOUS
  <2>3. pc[w] # "idle" => t \in TileGroups /\ k \in Rows(layout[t])
    BY <2>1, <2>2 DEF WorkerInPlace, IsTask
  <2>4. pc[w] \notin {"startPicture", "startRow", "advance"}
    <3>1. pc[w] \in {"startPicture", "startRow", "advance"} => own[<<t, k>>] = <<"start", w>>
      BY <2>1, <2>2 DEF WorkerInPlace, Starting
    <3> QED BY <1>8, <2>3, <3>1 DEF Waiting
  <2>5. pc[w] # "code"
    <3> SUFFICES ASSUME pc[w] = "code"
                 PROVE  FALSE
      OBVIOUS
    <3>1. PICK b \in SbsOf(layout[t], s) : <<t, b>> \notin done
      BY <2>1, <2>2 DEF WorkerInPlace, Working
    <3> QED BY <1>7, <2>3, <3>1 DEF SetOf
  <2>6. pc[w] \notin {"right", "below", "feedback"}
    <3>1. pc[w] \in {"right", "below", "feedback"} => coded[w] > 0 /\ w \in Uncounted
      BY <2>1 DEF WorkerInPlace, Working, Uncounted
    <3> QED BY <1>6, <3>1
  <2> QED BY <2>1, <2>4, <2>5, <2>6 DEF WorkerInPlace, Places
<1> QED BY <1>5, <1>9, <1>10

-----------------------------------------------------------------------------
(* Steps of a worker that leave the owners as they are.                    *)

\* Such a step keeps the invariant if it leaves the worker in place and the counters right.
LEMMA SameOwners ==
    ASSUME NEW own, NEW right, NEW below, layout \in Layouts, Scheduled(own, right, below),
           NEW w \in Threads, SameRows, tasks' = tasks, posting' = posting,
           \A v \in Threads : v # w => Keeps(v),
           WorkerInPlace(own, right, below, w)', CountsInOrder'
    PROVE  Scheduled(own, right, below)'
<1>1. /\ RowsInOrder(own, right, below)'
      /\ \A v \in Threads : Keeps(v) => WorkerInPlace(own, right, below, v)'
      /\ \A k, owner : HeldBy(own, k, owner) /\ own[<<k.group, k.row>>] = owner
                           => HeldBy(own, k, owner)'
  BY OwnersMove
<1>2. TasksInPlace(own)'
  <2>1. \A k, owner : HeldBy(own, k, owner) => own[<<k.group, k.row>>] = owner
    BY DEF HeldBy
  <2>2. TasksInPlace(own)
    BY DEF Scheduled
  <2> QED BY <1>1, <2>1, <2>2 DEF TasksInPlace
<1>3. \A v \in Threads : WorkerInPlace(own, right, below, v)'
  BY <1>1
<1> QED BY <1>1, <1>2, <1>3 DEF Scheduled

\* A worker that reads the current segment of its row keeps the invariant ...
LEMMA StartRowStep ==
    ASSUME Types, ScheduleInvariant, NEW w \in Threads, StartRow(w)
    PROVE  ScheduleInvariant'
<1> PICK own, right, below : Scheduled(own, right, below)
  BY DEF ScheduleInvariant
<1> PICK t, r : t = task[w].group /\ r = task[w].row
  OBVIOUS
<1>1. /\ pc[w] = "startRow" /\ segment' = [segment EXCEPT ![w] = current[t][r]]
      /\ pc' = [pc EXCEPT ![w] = "advance"]
      /\ layout' = layout /\ current' = current /\ dependency' = dependency /\ tasks' = tasks
      /\ posting' = posting /\ task' = task /\ todo' = todo /\ next' = next /\ feedback' = feedback
      /\ coded' = coded /\ codedCount' = codedCount /\ results' = results /\ done' = done
  BY DEF StartRow, segmentVars, queueVars, pictureVars
<1>2. Types'
  BY <1>1 DEF Types, TileGroups
<1>3. pc'[w] = "advance" /\ segment'[w] = current[t][r] /\ \A v \in Threads : v # w => Keeps(v)
  BY <1>1 DEF Types, Keeps
<1>4. SameRows
  BY <1>1 DEF SameRows
<1>5. WorkerInPlace(own, right, below, w)'
  <2>1. WorkerInPlace(own, right, below, w)
    BY DEF Scheduled
  <2>2. next[w] = None /\ feedback[w] = None /\ coded[w] \in Nat /\ IsTask(task[w])
        /\ own[<<t, r>>] = <<"start", w>>
    BY <1>1, <2>1 DEF WorkerInPlace, Going, Starting
  <2>3. IsTask(task[w])'
    BY <1>1, <2>2 DEF IsTask, TileGroups
  <2>4. Starting(own, w)'
    BY <1>1, <1>3, <2>2 DEF Starting
  <2>5. Working(own, right, below, w)' /\ Going(own, w)'
    BY <1>1, <1>3, <2>2 DEF Working, Going
  <2> QED BY <1>1, <1>3, <2>2, <2>3, <2>4, <2>5 DEF WorkerInPlace, Places
<1>6. CountsInOrder'
  <2>1. \A v \in Threads :
           /\ coded'[v] = coded[v] /\ (posting'[v] # {} => posting[v] # {} /\ pc'[v] = pc[v])
           /\ pc'[v] = "last" <=> pc[v] = "last"
           /\ pc'[v] \in {"idle", "last", "release"} <=> pc[v] \in {"idle", "last", "release"}
    <3>1. posting[w] = {}
      BY <1>1 DEF Scheduled, CountsInOrder
    <3> QED BY <1>1, <1>3, <3>1 DEF Keeps
  <2>2. BelowOnce'
    BY <1>1, <1>3, BelowStays DEF Scheduled, CountsInOrder
  <2> QED BY <1>1, <2>1, <2>2, CountsStay
<1> QED BY <1>1, <1>2, <1>3, <1>4, <1>5, <1>6, SameOwners DEF ScheduleInvariant, Types

\* ... and one that resets the rows of a tile group it alone knows of ...
LEMMA StartPictureStep ==
    ASSUME Types, ScheduleInvariant, NEW w \in Threads, StartPicture(w)
    PROVE  ScheduleInvariant'
<1> PICK own, right, below : Scheduled(own, right, below)
  BY DEF ScheduleInvariant
<1> PICK t, r : t = task[w].group /\ r = task[w].row
  OBVIOUS
<1>1. /\ pc[w] = "startPicture" /\ segment' = [segment EXCEPT ![w] = StartOf(layout[t], 0)]
      /\ current' = [current EXCEPT ![t] = [q \in DOMAIN current[t] |-> StartOf(layout[t], q)]]
      /\ pc' = [pc EXCEPT ![w] = "advance"]
      /\ layout' = layout /\ dependency' = dependency /\ tasks' = tasks
      /\ posting' = posting /\ task' = task /\ todo' = todo /\ next' = next /\ feedback' = feedback
      /\ coded' = coded /\ codedCount' = codedCount /\ results' = results /\ done' = done
  BY DEF StartPicture, Geometry, queueVars, pictureVars
<1>2. WorkerInPlace(own, right, below, w)
  BY DEF Scheduled
<1>3. /\ next[w] = None /\ feedback[w] = None /\ coded[w] \in Nat /\ IsTask(task[w])
      /\ own[<<t, r>>] = <<"start", w>> /\ r = 0 /\ Untouched(own, t)
  BY <1>1, <1>2 DEF WorkerInPlace, Going, Starting
<1>4. t \in TileGroups /\ 0 \in Rows(layout[t])
  BY <1>3 DEF IsTask
<1>5. \A u \in TileGroups : \A q \in Rows(layout[u]) : current'[u][q] = current[u][q]
  BY <1>1, <1>3, <1>4 DEF Types, Untouched
<1>6. Types'
  BY <1>1, <1>4 DEF Types, TileGroups
<1>7. /\ pc'[w] = "advance" /\ segment'[w] = StartOf(layout[t], 0)
      /\ \A v \in Threads : v # w => Keeps(v)
  BY <1>1 DEF Types, Keeps
<1>8. SameRows
  BY <1>1, <1>5 DEF SameRows
<1>9. WorkerInPlace(own, right, below, w)'
  <2>1. segment'[w] = current'[t][r]
    BY <1>3, <1>4, <1>5, <1>7 DEF Untouched
  <2>2. IsTask(task[w])'
    BY <1>1, <1>3 DEF IsTask, TileGroups
  <2>3. Starting(own, w)'
    BY <1>1, <1>3, <1>7, <2>1 DEF Starting
  <2>4. Working(own, right, below, w)' /\ Going(own, w)'
    BY <1>1, <1>3, <1>7 DEF Working, Going
  <2> QED BY <1>1, <1>3, <1>7, <2>2, <2>3, <2>4 DEF WorkerInPlace, Places
<1>10. CountsInOrder'
  <2>1. \A v \in Threads :
           /\ coded'[v] = coded[v] /\ (posting'[v] # {} => posting[v] # {} /\ pc'[v] = pc[v])
           /\ pc'[v] = "last" <=> pc[v] = "last"
           /\ pc'[v] \in {"idle", "last", "release"} <=> pc[v] \in {"idle", "last", "release"}
    <3>1. posting[w] = {}
      BY <1>1 DEF Scheduled, CountsInOrder
    <3> QED BY <1>1, <1>7, <3>1 DEF Keeps
  <2>2. BelowOnce'
    BY <1>1, <1>7, BelowStays DEF Scheduled, CountsInOrder
  <2> QED BY <1>1, <2>1, <2>2, CountsStay
<1> QED BY <1>1, <1>6, <1>7, <1>8, <1>9, <1>10, SameOwners DEF ScheduleInvariant, Types

\* ... and one that goes on with the segment it was assigned ...
LEMMA ContinueStep ==
    ASSUME Types, ScheduleInvariant, NEW w \in Threads, Continue(w)
    PROVE  ScheduleInvariant'
<1> PICK own, right, below : Scheduled(own, right, below)
  BY DEF ScheduleInvariant
<1> PICK t, n : t = task[w].group /\ n = next[w]
  OBVIOUS
<1>1. /\ pc[w] = "feedback" /\ feedback[w] = None /\ n # None
      /\ segment' = [segment EXCEPT ![w] = n] /\ next' = [next EXCEPT ![w] = None]
      /\ todo' = [todo EXCEPT ![w] = WalkTable[layout[t]][n]]
      /\ pc' = [pc EXCEPT ![w] = "code"]
      /\ layout' = layout /\ current' = current /\ dependency' = dependency /\ tasks' = tasks
      /\ posting' = posting /\ task' = task /\ feedback' = feedback
      /\ coded' = coded /\ codedCount' = codedCount /\ results' = results /\ done' = done
  BY DEF Continue, Geometry, segmentVars, queueVars, pictureVars
<1>2. Types'
  BY <1>1 DEF Types, TileGroups
<1>3. pc'[w] = "code" /\ segment'[w] = n /\ next'[w] = None /\ todo'[w] = WalkTable[layout[t]][n]
      /\ \A v \in Threads : v # w => Keeps(v)
  BY <1>1 DEF Types, Keeps
<1>4. SameRows
  BY <1>1 DEF SameRows
<1>5. WorkerInPlace(own, right, below, w)'
  <2>1. WorkerInPlace(own, right, below, w)
    BY DEF Scheduled
  <2>2. coded[w] \in Nat /\ IsTask(task[w]) /\ t \in TileGroups
    BY <1>1, <2>1 DEF WorkerInPlace, IsTask
  <2>3. IsSegment(t, n) /\ Issued(own, w, t, n) /\ SetOf(t, n) \cap done = {}
    BY <1>1, <2>1 DEF WorkerInPlace, Going
  <2>4. todo'[w] = SbsOf(layout[t], n) /\ SbsOf(layout[t], n) # {}
    <3>1. PICK r \in Rows(layout[t]) : n \in Segs(t, r)
      BY <2>3 DEF IsSegment
    <3>2. layout \in Layouts
      BY DEF Types
    <3>3. WalkTable[layout[t]][n] = SbsOf(layout[t], n) /\ SbsOf(layout[t], n) # {}
      BY <2>2, <3>1, <3>2, RowFacts
    <3> QED BY <1>3, <3>3
  <2>5. \A b \in SbsOf(layout[t], n) : <<t, b>> \notin done
    BY <2>3 DEF SetOf
  <2>6. IsTask(task[w])'
    BY <1>1, <2>2 DEF IsTask, TileGroups
  <2>7. Starting(own, w)' /\ Going(own, w)'
    BY <1>1, <1>3 DEF Starting, Going
  <2>8. Working(own, right, below, w)'
    BY <1>1, <1>3, <2>3, <2>4, <2>5 DEF Working, IsSegment, Issued, RowOf, Segs
  <2> QED BY <1>1, <1>3, <2>2, <2>6, <2>7, <2>8 DEF WorkerInPlace, Places
<1>6. CountsInOrder'
  <2>1. \A v \in Threads :
           /\ coded'[v] = coded[v] /\ (posting'[v] # {} => posting[v] # {} /\ pc'[v] = pc[v])
           /\ pc'[v] = "last" <=> pc[v] = "last"
           /\ pc'[v] \in {"idle", "last", "release"} <=> pc[v] \in {"idle", "last", "release"}
    <3>1. posting[w] = {}
      BY <1>1 DEF Scheduled, CountsInOrder
    <3> QED BY <1>1, <1>3, <3>1 DEF Keeps
  <2>2. BelowOnce'
    BY <1>1, <1>3, BelowStays DEF Scheduled, CountsInOrder
  <2> QED BY <1>1, <2>1, <2>2, CountsStay
<1> QED BY <1>1, <1>2, <1>3, <1>4, <1>5, <1>6, SameOwners DEF ScheduleInvariant, Types

\* ... and one that gives its task back ...
LEMMA ReleaseStep ==
    ASSUME Types, ScheduleInvariant, NEW w \in Threads, Release(w)
    PROVE  ScheduleInvariant'
<1> PICK own, right, below : Scheduled(own, right, below)
  BY DEF ScheduleInvariant
<1>1. /\ pc[w] = "release" /\ posting[w] = {} /\ task' = [task EXCEPT ![w] = NoTask]
      /\ pc' = [pc EXCEPT ![w] = "idle"]
      /\ layout' = layout /\ current' = current /\ dependency' = dependency /\ tasks' = tasks
      /\ posting' = posting /\ segment' = segment /\ todo' = todo /\ next' = next
      /\ feedback' = feedback /\ coded' = coded /\ codedCount' = codedCount
      /\ results' = results /\ done' = done
  BY DEF Release, segmentVars, pictureVars
<1>2. Types'
  BY <1>1 DEF Types, TileGroups
<1>3. pc'[w] = "idle" /\ \A v \in Threads : v # w => Keeps(v)
  BY <1>1 DEF Types, Keeps
<1>4. SameRows
  BY <1>1 DEF SameRows
<1>5. WorkerInPlace(own, right, below, w)'
  <2>1. WorkerInPlace(own, right, below, w)
    BY DEF Scheduled
  <2>2. next[w] = None /\ feedback[w] = None /\ coded[w] \in Nat
    BY <1>1, <2>1 DEF WorkerInPlace, Going
  <2>3. Starting(own, w)' /\ Working(own, right, below, w)' /\ Going(own, w)'
    BY <1>1, <1>3, <2>2 DEF Starting, Working, Going
  <2> QED BY <1>1, <1>3, <2>2, <2>3 DEF WorkerInPlace, Places
<1>6. CountsInOrder'
  <2>1. \A v \in Threads :
           /\ coded'[v] = coded[v] /\ (posting'[v] # {} => posting[v] # {} /\ pc'[v] = pc[v])
           /\ pc'[v] = "last" <=> pc[v] = "last"
           /\ pc'[v] \in {"idle", "last", "release"} <=> pc[v] \in {"idle", "last", "release"}
    BY <1>1, <1>3 DEF Keeps
  <2>2. BelowOnce'
    BY <1>1, <1>3, BelowStays DEF Scheduled, CountsInOrder
  <2> QED BY <1>1, <2>1, <2>2, CountsStay
<1> QED BY <1>1, <1>2, <1>3, <1>4, <1>5, <1>6, SameOwners DEF ScheduleInvariant, Types

\* ... and one that hands the picture on ...
LEMMA HandOnStep ==
    ASSUME Types, ScheduleInvariant, NEW w \in Threads, HandOn(w)
    PROVE  ScheduleInvariant'
<1> PICK own, right, below : Scheduled(own, right, below)
  BY DEF ScheduleInvariant
<1>1. /\ pc[w] = "last" /\ results' = results + 1 /\ pc' = [pc EXCEPT ![w] = "release"]
      /\ layout' = layout /\ current' = current /\ dependency' = dependency /\ tasks' = tasks
      /\ posting' = posting /\ task' = task /\ segment' = segment /\ todo' = todo /\ next' = next
      /\ feedback' = feedback /\ coded' = coded /\ codedCount' = codedCount /\ done' = done
  BY DEF HandOn, segmentVars, queueVars, localVars
<1>2. Types'
  BY <1>1 DEF Types, TileGroups
<1>3. pc'[w] = "release" /\ \A v \in Threads : v # w => Keeps(v)
  BY <1>1 DEF Types, Keeps
<1>4. SameRows
  BY <1>1 DEF SameRows
<1>5. WorkerInPlace(own, right, below, w)'
  <2>1. WorkerInPlace(own, right, below, w)
    BY DEF Scheduled
  <2>2. next[w] = None /\ feedback[w] = None /\ coded[w] \in Nat /\ IsTask(task[w])
    BY <1>1, <2>1 DEF WorkerInPlace, Going
  <2>3. Starting(own, w)' /\ Working(own, right, below, w)' /\ Going(own, w)'
    BY <1>1, <1>3, <2>2 DEF Starting, Working, Going
  <2>4. IsTask(task[w])'
    BY <1>1, <2>2 DEF IsTask, TileGroups
  <2> QED BY <1>1, <1>3, <2>2, <2>3, <2>4 DEF WorkerInPlace, Places
<1>6. CountsInOrder'
  <2>1. /\ codedCount \in Nat /\ results \in Nat /\ done \subseteq AllSuperblocks /\ CountsAreExact
        /\ \A v \in Threads : posting[v] # {} => pc[v] = "release"
        /\ codedCount = Cardinality(AllSuperblocks)
        /\ \A v \in Threads : pc[v] = "last" => v = w
    BY <1>1 DEF Scheduled, CountsInOrder
  <2>2. Uncounted' = Uncounted
    BY <1>1, <1>3 DEF Uncounted, Keeps
  <2>3. CountsAreExact'
    BY <1>1, <2>1, <2>2, ExactCounts
  <2>4. AllSuperblocks' = AllSuperblocks
    BY <1>1 DEF AllSuperblocks, TileGroups
  <2>5. \A v \in Threads : pc'[v] # "last" /\ (posting'[v] # {} => pc'[v] = "release")
    BY <1>1, <1>3, <2>1 DEF Keeps
  <2>6. BelowOnce'
    BY <1>3, BelowStays DEF Scheduled, CountsInOrder
  <2> QED BY <1>1, <2>1, <2>3, <2>4, <2>5, <2>6 DEF CountsInOrder
<1> QED BY <1>1, <1>2, <1>3, <1>4, <1>5, <1>6, SameOwners DEF ScheduleInvariant, Types

\* ... and one that adds what it coded to the picture's count.
LEMMA CountStep ==
    ASSUME Types, ScheduleInvariant, NEW w \in Threads, Count(w)
    PROVE  ScheduleInvariant'
<1> PICK own, right, below : Scheduled(own, right, below)
  BY DEF ScheduleInvariant
<1> PICK count : count = codedCount + coded[w]
  OBVIOUS
<1>1. /\ pc[w] = "feedback" /\ feedback[w] = None /\ next[w] = None /\ codedCount' = count
      /\ pc' = [pc EXCEPT ![w] = IF IsLast(count) THEN "last" ELSE "release"]
      /\ layout' = layout /\ current' = current /\ dependency' = dependency /\ tasks' = tasks
      /\ posting' = posting /\ task' = task /\ segment' = segment /\ todo' = todo /\ next' = next
      /\ feedback' = feedback /\ coded' = coded /\ results' = results /\ done' = done
  BY DEF Count, segmentVars, queueVars, localVars
<1>2. Types'
  BY <1>1 DEF Types, TileGroups
<1>3. /\ pc'[w] = IF IsLast(count) THEN "last" ELSE "release"
      /\ pc'[w] \in {"last", "release"} /\ \A v \in Threads : v # w => Keeps(v)
  BY <1>1 DEF Types, Keeps
<1>4. SameRows
  BY <1>1 DEF SameRows
<1>5. WorkerInPlace(own, right, below, w)
  BY DEF Scheduled
<1>6. coded[w] \in Nat /\ IsTask(task[w])
  BY <1>1, <1>5 DEF WorkerInPlace
<1>7. WorkerInPlace(own, right, below, w)'
  <2>1. Starting(own, w)' /\ Working(own, right, below, w)' /\ Going(own, w)'
    BY <1>1, <1>3 DEF Starting, Working, Going
  <2>2. IsTask(task[w])'
    BY <1>1, <1>6 DEF IsTask, TileGroups
  <2> QED BY <1>1, <1>3, <1>6, <2>1, <2>2 DEF WorkerInPlace, Places
<1>8. CountsInOrder'
  <2>1. /\ codedCount \in Nat /\ results \in Nat /\ done \subseteq AllSuperblocks /\ CountsAreExact
        /\ \A v \in Threads : posting[v] # {} => pc[v] = "release"
        /\ \A v \in Threads : pc[v] = "last" => codedCount = Cardinality(AllSuperblocks)
        /\ results > 0 => codedCount = Cardinality(AllSuperblocks)
    BY DEF Scheduled, CountsInOrder
  <2>2. codedCount # Cardinality(AllSuperblocks)
    <3>1. pc[w] \notin {"idle", "last", "release"} /\ layout \in Layouts
      BY <1>1 DEF Types
    <3> QED BY <3>1, AllCounted
  <2>3. w \in Uncounted /\ Uncounted' = Uncounted \ {w}
    BY <1>1, <1>3 DEF Uncounted, Keeps
  <2>4. /\ Sum(coded, Uncounted) = coded[w] + Sum(coded, Uncounted \ {w})
        /\ Sum(coded, Uncounted \ {w}) \in Nat
    <3>1. IsFiniteSet(Uncounted) /\ (\A v \in Uncounted : coded[v] \in Nat)
      BY CountingWorkers
    <3>2. IsFiniteSet(Uncounted \ {w})
      BY <3>1, FS_Subset
    <3>3. Sum(coded, Uncounted) = coded[w] + Sum(coded, Uncounted \ {w})
      BY <2>3, <3>1, SumSplits
    <3>4. Sum(coded, Uncounted \ {w}) \in Nat
      BY <3>1, <3>2, SumIsNumber
    <3> QED BY <3>3, <3>4
  <2>5. CountsAreExact'
    <3>1. codedCount + Sum(coded, Uncounted) = Cardinality(done)
      BY <2>1, ExactCounts
    <3>2. count + Sum(coded, Uncounted \ {w}) = Cardinality(done)
      BY <1>6, <2>1, <2>4, <3>1
    <3> QED BY <1>1, <2>3, <3>2, ExactCounts
  <2>6. AllSuperblocks' = AllSuperblocks
    BY <1>1 DEF AllSuperblocks, TileGroups
  <2>7. /\ \A v \in Threads : posting'[v] # {} => pc'[v] = "release"
        /\ \A v \in Threads : pc'[v] = "last" => v = w
    BY <1>1, <1>3, <2>1, <2>2 DEF Keeps
  <2>8. pc'[w] = "last" => codedCount' = Cardinality(AllSuperblocks)
    BY <1>1, <1>3 DEF IsLast
  <2>9. ~(results > 0) /\ codedCount' \in Nat
    BY <1>1, <1>6, <2>1, <2>2
  <2>10. BelowOnce'
    BY <1>3, BelowStays DEF Scheduled, CountsInOrder
  <2> QED BY <1>1, <2>1, <2>5, <2>6, <2>7, <2>8, <2>9, <2>10 DEF CountsInOrder
<1> QED BY <1>1, <1>2, <1>3, <1>4, <1>7, <1>8, SameOwners DEF ScheduleInvariant, Types

-----------------------------------------------------------------------------
(* Tasks go from hand to hand.                                             *)

\* The task that is posted holds the first row of its tile group.
LEMMA PostNextStep ==
    ASSUME Types, ScheduleInvariant, NEW p \in Threads \cup {Mdc}, PostNext(p)
    PROVE  ScheduleInvariant'
<1> PICK own, right, below : Scheduled(own, right, below)
  BY DEF ScheduleInvariant
<1>1. PICK k \in posting[p] :
         /\ tasks' = tasks \cup {k} /\ posting' = [posting EXCEPT ![p] = @ \ {k}]
         /\ layout' = layout /\ current' = current /\ dependency' = dependency /\ pc' = pc
         /\ task' = task /\ segment' = segment /\ todo' = todo /\ next' = next
         /\ feedback' = feedback /\ coded' = coded /\ codedCount' = codedCount
         /\ results' = results /\ done' = done
  BY DEF PostNext, PostTask, segmentVars, localVars, pictureVars
<1>2. Types'
  BY <1>1 DEF Types, TileGroups
<1>3. /\ posting'[p] = posting[p] \ {k} /\ \A v \in Threads : Keeps(v)
      /\ \A q \in Threads \cup {Mdc} : q # p => posting'[q] = posting[q]
  BY <1>1 DEF Types, Keeps
<1>4. SameRows /\ layout \in Layouts
  BY <1>1 DEF SameRows, Types
<1>5. TasksInPlace(own)
  BY DEF Scheduled
<1>6. PICK t, r : t = k.group /\ r = k.row
  OBVIOUS
<1>7. /\ HeldBy(own, k, <<"posting", p>>) /\ IsTask(k) /\ own[<<t, r>>] = <<"posting", p>>
      /\ t \in TileGroups /\ r \in Rows(layout[t])
  BY <1>5, <1>6 DEF TasksInPlace, HeldBy, IsTask
<1> PICK new : GivenTo(own, new, t, r, <<"tasks", Mdc>>)
  BY <1>7, HandOver
<1>8. /\ new[<<t, r>>] = <<"tasks", Mdc>>
      /\ \A u \in TileGroups : \A q \in Rows(layout[u]) :
            u # t \/ q # r => new[<<u, q>>] = own[<<u, q>>]
  BY DEF GivenTo
<1>9. /\ RowsInOrder(new, right, below)'
      /\ \A v \in Threads :
            /\ Keeps(v)
            /\ \A u \in TileGroups : \A q \in Rows(layout[u]) :
                  own[<<u, q>>] \in Marks(v) => new[<<u, q>>] = own[<<u, q>>]
            => WorkerInPlace(new, right, below, v)'
      /\ \A j, owner : HeldBy(own, j, owner) /\ new[<<j.group, j.row>>] = owner
                           => HeldBy(new, j, owner)'
      /\ \A u \in TileGroups : Untouched(own, u) => Untouched(new, u)'
  <2>1. \A u \in TileGroups : \A q \in Rows(layout[u]) :
           \/ new[<<u, q>>] = own[<<u, q>>]
           \/ own[<<u, q>>][1] \in Waiting /\ new[<<u, q>>][1] \in Waiting
    <3>1. own[<<t, r>>][1] \in Waiting /\ new[<<t, r>>][1] \in Waiting
      BY <1>7, <1>8 DEF Waiting
    <3> QED BY <1>8, <3>1
  <2> QED BY <1>4, <2>1, OwnersMove
<1>10. \A v \in Threads : WorkerInPlace(new, right, below, v)'
  <2>1. \A v \in Threads : <<"posting", p>> \notin Marks(v)
    BY DEF Marks
  <2> QED BY <1>3, <1>7, <1>8, <1>9, <2>1
<1>11. TasksInPlace(new)'
  <2>1. \A j, owner : HeldBy(own, j, owner) =>
           /\ IsTask(j) /\ own[<<j.group, j.row>>] = owner
           /\ j.group \in TileGroups /\ j.row \in Rows(layout[j.group])
    BY DEF HeldBy, IsTask
  <2>2. \A j, owner : HeldBy(own, j, owner) /\ j # k => HeldBy(new, j, owner)'
    <3> SUFFICES ASSUME NEW j, NEW owner, HeldBy(own, j, owner), j # k
                 PROVE  HeldBy(new, j, owner)'
      OBVIOUS
    <3>1. j.group # t \/ j.row # r
      BY <1>6, <1>7, <2>1, TaskOfRow, ZenonT(40)
    <3> QED BY <1>8, <1>9, <2>1, <3>1
  <2>3. HeldBy(new, k, <<"tasks", Mdc>>)'
    <3>1. IsTask(k)'
      BY <1>1, <1>7 DEF IsTask, TileGroups
    <3>2. k.row = 0 => Untouched(new, k.group)'
      BY <1>6, <1>7, <1>9 DEF HeldBy
    <3> QED BY <1>6, <1>8, <3>1, <3>2 DEF HeldBy
  <2>4. \A j \in tasks : j # k
    BY <1>5, <1>6, <1>7 DEF TasksInPlace, HeldBy
  <2>5. \A q \in Threads \cup {Mdc} : q # p => k \notin posting[q]
    <3>1. \A q : <<"posting", q>> = <<"posting", p>> => q = p
      OBVIOUS
    <3> QED BY <1>5, <1>6, <1>7, <3>1 DEF TasksInPlace, HeldBy
  <2>6. \A j \in tasks' : HeldBy(new, j, <<"tasks", Mdc>>)'
    BY <1>1, <1>5, <2>2, <2>3 DEF TasksInPlace
  <2>7. \A q \in Threads \cup {Mdc} : \A j \in posting'[q] :
           j \in posting[q] /\ j # k /\ HeldBy(own, j, <<"posting", q>>) /\ j.row = 0
    BY <1>3, <1>5, <2>5 DEF TasksInPlace
  <2>8. \A q \in Threads \cup {Mdc} : \A j \in posting'[q] :
           HeldBy(new, j, <<"posting", q>>)' /\ j.row = 0
    BY <2>2, <2>7
  <2> QED BY <2>6, <2>8 DEF TasksInPlace
<1>12. CountsInOrder'
  <2>1. \A v \in Threads :
           /\ coded'[v] = coded[v] /\ (posting'[v] # {} => posting[v] # {} /\ pc'[v] = pc[v])
           /\ pc'[v] = "last" <=> pc[v] = "last"
           /\ pc'[v] \in {"idle", "last", "release"} <=> pc[v] \in {"idle", "last", "release"}
    BY <1>1, <1>3
  <2>2. BelowOnce'
    BY <1>1, <1>3, BelowStays DEF Scheduled, CountsInOrder
  <2> QED BY <1>1, <2>1, <2>2, CountsStay
<1>13. Scheduled(new, right, below)'
  BY <1>9, <1>10, <1>11, <1>12 DEF Scheduled
<1> QED BY <1>2, <1>13 DEF ScheduleInvariant

\* The row of a task that is taken goes to the worker.
LEMMA TakeStep ==
    ASSUME Types, ScheduleInvariant, NEW w \in Threads, Take(w)
    PROVE  ScheduleInvariant'
<1> PICK own, right, below : Scheduled(own, right, below)
  BY DEF ScheduleInvariant
<1>1. PICK k \in tasks :
         /\ pc[w] = "idle" /\ tasks' = tasks \ {k} /\ task' = [task EXCEPT ![w] = k]
         /\ pc' = [pc EXCEPT ![w] = IF k.type = "MDC_INPUT" THEN "startPicture" ELSE "startRow"]
         /\ coded' = [coded EXCEPT ![w] = 0]
         /\ layout' = layout /\ current' = current /\ dependency' = dependency
         /\ posting' = posting /\ segment' = segment /\ todo' = todo /\ next' = next
         /\ feedback' = feedback /\ codedCount' = codedCount /\ results' = results /\ done' = done
  BY DEF Take, StartCount, segmentVars, pictureVars
<1>2. Types'
  BY <1>1 DEF Types, TileGroups
<1>3. /\ pc'[w] = IF k.type = "MDC_INPUT" THEN "startPicture" ELSE "startRow"
      /\ task'[w] = k /\ coded'[w] = 0 /\ \A v \in Threads : v # w => Keeps(v)
  BY <1>1 DEF Types, Keeps
<1>4. SameRows /\ layout \in Layouts
  BY <1>1 DEF SameRows, Types
<1>5. TasksInPlace(own) /\ WorkerInPlace(own, right, below, w)
  BY DEF Scheduled
<1>6. PICK t, r : t = k.group /\ r = k.row
  OBVIOUS
<1>7. /\ HeldBy(own, k, <<"tasks", Mdc>>) /\ IsTask(k) /\ own[<<t, r>>] = <<"tasks", Mdc>>
      /\ t \in TileGroups /\ r \in Rows(layout[t])
  BY <1>5, <1>6 DEF TasksInPlace, HeldBy, IsTask
<1> PICK new : GivenTo(own, new, t, r, <<"start", w>>)
  BY <1>7, HandOver
<1>8. /\ new[<<t, r>>] = <<"start", w>>
      /\ \A u \in TileGroups : \A q \in Rows(layout[u]) :
            u # t \/ q # r => new[<<u, q>>] = own[<<u, q>>]
  BY DEF GivenTo
<1>9. /\ RowsInOrder(new, right, below)'
      /\ \A v \in Threads :
            /\ Keeps(v)
            /\ \A u \in TileGroups : \A q \in Rows(layout[u]) :
                  own[<<u, q>>] \in Marks(v) => new[<<u, q>>] = own[<<u, q>>]
            => WorkerInPlace(new, right, below, v)'
      /\ \A j, owner : HeldBy(own, j, owner) /\ new[<<j.group, j.row>>] = owner
                           => HeldBy(new, j, owner)'
      /\ \A u \in TileGroups : Untouched(own, u) => Untouched(new, u)'
  <2>1. \A u \in TileGroups : \A q \in Rows(layout[u]) :
           \/ new[<<u, q>>] = own[<<u, q>>]
           \/ own[<<u, q>>][1] \in Waiting /\ new[<<u, q>>][1] \in Waiting
    <3>1. own[<<t, r>>][1] \in Waiting /\ new[<<t, r>>][1] \in Waiting
      BY <1>7, <1>8 DEF Waiting
    <3> QED BY <1>8, <3>1
  <2> QED BY <1>4, <2>1, OwnersMove
<1>10. WorkerInPlace(new, right, below, w)'
  <2>1. next[w] = None /\ feedback[w] = None
    BY <1>1, <1>5 DEF WorkerInPlace, Going
  <2>2. pc'[w] = IF r = 0 THEN "startPicture" ELSE "startRow"
    BY <1>3, <1>6, <1>7 DEF IsTask, Task
  <2>3. r = 0 => Untouched(new, t)'
    BY <1>6, <1>7, <1>9 DEF HeldBy
  <2>4. Starting(new, w)'
    BY <1>1, <1>3, <1>6, <1>8, <2>2, <2>3 DEF Starting, Untouched
  <2>5. Working(new, right, below, w)' /\ Going(new, w)'
    BY <1>1, <2>1, <2>2 DEF Working, Going
  <2>6. IsTask(task[w])'
    BY <1>1, <1>3, <1>7 DEF IsTask, TileGroups
  <2> QED BY <1>3, <2>2, <2>4, <2>5, <2>6 DEF WorkerInPlace, Places
<1>11. \A v \in Threads : WorkerInPlace(new, right, below, v)'
  <2>1. \A v \in Threads : <<"tasks", Mdc>> \notin Marks(v)
    BY DEF Marks
  <2> QED BY <1>3, <1>7, <1>8, <1>9, <1>10, <2>1
<1>12. TasksInPlace(new)'
  <2>1. \A j, owner : HeldBy(own, j, owner) =>
           /\ IsTask(j) /\ own[<<j.group, j.row>>] = owner
           /\ j.group \in TileGroups /\ j.row \in Rows(layout[j.group])
    BY DEF HeldBy, IsTask
  <2>2. \A j, owner : HeldBy(own, j, owner) /\ j # k => HeldBy(new, j, owner)'
    <3> SUFFICES ASSUME NEW j, NEW owner, HeldBy(own, j, owner), j # k
                 PROVE  HeldBy(new, j, owner)'
      OBVIOUS
    <3>1. j.group # t \/ j.row # r
      BY <1>6, <1>7, <2>1, TaskOfRow, ZenonT(40)
    <3> QED BY <1>8, <1>9, <2>1, <3>1
  <2>3. \A j \in tasks' : HeldBy(new, j, <<"tasks", Mdc>>)'
    BY <1>1, <1>5, <2>2 DEF TasksInPlace
  <2>4. \A q \in Threads \cup {Mdc} : k \notin posting[q]
    BY <1>5, <1>6, <1>7 DEF TasksInPlace, HeldBy
  <2>5. \A q \in Threads \cup {Mdc} : \A j \in posting'[q] :
           HeldBy(new, j, <<"posting", q>>)' /\ j.row = 0
    BY <1>1, <1>5, <2>2, <2>4 DEF TasksInPlace
  <2> QED BY <2>3, <2>5 DEF TasksInPlace
<1>13. CountsInOrder'
  <2>1. CountsInOrder
    BY DEF Scheduled
  <2>2. pc'[w] \in {"startPicture", "startRow"} /\ posting[w] = {}
    BY <1>1, <1>3, <2>1 DEF CountsInOrder
  <2>3. w \notin Uncounted /\ Uncounted' = Uncounted \cup {w}
    BY <1>1, <1>3, <2>2 DEF Uncounted, Keeps
  <2>4. IsFiniteSet(Uncounted) /\ (\A v \in Uncounted : coded[v] \in Nat)
    BY CountingWorkers
  <2>5. \A v \in Uncounted : coded'[v] = coded[v]
    BY <1>3, <2>3 DEF Uncounted, Keeps
  <2>6. Sum(coded', Uncounted) = Sum(coded, Uncounted)
    BY <2>4, <2>5, SumOfSame
  <2>7. Sum(coded', Uncounted \cup {w}) = coded'[w] + Sum(coded', Uncounted)
    <3>1. \A v \in Uncounted \cup {w} : coded'[v] \in Nat
      BY <1>3, <2>4, <2>5
    <3> QED BY <2>3, <2>4, <3>1, SumGrows
  <2>8. CountsAreExact'
    <3>1. Sum(coded, Uncounted) \in Nat
      BY CountingWorkers
    <3>2. codedCount + Sum(coded, Uncounted) = Cardinality(done)
      BY <2>1, ExactCounts DEF CountsInOrder
    <3>3. Sum(coded', Uncounted') = Sum(coded, Uncounted)
      BY <1>3, <2>3, <2>6, <2>7, <3>1
    <3> QED BY <1>1, <3>2, <3>3, ExactCounts
  <2>9. AllSuperblocks' = AllSuperblocks
    BY <1>1 DEF AllSuperblocks, TileGroups
  <2>10. /\ pc'[w] # "last" /\ \A v \in Threads : pc'[v] = "last" <=> pc[v] = "last"
         /\ \A v \in Threads : posting'[v] # {} => pc'[v] = "release"
    BY <1>1, <1>3, <2>1, <2>2 DEF Keeps, CountsInOrder
  <2>11. BelowOnce'
    BY <1>3, <2>1, BelowStays DEF CountsInOrder
  <2> QED BY <1>1, <2>1, <2>8, <2>9, <2>10, <2>11 DEF CountsInOrder
<1>14. Scheduled(new, right, below)'
  BY <1>9, <1>11, <1>12, <1>13 DEF Scheduled
<1> QED BY <1>2, <1>14 DEF ScheduleInvariant

\* A feedback task holds the row that its worker found ready.
LEMMA FeedbackStep ==
    ASSUME Types, ScheduleInvariant, NEW w \in Threads, Feedback(w)
    PROVE  ScheduleInvariant'
<1> PICK own, right, below : Scheduled(own, right, below)
  BY DEF ScheduleInvariant
<1>a. PICK t, r, s, n : t = task[w].group /\ r = feedback[w] /\ s = segment[w] /\ n = next[w]
  OBVIOUS
<1>b. PICK k : k = Task("ENCDEC_INPUT", t, r)
  OBVIOUS
<1>1. /\ pc[w] = "feedback" /\ r # None /\ tasks' = tasks \cup {k}
      /\ feedback' = [feedback EXCEPT ![w] = None]
      /\ layout' = layout /\ current' = current /\ dependency' = dependency /\ pc' = pc
      /\ posting' = posting /\ task' = task /\ segment' = segment /\ todo' = todo /\ next' = next
      /\ coded' = coded /\ codedCount' = codedCount /\ results' = results /\ done' = done
  BY <1>a, <1>b DEF Feedback, PostTask, segmentVars, pictureVars
<1>2. Types'
  BY <1>1 DEF Types, TileGroups
<1>3. feedback'[w] = None /\ \A v \in Threads : v # w => Keeps(v)
  BY <1>1 DEF Types, Keeps
<1>4. SameRows /\ layout \in Layouts
  BY <1>1 DEF SameRows, Types
<1>5. TasksInPlace(own) /\ WorkerInPlace(own, right, below, w)
  BY DEF Scheduled
<1>6. /\ IsTask(task[w]) /\ t \in TileGroups /\ r \in Rows(layout[t]) /\ r # 0
      /\ own[<<t, r>>] = <<"feedback", w>>
  BY <1>a, <1>1, <1>5 DEF WorkerInPlace, Going, IsTask
<1>7. k.group = t /\ k.row = r /\ IsTask(k)
  BY <1>a, <1>b, <1>6 DEF IsTask, Task
<1> PICK new : GivenTo(own, new, t, r, <<"tasks", Mdc>>)
  BY <1>6, HandOver
<1>8. /\ new[<<t, r>>] = <<"tasks", Mdc>>
      /\ \A u \in TileGroups : \A q \in Rows(layout[u]) :
            u # t \/ q # r => new[<<u, q>>] = own[<<u, q>>]
  BY DEF GivenTo
<1>9. /\ RowsInOrder(new, right, below)'
      /\ \A v \in Threads :
            /\ Keeps(v)
            /\ \A u \in TileGroups : \A q \in Rows(layout[u]) :
                  own[<<u, q>>] \in Marks(v) => new[<<u, q>>] = own[<<u, q>>]
            => WorkerInPlace(new, right, below, v)'
      /\ \A j, owner : HeldBy(own, j, owner) /\ new[<<j.group, j.row>>] = owner
                           => HeldBy(new, j, owner)'
  <2>1. \A u \in TileGroups : \A q \in Rows(layout[u]) :
           \/ new[<<u, q>>] = own[<<u, q>>]
           \/ own[<<u, q>>][1] \in Waiting /\ new[<<u, q>>][1] \in Waiting
    <3>1. own[<<t, r>>][1] \in Waiting /\ new[<<t, r>>][1] \in Waiting
      BY <1>6, <1>8 DEF Waiting
    <3> QED BY <1>8, <3>1
  <2> QED BY <1>4, <2>1, OwnersMove
<1>10. WorkerInPlace(new, right, below, w)'
  <2>1. Working(own, right, below, w) /\ Going(own, w) /\ coded[w] \in Nat
    BY <1>5 DEF WorkerInPlace
  <2>2. IsSegment(t, s) /\ coded[w] > 0
    BY <1>a, <1>1, <2>1 DEF Working
  <2>3. n # None => IsSegment(t, n) /\ Issued(own, w, t, n) /\ SetOf(t, n) \cap done = {}
    BY <1>a, <2>1 DEF Going
  <2>4. n # None => Issued(new, w, t, n)
    <3>1. <<"work", w>> # <<"feedback", w>>
      OBVIOUS
    <3>2. n # None => RowOf(t, n) \in Rows(layout[t]) /\ RowOf(t, n) # r
      BY <1>6, <2>3, <3>1 DEF IsSegment, Issued
    <3> QED BY <1>6, <1>8, <2>3, <3>2 DEF Issued
  <2>5. IsTask(task[w])'
    BY <1>1, <1>6 DEF IsTask, TileGroups
  <2>6. Starting(new, w)'
    BY <1>1 DEF Starting
  <2>7. Working(new, right, below, w)'
    BY <1>a, <1>1, <2>2 DEF Working, IsSegment, RowOf, Segs
  <2>8. Going(new, w)'
    BY <1>a, <1>1, <1>3, <2>3, <2>4 DEF Going, IsSegment, RowOf, Segs, Issued, SetOf
  <2> QED BY <1>1, <2>1, <2>5, <2>6, <2>7, <2>8 DEF WorkerInPlace, Places
<1>11. \A v \in Threads : WorkerInPlace(new, right, below, v)'
  <2>1. \A v \in Threads : v # w => <<"feedback", w>> \notin Marks(v)
    BY DEF Marks
  <2> QED BY <1>3, <1>6, <1>8, <1>9, <1>10, <2>1
<1>12. TasksInPlace(new)'
  <2>1. \A j, owner : HeldBy(own, j, owner) =>
           /\ own[<<j.group, j.row>>] = owner
           /\ j.group \in TileGroups /\ j.row \in Rows(layout[j.group])
    BY DEF HeldBy, IsTask
  <2>2. \A j, owner : HeldBy(own, j, owner) /\ owner # <<"feedback", w>> => HeldBy(new, j, owner)'
    BY <1>6, <1>8, <1>9, <2>1, ZenonT(40)
  <2>3. HeldBy(new, k, <<"tasks", Mdc>>)'
    <3>1. IsTask(k)'
      BY <1>1, <1>7 DEF IsTask, TileGroups
    <3> QED BY <1>6, <1>7, <1>8, <3>1 DEF HeldBy
  <2>4. <<"tasks", Mdc>> # <<"feedback", w>> /\ \A p : <<"posting", p>> # <<"feedback", w>>
    OBVIOUS
  <2>5. \A j \in tasks' : HeldBy(new, j, <<"tasks", Mdc>>)'
    BY <1>1, <1>5, <2>2, <2>3, <2>4 DEF TasksInPlace
  <2>6. \A p \in Threads \cup {Mdc} : \A j \in posting'[p] :
           HeldBy(new, j, <<"posting", p>>)' /\ j.row = 0
    BY <1>1, <1>5, <2>2, <2>4 DEF TasksInPlace
  <2> QED BY <2>5, <2>6 DEF TasksInPlace
<1>13. CountsInOrder'
  <2>1. BelowOnce'
    BY <1>1, <1>3, BelowStays DEF Scheduled, CountsInOrder
  <2> QED BY <1>1, <2>1, CountsStay
<1>14. Scheduled(new, right, below)'
  BY <1>9, <1>11, <1>12, <1>13 DEF Scheduled
<1> QED BY <1>2, <1>14 DEF ScheduleInvariant

-----------------------------------------------------------------------------
(* Coding.                                                                 *)

\* The superblock a worker codes is of its segment, and not coded yet.
LEMMA CodedNext ==
    ASSUME NEW own, NEW right, NEW below, layout \in Layouts, Scheduled(own, right, below),
           NEW w \in Threads, pc[w] = "code"
    PROVE  LET t == task[w].group
               s == segment[w]
               r == RowOf(t, s)
               b == First(todo[w])
           IN  /\ t \in TileGroups /\ r \in Rows(layout[t]) /\ s \in Segs(t, r)
               /\ own[<<t, r>>] = <<"work", w>> /\ s = current[t][r] - 1
               /\ b \in todo[w] /\ (\A c \in todo[w] : b = c \/ Before(b, c))
               /\ b \in SbsOf(layout[t], s) /\ <<t, b>> \notin done /\ <<t, b>> \in AllSuperblocks
<1> PICK t, s : t = task[w].group /\ s = segment[w]
  OBVIOUS
<1>1. WorkerInPlace(own, right, below, w)
  BY DEF Scheduled
<1>2. t \in TileGroups
  BY <1>1 DEF WorkerInPlace, IsTask
<1>3. /\ IsSegment(t, s) /\ Issued(own, w, t, s) /\ todo[w] # {} /\ todo[w] \subseteq SbsOf(layout[t], s)
      /\ \A b \in SbsOf(layout[t], s) : <<t, b>> \in done <=> b \notin todo[w]
  BY <1>1 DEF WorkerInPlace, Working
<1>4. SbsOf(layout[t], s) \subseteq Superblocks(layout[t])
  BY <1>2, SuperblockFacts
<1>5. First(todo[w]) \in todo[w] /\ \A c \in todo[w] : First(todo[w]) = c \/ Before(First(todo[w]), c)
  <2>1. layout[t] \in Shapes
    BY <1>2, LayoutShapes
  <2>2. todo[w] \in SUBSET Superblocks(layout[t])
    BY <1>3, <1>4
  <2> QED BY <1>3, <2>1, <2>2, FirstIsFirst
<1>6. First(todo[w]) \in SbsOf(layout[t], s) /\ <<t, First(todo[w])>> \notin done
  BY <1>3, <1>5
<1>7. <<t, First(todo[w])>> \in AllSuperblocks
  BY <1>2, <1>4, <1>6 DEF AllSuperblocks
<1> QED BY <1>2, <1>3, <1>5, <1>6, <1>7 DEF IsSegment, Issued

\* Coding a superblock keeps the invariant: it was not coded, and is counted.
LEMMA CodeStep ==
    ASSUME Types, ScheduleInvariant, NEW w \in Threads, CodeSuperblock(w)
    PROVE  ScheduleInvariant'
<1> PICK own, right, below : Scheduled(own, right, below)
  BY DEF ScheduleInvariant
<1>0. PICK t, s, r, b : t = task[w].group /\ s = segment[w] /\ r = RowOf(t, s) /\ b = First(todo[w])
  OBVIOUS
<1>1. /\ pc[w] = "code" /\ done' = done \cup {<<t, b>>} /\ todo' = [todo EXCEPT ![w] = @ \ {b}]
      /\ pc' = [pc EXCEPT ![w] = IF todo[w] = {b} THEN "right" ELSE "code"]
      /\ coded' = [coded EXCEPT ![w] = @ + 1]
      /\ layout' = layout /\ current' = current /\ dependency' = dependency /\ tasks' = tasks
      /\ posting' = posting /\ task' = task /\ segment' = segment /\ next' = next
      /\ feedback' = feedback /\ codedCount' = codedCount /\ results' = results
  BY <1>0 DEF CodeSuperblock, segmentVars, queueVars, pictureVars
<1>2. Types' /\ layout \in Layouts
  BY <1>1 DEF Types, TileGroups
<1>3. /\ todo'[w] = todo[w] \ {b} /\ coded'[w] = coded[w] + 1
      /\ pc'[w] = IF todo[w] = {b} THEN "right" ELSE "code"
      /\ \A v \in Threads : v # w => Keeps(v)
  BY <1>1 DEF Types, Keeps
<1>4. /\ t \in TileGroups /\ r \in Rows(layout[t]) /\ s \in Segs(t, r)
      /\ own[<<t, r>>] = <<"work", w>> /\ s = current[t][r] - 1
      /\ b \in todo[w] /\ b \in SbsOf(layout[t], s) /\ <<t, b>> \notin done
      /\ <<t, b>> \in AllSuperblocks
  BY <1>0, <1>1, <1>2, CodedNext
<1>5. \A u \in TileGroups : \A q \in Rows(layout[u]) : \A x \in Segs(u, q) :
         <<t, b>> \in SetOf(u, x) => u = t /\ q = r /\ x = s
  <2> SUFFICES ASSUME NEW u \in TileGroups, NEW q \in Rows(layout[u]), NEW x \in Segs(u, q),
                      <<t, b>> \in SetOf(u, x)
               PROVE  u = t /\ q = r /\ x = s
    OBVIOUS
  <2>1. u = t /\ b \in SbsOf(layout[t], x)
    BY DEF SetOf
  <2>2. x = s
    BY <1>2, <1>4, <2>1, SuperblockFacts
  <2>3. RowOf(t, x) = q /\ RowOf(t, s) = r
    <3>1. layout \in Layouts /\ t \in TileGroups /\ q \in Rows(layout[t]) /\ x \in Segs(t, q)
      BY <1>2, <2>1
    <3>2. RowOf(t, x) = q
      BY <3>1, RowFacts
    <3>3. RowOf(t, s) = r
      BY <1>4, <3>1, RowFacts
    <3> QED BY <3>2, <3>3
  <2> QED BY <2>1, <2>2, <2>3
<1>6. current[t][r] \in Nat /\ s < current[t][r]
  <2>1. t \in TileGroups /\ r \in Rows(layout[t]) /\ s = current[t][r] - 1
    BY <1>4
  <2>2. current[t][r] \in Nat
    BY <1>2, <2>1, InRow
  <2> QED BY <2>1, <2>2
<1>7. RowsInOrder(own, right, below)'
  <2>1. ASSUME NEW u \in TileGroups, NEW q \in Rows(layout[u])
        PROVE  RowInOrder(own, right, below, u, q)'
    <3>1. RowInOrder(own, right, below, u, q) /\ \A x \in Segs(u, q) : Depends(right, below, u, q, x)
      BY <1>2, InRow
    <3>2. \A x \in Segs(u, q) :
             /\ <<u, x>> \in below => <<u, x>> \in right
             /\ x >= current[u][q] => SetOf(u, x) \cap done = {}
      BY <3>1 DEF Depends
    <3>3. \A x \in Segs(u, q) : x >= current[u][q] => <<t, b>> \notin SetOf(u, x)
      <4>1. ~(s >= current[t][r])
        BY <1>4, <1>6
      <4> QED BY <1>5, <4>1
    <3>4. \A x \in Segs(u, q) : x >= current[u][q] => SetOf(u, x) \cap done' = {}
      BY <1>1, <3>2, <3>3
    <3> QED BY <1>1, <1>2, <3>1, <3>2, <3>4, RowStays
  <2> QED BY <1>1, <2>1 DEF RowsInOrder, TileGroups
<1>8. ASSUME NEW v \in Threads, v # w
      PROVE  WorkerInPlace(own, right, below, v)'
  <2>1. WorkerInPlace(own, right, below, v) /\ Keeps(v)
    BY <1>3, <1>8 DEF Scheduled
  <2>2. \A u \in TileGroups : \A q \in Rows(layout[u]) :
           own[<<u, q>>] \in Marks(v) => SamePlace(own, own, u, q)
    <3> SUFFICES ASSUME NEW u \in TileGroups, NEW q \in Rows(layout[u]), own[<<u, q>>] \in Marks(v)
                 PROVE  SamePlace(own, own, u, q)
      OBVIOUS
    <3>1. own[<<u, q>>][1] = "work" => current[u][q] - 1 \in Segs(u, q)
      BY <1>2, InRow DEF Owned
    <3>2. own[<<t, r>>] \notin Marks(v)
      BY <1>4, <1>8 DEF Marks
    <3>3. own[<<u, q>>][1] = "work" => <<t, b>> \notin SetOf(u, current[u][q] - 1)
      BY <1>5, <3>1, <3>2
    <3>4. own[<<u, q>>][1] = "work" =>
             \A c \in SbsOf(layout[u], current[u][q] - 1) : <<u, c>> \in done' <=> <<u, c>> \in done
      BY <1>1, <3>3 DEF SetOf
    <3> QED BY <1>1, <3>4 DEF SamePlace
  <2>3. \A u \in TileGroups : pc[v] = "startPicture" /\ task[v].group = u => Untouched(own, u)'
    <3>1. pc[v] = "startPicture" => Untouched(own, task[v].group)
      BY <2>1 DEF WorkerInPlace, Starting
    <3> QED BY <1>1, <3>1 DEF Untouched
  <2>4. pc[v] = "below" => /\ <<task[v].group, segment[v]>> \in right
                           /\ <<task[v].group, segment[v]>> \notin below
    BY <2>1 DEF WorkerInPlace, Working
  <2> QED BY <1>1, <2>1, <2>2, <2>3, <2>4, WorkerStays
<1>9. WorkerInPlace(own, right, below, w)
  BY DEF Scheduled
<1>10. coded[w] \in Nat /\ IsTask(task[w]) /\ next[w] = None /\ feedback[w] = None
  BY <1>1, <1>9 DEF WorkerInPlace, Going
<1>11. WorkerInPlace(own, right, below, w)'
  <2>1. /\ todo[w] \subseteq SbsOf(layout[t], s)
        /\ \A c \in SbsOf(layout[t], s) : <<t, c>> \in done <=> c \notin todo[w]
    BY <1>0, <1>1, <1>9 DEF WorkerInPlace, Working
  <2>2. \A c \in SbsOf(layout[t], s) : <<t, c>> \in done' <=> c \notin todo'[w]
    BY <1>1, <1>3, <2>1
  <2>3. pc'[w] = "code" => todo'[w] # {} /\ todo'[w] \subseteq SbsOf(layout[t], s)
    BY <1>3, <1>4, <2>1, ZenonT(60)
  <2>4. pc'[w] = "right" => SetOf(t, s) \subseteq done'
    BY <1>3, <2>2 DEF SetOf
  <2>5. coded'[w] > 0 /\ coded'[w] \in Nat
    BY <1>3, <1>10
  <2>6. IsTask(task[w])'
    BY <1>1, <1>10 DEF IsTask, TileGroups
  <2>7. Starting(own, w)' /\ Going(own, w)'
    BY <1>1, <1>3, <1>10 DEF Starting, Going
  <2>8. r = SegmentRow(layout[t], s)
    BY <1>0 DEF RowOf
  <2>9. Working(own, right, below, w)'
    <3>1. /\ task'[w].group = t /\ segment'[w] = s /\ layout' = layout
          /\ pc'[w] \in {"code", "right"}
      BY <1>0, <1>1, <1>3
    <3>2. /\ SegmentRow(layout[t], s) \in Rows(layout[t])
          /\ s \in SegsIn(layout[t], SegmentRow(layout[t], s))
          /\ own[<<t, SegmentRow(layout[t], s)>>] = <<"work", w>>
          /\ s = current'[t][SegmentRow(layout[t], s)] - 1
      BY <1>1, <1>4, <2>8 DEF Segs
    <3>3. pc'[w] = "right" => {t} \X SbsOf(layout[t], s) \subseteq done'
      BY <2>4 DEF SetOf
    <3> QED BY <2>2, <2>3, <2>5, <3>1, <3>2, <3>3 DEF Working, IsSegment, Issued, RowOf, Segs, SetOf
  <2> QED BY <1>3, <2>5, <2>6, <2>7, <2>9 DEF WorkerInPlace, Places
<1>12. TasksInPlace(own)'
  <2>1. \A j, owner : HeldBy(own, j, owner) => HeldBy(own, j, owner)'
    BY <1>1 DEF HeldBy, IsTask, TileGroups, Untouched
  <2>2. TasksInPlace(own)
    BY DEF Scheduled
  <2> QED BY <1>1, <2>1, <2>2 DEF TasksInPlace
<1>13. CountsInOrder'
  <2>1. CountsInOrder
    BY DEF Scheduled
  <2>2. w \in Uncounted /\ Uncounted' = Uncounted
    BY <1>1, <1>3 DEF Uncounted, Keeps
  <2>3. IsFiniteSet(Uncounted) /\ (\A v \in Uncounted : coded[v] \in Nat)
    BY CountingWorkers
  <2>4. IsFiniteSet(Uncounted \ {w}) /\ \A v \in Uncounted \ {w} : coded'[v] = coded[v] /\ v \in Threads
    <3>1. Uncounted \subseteq Threads
      BY DEF Uncounted
    <3> QED BY <1>3, <2>3, <3>1, FS_Subset DEF Keeps
  <2>5. Sum(coded, Uncounted) = coded[w] + Sum(coded, Uncounted \ {w})
    BY <2>2, <2>3, SumSplits
  <2>6. Sum(coded', Uncounted) = coded'[w] + Sum(coded', Uncounted \ {w})
    <3>1. \A v \in Uncounted : coded'[v] \in Nat
      BY <1>3, <1>10, <2>3, <2>4
    <3> QED BY <2>2, <2>3, <3>1, SumSplits
  <2>7. Sum(coded', Uncounted \ {w}) = Sum(coded, Uncounted \ {w})
    BY <2>4, SumOfSame
  <2>8. Sum(coded, Uncounted \ {w}) \in Nat
    BY <2>3, <2>4, SumIsNumber
  <2>9. Sum(coded', Uncounted') = Sum(coded, Uncounted) + 1
    BY <1>3, <1>10, <2>2, <2>5, <2>6, <2>7, <2>8
  <2>10. Cardinality(done') = Cardinality(done) + 1
    <3>1. IsFiniteSet(done)
      BY <1>2, <2>1, FinitelyMany, FS_Subset DEF CountsInOrder
    <3> QED BY <1>1, <1>4, <3>1, FS_AddElement
  <2>11. CountsAreExact'
    <3>1. codedCount + Sum(coded, Uncounted) = Cardinality(done) /\ codedCount \in Nat
      BY <2>1, ExactCounts DEF CountsInOrder
    <3>2. Sum(coded, Uncounted) \in Nat
      BY <2>3, SumIsNumber
    <3>3. codedCount' + Sum(coded', Uncounted') = Cardinality(done')
      BY <1>1, <2>9, <2>10, <3>1, <3>2
    <3> QED BY <3>3, ExactCounts
  <2>12. AllSuperblocks' = AllSuperblocks
    BY <1>1 DEF AllSuperblocks, TileGroups
  <2>13. done' \subseteq AllSuperblocks
    BY <1>1, <1>4, <2>1 DEF CountsInOrder
  <2>14. /\ \A v \in Threads : pc'[v] = "last" <=> pc[v] = "last"
         /\ \A v \in Threads : posting'[v] # {} => pc'[v] = "release"
    BY <1>1, <1>3, <2>1 DEF Keeps, CountsInOrder
  <2>15. BelowOnce'
    BY <1>3, <2>1, BelowStays DEF CountsInOrder
  <2> QED BY <1>1, <2>1, <2>11, <2>12, <2>13, <2>14, <2>15 DEF CountsInOrder
<1>14. \A v \in Threads : WorkerInPlace(own, right, below, v)'
  BY <1>8, <1>11
<1>15. Scheduled(own, right, below)'
  BY <1>7, <1>12, <1>13, <1>14 DEF Scheduled
<1> QED BY <1>2, <1>15 DEF ScheduleInvariant

-----------------------------------------------------------------------------
(* A step that concerns one row.                                           *)

\* A worker changes the place of its own row, or of one that has no owner.
Elsewhere(own, new, t, r) ==
    \A u \in TileGroups : \A q \in Rows(layout[u]) :
       u # t \/ q # r => new[<<u, q>>] = own[<<u, q>>] /\ current'[u][q] = current[u][q]
OthersInPlace(new, right, below, w) ==
    TasksInPlace(new)' /\ \A v \in Threads : v # w => WorkerInPlace(new, right, below, v)'
\* The tasks and the other workers stay in place.
LEMMA OthersStay ==
    ASSUME NEW own, NEW right, NEW below, layout \in Layouts, Scheduled(own, right, below),
           layout' = layout, done' = done, tasks' = tasks, posting' = posting,
           NEW w \in Threads, NEW t \in TileGroups, NEW r \in Rows(layout[t]), NotPosted(t),
           NEW new, NEW right2, NEW below2, Elsewhere(own, new, t, r),
           \/ own[<<t, r>>] \in Marks(w) \/ own[<<t, r>>][1] = "none"
           \/ new[<<t, r>>] = own[<<t, r>>] /\ current'[t][r] = current[t][r],
           \A v \in Threads : v # w => Keeps(v),
           right \subseteq right2,
           \A x \in below2 \ below : pc[w] = "below" /\ x = <<task[w].group, segment[w]>>
    PROVE  OthersInPlace(new, right2, below2, w)
<1>1. \A u \in TileGroups : u # t /\ Untouched(own, u) => Untouched(new, u)'
  BY DEF Untouched, Elsewhere
<1>2. ASSUME NEW k, NEW owner, HeldBy(own, k, owner), k.row = 0 => k.group # t,
             owner = <<"tasks", Mdc>> \/ \E p : owner = <<"posting", p>>
      PROVE  HeldBy(new, k, owner)'
  <2>1. own[<<k.group, k.row>>] = owner /\ k.group \in TileGroups /\ k.row \in Rows(layout[k.group])
    BY <1>2 DEF HeldBy, IsTask
  <2>2. owner \notin Marks(w) /\ owner[1] # "none"
    BY <1>2 DEF Marks
  <2>3. new[<<k.group, k.row>>] = owner
    BY <2>1, <2>2 DEF Elsewhere
  <2>4. k.row = 0 => Untouched(new, k.group)'
    BY <1>1, <1>2, <2>1 DEF HeldBy
  <2> QED BY <1>2, <2>3, <2>4, TaskStays
<1>3. TasksInPlace(new)'
  <2>1. TasksInPlace(own)
    BY DEF Scheduled
  <2>2. \A k \in tasks : HeldBy(new, k, <<"tasks", Mdc>>)'
    <3> SUFFICES ASSUME NEW k \in tasks
                 PROVE  HeldBy(new, k, <<"tasks", Mdc>>)'
      OBVIOUS
    <3>1. HeldBy(own, k, <<"tasks", Mdc>>) /\ (k.row = 0 => k.group # t)
      BY <2>1 DEF TasksInPlace, NotPosted
    <3> QED BY <1>2, <3>1
  <2>3. \A p \in Threads \cup {Mdc} : \A k \in posting[p] : HeldBy(new, k, <<"posting", p>>)' /\ k.row = 0
    <3> SUFFICES ASSUME NEW p \in Threads \cup {Mdc}, NEW k \in posting[p]
                 PROVE  HeldBy(new, k, <<"posting", p>>)' /\ k.row = 0
      OBVIOUS
    <3>1. HeldBy(own, k, <<"posting", p>>) /\ k.row = 0 /\ k.group # t
      BY <2>1 DEF TasksInPlace, NotPosted
    <3> QED BY <1>2, <3>1
  <2> QED BY <2>2, <2>3 DEF TasksInPlace
<1>4. ASSUME NEW v \in Threads, v # w
      PROVE  WorkerInPlace(new, right2, below2, v)'
  <2>1. WorkerInPlace(own, right, below, v) /\ Keeps(v)
    BY <1>4 DEF Scheduled
  <2>2. \A u \in TileGroups : \A q \in Rows(layout[u]) :
           own[<<u, q>>] \in Marks(v) => SamePlace(own, new, u, q)
    <3> SUFFICES ASSUME NEW u \in TileGroups, NEW q \in Rows(layout[u]), own[<<u, q>>] \in Marks(v)
                 PROVE  SamePlace(own, new, u, q)
      OBVIOUS
    <3>1. own[<<u, q>>] \notin Marks(w) /\ own[<<u, q>>][1] # "none"
      BY <1>4 DEF Marks
    <3> QED BY <3>1 DEF SamePlace, Elsewhere
  <2>3. \A u \in TileGroups : pc[v] = "startPicture" /\ task[v].group = u => Untouched(new, u)'
    <3>1. pc[v] = "startPicture" => Untouched(own, task[v].group) /\ task[v].group # t
      BY <2>1 DEF WorkerInPlace, Starting, NotPosted
    <3> QED BY <1>1, <3>1
  <2>4. pc[v] = "below" => /\ <<task[v].group, segment[v]>> \in right2
                           /\ <<task[v].group, segment[v]>> \notin below2
    <3>1. pc[v] = "below" => /\ <<task[v].group, segment[v]>> \in right
                             /\ <<task[v].group, segment[v]>> \notin below
      BY <2>1 DEF WorkerInPlace, Working
    <3>2. pc[v] = "below" /\ pc[w] = "below" =>
             <<task[v].group, segment[v]>> # <<task[w].group, segment[w]>>
      BY <1>4 DEF Scheduled, CountsInOrder, BelowOnce
    <3> QED BY <3>1, <3>2
  <2> QED BY <2>1, <2>2, <2>3, <2>4, WorkerStays
<1> QED BY <1>3, <1>4 DEF OthersInPlace

\* The worker of a row increments its current segment: it is the one the worker read.
LEMMA AdvanceStep ==
    ASSUME Types, ScheduleInvariant, NEW w \in Threads, Advance(w)
    PROVE  ScheduleInvariant'
<1> PICK own, right, below : Scheduled(own, right, below)
  BY DEF ScheduleInvariant
<1>0. PICK t, s, r : t = task[w].group /\ s = segment[w] /\ r = task[w].row
  OBVIOUS
<1>1. /\ pc[w] = "advance" /\ current' = [current EXCEPT ![t][r] = @ + 1]
      /\ todo' = [todo EXCEPT ![w] = WalkTable[layout[t]][s]]
      /\ pc' = [pc EXCEPT ![w] = "code"]
      /\ layout' = layout /\ dependency' = dependency /\ tasks' = tasks
      /\ posting' = posting /\ task' = task /\ segment' = segment /\ next' = next
      /\ feedback' = feedback /\ coded' = coded /\ codedCount' = codedCount
      /\ results' = results /\ done' = done
  BY <1>0 DEF Advance, Geometry, queueVars, pictureVars
<1>2. WorkerInPlace(own, right, below, w)
  BY DEF Scheduled
<1>3. /\ IsTask(task[w]) /\ t \in TileGroups /\ r \in Rows(layout[t]) /\ coded[w] \in Nat
      /\ own[<<t, r>>] = <<"start", w>> /\ s = current[t][r] /\ next[w] = None /\ feedback[w] = None
  BY <1>0, <1>1, <1>2 DEF WorkerInPlace, Starting, Going, IsTask
<1>4. layout \in Layouts /\ Types'
  BY <1>1, <1>3 DEF Types, TileGroups
<1>5. /\ pc'[w] = "code" /\ todo'[w] = WalkTable[layout[t]][s] /\ current'[t][r] = s + 1
      /\ \A u \in TileGroups : \A q \in Rows(layout[u]) :
            u # t \/ q # r => current'[u][q] = current[u][q]
      /\ \A v \in Threads : v # w => Keeps(v)
  BY <1>1, <1>3 DEF Types, Keeps
<1>6. Owned(own, right, t, r) /\ \A x \in Segs(t, r) : Depends(right, below, t, r, x)
  BY <1>3, <1>4, InRow
<1>7. s \in Segs(t, r) /\ dependency[t][s] = 0
  <2>1. own[<<t, r>>][1] \in Waiting
    BY <1>3 DEF Waiting
  <2> QED BY <1>3, <1>6, <2>1 DEF Owned
<1>8. /\ s \in Nat /\ StartOf(layout[t], r) \in Nat /\ EndOf(layout[t], r) \in Nat
      /\ StartOf(layout[t], r) <= s /\ s <= EndOf(layout[t], r)
      /\ RowOf(t, s) = r /\ todo'[w] = SbsOf(layout[t], s) /\ todo'[w] # {}
      /\ \A x \in Segs(t, r) : x \in Nat
  <2>1. \A x : x \in Segs(t, r) <=>
           x \in Nat /\ StartOf(layout[t], r) <= x /\ x <= EndOf(layout[t], r)
    BY <1>3, <1>4, RowFacts
  <2>2. StartOf(layout[t], r) \in Nat /\ EndOf(layout[t], r) \in Nat
    BY <1>3, <1>4, InRow
  <2>3. RowOf(t, s) = r /\ SbsOf(layout[t], s) # {} /\ WalkTable[layout[t]][s] = SbsOf(layout[t], s)
    <3>1. t \in TileGroups /\ r \in Rows(layout[t]) /\ s \in Segs(t, r) /\ layout \in Layouts
      BY <1>3, <1>4, <1>7
    <3> QED BY <3>1, RowFacts
  <2> QED BY <1>5, <1>7, <2>1, <2>2, <2>3
<1>9. SetOf(t, s) \cap done = {} /\ <<t, s>> \notin right
  <2>1. Depends(right, below, t, r, s)
    BY <1>6, <1>7
  <2>2. /\ <<t, s>> \in right => s < current[t][r]
        /\ s >= current[t][r] => SetOf(t, s) \cap done = {}
    BY <2>1 DEF Depends
  <2> QED BY <1>3, <1>8, <2>2
<1> PICK new : GivenTo(own, new, t, r, <<"work", w>>)
  BY <1>3, HandOver
<1>10. /\ new[<<t, r>>] = <<"work", w>>
       /\ \A u \in TileGroups : \A q \in Rows(layout[u]) :
             u # t \/ q # r => new[<<u, q>>] = own[<<u, q>>]
  BY DEF GivenTo
<1>11. NotPosted(t)
  BY <1>0, <1>1, <1>4, TakenOnce
<1>12. OthersInPlace(new, right, below, w)
  <2>1. own[<<t, r>>] \in Marks(w)
    BY <1>3 DEF Marks
  <2>2. Elsewhere(own, new, t, r)
    BY <1>5, <1>10 DEF Elsewhere
  <2>3. right \subseteq right
        /\ \A x \in below \ below : pc[w] = "below" /\ x = <<task[w].group, segment[w]>>
    OBVIOUS
  <2>4. layout' = layout /\ done' = done /\ tasks' = tasks /\ posting' = posting
    BY <1>1
  <2>5. t \in TileGroups /\ r \in Rows(layout[t]) /\ layout \in Layouts /\ NotPosted(t)
    BY <1>3, <1>4, <1>11
  <2>6. \A v \in Threads : v # w => Keeps(v)
    BY <1>5
  <2> QED BY <2>1, <2>2, <2>3, <2>4, <2>5, <2>6, OthersStay
<1>13. RowsInOrder(new, right, below)'
  <2>1. ASSUME NEW u \in TileGroups, NEW q \in Rows(layout[u]), u # t \/ q # r
        PROVE  RowInOrder(new, right, below, u, q)'
    <3>1. RowInOrder(own, right, below, u, q) /\ \A x \in Segs(u, q) : Depends(right, below, u, q, x)
      BY <1>4, InRow
    <3>2. \A x \in Segs(u, q) :
             /\ <<u, x>> \in below => <<u, x>> \in right
             /\ x >= current[u][q] => SetOf(u, x) \cap done' = {}
      BY <1>1, <3>1 DEF Depends
    <3> QED BY <1>1, <1>4, <1>5, <1>10, <2>1, <3>1, <3>2, RowStays
  <2>2. Owned(new, right, t, r)'
    <3>1. r = 0 \/ StartOf(layout[t], r) - BandCount(layout[t]) \in Segs(t, r - 1)
      BY <1>3, <1>6 DEF Owned
    <3>3. "work" \notin Waiting
      BY DEF Waiting
    <3>4. /\ layout' = layout /\ current'[t][r] = s + 1 /\ new[<<t, r>>][1] = "work"
          /\ s \in SegsIn(layout[t], r) /\ <<t, s>> \notin right
          /\ r = 0 \/ StartOf(layout[t], r) - BandCount(layout[t]) \in SegsIn(layout[t], r - 1)
      BY <1>1, <1>5, <1>7, <1>9, <1>10, <3>1 DEF Segs
    <3>5. PICK c, e : c = s + 1 /\ e = c - 1
      OBVIOUS
    <3>6. /\ current'[t][r] \in StartOf(layout[t], r) .. EndOf(layout[t], r) + 1
          /\ current'[t][r] - 1 \in SegsIn(layout[t], r)
          /\ <<t, current'[t][r] - 1>> \notin right
      <4>1. c \in StartOf(layout[t], r) .. EndOf(layout[t], r) + 1 /\ e = s
        BY <1>8, <3>5
      <4>2. e \in SegsIn(layout[t], r) /\ <<t, e>> \notin right
        BY <3>4, <4>1
      <4>3. current'[t][r] = c /\ current'[t][r] - 1 = e
        BY <3>4, <3>5
      <4> QED BY <4>1, <4>2, <4>3
    <3>7. layout' = layout /\ new[<<t, r>>][1] = "work"
      BY <3>4
    <3> QED BY <3>3, <3>4, <3>6, <3>7 DEF Owned, Segs
  <2>3. ASSUME NEW x \in Segs(t, r)
        PROVE  Depends(right, below, t, r, x)'
    <3>1. Depends(right, below, t, r, x) /\ x \in Nat
      BY <1>6, <1>8
    <3>2. /\ x < s + 1 => dependency[t][x] = 0
          /\ <<t, x>> \in right => x < s + 1
          /\ x >= s + 1 => SetOf(t, x) \cap done = {}
      BY <1>3, <1>7, <1>8, <3>1 DEF Depends
    <3> QED BY <1>1, <1>5, <3>1, <3>2 DEF Depends, SetOf
  <2>4. RowInOrder(new, right, below, t, r)'
    BY <1>1, <2>2, <2>3 DEF RowInOrder, Segs
  <2> QED BY <1>1, <2>1, <2>4 DEF RowsInOrder, TileGroups
<1>14. WorkerInPlace(new, right, below, w)'
  <2>1. IsTask(task[w])'
    BY <1>1, <1>3 DEF IsTask, TileGroups
  <2>2. Starting(new, w)' /\ Going(new, w)'
    BY <1>1, <1>3, <1>5 DEF Starting, Going
  <2>3. \A b \in SbsOf(layout[t], s) : <<t, b>> \in done' <=> b \notin todo'[w]
    BY <1>1, <1>8, <1>9 DEF SetOf
  <2>4. r = SegmentRow(layout[t], s)
    BY <1>8 DEF RowOf
  <2>5. s = current'[t][r] - 1
    BY <1>5, <1>8
  <2>6. task'[w].group = t /\ segment'[w] = s /\ s \in SegsIn(layout[t], r)
    BY <1>0, <1>1, <1>7 DEF Segs
  <2>7. Working(new, right, below, w)'
    BY <1>1, <1>3, <1>5, <1>8, <1>10, <2>3, <2>4, <2>5, <2>6 DEF Working, IsSegment, Issued, RowOf, Segs
  <2> QED BY <1>1, <1>3, <1>5, <2>1, <2>2, <2>7 DEF WorkerInPlace, Places
<1>15. CountsInOrder'
  <2>1. \A v \in Threads :
           /\ coded'[v] = coded[v] /\ (posting'[v] # {} => posting[v] # {} /\ pc'[v] = pc[v])
           /\ pc'[v] = "last" <=> pc[v] = "last"
           /\ pc'[v] \in {"idle", "last", "release"} <=> pc[v] \in {"idle", "last", "release"}
    <3>1. posting[w] = {}
      BY <1>1 DEF Scheduled, CountsInOrder
    <3> QED BY <1>1, <1>5, <3>1 DEF Keeps
  <2>2. BelowOnce'
    BY <1>1, <1>5, BelowStays DEF Scheduled, CountsInOrder
  <2> QED BY <1>1, <2>1, <2>2, CountsStay
<1>16. \A v \in Threads : WorkerInPlace(new, right, below, v)'
  BY <1>12, <1>14 DEF OthersInPlace
<1>17. Scheduled(new, right, below)'
  BY <1>12, <1>13, <1>15, <1>16 DEF Scheduled, OthersInPlace
<1> QED BY <1>4, <1>17 DEF ScheduleInvariant

-----------------------------------------------------------------------------
(* Going on with a neighbour.                                              *)

\* What Right does with the dependency of the neighbour on the right, and what it
\* assigns to the worker.
RightEffect(own, right, below, w, t, s, r, c) ==
    /\ t \in TileGroups /\ r \in Rows(layout[t]) /\ s \in Segs(t, r)
    /\ own[<<t, r>>] = <<"work", w>> /\ c = current[t][r] /\ c \in Nat /\ s \in Nat
    /\ SetOf(t, s) \subseteq done /\ <<t, s>> \notin right /\ <<t, s>> \notin below
    /\ next[w] = None
    /\ \A u \in TileGroups : \A q \in Rows(layout[u]) : \A x \in Segs(u, q) :
          dependency'[u][x] = IF u = t /\ q = r /\ x = c THEN dependency[u][x] - 1
                                                        ELSE dependency[u][x]
    /\ \A u \in TileGroups : \A q \in Rows(layout[u]) :
          u # t \/ q # r => current'[u][q] = current[u][q]
    /\ c \in Segs(t, r) =>
          /\ dependency[t][c] \in {1, 2}
          /\ dependency'[t][c] = 0 => next'[w] = c /\ current'[t][r] = c + 1
    /\ c \notin Segs(t, r) \/ dependency'[t][c] # 0 => next'[w] = None /\ current'[t][r] = c
\* Right does that, since the worker's segment is the last one issued of its row.
LEMMA RightDoes ==
    ASSUME Types, NEW own, NEW right, NEW below, Scheduled(own, right, below),
           NEW w \in Threads, Right(w),
           NEW t, NEW s, NEW r, NEW c
    PROVE  t = task[w].group /\ s = segment[w] /\ r = RowOf(t, s) /\ c = s + 1
              => RightEffect(own, right, below, w, t, s, r, c)
<1>0. SUFFICES ASSUME t = task[w].group, s = segment[w], r = RowOf(t, s), c = s + 1
               PROVE  RightEffect(own, right, below, w, t, s, r, c)
  OBVIOUS
<1>1. WorkerInPlace(own, right, below, w) /\ pc[w] = "right" /\ layout \in Layouts
  BY DEF Scheduled, Right, Types
<1>2. /\ t \in TileGroups /\ r \in Rows(layout[t]) /\ s \in Segs(t, r)
      /\ own[<<t, r>>] = <<"work", w>> /\ s = current[t][r] - 1 /\ SetOf(t, s) \subseteq done
      /\ next[w] = None
  BY <1>0, <1>1 DEF WorkerInPlace, Working, Going, IsTask, IsSegment, Issued
<1>3. s \in Nat /\ current[t][r] \in Nat
  <2>1. s \in Nat
    BY <1>1, <1>2, RowFacts
  <2>2. current[t][r] \in Nat
    BY <1>1, <1>2, InRow
  <2> QED BY <2>1, <2>2
<1>4. c = current[t][r] /\ c \in Nat /\ c - 1 = s
  <2>1. s = current[t][r] - 1
    BY <1>2
  <2>2. c = current[t][r]
    BY <1>0, <1>3, <2>1
  <2>3. c \in Nat /\ c - 1 = s
    BY <1>0, <1>3
  <2> QED BY <2>2, <2>3
<1>5. Owned(own, right, t, r) /\ \A x \in Segs(t, r) : Depends(right, below, t, r, x)
  BY <1>1, <1>2, InRow
<1>6. <<t, s>> \notin right /\ <<t, s>> \notin below
  <2>1. own[<<t, r>>][1] = "work" => <<t, current[t][r] - 1>> \notin right
    BY <1>5 DEF Owned
  <2>2. <<t, s>> \notin right
    BY <1>2, <2>1
  <2>3. Depends(right, below, t, r, s)
    BY <1>2, <1>5
  <2> QED BY <2>2, <2>3 DEF Depends
<1>7. HasRight(layout[t], s) <=> c \in Segs(t, r)
  BY <1>0, <1>1, <1>2, RowFacts
<1>8. /\ c \in Segs(t, r) =>
            /\ dependency' = [dependency EXCEPT ![t][c] = Cleared(dependency[t][c])]
            /\ Cleared(dependency[t][c]) = 0 =>
                  /\ next' = [next EXCEPT ![w] = current[t][r]]
                  /\ current' = [current EXCEPT ![t][r] = @ + 1]
            /\ Cleared(dependency[t][c]) # 0 => next' = next /\ current' = current
      /\ c \notin Segs(t, r) => dependency' = dependency /\ next' = next /\ current' = current
  BY <1>0, <1>7 DEF Right, Geometry, Row, RowOf, IsFree, Assign
<1>9. c \in Segs(t, r) =>
         /\ dependency[t][c] \in {1, 2} /\ Cleared(dependency[t][c]) = dependency[t][c] - 1
  <2> SUFFICES ASSUME c \in Segs(t, r)
               PROVE  /\ dependency[t][c] \in {1, 2}
                      /\ Cleared(dependency[t][c]) = dependency[t][c] - 1
    OBVIOUS
  <2>1. Depends(right, below, t, r, c)
    BY <1>5
  <2>2. AfterLeft(layout[t], r, c) /\ <<t, c - 1>> \notin right
    BY <1>2, <1>4, <1>6 DEF AfterLeft, Segs
  <2>3. dependency[t][c] = 1 + (IF AfterAbove(layout[t], r, c)
                                   /\ <<t, c - BandCount(layout[t])>> \notin below THEN 1 ELSE 0)
    BY <2>1, <2>2 DEF Depends
  <2>4. dependency[t][c] = 1 \/ dependency[t][c] = 2
    BY <2>3
  <2> QED BY <2>4 DEF Cleared
<1>10. \A u \in TileGroups : \A q \in Rows(layout[u]) : \A x \in Segs(u, q) :
          dependency'[u][x] = IF u = t /\ q = r /\ x = c THEN dependency[u][x] - 1
                                                        ELSE dependency[u][x]
  <2> SUFFICES ASSUME NEW u \in TileGroups, NEW q \in Rows(layout[u]), NEW x \in Segs(u, q)
               PROVE  dependency'[u][x] = IF u = t /\ q = r /\ x = c THEN dependency[u][x] - 1
                                                                    ELSE dependency[u][x]
    OBVIOUS
  <2>1. CASE c \notin Segs(t, r)
    BY <1>8, <2>1
  <2>2. CASE c \in Segs(t, r)
    <3>1. dependency' = [dependency EXCEPT ![t][c] = dependency[t][c] - 1]
      BY <1>8, <1>9, <2>2
    <3>2. layout \in Layouts /\ t \in TileGroups /\ r \in Rows(layout[t])
      BY <1>1, <1>2
    <3>3. c \in Indices(layout[t]) /\ RowOf(t, c) = r
      BY <2>2, <3>2, RowFacts
    <3>4. RowOf(u, x) = q /\ x \in Indices(layout[u])
      BY <3>2, RowFacts
    <3>5. u = t /\ x = c => q = r
      BY <3>3, <3>4
    <3>6. /\ t \in DOMAIN dependency /\ c \in DOMAIN dependency[t]
          /\ u \in DOMAIN dependency /\ x \in DOMAIN dependency[u]
      BY <3>2, <3>3, <3>4 DEF Types
    <3> QED BY <3>1, <3>5, <3>6
  <2> QED BY <2>1, <2>2
<1>11. /\ \A u \in TileGroups : \A q \in Rows(layout[u]) :
             u # t \/ q # r => current'[u][q] = current[u][q]
       /\ c \in Segs(t, r) /\ dependency'[t][c] = 0 => next'[w] = c /\ current'[t][r] = c + 1
       /\ c \notin Segs(t, r) \/ dependency'[t][c] # 0 => next'[w] = None /\ current'[t][r] = c
  <2>1. CASE c \notin Segs(t, r)
    BY <1>2, <1>4, <1>8, <2>1
  <2>2. CASE c \in Segs(t, r) /\ Cleared(dependency[t][c]) = 0
    <3>1. dependency'[t][c] = 0
      BY <1>2, <1>9, <1>10, <2>2
    <3>2. next' = [next EXCEPT ![w] = c] /\ current' = [current EXCEPT ![t][r] = @ + 1]
      BY <1>4, <1>8, <2>2
    <3>3. /\ w \in DOMAIN next /\ t \in DOMAIN current /\ r \in DOMAIN current[t]
          /\ \A u \in TileGroups : u \in DOMAIN current /\ DOMAIN current[u] = Rows(layout[u])
      BY <1>2 DEF Types
    <3>4. next'[w] = c /\ current'[t][r] = c + 1
      BY <1>4, <3>2, <3>3
    <3>5. \A u \in TileGroups : \A q \in Rows(layout[u]) :
             u # t \/ q # r => current'[u][q] = current[u][q]
      BY <3>2, <3>3
    <3> QED BY <2>2, <3>1, <3>4, <3>5
  <2>3. CASE c \in Segs(t, r) /\ Cleared(dependency[t][c]) # 0
    <3>1. dependency'[t][c] # 0
      BY <1>2, <1>9, <1>10, <2>3
    <3> QED BY <1>2, <1>4, <1>8, <2>3, <3>1
  <2> QED BY <2>1, <2>2, <2>3
<1> QED BY <1>2, <1>3, <1>4, <1>6, <1>9, <1>10, <1>11 DEF RightEffect

\* The worker keeps its row if the segment on the right is ready, and gives it up if not.
LEMMA RightStep ==
    ASSUME Types, ScheduleInvariant, NEW w \in Threads, Right(w)
    PROVE  ScheduleInvariant'
<1> PICK own, right, below : Scheduled(own, right, below)
  BY DEF ScheduleInvariant
<1>a. PICK t, s, r, c : t = task[w].group /\ s = segment[w] /\ r = RowOf(t, s) /\ c = s + 1
  OBVIOUS
<1>b. PICK n : n = next'[w]
  OBVIOUS
<1>0. RightEffect(own, right, below, w, t, s, r, c)
  BY <1>a, RightDoes
<1>1. /\ pc[w] = "right" /\ pc' = [pc EXCEPT ![w] = "below"]
      /\ layout' = layout /\ tasks' = tasks /\ posting' = posting /\ task' = task
      /\ segment' = segment /\ todo' = todo /\ feedback' = feedback /\ coded' = coded
      /\ codedCount' = codedCount /\ results' = results /\ done' = done
  BY DEF Right, queueVars, pictureVars
<1>2. /\ t \in TileGroups /\ r \in Rows(layout[t]) /\ s \in Segs(t, r)
      /\ own[<<t, r>>] = <<"work", w>> /\ c = current[t][r] /\ c \in Nat /\ s \in Nat
      /\ SetOf(t, s) \subseteq done /\ <<t, s>> \notin right /\ <<t, s>> \notin below
      /\ next[w] = None
      /\ c \in Segs(t, r) => dependency[t][c] \in {1, 2}
  BY <1>0 DEF RightEffect
<1>3. \A u \in TileGroups : \A q \in Rows(layout[u]) : \A x \in Segs(u, q) :
         dependency'[u][x] = IF u = t /\ q = r /\ x = c THEN dependency[u][x] - 1
                                                       ELSE dependency[u][x]
  BY <1>0 DEF RightEffect
<1>4. \A u \in TileGroups : \A q \in Rows(layout[u]) :
         u # t \/ q # r => current'[u][q] = current[u][q]
  BY <1>0 DEF RightEffect
<1>5. \/ n = c /\ c \in Segs(t, r) /\ dependency'[t][c] = 0 /\ current'[t][r] = c + 1
      \/ /\ n = None /\ (c \notin Segs(t, r) \/ dependency'[t][c] # 0)
         /\ current'[t][r] = c
  BY <1>a, <1>b, <1>0 DEF RightEffect
<1>6. layout \in Layouts /\ Types'
  <2>1. /\ \/ current' = current
           \/ \E x, e : current' = [current EXCEPT ![t][x] = e]
        /\ dependency' = dependency \/ \E x, e : dependency' = [dependency EXCEPT ![t][x] = e]
        /\ next' = next \/ \E e : next' = [next EXCEPT ![w] = e]
    BY <1>a, Zenon DEF Right, Assign
  <2>2. DOMAIN pc' = DOMAIN pc
    BY <1>1
  <2> QED BY <1>1, <2>1, <2>2 DEF Types, TileGroups
<1>7. pc'[w] = "below" /\ \A v \in Threads : v # w => Keeps(v)
  <2>1. pc'[w] = "below" /\ \A v \in Threads : v # w => pc'[v] = pc[v]
    BY <1>1 DEF Types
  <2>2. \A v \in Threads : v # w => next'[v] = next[v]
    BY DEF Right, Assign, Types
  <2> QED BY <1>1, <2>1, <2>2 DEF Keeps
<1> PICK owner : owner = IF n = None THEN Free ELSE <<"work", w>>
  OBVIOUS
<1> PICK new : GivenTo(own, new, t, r, owner)
  BY <1>2, HandOver
<1> PICK right2 : right2 = right \cup {<<t, s>>}
  OBVIOUS
<1>8. /\ new[<<t, r>>] = owner
      /\ \A u \in TileGroups : \A q \in Rows(layout[u]) :
            u # t \/ q # r => new[<<u, q>>] = own[<<u, q>>]
  BY DEF GivenTo
<1>9. OthersInPlace(new, right2, below, w)
  <2>1. own[<<t, r>>] \in Marks(w)
    BY <1>2 DEF Marks
  <2>2. Elsewhere(own, new, t, r)
    BY <1>4, <1>8 DEF Elsewhere
  <2>3. right \subseteq right2
        /\ \A x \in below \ below : pc[w] = "below" /\ x = <<task[w].group, segment[w]>>
    OBVIOUS
  <2>4. layout' = layout /\ done' = done /\ tasks' = tasks /\ posting' = posting
    BY <1>1
  <2>5. NotPosted(t)
    BY <1>a, <1>1, <1>6, TakenOnce
  <2>6. t \in TileGroups /\ r \in Rows(layout[t]) /\ layout \in Layouts
    BY <1>2, <1>6
  <2>7. \A v \in Threads : v # w => Keeps(v)
    BY <1>7
  <2> QED BY <2>1, <2>2, <2>3, <2>4, <2>5, <2>6, <2>7, OthersStay
<1>10. Owned(own, right, t, r) /\ \A x \in Segs(t, r) : Depends(right, below, t, r, x)
  BY <1>2, <1>6, InRow
<1>11. /\ StartOf(layout[t], r) \in Nat /\ EndOf(layout[t], r) \in Nat
       /\ \A x : x \in Segs(t, r) <=>
             x \in Nat /\ StartOf(layout[t], r) <= x /\ x <= EndOf(layout[t], r)
  <2>1. t \in TileGroups /\ r \in Rows(layout[t]) /\ layout \in Layouts
    BY <1>2, <1>6
  <2>2. StartOf(layout[t], r) \in Nat /\ EndOf(layout[t], r) \in Nat
    BY <2>1, InRow
  <2> QED BY <2>1, <2>2, RowFacts
<1>12. Owned(new, right2, t, r)'
  <2>1. PICK d : d = current'[t][r]
    OBVIOUS
  <2>2. /\ c \in StartOf(layout[t], r) .. EndOf(layout[t], r) + 1
        /\ r = 0 \/ StartOf(layout[t], r) - BandCount(layout[t]) \in SegsIn(layout[t], r - 1)
    BY <1>2, <1>10 DEF Owned, Segs
  <2>3. d \in StartOf(layout[t], r) .. EndOf(layout[t], r) + 1
    <3>1. CASE n = c /\ c \in Segs(t, r) /\ current'[t][r] = c + 1
      BY <1>2, <1>11, <2>1, <3>1
    <3>2. CASE current'[t][r] = c
      BY <2>1, <2>2, <3>2
    <3> QED BY <1>5, <3>1, <3>2
  <2>4. CASE n = c /\ c \in Segs(t, r) /\ dependency'[t][c] = 0 /\ current'[t][r] = c + 1
    <3>1. new[<<t, r>>][1] = "work"
      BY <1>2, <1>8, <2>4 DEF None
    <3>2. "work" \notin Waiting
      BY DEF Waiting
    <3>3. d - 1 = c
      BY <1>2, <2>1, <2>4
    <3>4. <<t, c>> \notin right2
      <4>1. c # s
        BY <1>a, <1>2
      <4>2. Depends(right, below, t, r, c)
        BY <1>10, <2>4
      <4>3. <<t, c>> \in right => c < current[t][r]
        BY <4>2 DEF Depends
      <4>4. <<t, c>> \notin right
        BY <1>2, <4>3
      <4> QED BY <4>1, <4>4
    <3>5. d - 1 \in SegsIn(layout[t], r) /\ <<t, d - 1>> \notin right2
      BY <2>4, <3>3, <3>4 DEF Segs
    <3> QED BY <1>1, <2>1, <2>2, <2>3, <3>1, <3>2, <3>5 DEF Owned, Segs
  <2>5. CASE n = None /\ current'[t][r] = c
    <3>1. new[<<t, r>>][1] = "none"
      BY <1>8, <2>5 DEF Free
    <3>2. "none" \notin Waiting
      BY DEF Waiting
    <3> QED BY <1>1, <2>1, <2>2, <2>3, <3>1, <3>2 DEF Owned, Segs
  <2> QED BY <1>5, <2>4, <2>5
<1>13. ASSUME NEW x \in Segs(t, r)
       PROVE  Depends(right2, below, t, r, x)'
  <2>1. Depends(right, below, t, r, x) /\ x \in Nat
    BY <1>10, <1>11
  <2>2. PICK b : b = IF AfterAbove(layout[t], r, x) /\ <<t, x - BandCount(layout[t])>> \notin below
                     THEN 1 ELSE 0
    OBVIOUS
  <2>3. dependency[t][x] = (IF AfterLeft(layout[t], r, x) /\ <<t, x - 1>> \notin right
                            THEN 1 ELSE 0) + b
    BY <2>1, <2>2 DEF Depends
  <2>4. dependency'[t][x] = (IF AfterLeft(layout[t], r, x) /\ <<t, x - 1>> \notin right2
                             THEN 1 ELSE 0) + b
    <3>1. CASE x = c
      <4>1. x - 1 = s
        BY <1>a, <1>2, <3>1
      <4>2. AfterLeft(layout[t], r, x) /\ <<t, x - 1>> \notin right /\ <<t, x - 1>> \in right2
        BY <1>2, <4>1 DEF AfterLeft, Segs
      <4>3. dependency[t][x] = 1 + b /\ dependency'[t][x] = dependency[t][x] - 1
        BY <1>2, <1>3, <2>3, <3>1, <4>2
      <4>4. b = 0 \/ b = 1
        BY <2>2
      <4>5. dependency'[t][x] = 0 + b
        BY <4>3, <4>4
      <4> QED BY <4>2, <4>5
    <3>2. CASE x # c
      <4>1. x - 1 # s
        BY <1>a, <1>2, <2>1, <3>2
      <4>2. <<t, x - 1>> \in right2 <=> <<t, x - 1>> \in right
        BY <4>1
      <4>3. dependency'[t][x] = dependency[t][x]
        BY <1>2, <1>3, <3>2
      <4> QED BY <2>3, <4>2, <4>3
    <3> QED BY <3>1, <3>2
  <2>5. x < current'[t][r] => dependency'[t][x] = 0
    <3>1. x < c => dependency[t][x] = 0
      BY <1>2, <2>1 DEF Depends
    <3>2. x < c => dependency'[t][x] = 0
      BY <1>2, <1>3, <2>1, <3>1
    <3>3. x < c + 1 => x < c \/ x = c
      BY <1>2, <2>1
    <3> QED BY <1>5, <3>2, <3>3
  <2>6. <<t, x>> \in right2 => x < current'[t][r] /\ SetOf(t, x) \subseteq done
    <3>1. <<t, x>> \in right => x < c /\ SetOf(t, x) \subseteq done
      BY <1>2, <2>1 DEF Depends
    <3>2. <<t, x>> \in right2 => x < c /\ SetOf(t, x) \subseteq done
      BY <1>a, <1>2, <3>1
    <3>3. x < c => x < c + 1
      BY <1>2, <2>1
    <3> QED BY <1>5, <3>2, <3>3
  <2>7. <<t, x>> \in below => <<t, x>> \in right2
    BY <2>1 DEF Depends
  <2>8. x >= current'[t][r] => SetOf(t, x) \cap done = {}
    <3>1. x >= c => SetOf(t, x) \cap done = {}
      BY <1>2, <2>1 DEF Depends
    <3>2. x >= c + 1 => x >= c
      BY <1>2, <2>1
    <3> QED BY <1>5, <3>1, <3>2
  <2> QED BY <1>1, <2>2, <2>4, <2>5, <2>6, <2>7, <2>8 DEF Depends, SetOf
<1>14. RowsInOrder(new, right2, below)'
  <2>1. ASSUME NEW u \in TileGroups, NEW q \in Rows(layout[u]), u # t \/ q # r
        PROVE  RowInOrder(new, right2, below, u, q)'
    <3>1. RowInOrder(own, right, below, u, q) /\ \A x \in Segs(u, q) : Depends(right, below, u, q, x)
      BY <1>6, InRow
    <3>2. \A x \in Segs(u, q) :
             /\ dependency'[u][x] = dependency[u][x]
             /\ <<u, x>> \in right2 <=> <<u, x>> \in right
             /\ <<u, x>> \in below => <<u, x>> \in right
             /\ x >= current[u][q] => SetOf(u, x) \cap done' = {}
      <4> SUFFICES ASSUME NEW x \in Segs(u, q)
                   PROVE  /\ dependency'[u][x] = dependency[u][x]
                          /\ <<u, x>> \in right2 <=> <<u, x>> \in right
                          /\ <<u, x>> \in below => <<u, x>> \in right
                          /\ x >= current[u][q] => SetOf(u, x) \cap done' = {}
        OBVIOUS
      <4>1. u # t \/ x # s
        <5>1. RowOf(u, x) = q /\ RowOf(t, s) = r
          BY <1>2, <1>6, RowFacts
        <5> QED BY <2>1, <5>1
      <4>2. dependency'[u][x] = dependency[u][x]
        BY <1>3, <2>1
      <4>3. Depends(right, below, u, q, x)
        BY <3>1
      <4>4. /\ <<u, x>> \in below => <<u, x>> \in right
            /\ x >= current[u][q] => SetOf(u, x) \cap done' = {}
        BY <1>1, <4>3 DEF Depends
      <4> QED BY <4>1, <4>2, <4>4
    <3>3. current'[u][q] = current[u][q] /\ new[<<u, q>>] = own[<<u, q>>]
      BY <1>4, <1>8, <2>1
    <3> QED BY <1>1, <1>6, <3>1, <3>2, <3>3, RowStays
  <2>2. RowInOrder(new, right2, below, t, r)'
    BY <1>1, <1>12, <1>13 DEF RowInOrder, Segs
  <2> QED BY <1>1, <2>1, <2>2 DEF RowsInOrder, TileGroups
<1>15. WorkerInPlace(new, right2, below, w)'
  <2>1. WorkerInPlace(own, right, below, w)
    BY DEF Scheduled
  <2>2. coded[w] \in Nat /\ coded[w] > 0 /\ IsTask(task[w]) /\ feedback[w] = None
    BY <1>1, <2>1 DEF WorkerInPlace, Working, Going
  <2>3. IsTask(task[w])'
    BY <1>1, <2>2 DEF IsTask, TileGroups
  <2>4. task'[w].group = t /\ segment'[w] = s /\ s \in SegsIn(layout[t], r)
        /\ r = SegmentRow(layout[t], s) /\ feedback'[w] = None
    BY <1>a, <1>1, <1>2, <2>2 DEF Segs, RowOf
  <2>5. Starting(new, w)'
    BY <1>1, <1>7 DEF Starting
  <2>6. Working(new, right2, below, w)'
    BY <1>1, <1>2, <1>7, <2>2, <2>4 DEF Working, IsSegment, RowOf, Segs
  <2>7. Going(new, w)'
    <3>1. CASE n = None
      BY <1>a, <1>b, <1>7, <2>4, <3>1 DEF Going
    <3>2. CASE n = c /\ c \in Segs(t, r) /\ dependency'[t][c] = 0 /\ current'[t][r] = c + 1
      <4>1. n # None /\ new[<<t, r>>] = <<"work", w>>
        BY <1>2, <1>8, <3>2 DEF None
      <4>2. SegmentRow(layout[t], c) = r /\ c \in SegsIn(layout[t], r)
        <5>1. RowOf(t, c) = r
          BY <1>2, <1>6, <3>2, RowFacts
        <5> QED BY <3>2, <5>1 DEF RowOf, Segs
      <4>3. {t} \X SbsOf(layout[t], c) \cap done = {}
        <5>1. Depends(right, below, t, r, c)
          BY <1>10, <3>2
        <5> QED BY <1>2, <5>1 DEF Depends, SetOf
      <4>4. c = current'[t][r] - 1
        BY <1>2, <3>2
      <4>5. next'[w] = c /\ pc'[w] = "below" /\ layout' = layout /\ done' = done
        BY <1>a, <1>b, <1>1, <1>7, <3>2
      <4>6. r \in Rows(layout[t])
        BY <1>2
      <4> QED BY <2>4, <4>1, <4>2, <4>3, <4>4, <4>5, <4>6 DEF Going, IsSegment, Issued, RowOf, Segs, SetOf
    <3> QED BY <1>5, <3>1, <3>2
  <2> QED BY <1>1, <1>7, <2>2, <2>3, <2>5, <2>6, <2>7 DEF WorkerInPlace, Places
<1>16. CountsInOrder'
  <2>1. \A v \in Threads :
           /\ coded'[v] = coded[v] /\ (posting'[v] # {} => posting[v] # {} /\ pc'[v] = pc[v])
           /\ pc'[v] = "last" <=> pc[v] = "last"
           /\ pc'[v] \in {"idle", "last", "release"} <=> pc[v] \in {"idle", "last", "release"}
    <3>1. posting[w] = {}
      BY <1>1 DEF Scheduled, CountsInOrder
    <3> QED BY <1>1, <1>7, <3>1 DEF Keeps
  <2>2. \A v \in Threads : v # w /\ pc[v] = "below" => task[v].group # t \/ segment[v] # s
    <3>1. \A v \in Threads : pc[v] = "below" => <<task[v].group, segment[v]>> \in right
      BY DEF Scheduled, WorkerInPlace, Working
    <3> QED BY <1>2, <3>1
  <2>3. BelowOnce
    BY DEF Scheduled, CountsInOrder
  <2>4. BelowOnce'
    BY <1>a, <1>1, <1>7, <2>2, <2>3 DEF BelowOnce, Keeps
  <2> QED BY <1>1, <2>1, <2>4, CountsStay
<1>17. \A v \in Threads : WorkerInPlace(new, right2, below, v)'
  BY <1>9, <1>15 DEF OthersInPlace
<1>18. Scheduled(new, right2, below)'
  BY <1>9, <1>14, <1>16, <1>17 DEF Scheduled, OthersInPlace
<1> QED BY <1>6, <1>18 DEF ScheduleInvariant

\* What Below does with the dependency of the neighbour below, and which segment it
\* gives to the worker itself, or to a feedback task.
Ready(own, right, t, q, b) ==
    /\ q \in Rows(layout[t]) /\ b \in Segs(t, q) /\ b = current[t][q]
    /\ dependency'[t][b] = 0 /\ own[<<t, q>>][1] = "none" /\ <<t, b>> \notin right
    /\ SetOf(t, b) \cap done = {}
BelowEffect(own, right, below, w, t, s, r, q, b) ==
    /\ t \in TileGroups /\ r \in Rows(layout[t]) /\ s \in Segs(t, r)
    /\ s \in Nat /\ r \in Nat /\ b \in Nat /\ b - BandCount(layout[t]) = s
    /\ <<t, s>> \in right /\ <<t, s>> \notin below /\ feedback[w] = None
    /\ q \in Rows(layout[t]) /\ b \in Segs(t, q) => dependency[t][b] \in {1, 2}
    /\ \A u \in TileGroups : \A p \in Rows(layout[u]) : \A x \in Segs(u, p) :
          dependency'[u][x] = IF u = t /\ p = q /\ x = b THEN dependency[u][x] - 1
                                                        ELSE dependency[u][x]
    /\ \A u \in TileGroups : \A p \in Rows(layout[u]) :
          u # t \/ p # q => current'[u][p] = current[u][p]
    /\ \/ /\ next'[w] = next[w] /\ feedback'[w] = None
          /\ q \in Rows(layout[t]) => current'[t][q] = current[t][q]
       \/ /\ Ready(own, right, t, q, b) /\ next[w] = None /\ next'[w] = b
          /\ feedback'[w] = None /\ current'[t][q] = b + 1
       \/ /\ Ready(own, right, t, q, b) /\ next'[w] = next[w] /\ feedback'[w] = q
          /\ current'[t][q] = current[t][q]
\* Below does that: a segment whose last dependency is cleared is the current one of its row.
LEMMA BelowDoes ==
    ASSUME Types, NEW own, NEW right, NEW below, Scheduled(own, right, below),
           NEW w \in Threads, Below(w),
           NEW t, NEW s, NEW r, NEW q, NEW b
    PROVE  t = task[w].group /\ s = segment[w] /\ r = RowOf(t, s) /\ q = r + 1
              /\ b = s + BandCount(layout[t])
              => BelowEffect(own, right, below, w, t, s, r, q, b)
<1>0. SUFFICES ASSUME t = task[w].group, s = segment[w], r = RowOf(t, s), q = r + 1,
                      b = s + BandCount(layout[t])
               PROVE  BelowEffect(own, right, below, w, t, s, r, q, b)
  OBVIOUS
<1>1. WorkerInPlace(own, right, below, w) /\ pc[w] = "below" /\ layout \in Layouts
  BY DEF Scheduled, Below, Types
<1>2. /\ t \in TileGroups /\ r \in Rows(layout[t]) /\ s \in Segs(t, r)
      /\ <<t, s>> \in right /\ <<t, s>> \notin below /\ feedback[w] = None
  BY <1>0, <1>1 DEF WorkerInPlace, Working, Going, IsTask, IsSegment
<1>3. s \in Nat /\ r \in Nat /\ b \in Nat /\ b - BandCount(layout[t]) = s
  <2>1. s \in Nat /\ r \in Nat /\ BandCount(layout[t]) \in Nat
    BY <1>1, <1>2, RowFacts
  <2> QED BY <1>0, <2>1
<1>4. HasBelow(layout[t], s) <=> q \in Rows(layout[t]) /\ b \in Segs(t, q)
  <2>1. t \in TileGroups /\ r \in Rows(layout[t]) /\ s \in Segs(t, r) /\ layout \in Layouts
    BY <1>1, <1>2
  <2>2. HasBelow(layout[t], s) <=>
           r + 1 \in Rows(layout[t]) /\ s + BandCount(layout[t]) \in Segs(t, r + 1)
    BY <2>1, RowFacts
  <2> QED BY <1>0, <2>2
<1> DEFINE Has == q \in Rows(layout[t]) /\ b \in Segs(t, q)
<1> DEFINE count == Cleared(dependency[t][b])
<1>5. /\ Has => dependency' = [dependency EXCEPT ![t][b] = count]
      /\ Has /\ count = 0 /\ next[w] = None =>
            /\ next' = [next EXCEPT ![w] = current[t][q]] /\ feedback' = feedback
            /\ current' = [current EXCEPT ![t][q] = @ + 1]
      /\ Has /\ count = 0 /\ next[w] # None =>
            next' = next /\ current' = current /\ feedback' = [feedback EXCEPT ![w] = q]
      /\ Has /\ count # 0 => next' = next /\ current' = current /\ feedback' = feedback
      /\ ~Has => /\ dependency' = dependency /\ next' = next /\ current' = current
                 /\ feedback' = feedback
  BY <1>0, <1>4 DEF Below, Geometry, Row, RowOf, IsFree, Assign, MustFeedBack
<1>6. ASSUME Has
      PROVE  /\ Owned(own, right, t, q) /\ Depends(right, below, t, q, b)
             /\ dependency[t][b] \in {1, 2} /\ count = dependency[t][b] - 1
             /\ dependency[t][b] = 1 =>
                   ~AfterLeft(layout[t], q, b) \/ <<t, b - 1>> \in right
  <2>1. Owned(own, right, t, q) /\ Depends(right, below, t, q, b)
    BY <1>1, <1>2, <1>6, InRow
  <2>2. AfterAbove(layout[t], q, b)
    <3>1. q - 1 = r
      BY <1>0, <1>3
    <3> QED BY <1>2, <1>3, <3>1 DEF AfterAbove, Segs
  <2>3. dependency[t][b] = (IF AfterLeft(layout[t], q, b) /\ <<t, b - 1>> \notin right
                            THEN 1 ELSE 0) + 1
    BY <1>2, <1>3, <2>1, <2>2 DEF Depends
  <2>4. dependency[t][b] = 1 \/ dependency[t][b] = 2
    BY <2>3
  <2>5. dependency[t][b] = 1 => ~AfterLeft(layout[t], q, b) \/ <<t, b - 1>> \in right
    BY <2>3
  <2> QED BY <2>1, <2>4, <2>5 DEF Cleared
<1>7. \A u \in TileGroups : \A p \in Rows(layout[u]) : \A x \in Segs(u, p) :
         dependency'[u][x] = IF u = t /\ p = q /\ x = b THEN dependency[u][x] - 1
                                                       ELSE dependency[u][x]
  <2> SUFFICES ASSUME NEW u \in TileGroups, NEW p \in Rows(layout[u]), NEW x \in Segs(u, p)
               PROVE  dependency'[u][x] = IF u = t /\ p = q /\ x = b THEN dependency[u][x] - 1
                                                                    ELSE dependency[u][x]
    OBVIOUS
  <2>1. CASE ~Has
    BY <1>5, <2>1
  <2>2. CASE Has
    <3>1. dependency' = [dependency EXCEPT ![t][b] = dependency[t][b] - 1]
      BY <1>5, <1>6, <2>2
    <3>2. layout \in Layouts /\ t \in TileGroups /\ q \in Rows(layout[t])
      BY <1>1, <1>2, <2>2
    <3>3. b \in Indices(layout[t]) /\ RowOf(t, b) = q
      BY <2>2, <3>2, RowFacts, SMTT(30)
    <3>4. RowOf(u, x) = p /\ x \in Indices(layout[u])
      <4>1. layout \in Layouts
        BY <1>1
      <4> QED BY <4>1, RowFacts
    <3>5. u = t /\ x = b => p = q
      BY <3>3, <3>4
    <3>6. /\ t \in DOMAIN dependency /\ b \in DOMAIN dependency[t]
          /\ u \in DOMAIN dependency /\ x \in DOMAIN dependency[u]
      BY <3>2, <3>3, <3>4 DEF Types
    <3> QED BY <3>1, <3>5, <3>6
  <2> QED BY <2>1, <2>2
<1>8. ASSUME Has, count = 0
      PROVE  Ready(own, right, t, q, b)
  <2>1. dependency[t][b] = 1
    BY <1>6, <1>8
  <2>2. dependency'[t][b] = 0
    BY <1>2, <1>7, <1>8, <2>1
  <2>3. /\ current[t][q] \in Nat /\ StartOf(layout[t], q) \in Nat
        /\ StartOf(layout[t], q) <= current[t][q]
    BY <1>1, <1>2, <1>8, InRow
  <2>4. \A x : x \in Segs(t, q) <=>
           x \in Nat /\ StartOf(layout[t], q) <= x /\ x <= EndOf(layout[t], q)
    BY <1>1, <1>2, <1>8, RowFacts
  <2>5. /\ b < current[t][q] => dependency[t][b] = 0
        /\ <<t, b>> \in right => b < current[t][q]
        /\ b >= current[t][q] => SetOf(t, b) \cap done = {}
    BY <1>6, <1>8 DEF Depends
  <2>6. b >= current[t][q]
    BY <1>3, <2>1, <2>3, <2>5
  <2>7. AfterLeft(layout[t], q, b) => <<t, b - 1>> \in right
    BY <1>6, <1>8, <2>1
  <2>8. PICK e : e = b - 1
    OBVIOUS
  <2>9. ASSUME e \in Segs(t, q)
        PROVE  b = current[t][q] /\ own[<<t, q>>][1] # "work"
    <3>1. <<t, e>> \in right
      BY <2>7, <2>8, <2>9 DEF AfterLeft, Segs
    <3>2. e < current[t][q]
      <4>1. Depends(right, below, t, q, e)
        BY <1>1, <1>2, <1>8, <2>9, InRow
      <4> QED BY <3>1, <4>1 DEF Depends
    <3>3. b = current[t][q]
      BY <1>3, <2>3, <2>6, <2>8, <3>2
    <3>4. own[<<t, q>>][1] # "work"
      <4>1. own[<<t, q>>][1] = "work" => <<t, current[t][q] - 1>> \notin right
        BY <1>6, <1>8 DEF Owned
      <4>2. current[t][q] - 1 = e
        BY <2>8, <3>3
      <4> QED BY <3>1, <4>1, <4>2
    <3> QED BY <3>3, <3>4
  <2>10. ASSUME e \notin Segs(t, q)
         PROVE  b = current[t][q] /\ own[<<t, q>>][1] # "work"
    <3>1. b = StartOf(layout[t], q)
      <4>1. StartOf(layout[t], q) <= b /\ b <= EndOf(layout[t], q)
        BY <1>8, <2>4
      <4>2. EndOf(layout[t], q) \in Nat
        BY <1>1, <1>2, <1>8, InRow
      <4>3. ~(StartOf(layout[t], q) <= e /\ e <= EndOf(layout[t], q) /\ e \in Nat)
        BY <2>4, <2>10
      <4> QED BY <1>3, <2>3, <2>8, <4>1, <4>2, <4>3
    <3>2. b = current[t][q]
      BY <2>3, <2>6, <3>1
    <3>3. own[<<t, q>>][1] # "work"
      <4>1. own[<<t, q>>][1] = "work" => current[t][q] - 1 \in Segs(t, q)
        BY <1>6, <1>8 DEF Owned
      <4>2. current[t][q] - 1 = e
        BY <2>8, <3>2
      <4> QED BY <2>10, <4>1, <4>2
    <3> QED BY <3>2, <3>3
  <2>11. b = current[t][q] /\ own[<<t, q>>][1] # "work"
    BY <2>9, <2>10
  <2>12. own[<<t, q>>][1] = "none"
    <3>1. /\ own[<<t, q>>][1] \in Waiting \cup {"none", "work"}
          /\ own[<<t, q>>][1] \in Waiting => dependency[t][current[t][q]] = 0
      BY <1>6, <1>8 DEF Owned
    <3> QED BY <2>1, <2>11, <3>1
  <2>13. <<t, b>> \notin right /\ SetOf(t, b) \cap done = {}
    BY <1>3, <2>3, <2>5, <2>11
  <2> QED BY <1>8, <2>2, <2>11, <2>12, <2>13 DEF Ready
<1>9. /\ w \in DOMAIN next /\ w \in DOMAIN feedback
      /\ \A u \in TileGroups : u \in DOMAIN current /\ DOMAIN current[u] = Rows(layout[u])
  BY DEF Types
<1>10. CASE ~Has \/ count # 0
  <2>1. next' = next /\ current' = current /\ feedback' = feedback
    BY <1>5, <1>10
  <2> QED BY <1>2, <1>3, <1>6, <1>7, <2>1 DEF BelowEffect
<1>11. CASE Has /\ count = 0 /\ next[w] = None
  <2>1. Ready(own, right, t, q, b)
    BY <1>8, <1>11
  <2>2. /\ next' = [next EXCEPT ![w] = b] /\ feedback' = feedback
        /\ current' = [current EXCEPT ![t][q] = @ + 1] /\ b = current[t][q]
    BY <1>5, <1>11, <2>1 DEF Ready
  <2>3. next'[w] = b /\ feedback'[w] = None /\ current'[t][q] = b + 1
    BY <1>2, <1>9, <1>11, <2>2
  <2>4. \A u \in TileGroups : \A p \in Rows(layout[u]) :
           u # t \/ p # q => current'[u][p] = current[u][p]
    BY <1>2, <1>9, <1>11, <2>2
  <2> QED BY <1>2, <1>3, <1>6, <1>7, <1>11, <2>1, <2>3, <2>4 DEF BelowEffect
<1>12. CASE Has /\ count = 0 /\ next[w] # None
  <2>1. Ready(own, right, t, q, b)
    BY <1>8, <1>12
  <2>2. next' = next /\ current' = current /\ feedback'[w] = q
    BY <1>5, <1>9, <1>12
  <2> QED BY <1>2, <1>3, <1>6, <1>7, <2>1, <2>2 DEF BelowEffect
<1> QED BY <1>10, <1>11, <1>12

\* Row q of group t gets an owner, if there is such a row.
GivenIn(own, new, t, q, owner) ==
    IF q \in Rows(layout[t]) THEN GivenTo(own, new, t, q, owner) ELSE new = own

\* The row below gets an owner if its segment is ready: nobody held it.
LEMMA BelowStep ==
    ASSUME Types, ScheduleInvariant, NEW w \in Threads, Below(w)
    PROVE  ScheduleInvariant'
<1> PICK own, right, below : Scheduled(own, right, below)
  BY DEF ScheduleInvariant
<1>a. PICK t, s, r, q, b : /\ t = task[w].group /\ s = segment[w] /\ r = RowOf(t, s) /\ q = r + 1
                           /\ b = s + BandCount(layout[t])
  OBVIOUS
<1>b. PICK m, n, f : m = next[w] /\ n = next'[w] /\ f = feedback'[w]
  OBVIOUS
<1>0. BelowEffect(own, right, below, w, t, s, r, q, b)
  BY <1>a, BelowDoes
<1>1. /\ pc[w] = "below" /\ pc' = [pc EXCEPT ![w] = "feedback"]
      /\ layout' = layout /\ tasks' = tasks /\ posting' = posting /\ task' = task
      /\ segment' = segment /\ todo' = todo /\ coded' = coded
      /\ codedCount' = codedCount /\ results' = results /\ done' = done
  BY DEF Below, queueVars, pictureVars
<1>2. /\ t \in TileGroups /\ r \in Rows(layout[t]) /\ s \in Segs(t, r)
      /\ s \in Nat /\ r \in Nat /\ b \in Nat /\ b - BandCount(layout[t]) = s
      /\ <<t, s>> \in right /\ <<t, s>> \notin below /\ feedback[w] = None
      /\ q \in Rows(layout[t]) /\ b \in Segs(t, q) => dependency[t][b] \in {1, 2}
  BY <1>0 DEF BelowEffect
<1>3. \A u \in TileGroups : \A p \in Rows(layout[u]) : \A x \in Segs(u, p) :
         dependency'[u][x] = IF u = t /\ p = q /\ x = b THEN dependency[u][x] - 1
                                                       ELSE dependency[u][x]
  BY <1>0 DEF BelowEffect
<1>4. \A u \in TileGroups : \A p \in Rows(layout[u]) :
         u # t \/ p # q => current'[u][p] = current[u][p]
  BY <1>0 DEF BelowEffect
<1>5. \/ n = m /\ f = None /\ (q \in Rows(layout[t]) => current'[t][q] = current[t][q])
      \/ Ready(own, right, t, q, b) /\ m = None /\ n = b /\ f = None /\ current'[t][q] = b + 1
      \/ Ready(own, right, t, q, b) /\ n = m /\ f = q /\ current'[t][q] = current[t][q]
  BY <1>a, <1>b, <1>0 DEF BelowEffect
<1>6. layout \in Layouts /\ Types'
  <2>1. /\ current' = current \/ \E x, e : current' = [current EXCEPT ![t][x] = e]
        /\ dependency' = dependency \/ \E x, e : dependency' = [dependency EXCEPT ![t][x] = e]
        /\ next' = next \/ \E e : next' = [next EXCEPT ![w] = e]
        /\ feedback' = feedback \/ \E e : feedback' = [feedback EXCEPT ![w] = e]
    BY <1>a, Zenon DEF Below, Assign
  <2>2. DOMAIN pc' = DOMAIN pc
    BY <1>1
  <2> QED BY <1>1, <2>1, <2>2 DEF Types, TileGroups
<1>7. pc'[w] = "feedback" /\ \A v \in Threads : v # w => Keeps(v)
  <2>1. pc'[w] = "feedback" /\ \A v \in Threads : v # w => pc'[v] = pc[v]
    BY <1>1 DEF Types
  <2>2. \A v \in Threads : v # w => next'[v] = next[v] /\ feedback'[v] = feedback[v]
    BY DEF Below, Assign, Types
  <2> QED BY <1>1, <2>1, <2>2 DEF Keeps
<1> PICK owner : owner = IF n # m THEN <<"work", w>>
                         ELSE IF f # None THEN <<"feedback", w>> ELSE own[<<t, q>>]
  OBVIOUS
<1> PICK new : GivenIn(own, new, t, q, owner)
  BY <1>2, HandOver DEF GivenIn
<1> PICK below2 : below2 = below \cup {<<t, s>>}
  OBVIOUS
<1>8. /\ \A u \in TileGroups : \A p \in Rows(layout[u]) :
            u # t \/ p # q => new[<<u, p>>] = own[<<u, p>>]
      /\ q \in Rows(layout[t]) => new[<<t, q>>] = owner
  BY DEF GivenIn, GivenTo
<1>9. \/ /\ n = m /\ f = None
         /\ q \in Rows(layout[t]) => current'[t][q] = current[t][q] /\ new[<<t, q>>] = own[<<t, q>>]
      \/ /\ Ready(own, right, t, q, b) /\ m = None /\ n = b /\ f = None
         /\ current'[t][q] = b + 1 /\ new[<<t, q>>] = <<"work", w>>
      \/ /\ Ready(own, right, t, q, b) /\ n = m /\ f = q
         /\ current'[t][q] = b /\ new[<<t, q>>] = <<"feedback", w>>
  <2>1. b # None /\ q # None
    BY <1>a, <1>2 DEF None
  <2> QED BY <1>5, <1>8, <2>1 DEF Ready
<1>10. OthersInPlace(new, right, below2, w)
  <2>1. right \subseteq right
        /\ \A x \in below2 \ below : pc[w] = "below" /\ x = <<task[w].group, segment[w]>>
    BY <1>a, <1>1
  <2>2. layout' = layout /\ done' = done /\ tasks' = tasks /\ posting' = posting
    BY <1>1
  <2>3. NotPosted(t)
    BY <1>a, <1>1, <1>6, TakenOnce
  <2>4. \A v \in Threads : v # w => Keeps(v)
    BY <1>7
  <2>5. CASE q \in Rows(layout[t])
    <3>1. Elsewhere(own, new, t, q)
      BY <1>4, <1>8 DEF Elsewhere
    <3>2. \/ own[<<t, q>>][1] = "none"
          \/ new[<<t, q>>] = own[<<t, q>>] /\ current'[t][q] = current[t][q]
      BY <1>9, <2>5 DEF Ready
    <3>3. t \in TileGroups /\ q \in Rows(layout[t]) /\ layout \in Layouts
      BY <1>2, <1>6, <2>5
    <3> QED BY <2>1, <2>2, <2>3, <2>4, <3>1, <3>2, <3>3, OthersStay
  <2>6. CASE q \notin Rows(layout[t])
    <3>1. \A u \in TileGroups : \A p \in Rows(layout[u]) :
             new[<<u, p>>] = own[<<u, p>>] /\ current'[u][p] = current[u][p]
      BY <1>4, <1>8, <2>6
    <3>2. Elsewhere(own, new, t, r)
      BY <3>1 DEF Elsewhere
    <3>3. new[<<t, r>>] = own[<<t, r>>] /\ current'[t][r] = current[t][r]
      BY <1>2, <3>1
    <3>4. t \in TileGroups /\ r \in Rows(layout[t]) /\ layout \in Layouts
      BY <1>2, <1>6
    <3> QED BY <2>1, <2>2, <2>3, <2>4, <3>2, <3>3, <3>4, OthersStay
  <2> QED BY <2>5, <2>6
<1>11. ASSUME NEW u \in TileGroups, NEW p \in Rows(layout[u]), NEW x \in Segs(u, p)
       PROVE  /\ <<u, x>> \in below2 => <<u, x>> \in right
              /\ AfterAbove(layout[u], p, x) =>
                    /\ <<u, x - BandCount(layout[u])>> \in below2
                          <=> <<u, x - BandCount(layout[u])>> \in below \/ (u = t /\ x = b)
                    /\ u = t /\ x = b => p = q
  <2>1. Depends(right, below, u, p, x)
    BY <1>6, InRow
  <2>2. <<u, x>> \in below2 => <<u, x>> \in right
    BY <1>2, <2>1 DEF Depends
  <2>3. ASSUME AfterAbove(layout[u], p, x), u = t, x - BandCount(layout[u]) = s
        PROVE  x = b /\ p = q
    <3>1. x \in Nat /\ BandCount(layout[u]) \in Nat /\ p \in Nat
      <4>1. layout \in Layouts
        BY <1>6
      <4> QED BY <4>1, RowFacts
    <3>2. x = b
      BY <1>2, <2>3, <3>1
    <3>3. p - 1 \in Rows(layout[t]) /\ s \in Segs(t, p - 1)
      BY <2>3 DEF AfterAbove, Segs
    <3>4. RowOf(t, s) = p - 1
      <4>1. layout \in Layouts /\ t \in TileGroups
        BY <1>2, <1>6
      <4> QED BY <3>3, <4>1, RowFacts
    <3> QED BY <1>a, <1>2, <3>1, <3>2, <3>4
  <2>4. ASSUME AfterAbove(layout[u], p, x), u = t, x = b
        PROVE  x - BandCount(layout[u]) = s /\ p = q
    BY <1>2, <2>3, <2>4
  <2>5. ASSUME AfterAbove(layout[u], p, x)
        PROVE  <<u, x - BandCount(layout[u])>> \in below2
                  <=> <<u, x - BandCount(layout[u])>> \in below \/ (u = t /\ x = b)
    <3>1. <<u, x - BandCount(layout[u])>> = <<t, s>> <=> u = t /\ x = b
      BY <2>3, <2>4, <2>5
    <3> QED BY <3>1
  <2> QED BY <2>2, <2>4, <2>5
<1>12. ASSUME NEW u \in TileGroups, NEW p \in Rows(layout[u]), u # t \/ p # q \/ b \notin Segs(t, q)
       PROVE  RowInOrder(new, right, below2, u, p)'
  <2>1. RowInOrder(own, right, below, u, p) /\ \A x \in Segs(u, p) : Depends(right, below, u, p, x)
    BY <1>6, InRow
  <2>2. \A x \in Segs(u, p) : ~(u = t /\ p = q /\ x = b)
    BY <1>12
  <2>3. \A x \in Segs(u, p) :
           /\ dependency'[u][x] = dependency[u][x]
           /\ <<u, x>> \in below2 => <<u, x>> \in right
           /\ AfterAbove(layout[u], p, x) =>
                 (<<u, x - BandCount(layout[u])>> \in below2
                     <=> <<u, x - BandCount(layout[u])>> \in below)
    BY <1>3, <1>11, <2>2
  <2>4. \A x \in Segs(u, p) : x >= current[u][p] => SetOf(u, x) \cap done' = {}
    BY <1>1, <2>1 DEF Depends
  <2>5. current'[u][p] = current[u][p] /\ new[<<u, p>>] = own[<<u, p>>]
    <3>1. CASE u # t \/ p # q
      BY <1>4, <1>8, <3>1
    <3>2. CASE u = t /\ p = q /\ b \notin Segs(t, q)
      BY <1>9, <3>2 DEF Ready
    <3> QED BY <1>12, <3>1, <3>2
  <2>6. layout \in Layouts /\ layout' = layout /\ done \subseteq done'
    BY <1>1, <1>6
  <2> QED BY <2>1, <2>3, <2>4, <2>5, <2>6, RowStays
<1>13. ASSUME q \in Rows(layout[t]), b \in Segs(t, q)
       PROVE  RowInOrder(new, right, below2, t, q)'
  <2> PICK c, d : c = current[t][q] /\ d = current'[t][q]
    OBVIOUS
  <2>1. /\ Owned(own, right, t, q) /\ (\A x \in Segs(t, q) : Depends(right, below, t, q, x))
        /\ c \in Nat
    BY <1>2, <1>6, <1>13, InRow
  <2>2. /\ StartOf(layout[t], q) \in Nat /\ EndOf(layout[t], q) \in Nat
        /\ \A x : x \in Segs(t, q) <=>
              x \in Nat /\ StartOf(layout[t], q) <= x /\ x <= EndOf(layout[t], q)
    <3>1. t \in TileGroups /\ q \in Rows(layout[t]) /\ layout \in Layouts
      BY <1>2, <1>6, <1>13
    <3>2. StartOf(layout[t], q) \in Nat /\ EndOf(layout[t], q) \in Nat
      BY <3>1, InRow
    <3> QED BY <3>1, <3>2, RowFacts
  <2>3. \A x \in Segs(t, q) :
           dependency'[t][x] = IF x = b THEN dependency[t][x] - 1 ELSE dependency[t][x]
    BY <1>2, <1>3, <1>13
  <2>4. /\ c \in StartOf(layout[t], q) .. EndOf(layout[t], q) + 1
        /\ own[<<t, q>>][1] \in Waiting \cup {"none", "work"}
        /\ own[<<t, q>>][1] \in Waiting => c \in SegsIn(layout[t], q) /\ dependency[t][c] = 0
        /\ own[<<t, q>>][1] = "work" => c - 1 \in SegsIn(layout[t], q) /\ <<t, c - 1>> \notin right
        /\ own[<<t, q>>][1] # "none" \/ c > StartOf(layout[t], q) =>
              q = 0 \/ StartOf(layout[t], q) - BandCount(layout[t]) \in SegsIn(layout[t], q - 1)
    BY <2>1 DEF Owned, Segs
  <2>5. ASSUME Ready(own, right, t, q, b)
        PROVE  /\ b = c /\ dependency'[t][b] = 0 /\ <<t, b>> \notin right
               /\ StartOf(layout[t], q) - BandCount(layout[t]) \in SegsIn(layout[t], q - 1)
    <3>1. b = c /\ dependency'[t][b] = 0 /\ <<t, b>> \notin right
      BY <2>5 DEF Ready
    <3>2. q # 0 /\ q - 1 = r
      BY <1>a, <1>2
    <3>3. CASE c > StartOf(layout[t], q)
      BY <2>4, <3>1, <3>2, <3>3
    <3>4. CASE c = StartOf(layout[t], q)
      BY <1>2, <3>1, <3>2, <3>4 DEF Segs
    <3>5. c >= StartOf(layout[t], q)
      BY <2>2, <2>4
    <3> QED BY <2>1, <2>2, <3>1, <3>3, <3>4, <3>5
  <2>6. Owned(new, right, t, q)'
    <3>1. CASE /\ n = m /\ d = c /\ new[<<t, q>>] = own[<<t, q>>]
      <4>1. own[<<t, q>>][1] \in Waiting => dependency'[t][d] = 0
        <5> SUFFICES ASSUME own[<<t, q>>][1] \in Waiting
                     PROVE  dependency'[t][d] = 0
          OBVIOUS
        <5>1. c \in Segs(t, q) /\ dependency[t][c] = 0
          BY <2>4 DEF Segs
        <5>2. c # b
          BY <1>2, <1>13, <5>1
        <5> QED BY <2>3, <3>1, <5>1, <5>2
      <4> QED BY <1>1, <2>4, <3>1, <4>1 DEF Owned, Segs
    <3>2. CASE /\ Ready(own, right, t, q, b) /\ d = b + 1 /\ new[<<t, q>>] = <<"work", w>>
      <4>1. d - 1 = b /\ d \in StartOf(layout[t], q) .. EndOf(layout[t], q) + 1
        BY <1>2, <1>13, <2>2, <3>2
      <4>2. d - 1 \in SegsIn(layout[t], q) /\ <<t, d - 1>> \notin right
        BY <1>13, <2>5, <3>2, <4>1 DEF Segs
      <4>3. "work" \notin Waiting /\ new[<<t, q>>][1] = "work"
        BY <3>2 DEF Waiting
      <4> QED BY <1>1, <2>5, <3>2, <4>1, <4>2, <4>3 DEF Owned, Segs
    <3>3. CASE /\ Ready(own, right, t, q, b) /\ d = b /\ new[<<t, q>>] = <<"feedback", w>>
      <4>1. d \in SegsIn(layout[t], q) /\ dependency'[t][d] = 0
        BY <1>13, <2>5, <3>3 DEF Segs
      <4>2. "feedback" \in Waiting /\ new[<<t, q>>][1] = "feedback"
        BY <3>3 DEF Waiting
      <4>3. d \in StartOf(layout[t], q) .. EndOf(layout[t], q) + 1
        BY <2>4, <2>5, <3>3
      <4> QED BY <1>1, <2>5, <3>3, <4>1, <4>2, <4>3 DEF Owned, Segs
    <3>4. Ready(own, right, t, q, b) => b = c
      BY DEF Ready
    <3> QED BY <1>9, <1>13, <3>1, <3>2, <3>3, <3>4
  <2>7. ASSUME NEW x \in Segs(t, q)
        PROVE  Depends(right, below2, t, q, x)'
    <3>1. Depends(right, below, t, q, x) /\ x \in Nat
      BY <2>1, <2>2
    <3>2. PICK l : l = IF AfterLeft(layout[t], q, x) /\ <<t, x - 1>> \notin right THEN 1 ELSE 0
      OBVIOUS
    <3>3. dependency[t][x] = l + (IF /\ AfterAbove(layout[t], q, x)
                                     /\ <<t, x - BandCount(layout[t])>> \notin below
                                  THEN 1 ELSE 0)
      BY <3>1, <3>2 DEF Depends
    <3>4. dependency'[t][x] = l + (IF /\ AfterAbove(layout[t], q, x)
                                      /\ <<t, x - BandCount(layout[t])>> \notin below2
                                   THEN 1 ELSE 0)
      <4>1. CASE x = b
        <5>1. AfterAbove(layout[t], q, x)
          <6>1. q - 1 = r
            BY <1>a, <1>2
          <6> QED BY <1>2, <4>1, <6>1 DEF AfterAbove, Segs
        <5>2. <<t, x - BandCount(layout[t])>> \notin below /\ <<t, x - BandCount(layout[t])>> \in below2
          BY <1>2, <4>1
        <5>3. dependency[t][x] = l + 1 /\ dependency'[t][x] = dependency[t][x] - 1
          BY <2>3, <3>3, <4>1, <5>1, <5>2
        <5>4. l = 0 \/ l = 1
          BY <3>2
        <5>5. dependency'[t][x] = l + 0
          BY <5>3, <5>4
        <5> QED BY <5>2, <5>5
      <4>2. CASE x # b
        <5>1. AfterAbove(layout[t], q, x) =>
                 (<<t, x - BandCount(layout[t])>> \in below2
                     <=> <<t, x - BandCount(layout[t])>> \in below)
          BY <1>2, <1>11, <1>13, <4>2
        <5>2. dependency'[t][x] = dependency[t][x]
          BY <2>3, <4>2
        <5> QED BY <3>3, <5>1, <5>2
      <4> QED BY <4>1, <4>2
    <3>5. \/ d = c
          \/ d = c + 1 /\ b = c /\ dependency'[t][b] = 0
      <4>1. Ready(own, right, t, q, b) => b = c /\ dependency'[t][b] = 0
        BY DEF Ready
      <4>2. CASE d = c
        BY <4>2
      <4>3. CASE Ready(own, right, t, q, b) /\ d = b + 1
        BY <4>1, <4>3
      <4>4. CASE Ready(own, right, t, q, b) /\ d = b
        BY <4>1, <4>4
      <4> QED BY <1>9, <1>13, <4>2, <4>3, <4>4
    <3>6. x < d => dependency'[t][x] = 0
      <4>1. x < c => dependency[t][x] = 0
        BY <3>1 DEF Depends
      <4>2. x < c => dependency'[t][x] = 0
        <5>1. dependency[t][b] # 0
          BY <1>2, <1>13
        <5>2. x < c => x # b
          BY <4>1, <5>1
        <5>3. x # b => dependency'[t][x] = dependency[t][x]
          BY <2>3
        <5> QED BY <4>1, <5>2, <5>3
      <4>3. x < c + 1 => x < c \/ x = c
        BY <2>1, <3>1
      <4> QED BY <3>5, <4>2, <4>3
    <3>7. <<t, x>> \in right => x < d /\ SetOf(t, x) \subseteq done
      <4>1. <<t, x>> \in right => x < c /\ SetOf(t, x) \subseteq done
        BY <3>1 DEF Depends
      <4>2. x < c => x < c + 1
        BY <2>1, <3>1
      <4> QED BY <3>5, <4>1, <4>2
    <3>8. <<t, x>> \in below2 => <<t, x>> \in right
      BY <1>2, <1>11, <1>13
    <3>9. x >= d => SetOf(t, x) \cap done = {}
      <4>1. x >= c => SetOf(t, x) \cap done = {}
        BY <3>1 DEF Depends
      <4>2. x >= c + 1 => x >= c
        BY <2>1, <3>1
      <4> QED BY <3>5, <4>1, <4>2
    <3> QED BY <1>1, <3>2, <3>4, <3>6, <3>7, <3>8, <3>9 DEF Depends, SetOf
  <2> QED BY <1>1, <2>6, <2>7 DEF RowInOrder, Segs
<1>14. RowsInOrder(new, right, below2)'
  <2>1. \A u \in TileGroups : \A p \in Rows(layout[u]) : RowInOrder(new, right, below2, u, p)'
    BY <1>12, <1>13
  <2> QED BY <1>1, <2>1 DEF RowsInOrder, TileGroups
<1>15. WorkerInPlace(new, right, below2, w)'
  <2>1. WorkerInPlace(own, right, below, w)
    BY DEF Scheduled
  <2>2. coded[w] \in Nat /\ coded[w] > 0 /\ IsTask(task[w])
    BY <1>1, <2>1 DEF WorkerInPlace, Working
  <2>3. IsTask(task[w])'
    BY <1>1, <2>2 DEF IsTask, TileGroups
  <2>4. task'[w].group = t /\ segment'[w] = s /\ s \in SegsIn(layout[t], r)
        /\ r = SegmentRow(layout[t], s)
    BY <1>a, <1>1, <1>2 DEF Segs, RowOf
  <2>5. Starting(new, w)'
    BY <1>1, <1>7 DEF Starting
  <2>6. Working(new, right, below2, w)'
    BY <1>1, <1>2, <1>7, <2>2, <2>4 DEF Working, IsSegment, RowOf, Segs
  <2>7. ASSUME n # None
        PROVE  /\ SegmentRow(layout[t], n) \in Rows(layout[t])
               /\ n \in SegsIn(layout[t], SegmentRow(layout[t], n))
               /\ new[<<t, SegmentRow(layout[t], n)>>] = <<"work", w>>
               /\ n = current'[t][SegmentRow(layout[t], n)] - 1
               /\ {t} \X SbsOf(layout[t], n) \cap done = {}
    <3>1. CASE n = m
      <4>1. /\ IsSegment(t, m) /\ Issued(own, w, t, m) /\ SetOf(t, m) \cap done = {}
            /\ RowOf(t, m) = r
        BY <1>a, <1>b, <1>1, <2>1, <2>7, <3>1 DEF WorkerInPlace, Going
      <4>2. r # q
        BY <1>a, <1>2
      <4>3. new[<<t, r>>] = own[<<t, r>>] /\ current'[t][r] = current[t][r]
        BY <1>2, <1>4, <1>8, <4>2
      <4> QED BY <1>2, <3>1, <4>1, <4>3 DEF IsSegment, Issued, RowOf, Segs, SetOf
    <3>2. CASE /\ Ready(own, right, t, q, b) /\ n = b /\ current'[t][q] = b + 1
               /\ new[<<t, q>>] = <<"work", w>>
      <4>1. q \in Rows(layout[t]) /\ b \in Segs(t, q) /\ SetOf(t, b) \cap done = {}
        BY <3>2 DEF Ready
      <4>2. RowOf(t, b) = q
        <5>1. t \in TileGroups /\ layout \in Layouts
          BY <1>2, <1>6
        <5> QED BY <4>1, <5>1, RowFacts
      <4>3. b = current'[t][q] - 1
        BY <1>2, <3>2
      <4> QED BY <3>2, <4>1, <4>2, <4>3 DEF RowOf, Segs, SetOf
    <3> QED BY <1>9, <3>1, <3>2
  <2>8. f # None => f \in Rows(layout[t]) /\ f # 0 /\ new[<<t, f>>] = <<"feedback", w>>
    <3>1. q # 0
      BY <1>a, <1>2
    <3> QED BY <1>9, <3>1 DEF Ready
  <2>9. next'[w] = n /\ feedback'[w] = f /\ pc'[w] = "feedback" /\ layout' = layout /\ done' = done
    BY <1>a, <1>b, <1>1, <1>7
  <2>10. Going(new, w)'
    BY <2>4, <2>7, <2>8, <2>9 DEF Going, IsSegment, Issued, RowOf, Segs, SetOf
  <2> QED BY <1>1, <1>7, <2>2, <2>3, <2>5, <2>6, <2>10 DEF WorkerInPlace, Places
<1>16. CountsInOrder'
  <2>1. \A v \in Threads :
           /\ coded'[v] = coded[v] /\ (posting'[v] # {} => posting[v] # {} /\ pc'[v] = pc[v])
           /\ pc'[v] = "last" <=> pc[v] = "last"
           /\ pc'[v] \in {"idle", "last", "release"} <=> pc[v] \in {"idle", "last", "release"}
    <3>1. posting[w] = {}
      BY <1>1 DEF Scheduled, CountsInOrder
    <3> QED BY <1>1, <1>7, <3>1 DEF Keeps
  <2>2. BelowOnce'
    BY <1>7, BelowStays DEF Scheduled, CountsInOrder
  <2> QED BY <1>1, <2>1, <2>2, CountsStay
<1>17. \A v \in Threads : WorkerInPlace(new, right, below2, v)'
  BY <1>10, <1>15 DEF OthersInPlace
<1>18. Scheduled(new, right, below2)'
  BY <1>10, <1>14, <1>16, <1>17 DEF Scheduled, OthersInPlace
<1> QED BY <1>6, <1>18 DEF ScheduleInvariant

-----------------------------------------------------------------------------
(* A pass begins.                                                          *)

\* The picture before anything of it is coded; p has its tile groups to post.
Fresh(p) ==
    /\ current = FirstSegments(layout) /\ dependency = AllDependencies(layout)
    /\ tasks = {} /\ posting[p] = MdcTasks(layout)
    /\ \A q \in Threads \cup {Mdc} : q # p => posting[q] = {}
    /\ \A w \in Threads :
          /\ pc[w] \in {"idle", "release"} /\ next[w] = None /\ feedback[w] = None
          /\ coded[w] \in Nat /\ (pc[w] # "idle" => IsTask(task[w]))
          /\ p = w => pc[w] = "release"
    /\ codedCount = 0 /\ results = 0 /\ done = {}

\* Such a picture satisfies the invariant: nothing is right of or below a finished segment.
LEMMA FreshPicture == \A p \in Threads \cup {Mdc} : Types /\ Fresh(p) => ScheduleInvariant
<1> SUFFICES ASSUME NEW p \in Threads \cup {Mdc}, Types, Fresh(p)
             PROVE  ScheduleInvariant
  OBVIOUS
<1> DEFINE places == UNION {{u} \X Rows(layout[u]) : u \in TileGroups}
<1>1. layout \in Layouts
  BY DEF Types
<1>2. \A t \in TileGroups : 0 \in Rows(layout[t])
  BY <1>1, LayoutShapes, Counts DEF Rows
<1> PICK own : own = [x \in places |-> IF x[2] = 0 THEN <<"posting", p>> ELSE Free]
  OBVIOUS
<1>3. \A t \in TileGroups : \A r \in Rows(layout[t]) :
         own[<<t, r>>] = IF r = 0 THEN <<"posting", p>> ELSE Free
  <2> SUFFICES ASSUME NEW t \in TileGroups, NEW r \in Rows(layout[t])
               PROVE  own[<<t, r>>] = IF r = 0 THEN <<"posting", p>> ELSE Free
    OBVIOUS
  <2>1. <<t, r>> \in places
    OBVIOUS
  <2> QED BY <2>1
<1>4. \A t \in TileGroups : \A r \in Rows(layout[t]) : current[t][r] = StartOf(layout[t], r)
  BY DEF Fresh, FirstSegments, TileGroups
<1>5. \A t \in TileGroups : Untouched(own, t)
  BY <1>3, <1>4 DEF Untouched
<1>6. TasksInPlace(own)
  <2>1. \A k \in MdcTasks(layout) : HeldBy(own, k, <<"posting", p>>) /\ k.row = 0
    <3> SUFFICES ASSUME NEW t \in TileGroups
                 PROVE  /\ HeldBy(own, Task("MDC_INPUT", t, 0), <<"posting", p>>)
                        /\ Task("MDC_INPUT", t, 0).row = 0
      BY DEF MdcTasks, TileGroups
    <3> PICK k : k = Task("MDC_INPUT", t, 0)
      OBVIOUS
    <3>1. k.group = t /\ k.row = 0
      BY DEF Task
    <3>2. IsTask(k)
      BY <1>2, <3>1 DEF IsTask
    <3>3. own[<<t, 0>>] = <<"posting", p>> /\ Untouched(own, t)
      BY <1>2, <1>3, <1>5
    <3> QED BY <3>1, <3>2, <3>3 DEF HeldBy
  <2>2. /\ tasks = {} /\ posting[p] = MdcTasks(layout)
        /\ \A q \in Threads \cup {Mdc} : q # p => posting[q] = {}
    BY DEF Fresh
  <2> QED BY <2>1, <2>2 DEF TasksInPlace
<1>7. \A w \in Threads : WorkerInPlace(own, {}, {}, w)
  <2> SUFFICES ASSUME NEW w \in Threads
               PROVE  WorkerInPlace(own, {}, {}, w)
    OBVIOUS
  <2>1. /\ pc[w] \in {"idle", "release"} /\ next[w] = None /\ feedback[w] = None
        /\ coded[w] \in Nat /\ (pc[w] # "idle" => IsTask(task[w]))
    BY DEF Fresh
  <2>2. Starting(own, w) /\ Working(own, {}, {}, w) /\ Going(own, w)
    BY <2>1 DEF Starting, Working, Going
  <2> QED BY <2>1, <2>2 DEF WorkerInPlace, Places
<1>8. ASSUME NEW t \in TileGroups, NEW r \in Rows(layout[t])
      PROVE  RowInOrder(own, {}, {}, t, r)
  <2> PICK g, first, last :
        g = layout[t] /\ first = StartOf(layout[t], r) /\ last = EndOf(layout[t], r)
    OBVIOUS
  <2>1. /\ r \in Nat /\ first \in Segs(t, r) /\ last \in Segs(t, r)
        /\ \A s : s \in Segs(t, r) <=> s \in Nat /\ first <= s /\ s <= last
        /\ \A s \in Segs(t, r) :
              DependencyTable[g][s] = (IF AfterLeft(g, r, s) THEN 1 ELSE 0)
                                      + (IF AfterAbove(g, r, s) THEN 1 ELSE 0)
    BY <1>1, RowFacts
  <2>2. dependency[t] = DependencyTable[g] /\ current[t][r] = first /\ done = {}
    BY <1>4 DEF Fresh, AllDependencies, TileGroups
  <2>3. \A s \in Segs(t, r) : Depends({}, {}, t, r, s)
    <3> SUFFICES ASSUME NEW s \in Segs(t, r)
                 PROVE  Depends({}, {}, t, r, s)
      OBVIOUS
    <3>1. ~(s < current[t][r])
      BY <2>1, <2>2
    <3>2. dependency[t][s] =
             (IF AfterLeft(layout[t], r, s) /\ <<t, s - 1>> \notin {} THEN 1 ELSE 0)
             + (IF AfterAbove(layout[t], r, s) /\ <<t, s - BandCount(layout[t])>> \notin {}
                THEN 1 ELSE 0)
      BY <2>1, <2>2
    <3> QED BY <2>2, <3>1, <3>2 DEF Depends
  <2>4. r = 0 => dependency[t][first] = 0
    <3>1. ~AfterLeft(g, r, first)
      <4>1. first - 1 \notin Segs(t, r)
        BY <2>1
      <4> QED BY <4>1 DEF AfterLeft, Segs
    <3>2. r = 0 => ~AfterAbove(g, r, first)
      BY DEF AfterAbove, Rows
    <3> QED BY <2>1, <2>2, <3>1, <3>2
  <2>5. first \in StartOf(layout[t], r) .. EndOf(layout[t], r) + 1 /\ ~(first > first)
    BY <2>1
  <2>6. r = 0 => own[<<t, r>>][1] \in Waiting /\ own[<<t, r>>][1] = "posting"
    BY <1>3 DEF Waiting
  <2>7. r # 0 => own[<<t, r>>][1] = "none" /\ "none" \notin Waiting
    BY <1>3 DEF Waiting, Free
  <2>8. Owned(own, {}, t, r)
    BY <2>1, <2>2, <2>4, <2>5, <2>6, <2>7 DEF Owned
  <2> QED BY <2>3, <2>8 DEF RowInOrder
<1>9. CountsInOrder
  <2>1. /\ codedCount = 0 /\ results = 0 /\ done = {} /\ \A w \in Threads : pc[w] \in {"idle", "release"}
    BY DEF Fresh
  <2>2. Uncounted = {}
    BY <2>1 DEF Uncounted
  <2>3. CountsAreExact
    BY <2>1, <2>2, SumOfNothing, FS_EmptySet, ExactCounts
  <2>4. BelowOnce /\ \A w \in Threads : pc[w] # "last"
    BY <2>1 DEF BelowOnce
  <2>5. \A w \in Threads : posting[w] # {} => pc[w] = "release"
    BY DEF Fresh
  <2> QED BY <2>1, <2>3, <2>4, <2>5 DEF CountsInOrder
<1>10. Scheduled(own, {}, {})
  BY <1>6, <1>7, <1>8, <1>9 DEF Scheduled, RowsInOrder
<1> QED BY <1>10 DEF ScheduleInvariant

\* The initial picture is one.
LEMMA InitSchedule == Init => ScheduleInvariant
<1> SUFFICES ASSUME Init
             PROVE  ScheduleInvariant
  OBVIOUS
<1>1. layout \in Layouts
  BY DEF Init
<1>2. Types
  <2>1. \A t \in TileGroups :
           DOMAIN current[t] = Rows(layout[t]) /\ DOMAIN dependency[t] = Indices(layout[t])
    <3> SUFFICES ASSUME NEW t \in TileGroups
                 PROVE  /\ DOMAIN current[t] = Rows(layout[t])
                        /\ DOMAIN dependency[t] = Indices(layout[t])
      OBVIOUS
    <3>1. DependencyTable[layout[t]] = Dependencies(layout[t])
      BY <1>1, LayoutShapes DEF DependencyTable
    <3>2. dependency[t] = DependencyTable[layout[t]]
      BY DEF Init, AllDependencies, TileGroups
    <3> QED BY <3>1, <3>2 DEF Init, FirstSegments, Dependencies, TileGroups
  <2> QED BY <1>1, <2>1 DEF Types, Init, FirstSegments, AllDependencies, TileGroups
<1>3. Fresh(Mdc)
  <2>1. \A w \in Threads : Mdc # w
    BY MdcAssumption
  <2> QED BY <2>1 DEF Fresh, Init
<1> QED BY <1>2, <1>3, FreshPicture

\* A picture that is to be recoded is one again.
LEMMA RecodeStep ==
    ASSUME Types, ScheduleInvariant, NEW w \in Threads, Recode(w)
    PROVE  ScheduleInvariant'
<1> PICK own, right, below : Scheduled(own, right, below)
  BY DEF ScheduleInvariant
<1>1. /\ pc[w] = "last" /\ codedCount' = 0 /\ done' = {}
      /\ current' = FirstSegments(layout) /\ dependency' = AllDependencies(layout)
      /\ posting' = [posting EXCEPT ![w] = MdcTasks(layout)]
      /\ pc' = [pc EXCEPT ![w] = "release"]
      /\ layout' = layout /\ tasks' = tasks /\ task' = task /\ segment' = segment /\ todo' = todo
      /\ next' = next /\ feedback' = feedback /\ coded' = coded /\ results' = results
  BY DEF Recode, localVars
<1>2. layout \in Layouts
  BY DEF Types
<1>3. Types'
  <2>1. \A t \in TileGroups :
           DOMAIN current'[t] = Rows(layout[t]) /\ DOMAIN dependency'[t] = Indices(layout[t])
    <3> SUFFICES ASSUME NEW t \in TileGroups
                 PROVE  /\ DOMAIN current'[t] = Rows(layout[t])
                        /\ DOMAIN dependency'[t] = Indices(layout[t])
      OBVIOUS
    <3>1. DependencyTable[layout[t]] = Dependencies(layout[t])
      BY <1>2, LayoutShapes DEF DependencyTable
    <3>2. dependency'[t] = DependencyTable[layout[t]]
      BY <1>1 DEF AllDependencies, TileGroups
    <3> QED BY <1>1, <3>1, <3>2 DEF FirstSegments, Dependencies, TileGroups
  <2> QED BY <1>1, <2>1 DEF Types, FirstSegments, AllDependencies, TileGroups
<1>4. /\ codedCount = Cardinality(AllSuperblocks)
      /\ \A v \in Threads : pc[v] = "last" => v = w
      /\ results = 0
  BY <1>1 DEF Scheduled, CountsInOrder
<1>5. /\ tasks = {} /\ \A q \in Threads \cup {Mdc} : posting[q] = {}
      /\ \A v \in Threads : pc[v] \in {"idle", "last", "release"}
  BY <1>2, <1>4, AllCounted
<1>6. Fresh(w)'
  <2>1. /\ posting'[w] = MdcTasks(layout)
        /\ \A q \in Threads \cup {Mdc} : q # w => posting'[q] = {}
    BY <1>1, <1>5 DEF Types
  <2>2. pc'[w] = "release" /\ \A v \in Threads : v # w => pc'[v] = pc[v]
    BY <1>1 DEF Types
  <2>3. \A v \in Threads : pc'[v] \in {"idle", "release"}
    BY <1>4, <1>5, <2>2
  <2>4. ASSUME NEW v \in Threads
        PROVE  /\ next'[v] = None /\ feedback'[v] = None /\ coded'[v] \in Nat
               /\ (pc[v] # "idle" => IsTask(task[v])')
    <3>1. WorkerInPlace(own, right, below, v)
      BY DEF Scheduled
    <3>2. next[v] = None /\ feedback[v] = None /\ coded[v] \in Nat /\ (pc[v] # "idle" => IsTask(task[v]))
      BY <1>5, <3>1 DEF WorkerInPlace, Going
    <3> QED BY <1>1, <3>2 DEF IsTask, TileGroups
  <2>5. \A v \in Threads : pc'[v] # "idle" => IsTask(task[v])'
    BY <1>1, <2>2, <2>4
  <2> QED BY <1>1, <1>4, <1>5, <2>1, <2>2, <2>3, <2>4, <2>5 DEF Fresh
<1>7. (\A p \in Threads \cup {Mdc} : Types /\ Fresh(p) => ScheduleInvariant)'
  BY FreshPicture, PTL
<1> QED BY <1>3, <1>6, <1>7

-----------------------------------------------------------------------------
(* The invariant holds, and what follows from it.                          *)

\* Every step of a worker keeps the invariant.
LEMMA WorkerKeepsSchedule ==
    ASSUME Types, ScheduleInvariant, NEW w \in Threads, Worker(w)
    PROVE  ScheduleInvariant'
<1>1. CASE PostNext(w)
  BY <1>1, PostNextStep
<1>2. CASE Take(w)
  BY <1>2, TakeStep
<1>3. CASE StartPicture(w)
  BY <1>3, StartPictureStep
<1>4. CASE StartRow(w)
  BY <1>4, StartRowStep
<1>5. CASE Advance(w)
  BY <1>5, AdvanceStep
<1>6. CASE CodeSuperblock(w)
  BY <1>6, CodeStep
<1>7. CASE Right(w)
  BY <1>7, RightStep
<1>8. CASE Below(w)
  BY <1>8, BelowStep
<1>9. CASE Feedback(w)
  BY <1>9, FeedbackStep
<1>10. CASE Continue(w)
  BY <1>10, ContinueStep
<1>11. CASE Count(w)
  BY <1>11, CountStep
<1>12. CASE Recode(w)
  BY <1>12, RecodeStep
<1>13. CASE HandOn(w)
  BY <1>13, HandOnStep
<1>14. CASE Release(w)
  BY <1>14, ReleaseStep
<1> QED BY <1>1, <1>2, <1>3, <1>4, <1>5, <1>6, <1>7, <1>8, <1>9, <1>10, <1>11, <1>12, <1>13,
           <1>14 DEF Worker

\* When nothing changes, the invariant stays.
LEMMA ScheduleStutters ==
    ASSUME ScheduleInvariant, UNCHANGED vars
    PROVE  ScheduleInvariant'
<1> PICK own, right, below : Types /\ Scheduled(own, right, below)
  BY DEF ScheduleInvariant
<1>1. /\ layout' = layout /\ current' = current /\ dependency' = dependency /\ tasks' = tasks
      /\ posting' = posting /\ pc' = pc /\ task' = task /\ segment' = segment /\ todo' = todo
      /\ next' = next /\ feedback' = feedback /\ coded' = coded /\ codedCount' = codedCount
      /\ results' = results /\ done' = done
  BY DEF vars, segmentVars, queueVars, localVars, pictureVars
<1>2. Types'
  BY <1>1 DEF Types, TileGroups
<1>3. layout \in Layouts /\ SameRows /\ \A v \in Threads : Keeps(v)
  BY <1>1 DEF Types, SameRows, Keeps
<1>4. /\ RowsInOrder(own, right, below)'
      /\ \A v \in Threads : WorkerInPlace(own, right, below, v)'
      /\ \A k, owner : HeldBy(own, k, owner) /\ own[<<k.group, k.row>>] = owner
                          => HeldBy(own, k, owner)'
  BY <1>3, OwnersMove
<1>5. TasksInPlace(own)'
  <2>1. \A k, owner : HeldBy(own, k, owner) => own[<<k.group, k.row>>] = owner
    BY DEF HeldBy
  <2>2. TasksInPlace(own)
    BY DEF Scheduled
  <2> QED BY <1>1, <1>4, <2>1, <2>2 DEF TasksInPlace
<1>6. CountsInOrder'
  <2>1. BelowOnce'
    BY <1>3, BelowStays DEF Scheduled, CountsInOrder
  <2> QED BY <1>1, <2>1, CountsStay
<1> QED BY <1>2, <1>4, <1>5, <1>6 DEF ScheduleInvariant, Scheduled

\* Every row has one owner, every segment its dependencies, and every superblock is
\* counted once: at all times.
THEOREM EncDecIsScheduled == Spec => []ScheduleInvariant
<1>1. Init => ScheduleInvariant
  BY InitSchedule
<1>2. ScheduleInvariant /\ [Next]_vars => ScheduleInvariant'
  <2> SUFFICES ASSUME ScheduleInvariant, [Next]_vars
               PROVE  ScheduleInvariant'
    OBVIOUS
  <2>1. Types
    BY DEF ScheduleInvariant
  <2>2. CASE PostNext(Mdc)
    BY <2>1, <2>2, PostNextStep
  <2>3. ASSUME NEW w \in Threads, Worker(w)
        PROVE  ScheduleInvariant'
    BY <2>1, <2>3, WorkerKeepsSchedule
  <2>4. CASE UNCHANGED vars
    BY <2>4, ScheduleStutters
  <2> QED BY <2>2, <2>3, <2>4 DEF Next
<1> QED BY <1>1, <1>2, PTL DEF Spec

\* Every superblock of a pass is coded once and counted once.
THEOREM CountsAreAlwaysExact == Spec => []CountsAreExact
<1>1. ScheduleInvariant => CountsAreExact
  BY DEF ScheduleInvariant, Scheduled, CountsInOrder
<1> QED BY <1>1, EncDecIsScheduled, PTL

\* The segment a worker is about to code, or codes, is ready, and its row is the worker's.
LEMMA CodingSegment ==
    ASSUME NEW own, NEW right, NEW below, layout \in Layouts, Scheduled(own, right, below),
           NEW w \in Threads, Coding(w)
    PROVE  LET t == task[w].group
               s == segment[w]
           IN  own[<<t, RowOf(t, s)>>] \in Marks(w) /\ dependency[t][s] = 0
<1>a. PICK t, s, k : t = task[w].group /\ s = segment[w] /\ k = task[w].row
  OBVIOUS
<1>1. Starting(own, w) /\ Working(own, right, below, w) /\ t \in TileGroups /\ k \in Rows(layout[t])
  BY <1>a DEF Scheduled, WorkerInPlace, Coding, IsTask
<1>2. CASE pc[w] = "advance"
  <2>1. own[<<t, k>>] = <<"start", w>> /\ s = current[t][k]
    BY <1>a, <1>1, <1>2 DEF Starting
  <2>2. Owned(own, right, t, k)
    BY <1>1, InRow
  <2>3. s \in Segs(t, k) /\ dependency[t][s] = 0
    BY <2>1, <2>2 DEF Owned, Waiting
  <2>4. RowOf(t, s) = k
    BY <1>1, <2>3, RowFacts
  <2> QED BY <1>a, <2>1, <2>3, <2>4 DEF Marks
<1>3. CASE pc[w] = "code"
  <2>1. PICK r : r = RowOf(t, s)
    OBVIOUS
  <2>2. r \in Rows(layout[t]) /\ s \in Segs(t, r) /\ own[<<t, r>>] = <<"work", w>>
        /\ s = current[t][r] - 1
    BY <1>a, <1>1, <1>3, <2>1 DEF Working, IsSegment, Issued
  <2>3. Depends(right, below, t, r, s) /\ current[t][r] \in Nat
    BY <1>1, <2>2, InRow
  <2>4. dependency[t][s] = 0
    BY <2>2, <2>3 DEF Depends
  <2> QED BY <1>a, <2>1, <2>2, <2>4 DEF Marks
<1> QED BY <1>2, <1>3 DEF Coding

\* A segment is coded by one worker, when all it depends on is done: current_seg_index,
\* read without the row's mutex when a task starts, is the segment that became ready.
THEOREM SegmentsAreCodedByOne == Spec => []SegmentsAreExclusive
<1>1. ScheduleInvariant => SegmentsAreExclusive
  <2> SUFFICES ASSUME ScheduleInvariant
               PROVE  SegmentsAreExclusive
    OBVIOUS
  <2> PICK own, right, below : layout \in Layouts /\ Scheduled(own, right, below)
    BY DEF ScheduleInvariant, Types
  <2>1. \A w \in Threads : Coding(w) => dependency[task[w].group][segment[w]] = 0
    BY CodingSegment
  <2>2. ASSUME NEW v \in Threads, NEW w \in Threads, v # w, Coding(v), Coding(w),
               task[v].group = task[w].group, segment[v] = segment[w]
        PROVE  FALSE
    <3>1. PICK place : place = <<task[v].group, RowOf(task[v].group, segment[v])>>
      OBVIOUS
    <3>2. own[place] \in Marks(v) /\ own[place] \in Marks(w)
      BY <2>2, <3>1, CodingSegment
    <3> QED BY <2>2, <3>2 DEF Marks
  <2> QED BY <2>1, <2>2 DEF SegmentsAreExclusive
<1> QED BY <1>1, EncDecIsScheduled, PTL

\* A picture that is handed on is coded, and no worker or task is in its segments.
THEOREM HandedOnIsComplete == Spec => []HandedOnComplete
<1>1. ScheduleInvariant => HandedOnComplete
  <2> SUFFICES ASSUME ScheduleInvariant, results > 0
               PROVE  /\ done = AllSuperblocks /\ tasks = {}
                      /\ \A w \in Threads : pc[w] \in {"idle", "release"} /\ posting[w] = {}
    BY DEF HandedOnComplete
  <2> PICK own, right, below : layout \in Layouts /\ Scheduled(own, right, below)
    BY DEF ScheduleInvariant, Types
  <2>1. codedCount = Cardinality(AllSuperblocks) /\ \A w \in Threads : pc[w] # "last"
    BY DEF Scheduled, CountsInOrder
  <2> QED BY <2>1, AllCounted
<1> QED BY <1>1, EncDecIsScheduled, PTL

\* A segment that has been issued has its left and its upper neighbour done.
LEMMA DependenciesDone ==
    ASSUME NEW own, NEW right, NEW below, layout \in Layouts, Scheduled(own, right, below),
           NEW t \in TileGroups, NEW r \in Rows(layout[t]), NEW s \in Segs(t, r),
           s < current[t][r]
    PROVE  /\ s - 1 \in Segs(t, r) => <<t, s - 1>> \in right
           /\ r - 1 \in Rows(layout[t]) /\ s - BandCount(layout[t]) \in Segs(t, r - 1) =>
                 <<t, s - BandCount(layout[t])>> \in right
<1>1. Depends(right, below, t, r, s)
  BY InRow
<1>2. /\ AfterLeft(layout[t], r, s) => <<t, s - 1>> \in right
      /\ AfterAbove(layout[t], r, s) => <<t, s - BandCount(layout[t])>> \in below
  BY <1>1 DEF Depends
<1>3. \A q \in Rows(layout[t]) : \A m \in Segs(t, q) : <<t, m>> \in below => <<t, m>> \in right
  BY InRow DEF Depends
<1> QED BY <1>2, <1>3 DEF AfterLeft, AfterAbove, Segs

\* When a worker codes a superblock, its neighbours are coded.
LEMMA NeighboursAreDone ==
    ASSUME NEW own, NEW right, NEW below, layout \in Layouts, Scheduled(own, right, below),
           NEW w \in Threads, pc[w] = "code"
    PROVE  \A n \in Neighbours(layout[task[w].group], First(todo[w])) :
              <<task[w].group, n>> \in done
<1>0. PICK t, s, r, b, g, B, c : /\ t = task[w].group /\ s = segment[w] /\ r = RowOf(t, s)
                            /\ b = First(todo[w]) /\ g = layout[t] /\ B = BandCount(layout[t])
                            /\ c = current[t][r]
  OBVIOUS
<1>1. /\ t \in TileGroups /\ r \in Rows(g) /\ s \in Segs(t, r) /\ s = c - 1
      /\ own[<<t, r>>] = <<"work", w>> /\ b \in SbsOf(g, s)
      /\ \A d \in todo[w] : b = d \/ Before(b, d)
  BY <1>0, CodedNext
<1>2. \A d \in SbsOf(g, s) : <<t, d>> \in done <=> d \notin todo[w]
  <2>1. Working(own, right, below, w)
    BY DEF Scheduled, WorkerInPlace
  <2> QED BY <1>0, <2>1 DEF Working
<1>3. g \in Shapes /\ r \in Nat /\ s \in Nat /\ c \in Nat /\ B \in Nat
  <2>1. /\ t \in TileGroups /\ r \in Rows(layout[t]) /\ s \in Segs(t, r) /\ g = layout[t]
        /\ B = BandCount(layout[t]) /\ c = current[t][r]
    BY <1>0, <1>1
  <2>2. r \in Nat /\ B \in Nat /\ s \in Nat
    BY <2>1, RowFacts
  <2> QED BY <2>1, <2>2, LayoutShapes, InRow
\* What is done.
<1>4. ASSUME NEW q \in Rows(g), NEW m \in Segs(t, q), <<t, m>> \in right
      PROVE  m < current[t][q] /\ \A d \in SbsOf(g, m) : <<t, d>> \in done
  <2>1. Depends(right, below, t, q, m)
    BY <1>0, <1>1, <1>4, InRow
  <2> QED BY <1>0, <1>4, <2>1 DEF Depends, SetOf
<1>5. ASSUME NEW q \in Rows(g), NEW m \in Segs(t, q), m < current[t][q]
      PROVE  /\ m - 1 \in Segs(t, q) => <<t, m - 1>> \in right
             /\ q - 1 \in Rows(g) /\ m - B \in Segs(t, q - 1) => <<t, m - B>> \in right
  BY <1>0, <1>1, <1>5, DependenciesDone
<1>6. s = c - 1 /\ s \in Nat /\ c \in Nat /\ B \in Nat
  BY <1>1, <1>3
<1>7. s < c /\ s - 1 < c /\ s - 1 - B = s - B - 1
  BY <1>6
<1>8. t \in TileGroups /\ r \in Rows(g) /\ s \in Segs(t, r) /\ g = layout[t] /\ B = BandCount(layout[t])
      /\ c = current[t][r]
  BY <1>0, <1>1
<1>9. /\ s - 1 \in Segs(t, r) => <<t, s - 1>> \in right
      /\ r - 1 \in Rows(g) /\ s - B \in Segs(t, r - 1) => <<t, s - B>> \in right
  BY <1>7, <1>8, <1>5
\* The segment above to the left.
<1>10. ASSUME r - 1 \in Rows(g), s - B - 1 \in Segs(t, r - 1)
      PROVE  <<t, s - B - 1>> \in right
  <2>1. CASE s - B \in Segs(t, r - 1)
    <3>1. s - B < current[t][r - 1]
      BY <1>4, <1>9, <1>10, <2>1
    <3> QED BY <1>5, <1>10, <2>1, <3>1
  <2>2. CASE s - B \notin Segs(t, r - 1)
    <3>1. PICK first : first = StartOf(g, r)
      OBVIOUS
    <3>2. /\ first \in Nat /\ first <= s /\ s <= EndOf(g, r)
          /\ \A x : x \in Segs(t, r) <=> x \in Nat /\ first <= x /\ x <= EndOf(g, r)
      BY <1>8, <3>1, RowFacts
    <3>3. EndOf(g, r) \in Int
      BY <1>8, InRow
    <3>4. first - B \in Segs(t, r - 1)
      <4>1. Owned(own, right, t, r)
        BY <1>8, InRow
      <4>2. r # 0
        BY <1>3, <1>10 DEF Rows
      <4>3. own[<<t, r>>][1] # "none"
        BY <1>1
      <4> QED BY <1>8, <3>1, <4>1, <4>2, <4>3 DEF Owned
    <3>5. s # first
      BY <2>2, <3>4
    <3>6. s - 1 \in Nat /\ first <= s - 1 /\ s - 1 <= EndOf(g, r)
      BY <1>6, <3>2, <3>3, <3>5
    <3>7. s - 1 \in Segs(t, r)
      BY <3>2, <3>6
    <3> QED BY <1>7, <1>8, <1>5, <1>10, <3>7
  <2> QED BY <2>1, <2>2
<1>11. ASSUME NEW n \in Neighbours(g, b)
      PROVE  <<t, n>> \in done
  <2> PICK q, m : q = RowIndex(g, n[2]) /\ m = SegmentIndex(g, n[1], n[2])
    OBVIOUS
  <2>1. /\ n \in Superblocks(g) /\ n \in SbsOf(g, m) /\ q \in Rows(g) /\ m \in Segs(t, q)
        /\ Before(n, b) /\ n # b
        /\ \/ q = r /\ m \in {s, s - 1}
           \/ q = r - 1 /\ m \in {s - B, s - B - 1}
    <3>1. g \in Shapes /\ r \in Rows(g) /\ s \in SegsIn(g, r) /\ b \in SbsOf(g, s)
      BY <1>1, <1>3, <1>8 DEF Segs
    <3>2. /\ n \in Superblocks(g) /\ n \in SbsOf(g, m) /\ q \in Rows(g) /\ m \in SegsIn(g, q)
          /\ Before(n, b) /\ n # b
          /\ \/ q = r /\ m \in {s, s - 1}
             \/ q = r - 1 /\ m \in {s - BandCount(g), s - BandCount(g) - 1}
      BY <1>11, <3>1, SegmentsOfNeighbours
    <3>3. BandCount(g) = B /\ SegsIn(g, q) = Segs(t, q)
      BY <1>8 DEF Segs
    <3> QED BY <3>2, <3>3
  <2>2. CASE q = r /\ m = s
    <3>1. ~Before(b, n)
      <4>1. b \in Superblocks(g) /\ n \in Superblocks(g)
        BY <1>1, <2>1 DEF SbsOf
      <4>2. n[1] \in Int /\ n[2] \in Int /\ b[1] \in Int /\ b[2] \in Int
        BY <4>1 DEF Superblocks
      <4>3. Before(n, b)
        BY <2>1
      <4> QED BY <4>2, <4>3 DEF Before
    <3> QED BY <1>1, <1>2, <2>1, <2>2, <3>1
  <2>3. CASE q = r /\ m = s - 1
    BY <1>1, <1>4, <1>9, <2>1, <2>3
  <2>4. CASE q = r - 1 /\ m = s - B
    BY <1>4, <1>9, <2>1, <2>4
  <2>5. CASE q = r - 1 /\ m = s - B - 1
    BY <1>4, <1>10, <2>1, <2>5
  <2> QED BY <2>1, <2>2, <2>3, <2>4, <2>5
<1> QED BY <1>0, <1>11

\* A superblock is coded after the neighbours it reads, whatever the layout and however
\* many workers there are.
THEOREM NeighboursAreFirst == Spec => NeighboursFirst
<1> DEFINE Step == \A x \in done' \ done :
                      \A b \in Neighbours(layout[x[1]], x[2]) : <<x[1], b>> \in done
<1>1. ScheduleInvariant /\ [Next]_vars => Step
  <2> SUFFICES ASSUME ScheduleInvariant, [Next]_vars, done' # done, done' # {}
               PROVE  Step
    OBVIOUS
  <2> PICK own, right, below : layout \in Layouts /\ Scheduled(own, right, below)
    BY DEF ScheduleInvariant, Types
  <2>1. PICK w \in Threads : CodeSuperblock(w)
    BY ZenonT(40) DEF Next, Worker, vars, PostNext, Take, StartPicture, StartRow, Advance,
           Right, Below, Feedback, Continue, Count, Recode, HandOn, Release
  <2>2. pc[w] = "code" /\ done' = done \cup {<<task[w].group, First(todo[w])>>}
    BY <2>1 DEF CodeSuperblock
  <2>3. \A n \in Neighbours(layout[task[w].group], First(todo[w])) : <<task[w].group, n>> \in done
    BY <2>2, NeighboursAreDone
  <2> QED BY <2>2, <2>3
<1>2. ScheduleInvariant /\ [Next]_vars => [Step]_vars
  BY <1>1
<1> QED BY <1>2, EncDecIsScheduled, PTL DEF Spec, NeighboursFirst

\* A row of segments is held by one worker or one posted task, and a task that is
\* posted finds a segment that is ready: whatever the layout and the workers.
THEOREM RowsAreOwnedOnce == Spec => []RowsHaveOneOwner
<1>1. ScheduleInvariant => RowsHaveOneOwner
  <2> SUFFICES ASSUME ScheduleInvariant, NEW t \in TileGroups, NEW r \in Rows(layout[t])
               PROVE  LET owners == {w \in Threads : Owns(w, t, r)}
                          posted == {k \in Posted : k.group = t /\ k.row = r}
                      IN  /\ Cardinality(owners) + Cardinality(posted) <= 1
                          /\ posted # {} =>
                                /\ current[t][r] <= EndOf(layout[t], r)
                                /\ dependency[t][current[t][r]] = 0
    BY DEF RowsHaveOneOwner
  <2> DEFINE owners == {w \in Threads : Owns(w, t, r)}
  <2> DEFINE posted == {k \in Posted : k.group = t /\ k.row = r}
  <2> PICK own, right, below : layout \in Layouts /\ Scheduled(own, right, below)
                               /\ DOMAIN posting = Threads \cup {Mdc}
    BY DEF ScheduleInvariant, Types
  <2>1. ASSUME NEW w \in owners
        PROVE  own[<<t, r>>] \in Marks(w)
    <3>1. WorkerInPlace(own, right, below, w) /\ task[w].group = t
      BY DEF Scheduled, Owns
    <3>2. CASE pc[w] \in {"startPicture", "startRow"} /\ task[w].row = r
      BY <3>1, <3>2 DEF WorkerInPlace, Starting, Marks
    <3>3. CASE Coding(w) /\ Row(w) = r
      BY <3>1, <3>3, CodingSegment DEF Row, RowOf, Geometry
    <3>4. CASE next[w] # None /\ SegmentRow(layout[t], next[w]) = r
      BY <3>1, <3>4 DEF WorkerInPlace, Going, Issued, RowOf, Marks
    <3>5. CASE feedback[w] = r
      <4>1. r # None
        BY RowFacts DEF None
      <4> QED BY <3>1, <3>5, <4>1 DEF WorkerInPlace, Going, Marks
    <3> QED BY <3>2, <3>3, <3>4, <3>5 DEF Owns
  <2>2. ASSUME NEW k \in posted
        PROVE  IsTask(k) /\ own[<<t, r>>][1] \in {"tasks", "posting"}
    <3>1. \/ k \in tasks
          \/ \E p \in Threads \cup {Mdc} : k \in posting[p]
      BY DEF Posted
    <3>2. \E p : HeldBy(own, k, <<"tasks", p>>) \/ HeldBy(own, k, <<"posting", p>>)
      BY <3>1 DEF Scheduled, TasksInPlace
    <3> QED BY <3>2 DEF HeldBy
  <2>3. \A v, w \in owners : v = w
    BY <2>1 DEF Marks
  <2>4. \A j, k \in posted : j = k
    BY <2>2, TaskOfRow
  <2>5. owners = {} \/ posted = {}
    BY <2>1, <2>2 DEF Marks
  <2>6. posted # {} => current[t][r] \in Segs(t, r) /\ dependency[t][current[t][r]] = 0
    <3>1. Owned(own, right, t, r)
      BY InRow
    <3> QED BY <2>2, <3>1 DEF Owned, Waiting
  <2>7. posted # {} => current[t][r] <= EndOf(layout[t], r)
    BY <2>6, RowFacts
  <2>8. ASSUME NEW set, \A x, y \in set : x = y
        PROVE  Cardinality(set) \in {0, 1} /\ (set = {} => Cardinality(set) = 0)
    <3>1. CASE set = {}
      BY <3>1, FS_EmptySet
    <3>2. ASSUME NEW x \in set
          PROVE  Cardinality(set) = 1
      <4>1. set = {x}
        BY <2>8
      <4> QED BY <4>1, FS_Singleton
    <3> QED BY <3>1, <3>2
  <2>9. /\ Cardinality(owners) \in {0, 1} /\ (owners = {} => Cardinality(owners) = 0)
        /\ Cardinality(posted) \in {0, 1} /\ (posted = {} => Cardinality(posted) = 0)
    <3> HIDE DEF owners, posted
    <3> QED BY <2>3, <2>4, <2>8
  <2> HIDE DEF owners, posted
  <2>10. Cardinality(owners) + Cardinality(posted) <= 1
    BY <2>5, <2>9
  <2> QED BY <2>6, <2>7, <2>10 DEF owners, posted
<1> QED BY <1>1, EncDecIsScheduled, PTL

-----------------------------------------------------------------------------
(* Types.                                                                  *)

\* What the invariant leaves out: a worker holds a task as long as it has one, the
\* objects of the pool are all somewhere, and the counts of indices that are no segment.
Busy == {w \in Threads : pc[w] # "idle"}
PoolInOrder ==
    /\ IsFiniteSet(tasks) /\ freeTasks \in Nat
    /\ freeTasks + Cardinality(tasks) + Cardinality(Busy) = PoolSize
    /\ \A w \in Threads : pc[w] = "idle" => task[w] = NoTask
DependenciesSmall ==
    \A t \in TileGroups : \A s \in Indices(layout[t]) : dependency[t][s] \in 0 .. 2
PassesInOrder == results \in 0 .. 1 /\ recodes \in 0 .. MaxRecodes

\* The workers that are busy are finitely many.
LEMMA BusyWorkers ==
    IsFiniteSet(Busy) /\ Cardinality(Busy) \in Nat
<1>1. Busy \subseteq Threads
  BY DEF Busy
<1> QED BY <1>1, EncDecAssumption, FS_Subset, FS_CardinalityType

\* A task that is being posted is not posted yet.
LEMMA NewTask ==
    ASSUME NEW own, NEW right, NEW below, Scheduled(own, right, below)
    PROVE  /\ \A p \in Threads \cup {Mdc} : \A k \in posting[p] : k \notin tasks
           /\ \A w \in Threads : feedback[w] # None =>
                 Task("ENCDEC_INPUT", task[w].group, feedback[w]) \notin tasks
<1>1. \A k \in tasks : own[<<k.group, k.row>>] = <<"tasks", Mdc>>
  BY DEF Scheduled, TasksInPlace, HeldBy
<1>2. \A p \in Threads \cup {Mdc} : \A k \in posting[p] :
         own[<<k.group, k.row>>] = <<"posting", p>>
  BY DEF Scheduled, TasksInPlace, HeldBy
<1>3. \A w \in Threads : feedback[w] # None =>
         own[<<task[w].group, feedback[w]>>] = <<"feedback", w>>
  BY DEF Scheduled, WorkerInPlace, Going
<1>4. \A t, r : Task("ENCDEC_INPUT", t, r).group = t /\ Task("ENCDEC_INPUT", t, r).row = r
  BY DEF Task
<1>5. \A p : <<"tasks", Mdc>> # <<"posting", p>> /\ <<"tasks", Mdc>> # <<"feedback", p>>
  OBVIOUS
<1>6. \A p \in Threads \cup {Mdc} : \A k \in posting[p] : k \notin tasks
  BY <1>1, <1>2, <1>5
<1>7. ASSUME NEW w \in Threads, feedback[w] # None
      PROVE  Task("ENCDEC_INPUT", task[w].group, feedback[w]) \notin tasks
  <2>1. PICK k : k = Task("ENCDEC_INPUT", task[w].group, feedback[w])
    OBVIOUS
  <2>2. own[<<k.group, k.row>>] = <<"feedback", w>>
    BY <1>3, <1>4, <1>7, <2>1
  <2> QED BY <1>1, <1>5, <2>1, <2>2
<1> QED BY <1>6, <1>7

\* An object is posted with a task: one less is free.
LEMMA PostKeepsPool ==
    ASSUME PoolInOrder, NEW k, k \notin tasks, PostTask(k), pc' = pc, task' = task
    PROVE  PoolInOrder'
<1>1. /\ freeTasks' = freeTasks - 1 /\ freeTasks > 0 /\ tasks' = tasks \cup {k} /\ Busy' = Busy
      /\ freeTasks \in Nat /\ IsFiniteSet(tasks)
      /\ freeTasks + Cardinality(tasks) + Cardinality(Busy) = PoolSize
  BY DEF PostTask, PoolInOrder, Busy
<1>2. /\ IsFiniteSet(tasks') /\ Cardinality(tasks') = Cardinality(tasks) + 1
      /\ Cardinality(tasks) \in Nat /\ Cardinality(Busy) \in Nat
  BY <1>1, FS_AddElement, FS_CardinalityType, BusyWorkers
<1>3. freeTasks' \in Nat /\ freeTasks' + Cardinality(tasks') + Cardinality(Busy') = PoolSize
  BY <1>1, <1>2
<1> QED BY <1>1, <1>2, <1>3 DEF PoolInOrder

\* The objects of the pool: free, posted or with a worker.
LEMMA PoolKept ==
    ASSUME ScheduleInvariant, PoolInOrder, [Next]_vars
    PROVE  PoolInOrder'
<1> PICK own, right, below : Types /\ Scheduled(own, right, below)
  BY DEF ScheduleInvariant
<1>1. /\ IsFiniteSet(tasks) /\ freeTasks \in Nat
      /\ freeTasks + Cardinality(tasks) + Cardinality(Busy) = PoolSize
      /\ \A w \in Threads : pc[w] = "idle" => task[w] = NoTask
      /\ Cardinality(tasks) \in Nat /\ Cardinality(Busy) \in Nat
  BY BusyWorkers, FS_CardinalityType DEF PoolInOrder
<1>2. ASSUME NEW p \in Threads \cup {Mdc}, PostNext(p)
      PROVE  PoolInOrder'
  <2>1. PICK k \in posting[p] : PostTask(k)
    BY <1>2 DEF PostNext
  <2>2. pc' = pc /\ task' = task
    BY <1>2 DEF PostNext, localVars
  <2> QED BY <2>1, <2>2, NewTask, PostKeepsPool
<1>3. ASSUME NEW w \in Threads, Feedback(w)
      PROVE  PoolInOrder'
  <2>1. PostTask(Task("ENCDEC_INPUT", task[w].group, feedback[w])) /\ feedback[w] # None
        /\ pc' = pc /\ task' = task
    BY <1>3 DEF Feedback
  <2> QED BY <2>1, NewTask, PostKeepsPool
<1>4. ASSUME NEW w \in Threads, Take(w)
      PROVE  PoolInOrder'
  <2>1. PICK k \in tasks : /\ pc[w] = "idle" /\ tasks' = tasks \ {k} /\ task' = [task EXCEPT ![w] = k]
                           /\ \E a \in {"startPicture", "startRow"} : pc' = [pc EXCEPT ![w] = a]
                           /\ freeTasks' = freeTasks
    BY <1>4 DEF Take
  <2>2. /\ Busy' = Busy \cup {w} /\ w \notin Busy
        /\ \A v \in Threads : pc'[v] = "idle" => task'[v] = NoTask
    BY <1>1, <2>1 DEF Busy, Types
  <2>3. IsFiniteSet(tasks') /\ Cardinality(tasks') = Cardinality(tasks) - 1
    BY <1>1, <2>1, FS_RemoveElement
  <2>4. Cardinality(Busy') = Cardinality(Busy) + 1
    BY <2>2, BusyWorkers, FS_AddElement
  <2>5. freeTasks' + Cardinality(tasks') + Cardinality(Busy') = PoolSize
    BY <1>1, <2>1, <2>3, <2>4
  <2> QED BY <1>1, <2>1, <2>2, <2>3, <2>5 DEF PoolInOrder
<1>5. ASSUME NEW w \in Threads, Release(w)
      PROVE  PoolInOrder'
  <2>1. /\ pc[w] = "release" /\ freeTasks' = freeTasks + 1 /\ task' = [task EXCEPT ![w] = NoTask]
        /\ pc' = [pc EXCEPT ![w] = "idle"] /\ tasks' = tasks
    BY <1>5 DEF Release
  <2>2. /\ Busy' = Busy \ {w} /\ w \in Busy
        /\ \A v \in Threads : pc'[v] = "idle" => task'[v] = NoTask
    BY <1>1, <2>1 DEF Busy, Types
  <2>3. Cardinality(Busy') = Cardinality(Busy) - 1
    BY <2>2, BusyWorkers, FS_RemoveElement
  <2>4. freeTasks' + Cardinality(tasks') + Cardinality(Busy') = PoolSize
    BY <1>1, <2>1, <2>3
  <2> QED BY <1>1, <2>1, <2>2, <2>4 DEF PoolInOrder
<1>6. ASSUME NEW w \in Threads,
             \/ StartPicture(w) \/ StartRow(w) \/ Advance(w) \/ CodeSuperblock(w) \/ Right(w)
             \/ Below(w) \/ Continue(w) \/ Count(w) \/ Recode(w) \/ HandOn(w)
      PROVE  PoolInOrder'
  <2>1. freeTasks' = freeTasks /\ tasks' = tasks /\ task' = task /\ pc[w] # "idle"
    BY <1>6 DEF StartPicture, StartRow, Advance, CodeSuperblock, Right, Below, Continue, Count,
                Recode, HandOn, queueVars, localVars
  <2>2. \E a \in {"advance", "code", "right", "below", "feedback", "last", "release"} :
           pc' = [pc EXCEPT ![w] = a]
    BY <1>6 DEF StartPicture, StartRow, Advance, CodeSuperblock, Right, Below, Continue, Count,
                Recode, HandOn
  <2>3. Busy' = Busy /\ \A v \in Threads : pc'[v] = "idle" => pc[v] = "idle"
    BY <2>1, <2>2 DEF Busy, Types
  <2> QED BY <1>1, <2>1, <2>3 DEF PoolInOrder
<1>7. CASE UNCHANGED vars
  BY <1>1, <1>7 DEF vars, queueVars, localVars, PoolInOrder, Busy
<1> QED BY <1>2, <1>3, <1>4, <1>5, <1>6, <1>7, ZenonT(40) DEF Next, Worker

\* No index has more than two dependencies at first.
LEMMA FewAtFirst ==
    ASSUME layout \in Layouts, NEW t \in TileGroups, NEW s \in Indices(layout[t])
    PROVE  DependencyTable[layout[t]][s] \in 0 .. 2
<1> DEFINE g == layout[t]
<1> DEFINE source == UNION {SegmentsOf(g, r) : r \in Rows(g)}
<1> DEFINE left == {f \in source : f + 1 = s /\ HasRight(g, f)}
<1> DEFINE above == {f \in source : f + BandCount(g) = s /\ HasBelow(g, f)}
<1>1. DependencyTable[g][s] = Cardinality(left) + Cardinality(above)
  BY LayoutShapes DEF DependencyTable, Dependencies
<1>2. \A f \in source : f \in Int
  BY DEF SegmentsOf
<1>3. BandCount(g) \in Int
  BY LayoutShapes, Counts
<1>4. \A x, y \in left : x = y
  BY <1>2
<1>5. \A x, y \in above : x = y
  BY <1>2, <1>3
<1>6. ASSUME NEW set, \A x, y \in set : x = y
      PROVE  Cardinality(set) \in {0, 1}
  <2>1. CASE set = {}
    BY <2>1, FS_EmptySet
  <2>2. ASSUME NEW x \in set
        PROVE  Cardinality(set) = 1
    <3>1. set = {x}
      BY <1>6
    <3> QED BY <3>1, FS_Singleton
  <2> QED BY <2>1, <2>2
<1>7. Cardinality(left) \in {0, 1} /\ Cardinality(above) \in {0, 1}
  <2> HIDE DEF left, above
  <2> QED BY <1>4, <1>5, <1>6
<1> HIDE DEF left, above
<1> QED BY <1>1, <1>7

\* No segment has more than two dependencies.
LEMMA FewOfSegments ==
    ScheduleInvariant => \A t \in TileGroups : \A r \in Rows(layout[t]) :
                            \A s \in Segs(t, r) : dependency[t][s] \in 0 .. 2
<1> SUFFICES ASSUME ScheduleInvariant, NEW t \in TileGroups, NEW r \in Rows(layout[t]),
                    NEW s \in Segs(t, r)
             PROVE  dependency[t][s] \in 0 .. 2
  OBVIOUS
<1> PICK own, right, below : layout \in Layouts /\ Scheduled(own, right, below)
  BY DEF ScheduleInvariant, Types
<1>1. Depends(right, below, t, r, s)
  BY InRow
<1> QED BY <1>1 DEF Depends

\* The counts of indices that are no segment never change.
LEMMA DependenciesKept ==
    ASSUME ScheduleInvariant, ScheduleInvariant', DependenciesSmall, [Next]_vars
    PROVE  DependenciesSmall'
<1> PICK own, right, below : Types /\ Scheduled(own, right, below)
  BY DEF ScheduleInvariant
<1>1. layout' = layout /\ layout \in Layouts /\ TileGroups' = TileGroups
  BY DEF Types, TileGroups, Next, Worker, PostNext, Take, StartPicture, StartRow, Advance,
         CodeSuperblock, Right, Below, Feedback, Continue, Count, Recode, HandOn, Release, vars
<1>2. \A t \in TileGroups : \A r \in Rows(layout[t]) : \A s \in Segs(t, r) :
         dependency'[t][s] \in 0 .. 2
  <2>1. (\A t \in TileGroups : \A r \in Rows(layout[t]) : \A s \in Segs(t, r) :
            dependency[t][s] \in 0 .. 2)'
    BY FewOfSegments, PTL
  <2>2. \A t, r : Segs(t, r)' = Segs(t, r)
    BY <1>1 DEF Segs
  <2> QED BY <1>1, <2>1, <2>2
<1>3. ASSUME NEW u, NEW x, NEW c, dependency' = [dependency EXCEPT ![u][x] = c],
             \E r \in Rows(layout[u]) : x \in Segs(u, r)
      PROVE  DependenciesSmall'
  <2> SUFFICES ASSUME NEW t \in TileGroups, NEW s \in Indices(layout[t])
               PROVE  dependency'[t][s] \in 0 .. 2
    BY <1>1 DEF DependenciesSmall
  <2>1. CASE t = u /\ s = x
    BY <1>2, <1>3, <2>1
  <2>2. CASE ~(t = u /\ s = x)
    <3>1. dependency'[t][s] = dependency[t][s]
      BY <1>3, <2>2 DEF Types
    <3> QED BY <3>1 DEF DependenciesSmall
  <2> QED BY <2>1, <2>2
<1>4. ASSUME dependency' = dependency
      PROVE  DependenciesSmall'
  BY <1>1, <1>4 DEF DependenciesSmall
<1>5. ASSUME NEW w \in Threads, pc[w] \in {"right", "below"}
      PROVE  LET t == task[w].group
                 s == segment[w]
             IN  /\ HasRight(layout[t], s) => \E r \in Rows(layout[t]) : s + 1 \in Segs(t, r)
                 /\ HasBelow(layout[t], s) =>
                       \E r \in Rows(layout[t]) : s + BandCount(layout[t]) \in Segs(t, r)
  <2>1. PICK t, s, r : t = task[w].group /\ s = segment[w] /\ r = RowOf(t, s)
    OBVIOUS
  <2>2. t \in TileGroups /\ r \in Rows(layout[t]) /\ s \in Segs(t, r)
    BY <1>5, <2>1 DEF Scheduled, WorkerInPlace, Working, IsTask, IsSegment
  <2>3. /\ HasRight(layout[t], s) => s + 1 \in Segs(t, r)
        /\ HasBelow(layout[t], s) => r + 1 \in Rows(layout[t])
                                     /\ s + BandCount(layout[t]) \in Segs(t, r + 1)
    BY <1>1, <2>2, RowFacts
  <2> QED BY <2>1, <2>2, <2>3
<1>6. ASSUME NEW w \in Threads, Right(w)
      PROVE  DependenciesSmall'
  <2>1. pc[w] = "right"
    BY <1>6 DEF Right
  <2>2. \/ dependency' = dependency
        \/ /\ HasRight(layout[task[w].group], segment[w])
           /\ \E c : dependency' = [dependency EXCEPT ![task[w].group][segment[w] + 1] = c]
    BY <1>6 DEF Right, Geometry
  <2> QED BY <1>3, <1>4, <1>5, <2>1, <2>2
<1>7. ASSUME NEW w \in Threads, Below(w)
      PROVE  DependenciesSmall'
  <2>1. pc[w] = "below"
    BY <1>7 DEF Below
  <2>2. \/ dependency' = dependency
        \/ /\ HasBelow(layout[task[w].group], segment[w])
           /\ \E c : dependency' = [dependency EXCEPT
                        ![task[w].group][segment[w] + BandCount(layout[task[w].group])] = c]
    BY <1>7 DEF Below, Geometry
  <2> QED BY <1>3, <1>4, <1>5, <2>1, <2>2
<1>8. ASSUME NEW w \in Threads, Recode(w)
      PROVE  DependenciesSmall'
  <2>1. dependency' = AllDependencies(layout)
    BY <1>8 DEF Recode
  <2> QED BY <1>1, <2>1, FewAtFirst DEF DependenciesSmall, AllDependencies, TileGroups
<1>9. \/ dependency' = dependency
      \/ \E w \in Threads : Right(w) \/ Below(w) \/ Recode(w)
  BY DEF Next, Worker, PostNext, Take, StartPicture, StartRow, Advance, CodeSuperblock,
         Feedback, Continue, Count, HandOn, Release, vars, segmentVars
<1> QED BY <1>4, <1>6, <1>7, <1>8, <1>9

\* Every index and every count stays within its bounds; the pool of tasks is never
\* overdrawn.
THEOREM EncDecTypes == Spec => []TypeOK
<1> DEFINE Inv == PoolInOrder /\ DependenciesSmall /\ PassesInOrder
<1>1. Init => Inv
  <2> SUFFICES ASSUME Init
               PROVE  Inv
    OBVIOUS
  <2>1. PoolInOrder
    <3>1. Busy = {} /\ tasks = {}
      BY DEF Init, Busy
    <3> QED BY <3>1, FS_EmptySet, EncDecAssumption DEF Init, PoolInOrder
  <2>2. DependenciesSmall
    BY FewAtFirst DEF Init, DependenciesSmall, AllDependencies, TileGroups
  <2>3. PassesInOrder
    BY EncDecAssumption DEF Init, PassesInOrder
  <2> QED BY <2>1, <2>2, <2>3
<1>2. ScheduleInvariant /\ ScheduleInvariant' /\ Inv /\ [Next]_vars => Inv'
  <2> SUFFICES ASSUME ScheduleInvariant, ScheduleInvariant', Inv, [Next]_vars
               PROVE  Inv'
    OBVIOUS
  <2>1. PoolInOrder' /\ DependenciesSmall'
    BY PoolKept, DependenciesKept
  <2>2. PassesInOrder'
    <3>1. \A w \in Threads : HandOn(w) => results = 0
      BY DEF HandOn, ScheduleInvariant, Scheduled, CountsInOrder, PassesInOrder
    <3>2. \/ results' = results /\ recodes' = recodes
          \/ \E w \in Threads : /\ Recode(w) /\ recodes < MaxRecodes
                                /\ recodes' = recodes + 1 /\ results' = results
          \/ \E w \in Threads : HandOn(w) /\ results' = results + 1 /\ recodes' = recodes
      BY ZenonT(60) DEF Next, Worker, PostNext, Take, StartPicture, StartRow, Advance, CodeSuperblock,
                       Right, Below, Feedback, Continue, Count, Recode, HandOn, Release, vars, pictureVars
    <3> QED BY <3>1, <3>2, EncDecAssumption DEF PassesInOrder
  <2> QED BY <2>1, <2>2
<1>3. ScheduleInvariant /\ Inv => TypeOK
  <2> SUFFICES ASSUME ScheduleInvariant, Inv
               PROVE  TypeOK
    OBVIOUS
  <2> PICK own, right, below : layout \in Layouts /\ Scheduled(own, right, below)
    BY DEF ScheduleInvariant, Types
  <2>1. \A t \in TileGroups : \A r \in Rows(layout[t]) :
           current[t][r] \in StartOf(layout[t], r) .. EndOf(layout[t], r) + 1
    BY InRow DEF Owned
  <2>2. \A k : IsTask(k) => k \in [type : {"MDC_INPUT", "ENCDEC_INPUT"}, group : TileGroups, row : Nat]
                            /\ k # NoTask
    BY RowFacts DEF IsTask, Task, NoTask
  <2>3. ASSUME NEW w \in Threads
        PROVE  /\ pc[w] \in Places /\ (pc[w] = "code" => todo[w] # {})
               /\ task[w] = NoTask <=> pc[w] = "idle"
    BY <2>2 DEF Scheduled, WorkerInPlace, Working, PoolInOrder
  <2>4. tasks \subseteq [type : {"MDC_INPUT", "ENCDEC_INPUT"}, group : TileGroups, row : Nat]
    BY <2>2 DEF Scheduled, TasksInPlace, HeldBy
  <2>5. freeTasks \in 0 .. PoolSize
    <3>1. Cardinality(tasks) \in Nat /\ Cardinality(Busy) \in Nat
      BY BusyWorkers, FS_CardinalityType DEF PoolInOrder
    <3> QED BY <3>1, EncDecAssumption DEF PoolInOrder
  <2>6. done \subseteq AllSuperblocks
    BY DEF Scheduled, CountsInOrder
  <2> QED BY <2>1, <2>3, <2>4, <2>5, <2>6 DEF TypeOK, Places, DependenciesSmall, PassesInOrder
<1> HIDE DEF Inv
<1> QED BY <1>1, <1>2, <1>3, EncDecIsScheduled, PTL DEF Spec
=============================================================================
