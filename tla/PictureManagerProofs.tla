------------------------ MODULE PictureManagerProofs ------------------------
(***************************************************************************)
(* For every stream that satisfies the assumptions on it, every setting    *)
(* and every size of the pools: the counts of dependents are exact, and a  *)
(* picture's references are held until it is coded.                        *)
(***************************************************************************)
EXTENDS PictureManager, FiniteSetTheorems, WellFoundedInduction, TLAPS

-----------------------------------------------------------------------------
(* Sums of a function over a finite set, as the community modules fold     *)
(* them.  Induction goes by a least counterexample.                        *)

Sum(f, S) == FoldFunctionOnSet(+, 0, f, S)

\* it is the function the fold defines on the subsets of S.
Sums(f, S, it) ==
    it = [s \in SUBSET S |->
            IF s = {} THEN 0
            ELSE f[CHOOSE x \in s : TRUE] + it[s \ {CHOOSE x \in s : TRUE}]]

\* A nonempty set of natural numbers has a least element.
LEMMA Least ==
    ASSUME NEW T \in SUBSET Nat, T # {}
    PROVE  \E x \in T : \A y \in T : x <= y
<1> DEFINE S == {0 .. x : x \in T}
<1>1. S \subseteq FiniteSubsetsOf(Nat) /\ S # {}
  <2>1. \A x \in T : IsFiniteSet(0 .. x) /\ 0 .. x \in SUBSET Nat
    BY FS_Interval
  <2> QED BY <2>1 DEF FiniteSubsetsOf
<1>2. IsWellFoundedOn(StrictSubsetOrdering(Nat), FiniteSubsetsOf(Nat))
  BY FS_StrictSubsetOrderingWellFounded
<1>3. \E x \in S : \A y \in S : ~ (<<y, x>> \in StrictSubsetOrdering(Nat))
  <2> HIDE DEF S
  <2> QED BY <1>1, <1>2, WFMin
<1>4. PICK x \in T : \A y \in T : ~ (<<0 .. y, 0 .. x>> \in StrictSubsetOrdering(Nat))
  BY <1>3
<1>5. \A y \in T : y < x => <<0 .. y, 0 .. x>> \in StrictSubsetOrdering(Nat)
  <2> TAKE y \in T
  <2> SUFFICES ASSUME y < x
               PROVE  <<0 .. y, 0 .. x>> \in StrictSubsetOrdering(Nat)
    OBVIOUS
  <2>1. 0 .. y \in SUBSET Nat /\ 0 .. x \in SUBSET Nat /\ 0 .. y \subseteq 0 .. x
    OBVIOUS
  <2>2. x \in 0 .. x /\ x \notin 0 .. y
    OBVIOUS
  <2> DEFINE a == 0 .. y
  <2> DEFINE b == 0 .. x
  <2>3. a \in SUBSET Nat /\ b \in SUBSET Nat /\ a \subseteq b /\ a # b
    BY <2>1, <2>2
  <2> HIDE DEF a, b
  <2>4. <<a, b>> \in StrictSubsetOrdering(Nat)
    BY <2>3 DEF StrictSubsetOrdering
  <2> QED BY <2>4 DEF a, b
<1>6. \A y \in T : ~(y < x)
  BY <1>4, <1>5
<1>7. \A y \in T : x <= y
  BY <1>6
<1> QED BY <1>7

\* Of the finite sets in a nonempty set one has the fewest elements.
LEMMA SmallestSet ==
    ASSUME NEW C, C # {}, \A s \in C : IsFiniteSet(s)
    PROVE  \E s \in C : \A t : IsFiniteSet(t) /\ Cardinality(t) < Cardinality(s) => t \notin C
<1> DEFINE T == {Cardinality(s) : s \in C}
<1>1. \A s \in C : Cardinality(s) \in Nat
  BY FS_CardinalityType
<1>2. T \in SUBSET Nat /\ T # {}
  BY <1>1
<1>3. \E x \in T : \A y \in T : x <= y
  <2> HIDE DEF T
  <2> QED BY <1>2, Least
<1>4. PICK s \in C : \A t \in C : Cardinality(s) <= Cardinality(t)
  BY <1>3
<1>5. \A t \in C : ~(Cardinality(t) < Cardinality(s))
  BY <1>1, <1>4
<1> QED BY <1>5

\* One member less.
LEMMA OneLess ==
    ASSUME NEW S, IsFiniteSet(S), NEW x \in S
    PROVE  /\ IsFiniteSet(S \ {x}) /\ Cardinality(S \ {x}) < Cardinality(S)
           /\ Cardinality(S) \in Nat
<1>1. IsFiniteSet(S \ {x}) /\ Cardinality(S \ {x}) = Cardinality(S) - 1
  BY FS_RemoveElement
<1>2. Cardinality(S) \in Nat
  BY FS_CardinalityType
<1> QED BY <1>1, <1>2

\* There is one sum of a set at most.
LEMMA SumIsUnique ==
    ASSUME NEW f, NEW A, NEW B, NEW a, NEW b, Sums(f, A, a), Sums(f, B, b),
           NEW s \in SUBSET A, s \in SUBSET B, IsFiniteSet(s)
    PROVE  a[s] = b[s]
<1> DEFINE C == {t \in SUBSET s : a[t] # b[t]}
<1>1. \A t \in SUBSET s : IsFiniteSet(t)
  BY FS_Subset
<1>2. C = {}
  <2> SUFFICES ASSUME C # {}
               PROVE  FALSE
    OBVIOUS
  <2>1. PICK t \in C : \A u : IsFiniteSet(u) /\ Cardinality(u) < Cardinality(t) => u \notin C
    <3> HIDE DEF C
    <3>1. \A u \in C : IsFiniteSet(u)
      BY <1>1 DEF C
    <3> QED BY <3>1, SmallestSet
  <2> DEFINE x == CHOOSE x \in t : TRUE
  <2>2. t \in SUBSET A /\ t \in SUBSET B /\ IsFiniteSet(t)
    BY <1>1
  <2>3. /\ a[t] = IF t = {} THEN 0 ELSE f[x] + a[t \ {x}]
        /\ b[t] = IF t = {} THEN 0 ELSE f[x] + b[t \ {x}]
    BY <2>2 DEF Sums
  <2>4. t # {} => x \in t
    OBVIOUS
  <2> HIDE DEF x
  <2>5. t # {} => a[t \ {x}] = b[t \ {x}]
    <3> SUFFICES ASSUME t # {}
                 PROVE  a[t \ {x}] = b[t \ {x}]
      OBVIOUS
    <3>1. IsFiniteSet(t \ {x}) /\ Cardinality(t \ {x}) < Cardinality(t)
      BY <2>2, <2>4, OneLess
    <3>2. t \ {x} \in SUBSET s /\ t \ {x} \notin C
      BY <2>1, <3>1
    <3> QED BY <3>2
  <2>6. a[t] = b[t]
    BY <2>3, <2>5
  <2> QED BY <2>6
<1> QED BY <1>2

\* What Sum is when the fold defines a function.
LEMMA SumIsFold ==
    ASSUME NEW f, NEW S, \E it : Sums(f, S, it)
    PROVE  \E it : Sums(f, S, it) /\ Sum(f, S) = it[S]
<1>1. Sum(f, S) = (CHOOSE it : Sums(f, S, it))[S]
  BY DEF Sum, FoldFunctionOnSet, MapThenFoldSet, Sums
<1> QED BY <1>1

\* The fold of a finite set is defined, and takes an element away at a time.
LEMMA SumExists ==
    ASSUME NEW f, NEW S, IsFiniteSet(S)
    PROVE  \E it : Sums(f, S, it)
<1> DEFINE C == {T \in SUBSET S : ~ \E it : Sums(f, T, it)}
<1>1. \A T \in SUBSET S : IsFiniteSet(T)
  BY FS_Subset
<1>2. C = {}
  <2> SUFFICES ASSUME C # {}
               PROVE  FALSE
    OBVIOUS
  <2>1. PICK T \in C : \A U : IsFiniteSet(U) /\ Cardinality(U) < Cardinality(T) => U \notin C
    <3> HIDE DEF C
    <3>1. \A U \in C : IsFiniteSet(U)
      BY <1>1 DEF C
    <3> QED BY <3>1, SmallestSet
  <2> DEFINE x(s) == CHOOSE x \in s : TRUE
  <2>2. T \in SUBSET S /\ IsFiniteSet(T) /\ ~ \E it : Sums(f, T, it)
    BY <1>1
  <2>3. \A U \in SUBSET T : U # T => \E it : Sums(f, U, it) /\ Sum(f, U) = it[U]
    <3> TAKE U \in SUBSET T
    <3> SUFFICES ASSUME U # T
                 PROVE  \E it : Sums(f, U, it) /\ Sum(f, U) = it[U]
      OBVIOUS
    <3>1. IsFiniteSet(U) /\ Cardinality(U) < Cardinality(T)
      <4>1. /\ IsFiniteSet(U) /\ Cardinality(U) <= Cardinality(T)
            /\ Cardinality(T) = Cardinality(U) => T = U
        BY <2>2, FS_Subset
      <4>2. Cardinality(U) \in Nat /\ Cardinality(T) \in Nat
        BY <2>2, <4>1, FS_CardinalityType
      <4> QED BY <4>1, <4>2
    <3>2. U \in SUBSET S /\ U \notin C
      BY <2>1, <2>2, <3>1
    <3>3. \E it : Sums(f, U, it)
      BY <3>2
    <3> QED BY <3>3, SumIsFold
  <2>4. \A U \in SUBSET T : U # T =>
           Sum(f, U) = IF U = {} THEN 0 ELSE f[x(U)] + Sum(f, U \ {x(U)})
    <3> TAKE U \in SUBSET T
    <3> SUFFICES ASSUME U # T
                 PROVE  Sum(f, U) = IF U = {} THEN 0 ELSE f[x(U)] + Sum(f, U \ {x(U)})
      OBVIOUS
    <3>1. PICK it : Sums(f, U, it) /\ Sum(f, U) = it[U]
      BY <2>3
    <3>2. U \in SUBSET U
      OBVIOUS
    <3>3. it[U] = IF U = {} THEN 0 ELSE f[x(U)] + it[U \ {x(U)}]
      BY <3>1, <3>2 DEF Sums
    <3>4. CASE U = {}
      BY <3>1, <3>3, <3>4
    <3>5. CASE U # {}
      <4> DEFINE V == U \ {x(U)}
      <4>1. x(U) \in U
        BY <3>5
      <4>2. V \in SUBSET T /\ V # T /\ V \in SUBSET U
        BY <4>1
      <4>3. PICK jt : Sums(f, V, jt) /\ Sum(f, V) = jt[V]
        <5> HIDE DEF V
        <5> QED BY <2>3, <4>2
      <4>4. IsFiniteSet(V)
        <5> HIDE DEF V
        <5> QED BY <2>2, <4>2, FS_Subset
      <4>5. it[V] = jt[V]
        <5> HIDE DEF V
        <5>1. V \in SUBSET V
          OBVIOUS
        <5> QED BY <3>1, <4>2, <4>3, <4>4, <5>1, SumIsUnique
      <4> QED BY <3>1, <3>3, <3>5, <4>3, <4>5
    <3> QED BY <3>4, <3>5
  <2> DEFINE top == IF T = {} THEN 0 ELSE f[x(T)] + Sum(f, T \ {x(T)})
  <2> DEFINE it == [s \in SUBSET T |-> IF s = T THEN top ELSE Sum(f, s)]
  <2>5. \A s \in SUBSET T : it[s] = IF s = {} THEN 0 ELSE f[x(s)] + it[s \ {x(s)}]
    <3> TAKE s \in SUBSET T
    <3>1. s # {} => x(s) \in s
      OBVIOUS
    <3> HIDE DEF x
    <3>2. s # {} => it[s \ {x(s)}] = Sum(f, s \ {x(s)})
      BY <3>1
    <3>3. CASE s = T
      BY <3>2, <3>3
    <3>4. CASE s # T
      <4>1. it[s] = Sum(f, s)
        BY <3>4
      <4> HIDE DEF it
      <4> QED BY <2>4, <3>2, <3>4, <4>1
    <3> QED BY <3>3, <3>4
  <2>6. it = [s \in SUBSET T |-> it[s]]
    OBVIOUS
  <2> HIDE DEF it
  <2>7. Sums(f, T, it)
    BY <2>5, <2>6 DEF Sums
  <2> QED BY <2>2, <2>7
<1> QED BY <1>2

\* The sum over a set is what the fold says of the element it chooses.
LEMMA SumOfChosen ==
    ASSUME NEW f, NEW S, IsFiniteSet(S)
    PROVE  Sum(f, S) = IF S = {} THEN 0
                       ELSE f[CHOOSE x \in S : TRUE] + Sum(f, S \ {CHOOSE x \in S : TRUE})
<1> DEFINE x == CHOOSE x \in S : TRUE
<1> DEFINE V == S \ {x}
<1>1. PICK it : Sums(f, S, it) /\ Sum(f, S) = it[S]
  BY SumExists, SumIsFold
<1>2. it[S] = IF S = {} THEN 0 ELSE f[x] + it[V]
  <2>1. S \in SUBSET S
    OBVIOUS
  <2> QED BY <1>1, <2>1 DEF Sums
<1>3. it[V] = Sum(f, V)
  <2>1. V \in SUBSET S
    OBVIOUS
  <2> HIDE DEF V
  <2>2. IsFiniteSet(V) /\ V \in SUBSET V
    BY <2>1, FS_Subset
  <2>3. PICK jt : Sums(f, V, jt) /\ Sum(f, V) = jt[V]
    BY <2>2, SumExists, SumIsFold
  <2> QED BY <1>1, <2>1, <2>2, <2>3, SumIsUnique
<1> QED BY <1>1, <1>2, <1>3

\* Nothing sums to zero.
LEMMA SumOfNothing ==
    ASSUME NEW f
    PROVE  Sum(f, {}) = 0
BY SumOfChosen, FS_EmptySet

\* A sum of natural numbers is one.
LEMMA SumIsNumber ==
    ASSUME NEW S, IsFiniteSet(S), NEW f, \A x \in S : f[x] \in Nat
    PROVE  Sum(f, S) \in Nat
<1> DEFINE C == {T \in SUBSET S : Sum(f, T) \notin Nat}
<1>1. \A T \in SUBSET S : IsFiniteSet(T)
  BY FS_Subset
<1>2. C = {}
  <2> SUFFICES ASSUME C # {}
               PROVE  FALSE
    OBVIOUS
  <2>1. PICK T \in C : \A U : IsFiniteSet(U) /\ Cardinality(U) < Cardinality(T) => U \notin C
    <3> HIDE DEF C
    <3>1. \A U \in C : IsFiniteSet(U)
      BY <1>1 DEF C
    <3> QED BY <3>1, SmallestSet
  <2> DEFINE x == CHOOSE x \in T : TRUE
  <2>2. T \in SUBSET S /\ IsFiniteSet(T) /\ Sum(f, T) \notin Nat
    BY <1>1
  <2>3. Sum(f, T) = IF T = {} THEN 0 ELSE f[x] + Sum(f, T \ {x})
    BY <2>2, SumOfChosen
  <2>4. T # {} => x \in T
    OBVIOUS
  <2> HIDE DEF x
  <2>5. CASE T = {}
    BY <2>2, <2>3, <2>5
  <2>6. CASE T # {}
    <3>1. IsFiniteSet(T \ {x}) /\ Cardinality(T \ {x}) < Cardinality(T)
      BY <2>2, <2>4, <2>6, OneLess
    <3>2. T \ {x} \notin C
      BY <2>1, <3>1
    <3>3. Sum(f, T \ {x}) \in Nat /\ f[x] \in Nat
      BY <2>2, <2>4, <2>6, <3>2
    <3> QED BY <2>2, <2>3, <2>6, <3>3
  <2> QED BY <2>5, <2>6
<1> QED BY <1>2

\* A sum of integers is one.
LEMMA SumIsInteger ==
    ASSUME NEW S, IsFiniteSet(S), NEW f, \A x \in S : f[x] \in Int
    PROVE  Sum(f, S) \in Int
<1> DEFINE C == {T \in SUBSET S : Sum(f, T) \notin Int}
<1>1. \A T \in SUBSET S : IsFiniteSet(T)
  BY FS_Subset
<1>2. C = {}
  <2> SUFFICES ASSUME C # {}
               PROVE  FALSE
    OBVIOUS
  <2>1. PICK T \in C : \A U : IsFiniteSet(U) /\ Cardinality(U) < Cardinality(T) => U \notin C
    <3> HIDE DEF C
    <3>1. \A U \in C : IsFiniteSet(U)
      BY <1>1 DEF C
    <3> QED BY <3>1, SmallestSet
  <2> DEFINE x == CHOOSE x \in T : TRUE
  <2>2. T \in SUBSET S /\ IsFiniteSet(T) /\ Sum(f, T) \notin Int
    BY <1>1
  <2>3. Sum(f, T) = IF T = {} THEN 0 ELSE f[x] + Sum(f, T \ {x})
    BY <2>2, SumOfChosen
  <2>4. T # {} => x \in T
    OBVIOUS
  <2> HIDE DEF x
  <2>5. CASE T = {}
    BY <2>2, <2>3, <2>5
  <2>6. CASE T # {}
    <3>1. IsFiniteSet(T \ {x}) /\ Cardinality(T \ {x}) < Cardinality(T)
      BY <2>2, <2>4, <2>6, OneLess
    <3>2. T \ {x} \notin C
      BY <2>1, <3>1
    <3>3. Sum(f, T \ {x}) \in Int /\ f[x] \in Int
      BY <2>2, <2>4, <2>6, <3>2
    <3> QED BY <2>2, <2>3, <2>6, <3>3
  <2> QED BY <2>5, <2>6
<1> QED BY <1>2

\* Any element can be taken out of a sum.
LEMMA SumSplits ==
    ASSUME NEW S, IsFiniteSet(S), NEW f, \A x \in S : f[x] \in Int, NEW y \in S
    PROVE  Sum(f, S) = f[y] + Sum(f, S \ {y})
<1> DEFINE C == {T \in SUBSET S : \E z \in T : Sum(f, T) # f[z] + Sum(f, T \ {z})}
<1>1. \A T \in SUBSET S : IsFiniteSet(T) /\ Sum(f, T) \in Int
  <2> TAKE T \in SUBSET S
  <2>1. IsFiniteSet(T) /\ \A x \in T : f[x] \in Int
    BY FS_Subset
  <2> QED BY <2>1, SumIsInteger
<1>2. C = {}
  <2> SUFFICES ASSUME C # {}
               PROVE  FALSE
    OBVIOUS
  <2>1. PICK T \in C : \A U : IsFiniteSet(U) /\ Cardinality(U) < Cardinality(T) => U \notin C
    <3> HIDE DEF C
    <3>1. \A U \in C : IsFiniteSet(U)
      BY <1>1 DEF C
    <3> QED BY <3>1, SmallestSet
  <2>2. T \in SUBSET S /\ IsFiniteSet(T)
    BY <1>1
  <2>3. PICK z \in T : Sum(f, T) # f[z] + Sum(f, T \ {z})
    BY <2>1
  <2> DEFINE x == CHOOSE x \in T : TRUE
  <2>4. Sum(f, T) = f[x] + Sum(f, T \ {x}) /\ x \in T
    BY <2>2, SumOfChosen
  <2> HIDE DEF x
  <2>5. x # z
    BY <2>3, <2>4
  <2>6. /\ Cardinality(T \ {x}) < Cardinality(T) /\ IsFiniteSet(T \ {x})
        /\ Cardinality(T \ {z}) < Cardinality(T) /\ IsFiniteSet(T \ {z})
    BY <2>2, <2>4, OneLess
  <2>7. Sum(f, T \ {x}) = f[z] + Sum(f, (T \ {x}) \ {z})
    <3>1. T \ {x} \in SUBSET S /\ T \ {x} \notin C /\ z \in T \ {x}
      BY <2>1, <2>2, <2>5, <2>6
    <3> QED BY <3>1
  <2>8. Sum(f, T \ {z}) = f[x] + Sum(f, (T \ {z}) \ {x})
    <3>1. T \ {z} \in SUBSET S /\ T \ {z} \notin C /\ x \in T \ {z}
      BY <2>1, <2>2, <2>4, <2>5, <2>6
    <3> QED BY <3>1
  <2>9. (T \ {x}) \ {z} = (T \ {z}) \ {x}
    OBVIOUS
  <2>10. Sum(f, (T \ {x}) \ {z}) \in Int /\ f[x] \in Int /\ f[z] \in Int
    <3>1. (T \ {x}) \ {z} \in SUBSET S
      BY <2>2
    <3> QED BY <1>1, <2>2, <2>4, <3>1
  <2> QED BY <2>3, <2>4, <2>7, <2>8, <2>9, <2>10
<1>3. S \notin C
  BY <1>2
<1> QED BY <1>3

\* A sum is that of a part and of the rest.
LEMMA SumOfParts ==
    ASSUME NEW S, IsFiniteSet(S), NEW f, \A x \in S : f[x] \in Int, NEW B \in SUBSET S
    PROVE  Sum(f, S) = Sum(f, B) + Sum(f, S \ B)
<1> DEFINE C == {T \in SUBSET B : Sum(f, S) # Sum(f, T) + Sum(f, S \ T)}
<1>1. \A T \in SUBSET S : IsFiniteSet(T) /\ Sum(f, T) \in Int
  <2> TAKE T \in SUBSET S
  <2>1. IsFiniteSet(T) /\ \A x \in T : f[x] \in Int
    BY FS_Subset
  <2> QED BY <2>1, SumIsInteger
<1>2. C = {}
  <2> SUFFICES ASSUME C # {}
               PROVE  FALSE
    OBVIOUS
  <2>1. PICK T \in C : \A U : IsFiniteSet(U) /\ Cardinality(U) < Cardinality(T) => U \notin C
    <3> HIDE DEF C
    <3>1. \A U \in C : IsFiniteSet(U)
      BY <1>1 DEF C
    <3> QED BY <3>1, SmallestSet
  <2>2. T \in SUBSET B /\ T \in SUBSET S /\ IsFiniteSet(T) /\ Sum(f, S) # Sum(f, T) + Sum(f, S \ T)
    BY <1>1
  <2>3. T # {}
    <3> SUFFICES ASSUME T = {}
                 PROVE  FALSE
      OBVIOUS
    <3>1. Sum(f, T) = 0 /\ S \ T = S
      BY SumOfNothing
    <3> QED BY <1>1, <2>2, <3>1
  <2>4. PICK x \in T : TRUE
    BY <2>3
  <2> DEFINE U == T \ {x}
  <2>5. IsFiniteSet(U) /\ Cardinality(U) < Cardinality(T)
    BY <2>2, OneLess
  <2>6. U \in SUBSET B /\ U \in SUBSET S /\ S \ T \in SUBSET S /\ S \ U \in SUBSET S /\ x \in S \ U
    BY <2>2
  <2>7. Sum(f, S) = Sum(f, U) + Sum(f, S \ U)
    BY <2>1, <2>5, <2>6
  <2>8. Sum(f, T) = f[x] + Sum(f, U)
    <3>1. \A z \in T : f[z] \in Int
      BY <2>2
    <3> QED BY <2>2, <3>1, SumSplits
  <2>9. Sum(f, S \ U) = f[x] + Sum(f, S \ T)
    <3>1. (S \ U) \ {x} = S \ T
      BY <2>2
    <3>2. IsFiniteSet(S \ U) /\ \A z \in S \ U : f[z] \in Int
      BY <1>1, <2>6
    <3> HIDE DEF U
    <3> QED BY <2>6, <3>1, <3>2, SumSplits
  <2>10. Sum(f, U) \in Int /\ Sum(f, S \ T) \in Int /\ f[x] \in Int /\ Sum(f, T) \in Int
    BY <1>1, <2>2, <2>6
  <2> HIDE DEF U
  <2> QED BY <2>2, <2>7, <2>8, <2>9, <2>10
<1>3. B \notin C
  BY <1>2
<1> QED BY <1>3

\* A sum depends on the summands only.
LEMMA SumOfSame ==
    ASSUME NEW S, IsFiniteSet(S), NEW f, NEW g, \A x \in S : f[x] = g[x]
    PROVE  Sum(f, S) = Sum(g, S)
<1> DEFINE C == {T \in SUBSET S : Sum(f, T) # Sum(g, T)}
<1>1. \A T \in SUBSET S : IsFiniteSet(T)
  BY FS_Subset
<1>2. C = {}
  <2> SUFFICES ASSUME C # {}
               PROVE  FALSE
    OBVIOUS
  <2>1. PICK T \in C : \A U : IsFiniteSet(U) /\ Cardinality(U) < Cardinality(T) => U \notin C
    <3> HIDE DEF C
    <3>1. \A U \in C : IsFiniteSet(U)
      BY <1>1 DEF C
    <3> QED BY <3>1, SmallestSet
  <2> DEFINE x == CHOOSE x \in T : TRUE
  <2>2. T \in SUBSET S /\ IsFiniteSet(T) /\ Sum(f, T) # Sum(g, T)
    BY <1>1
  <2>3. /\ Sum(f, T) = IF T = {} THEN 0 ELSE f[x] + Sum(f, T \ {x})
        /\ Sum(g, T) = IF T = {} THEN 0 ELSE g[x] + Sum(g, T \ {x})
    BY <2>2, SumOfChosen
  <2>4. T # {} => x \in T
    OBVIOUS
  <2> HIDE DEF x
  <2>5. T # {}
    BY <2>2, <2>3
  <2>6. IsFiniteSet(T \ {x}) /\ Cardinality(T \ {x}) < Cardinality(T)
    BY <2>2, <2>4, <2>5, OneLess
  <2>7. T \ {x} \notin C
    BY <2>1, <2>6
  <2>8. Sum(f, T \ {x}) = Sum(g, T \ {x}) /\ f[x] = g[x]
    BY <2>2, <2>4, <2>5, <2>7
  <2> QED BY <2>2, <2>3, <2>5, <2>8
<1>3. S \notin C
  BY <1>2
<1> QED BY <1>3

\* A sum is at least each of its summands, and zero only when all are.
LEMMA SumBounds ==
    ASSUME NEW S, IsFiniteSet(S), NEW f, \A x \in S : f[x] \in Nat, NEW y \in S
    PROVE  f[y] <= Sum(f, S)
<1>1. Sum(f, S) = f[y] + Sum(f, S \ {y})
  BY SumSplits
<1>2. Sum(f, S \ {y}) \in Nat
  <2>1. IsFiniteSet(S \ {y}) /\ \A x \in S \ {y} : f[x] \in Nat
    BY FS_RemoveElement
  <2> QED BY <2>1, SumIsNumber
<1> QED BY <1>1, <1>2

\* A sum of zeros is zero.
LEMMA SumOfZeros ==
    ASSUME NEW S, IsFiniteSet(S), NEW f, \A x \in S : f[x] = 0
    PROVE  Sum(f, S) = 0
<1> DEFINE C == {T \in SUBSET S : Sum(f, T) # 0}
<1>1. \A T \in SUBSET S : IsFiniteSet(T)
  BY FS_Subset
<1>2. C = {}
  <2> SUFFICES ASSUME C # {}
               PROVE  FALSE
    OBVIOUS
  <2>1. PICK T \in C : \A U : IsFiniteSet(U) /\ Cardinality(U) < Cardinality(T) => U \notin C
    <3> HIDE DEF C
    <3>1. \A U \in C : IsFiniteSet(U)
      BY <1>1 DEF C
    <3> QED BY <3>1, SmallestSet
  <2> DEFINE x == CHOOSE x \in T : TRUE
  <2>2. T \in SUBSET S /\ IsFiniteSet(T) /\ Sum(f, T) # 0
    BY <1>1
  <2>3. Sum(f, T) = IF T = {} THEN 0 ELSE f[x] + Sum(f, T \ {x})
    BY <2>2, SumOfChosen
  <2>4. T # {} => x \in T
    OBVIOUS
  <2> HIDE DEF x
  <2>5. T # {}
    BY <2>2, <2>3
  <2>6. IsFiniteSet(T \ {x}) /\ Cardinality(T \ {x}) < Cardinality(T)
    BY <2>2, <2>4, <2>5, OneLess
  <2>7. T \ {x} \notin C
    BY <2>1, <2>6
  <2>8. Sum(f, T \ {x}) = 0 /\ f[x] = 0
    BY <2>2, <2>4, <2>5, <2>7
  <2> QED BY <2>2, <2>3, <2>5, <2>8
<1>3. S \notin C
  BY <1>2
<1> QED BY <1>3

-----------------------------------------------------------------------------
StageNames ==
    {"coming", "sent", "queued", "started", "reconstructed", "coded", "packed", "finished"}
EntrySet ==
    [number : Nat, dependents : Int, used : BOOLEAN, available : BOOLEAN, updated : BOOLEAN,
     object : BOOLEAN]

\* The kernel has handled the picture's EB_PIC_INPUT.
Received(p) == stage[p] \notin {"coming", "sent"}
HasNumber(p, n) == ~stream[p].overlay /\ stream[p].number = n
\* The corrections still to be applied.
Waiting == {l \in AllLinks(stream) : stage[l.by] \in {"coming", "sent"}}
Pending == Waiting \cup links

CountTypes ==
    /\ stream \in Streams
    /\ stage \in [Pictures -> StageNames]
    /\ walk \in Nat \ {0} /\ inputQueue \in Seq(Pictures)
    /\ entries \in Seq(EntrySet) /\ head \in 1..Len(entries) + 1
    /\ links \subseteq AllLinks(stream)

\* The entries are those of the pictures that were received, one each.
EntriesMatch ==
    /\ \A i \in DOMAIN entries : \E p \in Pictures : HasNumber(p, entries[i].number) /\ Received(p)
    /\ \A i, j \in DOMAIN entries : entries[i].number = entries[j].number => i = j
    /\ \A p \in Pictures : ~stream[p].overlay /\ Received(p) =>
          \E i \in DOMAIN entries : entries[i].number = stream[p].number

\* A correction that was received waits as long as there is no entry for it.
LinksWait ==
    /\ \A l \in links : Received(l.by)
    /\ \A l \in AllLinks(stream) : Received(l.by) =>
          l \in links \/ \E i \in DOMAIN entries : entries[i].number = l.number

\* A picture that was started has found its references.
StartedKnow ==
    \A p \in Pictures : Started(p) => \A i \in DOMAIN stream[p].refs :
        \E e \in DOMAIN entries : entries[e].number = stream[p].refs[i]

CountInvariant ==
    CountTypes /\ EntriesMatch /\ LinksWait /\ StartedKnow /\ DependentsAreExact

-----------------------------------------------------------------------------
(* What the assumptions say of a stream.                                   *)

LEMMA PictureFacts ==
    ASSUME NEW s \in Streams
    PROVE  /\ IsFiniteSet(DOMAIN s)
           /\ \A p \in DOMAIN s :
                 /\ s[p].number \in Nat /\ s[p].order \in Nat /\ s[p].refs \in Seq(Nat)
                 /\ s[p].used \in BOOLEAN /\ s[p].overlay \in BOOLEAN
                 /\ s[p].promised \in Nat /\ s[p].self \in Int
                 /\ s[p].links \subseteq [number : Nat, diff : Int] /\ IsFiniteSet(s[p].links)
<1>1. /\ IsFiniteSet(DOMAIN s)
      /\ \A p \in DOMAIN s : s[p] \in Decisions /\ IsFiniteSet(s[p].links)
  BY StreamAssumption
<1>2. \A d \in Decisions :
         /\ d.number \in Nat /\ d.order \in Nat /\ d.refs \in Seq(Nat)
         /\ d.used \in BOOLEAN /\ d.overlay \in BOOLEAN /\ d.promised \in Nat /\ d.self \in Int
         /\ d.links \subseteq [number : Nat, diff : Int]
  BY DEF Decisions
<1> QED BY <1>1, <1>2

LEMMA NumbersAreUnique ==
    ASSUME NEW s \in Streams, NEW p \in DOMAIN s, NEW q \in DOMAIN s,
           s[p].number = s[q].number, ~s[p].overlay, ~s[q].overlay
    PROVE  p = q
BY StreamAssumption

\* The owner of a number.
LEMMA OwnerIs ==
    ASSUME NEW s \in Streams, NEW p \in DOMAIN s, ~s[p].overlay
    PROVE  Owner(s, s[p].number) = p
<1> DEFINE o == Owner(s, s[p].number)
<1>1. o \in DOMAIN s /\ s[o].number = s[p].number /\ ~s[o].overlay
  BY DEF Owner
<1> QED BY <1>1, NumbersAreUnique

\* A reference has an owner, earlier in decode order.
LEMMA ReferenceFacts ==
    ASSUME NEW s \in Streams, NEW p \in DOMAIN s, NEW i \in DOMAIN s[p].refs
    PROVE  LET r == Owner(s, s[p].refs[i])
           IN  r \in DOMAIN s /\ ~s[r].overlay /\ s[r].number = s[p].refs[i] /\ s[r].used
                  /\ s[r].order < s[p].order
<1>1. PICK r \in DOMAIN s : ~s[r].overlay /\ s[r].number = s[p].refs[i] /\ s[r].order < s[p].order
  BY StreamAssumption DEF ComesBefore
<1>2. Owner(s, s[p].refs[i]) = r
  BY <1>1, OwnerIs
<1>3. s[r].used
  BY <1>2, StreamAssumption
<1> QED BY <1>1, <1>2, <1>3

LEMMA LinkFacts ==
    ASSUME NEW s \in Streams
    PROVE  /\ IsFiniteSet(AllLinks(s))
           /\ \A l \in AllLinks(s) : /\ l.by \in DOMAIN s /\ l.number \in Nat /\ l.diff \in Int
                                     /\ ComesBefore(s, l.number, l.by)
<1> DEFINE Of(p) == {[by |-> p, number |-> l.number, diff |-> l.diff] : l \in s[p].links}
<1> DEFINE All == {Of(p) : p \in DOMAIN s}
<1>1. \A p \in DOMAIN s : IsFiniteSet(Of(p))
  <2> TAKE p \in DOMAIN s
  <2> DEFINE f == [l \in s[p].links |-> [by |-> p, number |-> l.number, diff |-> l.diff]]
  <2>1. f \in Surjection(s[p].links, Of(p))
    BY DEF Surjection
  <2>2. IsFiniteSet(s[p].links)
    BY PictureFacts
  <2> HIDE DEF f, Of
  <2> QED BY <2>1, <2>2, FS_Surjection
<1>2. IsFiniteSet(All)
  <2> DEFINE f == [p \in DOMAIN s |-> Of(p)]
  <2> HIDE DEF Of
  <2>1. f \in Surjection(DOMAIN s, All)
    BY DEF Surjection
  <2>2. IsFiniteSet(DOMAIN s)
    BY PictureFacts
  <2> HIDE DEF f, All
  <2> QED BY <2>1, <2>2, FS_Surjection
<1>3. IsFiniteSet(UNION All)
  <2>1. \A T \in All : IsFiniteSet(T)
    BY <1>1
  <2> HIDE DEF All
  <2> QED BY <1>2, <2>1, FS_UNION
<1>4. AllLinks(s) = UNION All
  BY DEF AllLinks
<1>5. \A l \in AllLinks(s) : \E p \in DOMAIN s : \E k \in s[p].links :
         l = [by |-> p, number |-> k.number, diff |-> k.diff]
  BY DEF AllLinks
<1>6. \A p \in DOMAIN s : \A k \in s[p].links :
         k.number \in Nat /\ k.diff \in Int /\ ComesBefore(s, k.number, p)
  <2> TAKE p \in DOMAIN s
  <2> TAKE k \in s[p].links
  <2>1. k \in [number : Nat, diff : Int]
    BY PictureFacts
  <2>2. ComesBefore(s, k.number, p)
    BY StreamAssumption
  <2> QED BY <2>1, <2>2
<1>7. \A l \in AllLinks(s) : /\ l.by \in DOMAIN s /\ l.number \in Nat /\ l.diff \in Int
                             /\ ComesBefore(s, l.number, l.by)
  <2> TAKE l \in AllLinks(s)
  <2>1. PICK p \in DOMAIN s : \E k \in s[p].links : l = [by |-> p, number |-> k.number, diff |-> k.diff]
    BY <1>5
  <2>2. PICK k \in s[p].links : l = [by |-> p, number |-> k.number, diff |-> k.diff]
    BY <2>1
  <2>3. l.by = p /\ l.number = k.number /\ l.diff = k.diff
    BY <2>2
  <2> QED BY <1>6, <2>3
<1> HIDE DEF All
<1> QED BY <1>3, <1>4, <1>7

-----------------------------------------------------------------------------
(* The sums.                                                               *)

LEMMA TimesReferredIsNumber ==
    ASSUME NEW s \in Streams, NEW p \in DOMAIN s, NEW n
    PROVE  /\ TimesReferred(s[p], n) \in Nat
           /\ TimesReferred(s[p], n) = 0 <=> \A i \in DOMAIN s[p].refs : s[p].refs[i] # n
<1> DEFINE Places == {i \in DOMAIN s[p].refs : s[p].refs[i] = n}
<1>1. IsFiniteSet(1..Len(s[p].refs)) /\ Places \in SUBSET (1..Len(s[p].refs))
  <2>1. s[p].refs \in Seq(Nat)
    BY PictureFacts
  <2>2. DOMAIN s[p].refs = 1..Len(s[p].refs) /\ Len(s[p].refs) \in Nat
    BY <2>1
  <2> QED BY <2>2, FS_Interval
<1>2. IsFiniteSet(Places)
  BY <1>1, FS_Subset
<1>3. Cardinality(Places) \in Nat /\ (Cardinality(Places) = 0 <=> Places = {})
  <2> HIDE DEF Places
  <2> QED BY <1>2, FS_CardinalityType, FS_EmptySet
<1> QED BY <1>3 DEF TimesReferred

\* What the pictures of S refer to n is a number, and that of a part and of the rest.
LEMMA UsesOfParts ==
    ASSUME NEW s \in Streams, NEW S \in SUBSET DOMAIN s, NEW n
    PROVE  /\ Uses(s, S, n) \in Nat
           /\ \A p \in S : Uses(s, S, n) = TimesReferred(s[p], n) + Uses(s, S \ {p}, n)
           /\ \A B \in SUBSET S : Uses(s, S, n) = Uses(s, B, n) + Uses(s, S \ B, n)
           /\ (\A p \in S : TimesReferred(s[p], n) = 0) => Uses(s, S, n) = 0
<1> DEFINE f == [p \in DOMAIN s |-> TimesReferred(s[p], n)]
<1>1. \A p \in S : f[p] \in Nat /\ f[p] \in Int /\ f[p] = TimesReferred(s[p], n)
  BY TimesReferredIsNumber
<1>2. IsFiniteSet(S)
  BY PictureFacts, FS_Subset
<1>3. \A T : Uses(s, T, n) = Sum(f, T)
  BY DEF Uses, Sum, SumFunctionOnSet
<1> HIDE DEF f
<1>4. Sum(f, S) \in Nat
  BY <1>1, <1>2, SumIsNumber
<1>5. \A p \in S : Sum(f, S) = f[p] + Sum(f, S \ {p})
  BY <1>1, <1>2, SumSplits
<1>6. \A B \in SUBSET S : Sum(f, S) = Sum(f, B) + Sum(f, S \ B)
  BY <1>1, <1>2, SumOfParts
<1>7. (\A p \in S : TimesReferred(s[p], n) = 0) => Sum(f, S) = 0
  BY <1>1, <1>2, SumOfZeros
<1> QED BY <1>1, <1>3, <1>4, <1>5, <1>6, <1>7

\* What a set of corrections makes for n: the same of parts.
LEMMA TotalOfParts ==
    ASSUME NEW s \in Streams, NEW A \in SUBSET AllLinks(s), NEW n
    PROVE  /\ Total(A, n) \in Int
           /\ \A B \in SUBSET A : Total(A, n) = Total(B, n) + Total(A \ B, n)
<1> DEFINE f == [l \in AllLinks(s) |-> l.diff]
<1>1. \A l \in AllLinks(s) : f[l] \in Int
  BY LinkFacts
<1>2. \A B \in SUBSET A : IsFiniteSet(LinksOf(B, n))
  <2> TAKE B \in SUBSET A
  <2>1. LinksOf(B, n) \in SUBSET AllLinks(s)
    BY DEF LinksOf
  <2> QED BY <2>1, LinkFacts, FS_Subset
<1>3. \A B \in SUBSET A : Total(B, n) = Sum(f, LinksOf(B, n))
  <2> TAKE B \in SUBSET A
  <2> DEFINE g == [l \in LinksOf(B, n) |-> l.diff]
  <2>1. Total(B, n) = Sum(g, LinksOf(B, n))
    BY DEF Total, Sum, SumFunctionOnSet
  <2>2. \A l \in LinksOf(B, n) : g[l] = f[l]
    BY DEF LinksOf
  <2> HIDE DEF f, g
  <2>3. Sum(g, LinksOf(B, n)) = Sum(f, LinksOf(B, n))
    BY <1>2, <2>2, SumOfSame
  <2> QED BY <2>1, <2>3
<1>4. \A l \in LinksOf(A, n) : f[l] \in Int
  <2> HIDE DEF f
  <2> QED BY <1>1 DEF LinksOf
<1> HIDE DEF f
<1>5. Total(A, n) \in Int
  BY <1>2, <1>3, <1>4, SumIsInteger
<1>6. \A B \in SUBSET A : Total(A, n) = Total(B, n) + Total(A \ B, n)
  <2> TAKE B \in SUBSET A
  <2>1. LinksOf(B, n) \in SUBSET LinksOf(A, n)
    BY DEF LinksOf
  <2>2. LinksOf(A \ B, n) = LinksOf(A, n) \ LinksOf(B, n)
    BY DEF LinksOf
  <2>3. Sum(f, LinksOf(A, n)) = Sum(f, LinksOf(B, n)) + Sum(f, LinksOf(A, n) \ LinksOf(B, n))
    BY <1>2, <1>4, <2>1, SumOfParts
  <2>4. A \ B \in SUBSET A /\ A \in SUBSET A
    OBVIOUS
  <2> QED BY <1>3, <2>2, <2>3, <2>4
<1> QED BY <1>5, <1>6

\* No correction for n makes no difference.
LEMMA TotalOfNone ==
    ASSUME NEW A, NEW n, LinksOf(A, n) = {}
    PROVE  Total(A, n) = 0
<1>1. Total(A, n) = Sum([l \in LinksOf(A, n) |-> l.diff], {})
  BY DEF Total, Sum, SumFunctionOnSet
<1> QED BY <1>1, SumOfNothing

LEMMA SurplusIsInteger ==
    ASSUME NEW s \in Streams, NEW p \in DOMAIN s
    PROVE  Surplus(s, p) \in Int
<1>1. s[p].promised \in Int /\ s[p].self \in Int
  BY PictureFacts
<1>2. Total(AllLinks(s), s[p].number) \in Int
  BY TotalOfParts
<1>3. Uses(s, DOMAIN s, s[p].number) \in Int
  <2>1. DOMAIN s \in SUBSET DOMAIN s
    OBVIOUS
  <2>2. Uses(s, DOMAIN s, s[p].number) \in Nat
    BY <2>1, UsesOfParts
  <2> QED BY <2>2
<1> QED BY <1>1, <1>2, <1>3 DEF Surplus

LEMMA MapIsSequence ==
    ASSUME NEW T, NEW s \in Seq(T), NEW U, NEW f, f = [i \in DOMAIN s |-> f[i]],
           \A i \in DOMAIN s : f[i] \in U
    PROVE  f \in Seq(U) /\ DOMAIN f = DOMAIN s /\ Len(f) = Len(s)
<1>1. DOMAIN s = 1..Len(s) /\ Len(s) \in Nat
  OBVIOUS
<1>2. f \in [1..Len(s) -> U]
  BY <1>1
<1> QED BY <1>1, <1>2

-----------------------------------------------------------------------------
(* Exact counts.                                                           *)

\* DependentsAreExact for the entry i.
Exact(i) ==
    entries[i].dependents + Total(Pending, entries[i].number) =
        Uses(stream, Unstarted, entries[i].number) + Surplus(stream, Owner(stream, entries[i].number))

LEMMA ExactParts ==
    /\ DependentsAreExact <=> \A i \in DOMAIN entries : Exact(i)
    /\ DependentsAreExact' <=> \A i \in DOMAIN entries' : Exact(i)'
<1>1. DependentsAreExact <=> \A i \in DOMAIN entries : Exact(i)
  BY DEF DependentsAreExact, Exact, Pending, Waiting
<1>2. DependentsAreExact' <=> \A i \in DOMAIN entries' : Exact(i)'
  BY DEF DependentsAreExact, Exact, Pending, Waiting
<1> QED BY <1>1, <1>2

LEMMA EntryTypes ==
    ASSUME CountTypes
    PROVE  \A i \in DOMAIN entries :
              /\ i \in Nat /\ entries[i] \in EntrySet
              /\ entries[i].number \in Nat /\ entries[i].dependents \in Int
<1>1. entries \in Seq(EntrySet)
  BY DEF CountTypes
<1>2. \A i \in DOMAIN entries : i \in Nat /\ entries[i] \in EntrySet
  BY <1>1
<1> QED BY <1>2 DEF EntrySet

\* A step that neither starts nor receives a picture, and changes no count.
LEMMA CountStays ==
    ASSUME CountInvariant, CountTypes', stream' = stream, links' = links,
           DOMAIN entries' = DOMAIN entries,
           \A i \in DOMAIN entries : /\ entries'[i].number = entries[i].number
                                     /\ entries'[i].dependents = entries[i].dependents,
           \A p \in Pictures : (Received(p)' <=> Received(p)) /\ (Started(p)' <=> Started(p))
    PROVE  CountInvariant'
<1>1. EntriesMatch'
  BY DEF CountInvariant, EntriesMatch, HasNumber, Pictures
<1>2. LinksWait'
  <2>1. \A l \in AllLinks(stream) : l.by \in Pictures
    BY LinkFacts DEF CountInvariant, CountTypes, Pictures
  <2>2. \A l \in links : l.by \in Pictures
    BY <2>1 DEF CountInvariant, CountTypes
  <2> QED BY <2>1, <2>2 DEF CountInvariant, LinksWait
<1>3. StartedKnow'
  BY DEF CountInvariant, StartedKnow, Pictures
<1>4. DependentsAreExact'
  <2>1. Unstarted' = Unstarted
    BY DEF Unstarted, Pictures
  <2>2. Pending' = Pending
    <3>1. \A l \in AllLinks(stream) : l.by \in Pictures
      BY LinkFacts DEF CountInvariant, CountTypes, Pictures
    <3>2. \A l \in AllLinks(stream) :
             stage'[l.by] \in {"coming", "sent"} <=> stage[l.by] \in {"coming", "sent"}
      BY <3>1 DEF Received
    <3> QED BY <3>2 DEF Pending, Waiting
  <2>3. \A i \in DOMAIN entries : Exact(i)
    BY ExactParts DEF CountInvariant
  <2>4. \A i \in DOMAIN entries' : Exact(i)'
    BY <2>1, <2>2, <2>3 DEF Exact
  <2> QED BY <2>4, ExactParts
<1> QED BY <1>1, <1>2, <1>3, <1>4 DEF CountInvariant

\* A picture goes from one stage to the next.
LEMMA MoveFacts ==
    ASSUME CountTypes, NEW p \in Pictures, NEW from \in StageNames, NEW to \in StageNames,
           Move(p, from, to)
    PROVE  /\ stage[p] = from /\ stage'[p] = to
           /\ stage' \in [Pictures -> StageNames]
           /\ \A q \in Pictures : q # p => stage'[q] = stage[q]
BY DEF Move, CountTypes

\* The stages around the kernel.
LEMMA PipelineKeepsCounts ==
    ASSUME CountInvariant, NEW p \in Pictures, Arrive(p) \/ Pipeline(p)
    PROVE  CountInvariant'
<1>1. /\ stream' = stream /\ entries' = entries /\ links' = links /\ head' = head
      /\ walk' = walk /\ inputQueue' = inputQueue
  BY DEF Arrive, Pipeline, Reconstruct, CodeEntropy, Packetize, Finish, managerVars
<1>2. /\ stage' \in [Pictures -> StageNames]
      /\ \A q \in Pictures : (Received(q)' <=> Received(q)) /\ (Started(q)' <=> Started(q))
  <2>1. CASE Move(p, "coming", "sent")
    BY <2>1, MoveFacts DEF CountInvariant, Received, Started, StageNames
  <2>2. CASE Move(p, "started", "reconstructed")
    BY <2>2, MoveFacts DEF CountInvariant, Received, Started, StageNames
  <2>3. CASE Move(p, "reconstructed", "coded")
    BY <2>3, MoveFacts DEF CountInvariant, Received, Started, StageNames
  <2>4. CASE Move(p, "coded", "packed")
    BY <2>4, MoveFacts DEF CountInvariant, Received, Started, StageNames
  <2>5. CASE Move(p, "packed", "finished")
    BY <2>5, MoveFacts DEF CountInvariant, Received, Started, StageNames
  <2> QED BY <2>1, <2>2, <2>3, <2>4, <2>5 DEF Arrive, Pipeline, Reconstruct, CodeEntropy, Packetize, Finish
<1>3. CountTypes'
  BY <1>1, <1>2 DEF CountInvariant, CountTypes, Pictures
<1> QED BY <1>1, <1>2, <1>3, CountStays

LEMMA PassKeepsCounts ==
    ASSUME CountInvariant, Pass \/ MeetEnd \/ UNCHANGED vars
    PROVE  CountInvariant'
<1>1. /\ stream' = stream /\ entries' = entries /\ links' = links /\ head' = head
      /\ (walk' = walk \/ walk' = walk + 1) /\ inputQueue' = inputQueue /\ stage' = stage
  BY DEF Pass, MeetEnd, vars, managerVars
<1>2. CountTypes'
  BY <1>1 DEF CountInvariant, CountTypes, Pictures
<1>3. \A q \in Pictures : (Received(q)' <=> Received(q)) /\ (Started(q)' <=> Started(q))
  BY <1>1 DEF Received, Started
<1> QED BY <1>1, <1>2, <1>3, CountStays

\* The walk over the reference queue.
Gone == {i \in head..Len(entries) : Unneeded(entries[i])}

LEMMA RetireFacts ==
    ASSUME CountTypes, Retire
    PROVE  /\ DOMAIN entries' = DOMAIN entries /\ Len(entries') = Len(entries)
           /\ entries' \in Seq(EntrySet)
           /\ \A i \in DOMAIN entries :
                 entries'[i] = IF i \in Gone THEN Released(entries[i]) ELSE entries[i]
           /\ head' \in 1..Len(entries) + 1 /\ head' >= head
           /\ stream' = stream /\ links' = links /\ stage' = stage /\ inbox' = inbox
           /\ inputQueue' = inputQueue /\ walk' = 1
           /\ live' = [r \in Pictures |-> live[r] -
                          Count(\E i \in Gone : Owner(stream, entries[i].number) = r)]
<1>1. entries' = [i \in DOMAIN entries |-> IF i \in Gone THEN Released(entries[i]) ELSE entries[i]]
  BY DEF Retire, Gone
<1>2. \A i \in DOMAIN entries : entries'[i] \in EntrySet
  <2>1. \A e \in EntrySet : Released(e) \in EntrySet
    BY DEF Released, EntrySet
  <2>2. \A i \in DOMAIN entries : entries[i] \in EntrySet
    BY EntryTypes
  <2> QED BY <1>1, <2>1, <2>2
<1>3. entries' \in Seq(EntrySet) /\ DOMAIN entries' = DOMAIN entries /\ Len(entries') = Len(entries)
  <2>1. entries \in Seq(EntrySet) /\ entries' = [i \in DOMAIN entries |-> entries'[i]]
    BY <1>1 DEF CountTypes
  <2> QED BY <1>2, <2>1, MapIsSequence
<1>4. head' \in 1..Len(entries) + 1 /\ head' >= head
  <2> DEFINE holding == {i \in head..Len(entries) : Holds(entries'[i])}
  <2>1. Len(entries) \in Nat /\ head \in 1..Len(entries) + 1
    BY DEF CountTypes
  <2>2. head' = IF holding = {} THEN Len(entries) + 1 ELSE CHOOSE i \in holding : \A j \in holding : i \leq j
    BY <1>1 DEF Retire, Gone
  <2>3. CASE holding = {}
    BY <2>1, <2>2, <2>3
  <2>4. CASE holding # {}
    <3>1. holding \in SUBSET Nat
      BY <2>1
    <3> HIDE DEF holding
    <3>2. \E i \in holding : \A j \in holding : i <= j
      BY <2>4, <3>1, Least
    <3>3. head' \in holding
      BY <2>2, <2>4, <3>2
    <3> QED BY <2>1, <3>3 DEF holding
  <2> QED BY <2>3, <2>4
<1> QED BY <1>1, <1>3, <1>4 DEF Retire, Gone

LEMMA RetireKeepsCounts ==
    ASSUME CountInvariant, Retire
    PROVE  CountInvariant'
<1>1. CountTypes
  BY DEF CountInvariant
<1>2. CountTypes'
  <2>1. /\ stream' = stream /\ links' = links /\ stage' = stage
        /\ inputQueue' = inputQueue /\ walk' = 1
        /\ entries' \in Seq(EntrySet) /\ Len(entries') = Len(entries)
        /\ head' \in 1..Len(entries) + 1
    BY <1>1, RetireFacts
  <2>2. head' \in 1..Len(entries') + 1
    BY <2>1
  <2> QED BY <1>1, <2>1, <2>2 DEF CountTypes, Pictures
<1>3. \A i \in DOMAIN entries : /\ entries'[i].number = entries[i].number
                                /\ entries'[i].dependents = entries[i].dependents
  <2>1. \A e \in EntrySet : Released(e).number = e.number /\ Released(e).dependents = e.dependents
    BY DEF Released, EntrySet
  <2> QED BY <1>1, <2>1, RetireFacts, EntryTypes
<1>4. \A p \in Pictures : (Received(p)' <=> Received(p)) /\ (Started(p)' <=> Started(p))
  BY <1>1, RetireFacts DEF Received, Started
<1> QED BY <1>1, <1>2, <1>3, <1>4, RetireFacts, CountStays

\* The corrections are applied to the entries that are searched, and the others left.
CleanStep(ls) ==
    /\ links' = LinksLeft(ls)
    /\ \A i \in DOMAIN entries :
          /\ i \in DOMAIN entries'
          /\ entries'[i].number = entries[i].number
          /\ entries'[i].dependents = entries[i].dependents +
                (IF i \in Searched(entries, head) THEN Total(ls, entries[i].number) ELSE 0)

LEMMA SearchedFacts ==
    ASSUME CountTypes
    PROVE  Searched(entries, head) \subseteq DOMAIN entries
<1>1. DOMAIN entries = 1..Len(entries) /\ Len(entries) \in Nat /\ head \in Nat \ {0}
  BY DEF CountTypes
<1> QED BY <1>1 DEF Searched

\* A search finds the entry of a number, if it looks at it.
LEMMA FoundFacts ==
    ASSUME CountInvariant, NEW i \in DOMAIN entries
    PROVE  Found(entries, head, entries[i].number) = IF i \in Searched(entries, head) THEN {i} ELSE {}
<1>1. Searched(entries, head) \subseteq DOMAIN entries
  BY SearchedFacts DEF CountInvariant
<1>2. \A j \in DOMAIN entries : entries[j].number = entries[i].number => j = i
  BY DEF CountInvariant, EntriesMatch
<1> QED BY <1>1, <1>2 DEF Found

LEMMA PendingLeft ==
    ASSUME CountInvariant, NEW ls \in SUBSET Pending, links \subseteq ls, NEW i \in DOMAIN entries,
           NEW P, P = (Pending \ ls) \cup LinksLeft(ls)
    PROVE  Total(Pending, entries[i].number) = Total(P, entries[i].number) +
              (IF i \in Searched(entries, head) THEN Total(ls, entries[i].number) ELSE 0)
<1> DEFINE n == entries[i].number
<1>1. Pending \in SUBSET AllLinks(stream) /\ stream \in Streams
  BY DEF Pending, Waiting, CountInvariant, CountTypes
<1>2. CASE i \in Searched(entries, head)
  <2>1. Found(entries, head, n) # {}
    BY <1>2, FoundFacts
  <2>2. LinksOf(P, n) = LinksOf(Pending \ ls, n)
    BY <2>1 DEF LinksOf, LinksLeft
  <2>3. Total(P, n) = Total(Pending \ ls, n)
    BY <2>2 DEF Total
  <2>4. Total(Pending, n) = Total(ls, n) + Total(Pending \ ls, n)
    BY <1>1, TotalOfParts
  <2>5. Total(ls, n) \in Int /\ Total(Pending \ ls, n) \in Int
    <3>1. ls \in SUBSET AllLinks(stream) /\ Pending \ ls \in SUBSET AllLinks(stream)
      BY <1>1
    <3> QED BY <1>1, <3>1, TotalOfParts
  <2> QED BY <1>2, <2>3, <2>4, <2>5
<1>3. CASE i \notin Searched(entries, head)
  <2>1. Found(entries, head, n) = {}
    BY <1>3, FoundFacts
  <2>2. LinksOf(P, n) = LinksOf(Pending, n)
    BY <2>1 DEF LinksOf, LinksLeft
  <2>3. Total(P, n) = Total(Pending, n)
    BY <2>2 DEF Total
  <2>4. Total(Pending, n) \in Int
    BY <1>1, TotalOfParts
  <2> QED BY <1>3, <2>3, <2>4
<1> QED BY <1>2, <1>3

LEMMA CleaningKeepsExact ==
    ASSUME CountInvariant, NEW ls \in SUBSET Pending, links \subseteq ls, CleanStep(ls),
           Pending' = (Pending \ ls) \cup LinksLeft(ls),
           Unstarted' = Unstarted, stream' = stream, NEW i \in DOMAIN entries
    PROVE  Exact(i)'
<1> DEFINE n == entries[i].number
<1> DEFINE x == IF i \in Searched(entries, head) THEN Total(ls, n) ELSE 0
<1>1. Exact(i)
  BY ExactParts DEF CountInvariant
<1>2. Total(Pending, n) = Total(Pending', n) + x
  BY PendingLeft
<1>3. entries'[i].number = n /\ entries'[i].dependents = entries[i].dependents + x
  BY DEF CleanStep
<1>4. entries[i].dependents \in Int
  BY EntryTypes DEF CountInvariant
<1>5. x \in Int /\ Total(Pending', n) \in Int
  <2>1. Pending \in SUBSET AllLinks(stream) /\ stream \in Streams
    BY DEF Pending, Waiting, CountInvariant, CountTypes
  <2>2. ls \in SUBSET AllLinks(stream) /\ Pending' \in SUBSET AllLinks(stream)
    BY <2>1 DEF LinksLeft
  <2>3. Total(ls, n) \in Int /\ Total(Pending', n) \in Int
    BY <2>1, <2>2, TotalOfParts
  <2> QED BY <2>3
<1>6. entries'[i].dependents + Total(Pending', n) = entries[i].dependents + Total(Pending, n)
  <2> HIDE DEF x, n
  <2> QED BY <1>2, <1>3, <1>4, <1>5
<1>7. entries'[i].dependents + Total(Pending', n) =
         Uses(stream', Unstarted', n) + Surplus(stream', Owner(stream', n))
  BY <1>1, <1>6 DEF Exact
<1> QED BY <1>3, <1>7 DEF Exact

\* What is left of an entry when the corrections ls are applied.
LEMMA CleanedFacts ==
    ASSUME CountTypes, NEW ls \in SUBSET AllLinks(stream)
    PROVE  /\ Cleaned(ls) \in Seq(EntrySet) /\ DOMAIN Cleaned(ls) = DOMAIN entries
           /\ Len(Cleaned(ls)) = Len(entries)
           /\ \A i \in DOMAIN entries :
                 /\ Cleaned(ls)[i] \in EntrySet
                 /\ Cleaned(ls)[i].number = entries[i].number
                 /\ Cleaned(ls)[i].dependents = entries[i].dependents +
                      (IF i \in Searched(entries, head) THEN Total(ls, entries[i].number) ELSE 0)
                 /\ Cleaned(ls)[i].used = entries[i].used
                 /\ Cleaned(ls)[i].available = entries[i].available
                 /\ Cleaned(ls)[i].object = entries[i].object
<1>1. \A i \in DOMAIN entries : entries[i] \in EntrySet /\ Total(ls, entries[i].number) \in Int
  BY EntryTypes, TotalOfParts DEF CountTypes
<1>2. \A e \in EntrySet : \A x \in Int :
         LET f == [e EXCEPT !.dependents = @ + x]
         IN  /\ f \in EntrySet /\ f.number = e.number /\ f.dependents = e.dependents + x
             /\ f.used = e.used /\ f.available = e.available /\ f.object = e.object
  BY DEF EntrySet
<1>3. \A e \in EntrySet : e.dependents + 0 = e.dependents
  BY DEF EntrySet
<1>4. \A i \in DOMAIN entries : Cleaned(ls)[i] =
         IF i \in Searched(entries, head)
         THEN [entries[i] EXCEPT !.dependents = @ + Total(ls, entries[i].number)]
         ELSE entries[i]
  BY DEF Cleaned
<1>5. \A i \in DOMAIN entries :
         /\ Cleaned(ls)[i] \in EntrySet
         /\ Cleaned(ls)[i].number = entries[i].number
         /\ Cleaned(ls)[i].dependents = entries[i].dependents +
              (IF i \in Searched(entries, head) THEN Total(ls, entries[i].number) ELSE 0)
         /\ Cleaned(ls)[i].used = entries[i].used
         /\ Cleaned(ls)[i].available = entries[i].available
         /\ Cleaned(ls)[i].object = entries[i].object
  <2> TAKE i \in DOMAIN entries
  <2> DEFINE e == entries[i]
  <2> DEFINE x == Total(ls, e.number)
  <2>1. e \in EntrySet /\ x \in Int
    BY <1>1
  <2>2. Cleaned(ls)[i] =
           IF i \in Searched(entries, head) THEN [e EXCEPT !.dependents = @ + x] ELSE e
    BY <1>4
  <2> HIDE DEF x, e
  <2>3. CASE i \in Searched(entries, head)
    <3>1. Cleaned(ls)[i] = [e EXCEPT !.dependents = @ + x]
      BY <2>2, <2>3
    <3> QED BY <1>2, <2>1, <2>3, <3>1 DEF x, e
  <2>4. CASE i \notin Searched(entries, head)
    BY <1>3, <2>1, <2>2, <2>4 DEF e
  <2> QED BY <2>3, <2>4
<1>6. entries \in Seq(EntrySet) /\ Cleaned(ls) = [i \in DOMAIN entries |-> Cleaned(ls)[i]]
  BY DEF CountTypes, Cleaned
<1>7. /\ Cleaned(ls) \in Seq(EntrySet) /\ DOMAIN Cleaned(ls) = DOMAIN entries
      /\ Len(Cleaned(ls)) = Len(entries)
  BY <1>5, <1>6, MapIsSequence
<1> QED BY <1>5, <1>7

\* The entries of a reference that is complete, and of one that is fed back.
LEMMA FoundInCleaned ==
    ASSUME CountTypes, NEW ls \in SUBSET AllLinks(stream), NEW n
    PROVE  Found(Cleaned(ls), head, n) = Found(entries, head, n)
<1>1. Searched(Cleaned(ls), head) = Searched(entries, head)
  BY CleanedFacts DEF Searched
<1>2. \A i \in Searched(entries, head) : Cleaned(ls)[i].number = entries[i].number
  BY CleanedFacts, SearchedFacts
<1> QED BY <1>1, <1>2 DEF Found

LEMMA ReceiveReferenceFacts ==
    ASSUME CountTypes, NEW p \in Pictures, ReceiveReference(p)
    PROVE  /\ entries' \in Seq(EntrySet) /\ DOMAIN entries' = DOMAIN entries
           /\ Len(entries') = Len(entries) /\ CleanStep(links)
           /\ \A i \in DOMAIN entries :
                 /\ entries'[i].used = entries[i].used
                 /\ IF i \in Found(entries, head, stream[p].number)
                    THEN entries'[i].available /\ entries'[i].object
                    ELSE /\ entries'[i].available = entries[i].available
                         /\ entries'[i].object = entries[i].object
<1>1. links \in SUBSET AllLinks(stream)
  BY DEF CountTypes
<1> DEFINE es == Cleaned(links)
<1> DEFINE found == Found(entries, head, stream[p].number)
<1>2. /\ es \in Seq(EntrySet) /\ DOMAIN es = DOMAIN entries /\ Len(es) = Len(entries)
      /\ \A i \in DOMAIN entries :
            /\ es[i] \in EntrySet
            /\ es[i].number = entries[i].number
            /\ es[i].dependents = entries[i].dependents +
                 (IF i \in Searched(entries, head) THEN Total(links, entries[i].number) ELSE 0)
            /\ es[i].used = entries[i].used
            /\ es[i].available = entries[i].available
            /\ es[i].object = entries[i].object
  BY <1>1, CleanedFacts
<1>3. Found(es, head, stream[p].number) = found
  BY <1>1, FoundInCleaned
<1>4. /\ entries' = [i \in DOMAIN es |-> IF i \in Found(es, head, stream[p].number)
                          THEN [es[i] EXCEPT !.available = TRUE, !.object = TRUE] ELSE es[i]]
      /\ links' = LinksLeft(links)
  BY DEF ReceiveReference
<1> HIDE DEF es, found
<1>5. \A e \in EntrySet :
         LET f == [e EXCEPT !.available = TRUE, !.object = TRUE]
         IN  /\ f \in EntrySet /\ f.number = e.number /\ f.dependents = e.dependents
             /\ f.used = e.used /\ f.available /\ f.object
  BY DEF EntrySet
<1>6. \A i \in DOMAIN entries : entries'[i] =
         IF i \in found THEN [es[i] EXCEPT !.available = TRUE, !.object = TRUE] ELSE es[i]
  BY <1>2, <1>3, <1>4
<1>7. \A i \in DOMAIN entries :
         /\ entries'[i] \in EntrySet /\ entries'[i].number = es[i].number
         /\ entries'[i].dependents = es[i].dependents /\ entries'[i].used = es[i].used
         /\ IF i \in found THEN entries'[i].available /\ entries'[i].object
            ELSE entries'[i].available = es[i].available /\ entries'[i].object = es[i].object
  BY <1>2, <1>5, <1>6
<1>8. entries' \in Seq(EntrySet) /\ DOMAIN entries' = DOMAIN es /\ Len(entries') = Len(es)
  <2>1. entries' = [i \in DOMAIN es |-> entries'[i]]
    BY <1>4
  <2> QED BY <1>2, <1>7, <2>1, MapIsSequence
<1>9. CleanStep(links)
  BY <1>2, <1>4, <1>7, <1>8 DEF CleanStep
<1> QED BY <1>2, <1>7, <1>8, <1>9 DEF found

LEMMA ReceiveFeedbackFacts ==
    ASSUME CountTypes, NEW p \in Pictures, ReceiveFeedback(p)
    PROVE  /\ entries' \in Seq(EntrySet) /\ DOMAIN entries' = DOMAIN entries
           /\ Len(entries') = Len(entries) /\ CleanStep(links)
           /\ \A i \in DOMAIN entries :
                 /\ entries'[i].used = entries[i].used
                 /\ entries'[i].available = entries[i].available
                 /\ entries'[i].object = entries[i].object
<1>1. links \in SUBSET AllLinks(stream)
  BY DEF CountTypes
<1> DEFINE es == Cleaned(links)
<1> DEFINE found == Found(es, head, stream[p].number)
<1>2. /\ es \in Seq(EntrySet) /\ DOMAIN es = DOMAIN entries /\ Len(es) = Len(entries)
      /\ \A i \in DOMAIN entries :
            /\ es[i] \in EntrySet
            /\ es[i].number = entries[i].number
            /\ es[i].dependents = entries[i].dependents +
                 (IF i \in Searched(entries, head) THEN Total(links, entries[i].number) ELSE 0)
            /\ es[i].used = entries[i].used
            /\ es[i].available = entries[i].available
            /\ es[i].object = entries[i].object
  BY <1>1, CleanedFacts
<1>3. /\ entries' = [i \in DOMAIN es |-> IF i \in found THEN [es[i] EXCEPT !.updated = TRUE] ELSE es[i]]
      /\ links' = LinksLeft(links)
  BY DEF ReceiveFeedback
<1> HIDE DEF es, found
<1>4. \A e \in EntrySet :
         LET f == [e EXCEPT !.updated = TRUE]
         IN  /\ f \in EntrySet /\ f.number = e.number /\ f.dependents = e.dependents
             /\ f.used = e.used /\ f.available = e.available /\ f.object = e.object
  BY DEF EntrySet
<1>5. \A i \in DOMAIN entries : entries'[i] =
         IF i \in found THEN [es[i] EXCEPT !.updated = TRUE] ELSE es[i]
  BY <1>2, <1>3
<1>6. \A i \in DOMAIN entries :
         /\ entries'[i] \in EntrySet /\ entries'[i].number = es[i].number
         /\ entries'[i].dependents = es[i].dependents /\ entries'[i].used = es[i].used
         /\ entries'[i].available = es[i].available /\ entries'[i].object = es[i].object
  <2> TAKE i \in DOMAIN entries
  <2>1. es[i] \in EntrySet
    BY <1>2
  <2>2. CASE i \in found
    <3>1. entries'[i] = [es[i] EXCEPT !.updated = TRUE]
      BY <1>5, <2>2
    <3> QED BY ONLY <1>4, <2>1, <3>1
  <2>3. CASE i \notin found
    <3>1. entries'[i] = es[i]
      BY <1>5, <2>3
    <3> QED BY ONLY <2>1, <3>1
  <2> QED BY <2>2, <2>3
<1>7. entries' \in Seq(EntrySet) /\ DOMAIN entries' = DOMAIN es /\ Len(entries') = Len(es)
  <2>1. entries' = [i \in DOMAIN es |-> entries'[i]]
    BY <1>3
  <2> QED BY <1>2, <1>6, <2>1, MapIsSequence
<1>8. CleanStep(links)
  BY <1>2, <1>3, <1>6, <1>7 DEF CleanStep
<1> QED BY <1>2, <1>6, <1>7, <1>8

\* What both leave as it is.
LEMMA ReceiveOtherFacts ==
    ASSUME NEW p \in Pictures, ReceiveReference(p) \/ ReceiveFeedback(p)
    PROVE  /\ stream' = stream /\ stage' = stage /\ head' = head /\ walk' = 1
           /\ inputQueue' = inputQueue /\ live' = live /\ inbox # <<>> /\ inbox' = Tail(inbox)
           /\ freeChild' = freeChild
BY DEF ReceiveReference, ReceiveFeedback, Receive

LEMMA ReceiveOtherKeepsCounts ==
    ASSUME CountInvariant, NEW p \in Pictures, ReceiveReference(p) \/ ReceiveFeedback(p)
    PROVE  CountInvariant'
<1>1. CountTypes
  BY DEF CountInvariant
<1>2. /\ entries' \in Seq(EntrySet) /\ DOMAIN entries' = DOMAIN entries
      /\ Len(entries') = Len(entries) /\ CleanStep(links)
  <2>1. CASE ReceiveReference(p)
    BY <1>1, <2>1, ReceiveReferenceFacts
  <2>2. CASE ReceiveFeedback(p)
    BY <1>1, <2>2, ReceiveFeedbackFacts
  <2> QED BY <2>1, <2>2
<1>3. /\ stream' = stream /\ stage' = stage /\ head' = head /\ walk' = 1
      /\ inputQueue' = inputQueue
  BY ReceiveOtherFacts
<1>4. links' = LinksLeft(links) /\ links' \in SUBSET links
  BY <1>2 DEF CleanStep, LinksLeft
<1>5. CountTypes'
  BY <1>1, <1>2, <1>3, <1>4 DEF CountTypes, Pictures
<1>6. EntriesMatch'
  <2>1. \A i \in DOMAIN entries : entries'[i].number = entries[i].number
    BY <1>2 DEF CleanStep
  <2> QED BY <1>2, <1>3, <2>1 DEF CountInvariant, EntriesMatch, HasNumber, Received, Pictures
<1>7. LinksWait'
  <2>1. \A i \in DOMAIN entries' : entries'[i].number = entries[i].number
    BY <1>2 DEF CleanStep
  <2>2. Searched(entries, head) \subseteq DOMAIN entries
    BY <1>1, SearchedFacts
  <2>3. \A l \in links : l \in links' \/ \E i \in DOMAIN entries : entries[i].number = l.number
    BY <1>4, <2>2 DEF LinksLeft, Found
  <2> QED BY <1>2, <1>3, <1>4, <2>1, <2>3 DEF CountInvariant, LinksWait, Received
<1>8. StartedKnow'
  <2>1. \A i \in DOMAIN entries : entries'[i].number = entries[i].number
    BY <1>2 DEF CleanStep
  <2> QED BY <1>2, <1>3, <2>1 DEF CountInvariant, StartedKnow, Started, Pictures
<1>9. DependentsAreExact'
  <2>1. Waiting' = Waiting /\ Unstarted' = Unstarted
    BY <1>3 DEF Waiting, Unstarted, Started, Pictures
  <2>2. \A l \in links : l \notin Waiting
    BY DEF CountInvariant, LinksWait, Received, Waiting
  <2>3. Pending' = (Pending \ links) \cup LinksLeft(links)
    BY <1>4, <2>1, <2>2 DEF Pending
  <2>4. links \in SUBSET Pending
    BY DEF Pending
  <2>5. \A i \in DOMAIN entries : Exact(i)'
    BY <1>2, <1>3, <2>1, <2>3, <2>4, CleaningKeepsExact
  <2> QED BY <1>2, <2>5, ExactParts
<1> QED BY <1>5, <1>6, <1>7, <1>8, <1>9 DEF CountInvariant

\* The corrections a picture brings.
LinksBy(p) == {l \in AllLinks(stream) : l.by = p}

LEMMA NewEntryFacts ==
    ASSUME CountTypes, NEW p \in Pictures
    PROVE  /\ NewEntry(p) \in EntrySet /\ NewEntry(p).number = stream[p].number
           /\ NewEntry(p).dependents = stream[p].promised + stream[p].self
           /\ NewEntry(p).used = stream[p].used
           /\ NewEntry(p).available = FALSE /\ NewEntry(p).object = FALSE
<1>1. /\ stream[p].number \in Nat /\ stream[p].promised \in Nat /\ stream[p].self \in Int
      /\ stream[p].used \in BOOLEAN
  BY PictureFacts DEF CountTypes, Pictures
<1> QED BY <1>1 DEF NewEntry, Promised, EntrySet

LEMMA ReceiveInputFacts ==
    ASSUME CountTypes, NEW p \in Pictures, ReceiveInput(p)
    PROVE  /\ entries' \in Seq(EntrySet)
           /\ DOMAIN entries' =
                 IF stream[p].overlay THEN DOMAIN entries ELSE DOMAIN entries \cup {Len(entries) + 1}
           /\ Len(entries') = IF stream[p].overlay THEN Len(entries) ELSE Len(entries) + 1
           /\ CleanStep(links \cup LinksBy(p))
           /\ \A i \in DOMAIN entries :
                 /\ i # Len(entries) + 1
                 /\ entries'[i].used = entries[i].used
                 /\ entries'[i].available = entries[i].available
                 /\ entries'[i].object = entries[i].object
           /\ ~stream[p].overlay => entries'[Len(entries) + 1] = NewEntry(p)
           /\ stage[p] = "sent" /\ stage'[p] = "queued"
           /\ stage' \in [Pictures -> StageNames]
           /\ \A q \in Pictures : q # p => stage'[q] = stage[q]
           /\ stream' = stream /\ head' = head /\ walk' = 1 /\ live' = live
           /\ inputQueue' = Append(inputQueue, p) /\ inbox # <<>> /\ inbox' = Tail(inbox)
           /\ Head(inbox) = [type |-> "INPUT", pic |-> p]
<1> DEFINE ls == links \cup LinksBy(p)
<1> DEFINE es == Cleaned(ls)
<1>1. ls \in SUBSET AllLinks(stream)
  BY DEF CountTypes, LinksBy
<1>2. /\ es \in Seq(EntrySet) /\ DOMAIN es = DOMAIN entries /\ Len(es) = Len(entries)
      /\ \A i \in DOMAIN entries :
            /\ es[i] \in EntrySet
            /\ es[i].number = entries[i].number
            /\ es[i].dependents = entries[i].dependents +
                 (IF i \in Searched(entries, head) THEN Total(ls, entries[i].number) ELSE 0)
            /\ es[i].used = entries[i].used
            /\ es[i].available = entries[i].available
            /\ es[i].object = entries[i].object
  <2> HIDE DEF ls
  <2> QED BY <1>1, CleanedFacts
<1>3. /\ entries' = (IF stream[p].overlay THEN es ELSE Append(es, NewEntry(p)))
      /\ links' = LinksLeft(ls)
  BY DEF ReceiveInput, LinksBy
<1> HIDE DEF es
<1>4. NewEntry(p) \in EntrySet
  BY NewEntryFacts
<1>5. DOMAIN es = 1..Len(es) /\ Len(es) \in Nat
  BY <1>2
<1>6. /\ entries' \in Seq(EntrySet)
      /\ DOMAIN entries' = IF stream[p].overlay THEN DOMAIN entries ELSE DOMAIN entries \cup {Len(entries) + 1}
      /\ Len(entries') = IF stream[p].overlay THEN Len(entries) ELSE Len(entries) + 1
      /\ \A i \in DOMAIN entries : i # Len(entries) + 1 /\ entries'[i] = es[i]
      /\ ~stream[p].overlay => entries'[Len(entries) + 1] = NewEntry(p)
  <2>1. CASE stream[p].overlay
    <3>1. entries' = es
      BY <1>3, <2>1
    <3>2. \A i \in DOMAIN entries : i # Len(entries) + 1
      BY <1>2, <1>5
    <3> QED BY <1>2, <2>1, <3>1, <3>2
  <2>2. CASE ~stream[p].overlay
    <3>1. entries' = Append(es, NewEntry(p))
      BY <1>3, <2>2
    <3>2. Append(es, NewEntry(p)) \in Seq(EntrySet)
      BY <1>2, <1>4
    <3>3. Len(Append(es, NewEntry(p))) = Len(es) + 1
      BY <1>2
    <3>4. \A i \in 1..Len(es) : Append(es, NewEntry(p))[i] = es[i]
      BY <1>2
    <3>5. Append(es, NewEntry(p))[Len(es) + 1] = NewEntry(p)
      BY <1>2
    <3>6. DOMAIN entries' = 1..Len(es) + 1
      BY <3>1, <3>2, <3>3
    <3>7. DOMAIN entries' = DOMAIN entries \cup {Len(entries) + 1}
      BY <1>2, <1>5, <3>6
    <3>8. \A i \in DOMAIN entries : i # Len(entries) + 1 /\ entries'[i] = es[i]
      BY <1>2, <1>5, <3>1, <3>4
    <3>9. entries' \in Seq(EntrySet) /\ Len(entries') = Len(entries) + 1
      BY <1>2, <3>1, <3>2, <3>3
    <3>10. entries'[Len(entries) + 1] = NewEntry(p)
      BY <1>2, <3>1, <3>5
    <3> QED BY <2>2, <3>7, <3>8, <3>9, <3>10
  <2> QED BY <2>1, <2>2
<1>7. CleanStep(ls)
  <2>1. \A i \in DOMAIN entries : i \in DOMAIN entries'
    BY <1>6
  <2> QED BY <1>2, <1>3, <1>6, <2>1 DEF CleanStep
<1>8. \A i \in DOMAIN entries :
         /\ i # Len(entries) + 1
         /\ entries'[i].used = entries[i].used
         /\ entries'[i].available = entries[i].available
         /\ entries'[i].object = entries[i].object
  BY <1>2, <1>6
<1>9. /\ stage[p] = "sent" /\ stage'[p] = "queued"
      /\ stage' \in [Pictures -> StageNames]
      /\ \A q \in Pictures : q # p => stage'[q] = stage[q]
  <2>1. Move(p, "sent", "queued")
    BY DEF ReceiveInput
  <2> QED BY <2>1, MoveFacts DEF StageNames
<1>10. /\ stream' = stream /\ head' = head /\ walk' = 1 /\ live' = live
       /\ inputQueue' = Append(inputQueue, p) /\ inbox # <<>> /\ inbox' = Tail(inbox)
       /\ Head(inbox) = [type |-> "INPUT", pic |-> p]
  BY DEF ReceiveInput, Receive
<1> QED BY <1>6, <1>7, <1>8, <1>9, <1>10

LEMMA ReceiveInputKeepsCounts ==
    ASSUME CountInvariant, NEW p \in Pictures, ReceiveInput(p)
    PROVE  CountInvariant'
<1> DEFINE ls == links \cup LinksBy(p)
<1> DEFINE new == Len(entries) + 1
<1>1. CountTypes /\ stream \in Streams
  BY DEF CountInvariant, CountTypes
<1>2. /\ entries' \in Seq(EntrySet)
      /\ DOMAIN entries' = IF stream[p].overlay THEN DOMAIN entries ELSE DOMAIN entries \cup {new}
      /\ Len(entries') = IF stream[p].overlay THEN Len(entries) ELSE new
      /\ CleanStep(ls)
      /\ \A i \in DOMAIN entries : i # new
      /\ ~stream[p].overlay => entries'[new] = NewEntry(p)
      /\ stage[p] = "sent" /\ stage'[p] = "queued"
      /\ stage' \in [Pictures -> StageNames]
      /\ \A q \in Pictures : q # p => stage'[q] = stage[q]
      /\ stream' = stream /\ head' = head /\ walk' = 1
      /\ inputQueue' = Append(inputQueue, p)
  BY <1>1, ReceiveInputFacts
<1>3. links' = LinksLeft(ls) /\ links' \in SUBSET ls /\ ls \in SUBSET AllLinks(stream)
  BY <1>1, <1>2 DEF CleanStep, LinksLeft, CountTypes, LinksBy
<1>4. \A i \in DOMAIN entries : i \in DOMAIN entries' /\ entries'[i].number = entries[i].number
  BY <1>2 DEF CleanStep
<1>5. ~stream[p].overlay => new \in DOMAIN entries' /\ entries'[new].number = stream[p].number
  BY <1>1, <1>2, NewEntryFacts
<1>6. /\ \A q \in Pictures : (Started(q)' <=> Started(q)) /\ (Received(q) => Received(q)')
      /\ \A q \in Pictures : Received(q)' => Received(q) \/ q = p
      /\ ~Received(p) /\ Received(p)' /\ p \in Unstarted
  BY <1>2 DEF Started, Received, Unstarted
<1>7. \A l \in AllLinks(stream) : l.by \in Pictures
  BY <1>1, LinkFacts DEF Pictures
<1>8. ~stream[p].overlay => \A i \in DOMAIN entries : entries[i].number # stream[p].number
  <2> SUFFICES ASSUME ~stream[p].overlay, NEW i \in DOMAIN entries,
                      entries[i].number = stream[p].number
               PROVE  FALSE
    OBVIOUS
  <2>1. PICK q \in Pictures : HasNumber(q, entries[i].number) /\ Received(q)
    BY DEF CountInvariant, EntriesMatch
  <2>2. q = p
    BY <1>1, <2>1, NumbersAreUnique DEF HasNumber, Pictures
  <2> QED BY <1>6, <2>1, <2>2
<1>9. CountTypes'
  <2>1. inputQueue' \in Seq(Pictures)
    BY <1>1, <1>2 DEF CountTypes
  <2>2. head' \in 1..Len(entries') + 1
    <3>1. head \in 1..Len(entries) + 1 /\ Len(entries) \in Nat
      BY <1>1 DEF CountTypes
    <3> QED BY <1>2, <3>1
  <2>3. links' \subseteq AllLinks(stream')
    BY <1>2, <1>3
  <2>4. stream' \in Streams /\ stage' \in [Pictures' -> StageNames] /\ Pictures' = Pictures
    BY <1>1, <1>2 DEF Pictures
  <2> HIDE DEF ls, new
  <2> QED BY <1>2, <2>1, <2>2, <2>3, <2>4 DEF CountTypes
<1> HIDE DEF ls, new
<1>10. EntriesMatch'
  <2>1. \A i \in DOMAIN entries' : \E q \in Pictures : HasNumber(q, entries'[i].number) /\ Received(q)'
    <3> TAKE i \in DOMAIN entries'
    <3>1. CASE i \in DOMAIN entries
      <4>1. PICK q \in Pictures : HasNumber(q, entries[i].number) /\ Received(q)
        BY <3>1 DEF CountInvariant, EntriesMatch
      <4> QED BY <1>4, <1>6, <3>1, <4>1
    <3>2. CASE i \notin DOMAIN entries
      <4>1. ~stream[p].overlay /\ i = new
        BY <1>2, <3>2
      <4> QED BY <1>5, <1>6, <4>1 DEF HasNumber
    <3> QED BY <3>1, <3>2
  <2>2. \A i, j \in DOMAIN entries' : entries'[i].number = entries'[j].number => i = j
    <3>1. \A i, j \in DOMAIN entries : entries[i].number = entries[j].number => i = j
      BY DEF CountInvariant, EntriesMatch
    <3> QED BY <1>2, <1>4, <1>5, <1>8, <3>1
  <2>3. \A q \in Pictures : ~stream[q].overlay /\ Received(q)' =>
           \E i \in DOMAIN entries' : entries'[i].number = stream[q].number
    <3> TAKE q \in Pictures
    <3> SUFFICES ASSUME ~stream[q].overlay, Received(q)'
                 PROVE  \E i \in DOMAIN entries' : entries'[i].number = stream[q].number
      OBVIOUS
    <3>1. CASE q = p
      BY <1>5, <3>1
    <3>2. CASE q # p
      <4>1. Received(q)
        BY <1>6, <3>2
      <4>2. PICK i \in DOMAIN entries : entries[i].number = stream[q].number
        BY <4>1 DEF CountInvariant, EntriesMatch
      <4> QED BY <1>4, <4>2
    <3> QED BY <3>1, <3>2
  <2> QED BY <1>2, <2>1, <2>2, <2>3 DEF EntriesMatch, HasNumber, Pictures
<1>11. LinksWait'
  <2>1. \A l \in links' : Received(l.by)'
    <3> TAKE l \in links'
    <3>1. l \in links \/ l.by = p
      BY <1>3 DEF ls, LinksBy
    <3>2. l \in links => Received(l.by) /\ l.by \in Pictures
      BY <1>1, <1>7 DEF CountInvariant, LinksWait, CountTypes
    <3> QED BY <1>6, <3>1, <3>2
  <2>2. \A l \in AllLinks(stream) : Received(l.by)' =>
           l \in links' \/ \E i \in DOMAIN entries' : entries'[i].number = l.number
    <3> TAKE l \in AllLinks(stream)
    <3> SUFFICES ASSUME Received(l.by)'
                 PROVE  l \in links' \/ \E i \in DOMAIN entries' : entries'[i].number = l.number
      OBVIOUS
    <3>1. CASE l \in ls
      <4>1. l \in links' \/ Found(entries, head, l.number) # {}
        BY <1>3, <3>1 DEF LinksLeft
      <4>2. Searched(entries, head) \subseteq DOMAIN entries
        BY <1>1, SearchedFacts
      <4>3. l \in links' \/ \E i \in DOMAIN entries : entries[i].number = l.number
        BY <4>1, <4>2 DEF Found
      <4> QED BY <1>4, <4>3
    <3>2. CASE l \notin ls
      <4>1. l.by # p /\ l \notin links
        BY <3>2 DEF ls, LinksBy
      <4>2. Received(l.by)
        BY <1>6, <1>7, <4>1
      <4>3. \E i \in DOMAIN entries : entries[i].number = l.number
        BY <4>1, <4>2 DEF CountInvariant, LinksWait
      <4> QED BY <1>4, <4>3
    <3> QED BY <3>1, <3>2
  <2> QED BY <1>2, <2>1, <2>2 DEF LinksWait
<1>12. StartedKnow'
  <2>1. \A q \in Pictures : Started(q)' => \A i \in DOMAIN stream[q].refs :
           \E e \in DOMAIN entries' : entries'[e].number = stream[q].refs[i]
    <3> TAKE q \in Pictures
    <3> SUFFICES ASSUME Started(q)', NEW i \in DOMAIN stream[q].refs
                 PROVE  \E e \in DOMAIN entries' : entries'[e].number = stream[q].refs[i]
      OBVIOUS
    <3>1. PICK e \in DOMAIN entries : entries[e].number = stream[q].refs[i]
      BY <1>6 DEF CountInvariant, StartedKnow
    <3> QED BY <1>4, <3>1
  <2> QED BY <1>2, <2>1 DEF StartedKnow, Pictures
<1>13. Unstarted' = Unstarted
  BY <1>2, <1>6 DEF Unstarted, Pictures
<1>14. Pending' = (Pending \ ls) \cup LinksLeft(ls) /\ ls \in SUBSET Pending /\ links \subseteq ls
  <2>1. Waiting' = Waiting \ LinksBy(p) /\ LinksBy(p) \subseteq Waiting
    <3>1. \A l \in AllLinks(stream) : l.by # p => stage'[l.by] = stage[l.by]
      BY <1>2, <1>7
    <3> QED BY <1>2, <3>1 DEF Waiting, LinksBy
  <2>2. \A l \in links : l \notin Waiting
    BY DEF CountInvariant, LinksWait, Received, Waiting
  <2>3. links' = LinksLeft(ls)
    BY <1>3
  <2> QED BY <2>1, <2>2, <2>3 DEF Pending, ls
<1>15. \A i \in DOMAIN entries : Exact(i)'
  BY <1>2, <1>13, <1>14, CleaningKeepsExact
<1>16. \A k \in Nat : ~stream[p].overlay /\ k = new => Exact(k)'
  <2> TAKE k \in Nat
  <2> SUFFICES ASSUME ~stream[p].overlay, k = new
               PROVE  Exact(k)'
    OBVIOUS
  <2> DEFINE n == stream[p].number
  <2>1. entries'[new].number = n /\ entries'[new].dependents = stream[p].promised + stream[p].self
    BY <1>1, <1>2, NewEntryFacts
  <2>2. Total(Pending', n) = Total(AllLinks(stream), n)
    <3>1. \A l \in AllLinks(stream) : l.number = n => l \in Pending'
      <4> TAKE l \in AllLinks(stream)
      <4> SUFFICES ASSUME l.number = n
                   PROVE  l \in Pending'
        OBVIOUS
      <4>1. Found(entries, head, n) = {}
        BY <1>1, <1>8, SearchedFacts DEF Found
      <4>2. l \in Pending
        BY <1>8 DEF CountInvariant, LinksWait, Received, Pending, Waiting
      <4> QED BY <1>14, <4>1, <4>2 DEF LinksLeft
    <3>2. LinksOf(Pending', n) = LinksOf(AllLinks(stream), n)
      <4>1. Pending' \subseteq AllLinks(stream)
        BY <1>1, <1>3, <1>14 DEF Pending, Waiting, CountTypes
      <4> QED BY <3>1, <4>1 DEF LinksOf
    <3> QED BY <3>2 DEF Total
  <2>3. Uses(stream, Unstarted, n) = Uses(stream, DOMAIN stream, n)
    <3> DEFINE T == DOMAIN stream \ Unstarted
    <3>1. Unstarted \in SUBSET DOMAIN stream /\ DOMAIN stream \in SUBSET DOMAIN stream
          /\ T \in SUBSET DOMAIN stream
      BY DEF Unstarted, Pictures
    <3>2. \A q \in T : TimesReferred(stream[q], n) = 0
      <4> TAKE q \in T
      <4>1. q \in DOMAIN stream /\ Started(q)
        BY DEF Unstarted, Pictures
      <4>2. \A i \in DOMAIN stream[q].refs : stream[q].refs[i] # n
        <5> TAKE i \in DOMAIN stream[q].refs
        <5>1. PICK e \in DOMAIN entries : entries[e].number = stream[q].refs[i]
          BY <4>1 DEF CountInvariant, StartedKnow, Pictures
        <5> QED BY <1>8, <5>1
      <4> QED BY <1>1, <4>1, <4>2, TimesReferredIsNumber
    <3> HIDE DEF T
    <3>3. Uses(stream, T, n) = 0
      BY <1>1, <3>1, <3>2, UsesOfParts
    <3>4. Uses(stream, DOMAIN stream, n) = Uses(stream, Unstarted, n) + Uses(stream, T, n)
      BY <1>1, <3>1, UsesOfParts DEF T
    <3>5. Uses(stream, Unstarted, n) \in Nat
      BY <1>1, <3>1, UsesOfParts
    <3> QED BY <3>3, <3>4, <3>5
  <2>4. Owner(stream, n) = p
    BY <1>1, OwnerIs DEF Pictures
  <2>5. /\ stream[p].promised \in Int /\ stream[p].self \in Int
        /\ Total(AllLinks(stream), n) \in Int /\ Uses(stream, DOMAIN stream, n) \in Int
    <3>1. stream[p].promised \in Int /\ stream[p].self \in Int
      BY <1>1, PictureFacts DEF Pictures
    <3>2. AllLinks(stream) \in SUBSET AllLinks(stream) /\ DOMAIN stream \in SUBSET DOMAIN stream
      OBVIOUS
    <3>3. Total(AllLinks(stream), n) \in Int
      BY <1>1, <3>2, TotalOfParts
    <3>4. Uses(stream, DOMAIN stream, n) \in Nat
      BY <1>1, <3>2, UsesOfParts
    <3> QED BY <3>1, <3>3, <3>4
  <2>6. stream[p].promised + stream[p].self + Total(AllLinks(stream), n) =
           Uses(stream, DOMAIN stream, n) + Surplus(stream, p)
    BY <2>5 DEF Surplus
  <2>7. entries'[k].dependents + Total(Pending', n) =
           Uses(stream', Unstarted', n) + Surplus(stream', Owner(stream', n))
    BY <1>2, <1>13, <2>1, <2>2, <2>3, <2>4, <2>6
  <2>8. entries'[k].number = n
    BY <2>1
  <2> HIDE DEF n
  <2> QED BY <2>7, <2>8 DEF Exact
<1>17. DependentsAreExact'
  <2>1. \A i \in DOMAIN entries' : Exact(i)'
    <3> TAKE i \in DOMAIN entries'
    <3>1. i \in DOMAIN entries \/ (~stream[p].overlay /\ i = new)
      BY <1>2
    <3>2. i \in Nat
      BY <1>2
    <3> QED BY <1>15, <1>16, <3>1, <3>2
  <2> QED BY <2>1, ExactParts
<1> QED BY <1>9, <1>10, <1>11, <1>12, <1>17 DEF CountInvariant

\* What Start does to the picture p of the input queue.
Starts(p) ==
    /\ Ready(p) /\ p = inputQueue[walk]
    /\ stage[p] = "queued" /\ stage'[p] = "started" /\ stage' \in [Pictures -> StageNames]
    /\ \A q \in Pictures : q # p => stage'[q] = stage[q]
    /\ inputQueue' \in Seq(Pictures) /\ entries' \in Seq(EntrySet)
    /\ DOMAIN entries' = DOMAIN entries /\ Len(entries') = Len(entries)
    /\ \A i \in DOMAIN entries :
          /\ entries'[i].number = entries[i].number
          /\ entries'[i].dependents = entries[i].dependents -
               (IF i \in Searched(entries, head) THEN TimesReferred(stream[p], entries[i].number) ELSE 0)
          /\ entries'[i].used = entries[i].used
          /\ entries'[i].available = entries[i].available
          /\ entries'[i].object = entries[i].object
    /\ live' = [r \in Pictures |-> live[r] + Occurrences(p, r)]
    /\ stream' = stream /\ inbox' = inbox /\ head' = head /\ walk' = walk /\ links' = links
    /\ freeChild > 0 /\ freeChild' = freeChild - 1

LEMMA StartFacts ==
    ASSUME CountTypes, Start
    PROVE  \E p \in Pictures : Starts(p)
<1> DEFINE p == inputQueue[walk]
<1>1. /\ stream \in Streams /\ walk \in Nat \ {0} /\ inputQueue \in Seq(Pictures)
      /\ entries \in Seq(EntrySet)
  BY DEF CountTypes
<1>2. walk <= Len(inputQueue) /\ Ready(p) /\ freeChild > 0 /\ freeChild' = freeChild - 1
  BY DEF Start
<1>3. walk \in DOMAIN inputQueue /\ p \in Pictures
  BY <1>1, <1>2
<1>4. Move(p, "queued", "started")
  BY DEF Start
<1>5. /\ stage[p] = "queued" /\ stage'[p] = "started" /\ stage' \in [Pictures -> StageNames]
      /\ \A q \in Pictures : q # p => stage'[q] = stage[q]
  <2> HIDE DEF p
  <2> QED BY <1>3, <1>4, MoveFacts DEF StageNames
<1>6. inputQueue' \in Seq(Pictures)
  <2>1. inputQueue' = [i \in 1..Len(inputQueue) - 1 |-> inputQueue[IF i < walk THEN i ELSE i + 1]]
    BY DEF Start
  <2>2. Len(inputQueue) \in Nat \ {0} /\ \A i \in 1..Len(inputQueue) : inputQueue[i] \in Pictures
    BY <1>1, <1>3
  <2>3. \A i \in 1..Len(inputQueue) - 1 : (IF i < walk THEN i ELSE i + 1) \in 1..Len(inputQueue)
    BY <1>1, <2>2
  <2>4. inputQueue' \in [1..Len(inputQueue) - 1 -> Pictures] /\ Len(inputQueue) - 1 \in Nat
    BY <2>1, <2>2, <2>3
  <2> QED BY <2>4
<1>7. entries' = [i \in DOMAIN entries |->
                    IF i \in Searched(entries, head)
                    THEN [entries[i] EXCEPT !.dependents = @ - TimesReferred(stream[p], entries[i].number)]
                    ELSE entries[i]]
  BY DEF Start
<1>8. \A e \in EntrySet : \A x \in Int :
         LET f == [e EXCEPT !.dependents = @ - x]
         IN  /\ f \in EntrySet /\ f.number = e.number /\ f.dependents = e.dependents - x
             /\ f.used = e.used /\ f.available = e.available /\ f.object = e.object
  BY DEF EntrySet
<1>9. \A e \in EntrySet : e.dependents - 0 = e.dependents
  BY DEF EntrySet
<1>10. \A i \in DOMAIN entries :
          /\ entries'[i] \in EntrySet
          /\ entries'[i].number = entries[i].number
          /\ entries'[i].dependents = entries[i].dependents -
               (IF i \in Searched(entries, head) THEN TimesReferred(stream[p], entries[i].number) ELSE 0)
          /\ entries'[i].used = entries[i].used
          /\ entries'[i].available = entries[i].available
          /\ entries'[i].object = entries[i].object
  <2> TAKE i \in DOMAIN entries
  <2> DEFINE e == entries[i]
  <2> DEFINE x == TimesReferred(stream[p], e.number)
  <2>1. e \in EntrySet
    BY EntryTypes
  <2>2. x \in Int
    <3>1. x \in Nat
      <4> HIDE DEF e, p
      <4> QED BY <1>1, <1>3, TimesReferredIsNumber DEF Pictures
    <3> QED BY <3>1
  <2>3. entries'[i] = IF i \in Searched(entries, head) THEN [e EXCEPT !.dependents = @ - x] ELSE e
    BY <1>7
  <2> HIDE DEF x, e
  <2>4. CASE i \in Searched(entries, head)
    <3>1. entries'[i] = [e EXCEPT !.dependents = @ - x]
      BY <2>3, <2>4
    <3> QED BY <1>8, <2>1, <2>2, <2>4, <3>1 DEF x, e
  <2>5. CASE i \notin Searched(entries, head)
    BY <1>9, <2>1, <2>3, <2>5 DEF e
  <2> QED BY <2>4, <2>5
<1>11. entries' \in Seq(EntrySet) /\ DOMAIN entries' = DOMAIN entries /\ Len(entries') = Len(entries)
  <2>1. entries' = [i \in DOMAIN entries |-> entries'[i]]
    BY <1>7
  <2> QED BY <1>1, <1>10, <2>1, MapIsSequence
<1>12. /\ live' = [r \in Pictures |-> live[r] + Occurrences(p, r)]
       /\ stream' = stream /\ inbox' = inbox /\ head' = head /\ walk' = walk /\ links' = links
  BY DEF Start
<1>13. p = inputQueue[walk]
  OBVIOUS
<1> HIDE DEF p
<1>14. Starts(p)
  BY <1>2, <1>5, <1>6, <1>10, <1>11, <1>12, <1>13 DEF Starts
<1> QED BY <1>3, <1>14

\* A picture that is ready finds all its references.
LEMMA ReadyFinds ==
    ASSUME CountInvariant, NEW p \in Pictures, Ready(p)
    PROVE  \A k \in DOMAIN stream[p].refs :
              \E i \in DOMAIN entries : /\ i \in Searched(entries, head) /\ entries[i].number = stream[p].refs[k]
                                        /\ entries[i].available
<1> TAKE k \in DOMAIN stream[p].refs
<1>1. PICK i \in Found(entries, head, stream[p].refs[k]) : UsableReference(p, entries[i])
  BY DEF Ready
<1>2. i \in Searched(entries, head) /\ entries[i].number = stream[p].refs[k]
  BY <1>1 DEF Found
<1>3. i \in DOMAIN entries
  BY <1>2, SearchedFacts DEF CountInvariant
<1>4. entries[i].available
  BY <1>1 DEF UsableReference
<1> QED BY <1>2, <1>3, <1>4

LEMMA StartKeepsCounts ==
    ASSUME CountInvariant, NEW p \in Pictures, Starts(p)
    PROVE  CountInvariant'
<1>1. CountTypes /\ stream \in Streams
  BY DEF CountInvariant, CountTypes
<1>2. CountTypes'
  <2>1. head' \in 1..Len(entries') + 1
    BY <1>1 DEF Starts, CountTypes
  <2> QED BY <1>1, <2>1 DEF Starts, CountTypes, Pictures
<1>3. /\ \A q \in Pictures : Received(q)' <=> Received(q)
      /\ \A q \in Pictures : Started(q)' <=> Started(q) \/ q = p
      /\ ~Started(p)
  BY DEF Starts, Received, Started
<1>4. EntriesMatch'
  <2>1. stream' = stream /\ DOMAIN entries' = DOMAIN entries /\ \A i \in DOMAIN entries : entries'[i].number = entries[i].number
    BY DEF Starts
  <2> QED BY <1>3, <2>1 DEF CountInvariant, EntriesMatch, HasNumber, Pictures
<1>5. \A l \in AllLinks(stream) : l.by \in Pictures
  BY <1>1, LinkFacts DEF Pictures
<1>6. LinksWait'
  <2>1. stream' = stream /\ DOMAIN entries' = DOMAIN entries /\ \A i \in DOMAIN entries : entries'[i].number = entries[i].number
    BY DEF Starts
  <2>2. links' = links /\ \A l \in links : l.by \in Pictures
    BY <1>1, <1>5 DEF Starts, CountTypes
  <2> QED BY <1>3, <1>5, <2>1, <2>2 DEF CountInvariant, LinksWait
<1>7. StartedKnow'
  <2>1. stream' = stream /\ DOMAIN entries' = DOMAIN entries /\ \A i \in DOMAIN entries : entries'[i].number = entries[i].number
    BY DEF Starts
  <2>2. \A k \in DOMAIN stream[p].refs : \E i \in DOMAIN entries : entries[i].number = stream[p].refs[k]
    BY ReadyFinds DEF Starts
  <2> QED BY <1>3, <2>1, <2>2 DEF CountInvariant, StartedKnow, Pictures
<1>8. Pending' = Pending
  <2>1. \A l \in AllLinks(stream) : stage'[l.by] \in {"coming", "sent"} <=> stage[l.by] \in {"coming", "sent"}
    BY <1>3, <1>5 DEF Received
  <2>2. stream' = stream /\ links' = links
    BY DEF Starts
  <2> QED BY <2>1, <2>2 DEF Pending, Waiting
<1>9. Unstarted' = Unstarted \ {p} /\ p \in Unstarted /\ Unstarted \in SUBSET DOMAIN stream
  <2>1. stream' = stream
    BY DEF Starts
  <2> QED BY <1>3, <2>1 DEF Unstarted, Pictures
<1>10. \A i \in DOMAIN entries : Exact(i)'
  <2> TAKE i \in DOMAIN entries
  <2> DEFINE n == entries[i].number
  <2> DEFINE t == TimesReferred(stream[p], n)
  <2>1. Exact(i)
    BY ExactParts DEF CountInvariant
  <2>2. entries'[i].number = n /\ entries'[i].dependents = entries[i].dependents - t
    <3>1. CASE i \in Searched(entries, head)
      BY <3>1 DEF Starts
    <3>2. CASE i \notin Searched(entries, head)
      <4>1. \A k \in DOMAIN stream[p].refs : stream[p].refs[k] # n
        <5> TAKE k \in DOMAIN stream[p].refs
        <5>1. PICK j \in DOMAIN entries : j \in Searched(entries, head) /\ entries[j].number = stream[p].refs[k]
          BY ReadyFinds DEF Starts
        <5>2. j # i
          BY <3>2, <5>1
        <5> QED BY <5>1, <5>2 DEF CountInvariant, EntriesMatch
      <4>2. t = 0
        BY <1>1, <4>1, TimesReferredIsNumber DEF Pictures
      <4> QED BY <3>2, <4>2 DEF Starts
    <3> QED BY <3>1, <3>2
  <2>3. Uses(stream, Unstarted, n) = t + Uses(stream, Unstarted \ {p}, n)
    BY <1>1, <1>9, UsesOfParts
  <2>4. entries[i].dependents \in Int
    BY <1>1, EntryTypes
  <2>5. t \in Int /\ Uses(stream, Unstarted \ {p}, n) \in Int
    <3>1. t \in Nat
      BY <1>1, TimesReferredIsNumber DEF Pictures
    <3>2. Unstarted \ {p} \in SUBSET DOMAIN stream
      BY <1>9
    <3>3. Uses(stream, Unstarted \ {p}, n) \in Nat
      BY <1>1, <3>2, UsesOfParts
    <3> QED BY <3>1, <3>3
  <2>6. Total(Pending, n) \in Int
    <3>1. Pending \in SUBSET AllLinks(stream)
      BY <1>1 DEF Pending, Waiting, CountTypes
    <3> QED BY <1>1, <3>1, TotalOfParts
  <2>7. Surplus(stream, Owner(stream, n)) \in Int
    <3>1. PICK q \in Pictures : HasNumber(q, n)
      BY DEF CountInvariant, EntriesMatch
    <3>2. Owner(stream, n) = q
      BY <1>1, <3>1, OwnerIs DEF HasNumber, Pictures
    <3> QED BY <1>1, <3>2, SurplusIsInteger DEF Pictures
  <2>8. entries[i].dependents + Total(Pending, n) = Uses(stream, Unstarted, n) + Surplus(stream, Owner(stream, n))
    BY <2>1 DEF Exact
  <2>9. stream' = stream
    BY DEF Starts
  <2> HIDE DEF t, n
  <2>10. entries[i].dependents - t + Total(Pending, n) =
            Uses(stream, Unstarted \ {p}, n) + Surplus(stream, Owner(stream, n))
    <3> DEFINE a == entries[i].dependents
    <3> DEFINE b == Total(Pending, n)
    <3> DEFINE d == Uses(stream, Unstarted \ {p}, n)
    <3> DEFINE e == Surplus(stream, Owner(stream, n))
    <3>1. a \in Int /\ b \in Int /\ t \in Int /\ d \in Int /\ e \in Int
      BY <2>4, <2>5, <2>6, <2>7
    <3>2. a + b = (t + d) + e
      BY <2>3, <2>8
    <3> HIDE DEF a, b, d, e
    <3>3. (a - t) + b = d + e
      BY <3>1, <3>2
    <3> QED BY <3>3 DEF a, b, d, e
  <2>11. entries'[i].dependents + Total(Pending', n) =
            Uses(stream', Unstarted', n) + Surplus(stream', Owner(stream', n))
    BY <1>8, <1>9, <2>2, <2>9, <2>10
  <2> QED BY <2>2, <2>11 DEF Exact
<1>11. DependentsAreExact'
  <2>1. DOMAIN entries' = DOMAIN entries
    BY DEF Starts
  <2> QED BY <1>10, <2>1, ExactParts
<1> QED BY <1>2, <1>4, <1>6, <1>7, <1>11 DEF CountInvariant

LEMMA InitCounts ==
    ASSUME Init
    PROVE  CountInvariant
<1>1. PICK x \in Scenarios : stream = x[1]
  BY DEF Init
<1>2. stream \in Streams
  BY <1>1 DEF Streams
<1>3. CountTypes
  <2>1. stage \in [Pictures -> StageNames]
    BY DEF Init, StageNames
  <2>2. entries = <<>> /\ inputQueue = <<>> /\ head = 1 /\ walk = 1 /\ links = {}
    BY DEF Init
  <2> QED BY <1>2, <2>1, <2>2 DEF CountTypes
<1>4. DOMAIN entries = {} /\ links = {}
  BY DEF Init
<1>5. \A p \in Pictures : ~Received(p) /\ ~Started(p)
  BY DEF Init, Received, Started
<1>6. \A l \in AllLinks(stream) : l.by \in Pictures
  BY <1>2, LinkFacts DEF Pictures
<1> QED BY <1>3, <1>4, <1>5, <1>6
        DEF CountInvariant, EntriesMatch, LinksWait, StartedKnow, DependentsAreExact

LEMMA NextKeepsCounts ==
    ASSUME CountInvariant, [Next]_vars
    PROVE  CountInvariant'
<1>1. CountTypes
  BY DEF CountInvariant
<1>2. CASE \E p \in Pictures : Arrive(p) \/ Pipeline(p)
  BY <1>2, PipelineKeepsCounts
<1>3. CASE Pass \/ MeetEnd \/ UNCHANGED vars
  BY <1>3, PassKeepsCounts
<1>4. CASE Retire
  BY <1>4, RetireKeepsCounts
<1>5. CASE Start
  BY <1>1, <1>5, StartFacts, StartKeepsCounts
<1>6. CASE \E p \in Pictures : ReceiveInput(p)
  BY <1>6, ReceiveInputKeepsCounts
<1>7. CASE \E p \in Pictures : ReceiveReference(p) \/ ReceiveFeedback(p)
  BY <1>7, ReceiveOtherKeepsCounts
<1> QED BY <1>2, <1>3, <1>4, <1>5, <1>6, <1>7 DEF Next, Manager

\* In every state dependent_count is, with the corrections under way, the number of
\* references still to be made and of those the end of the stream cut off: the
\* three places that count agree, for every stream and every order of messages.
THEOREM CountsAreExact == Spec => []DependentsAreExact
<1>1. Init => CountInvariant
  BY InitCounts
<1>2. CountInvariant /\ [Next]_vars => CountInvariant'
  BY NextKeepsCounts
<1>3. CountInvariant => DependentsAreExact
  BY DEF CountInvariant
<1> QED BY <1>1, <1>2, <1>3, PTL DEF Spec

-----------------------------------------------------------------------------
(* References that are held.                                               *)

Messages == [type : {"INPUT", "REFERENCE", "FEEDBACK"}, pic : Pictures]
Done(p) == stage[p] \in {"reconstructed", "coded", "packed", "finished"}

HoldTypes == inbox \in Seq(Messages) /\ live \in [Pictures -> Int]

\* Pictures come in decode order, and are received in it.
OrderKept ==
    \A p, q \in Pictures :
        (stage[p] = "coming" /\ stage[q] # "coming") \/ (stage[p] = "sent" /\ Received(q)) =>
            stream[q].order <= stream[p].order

Input(i) == inbox[i].type = "INPUT"
InputsQueued ==
    /\ \A p \in Pictures : stage[p] = "sent" =>
          \E i \in DOMAIN inbox : Input(i) /\ inbox[i].pic = p
    /\ \A i \in DOMAIN inbox : Input(i) => stage[inbox[i].pic] = "sent"
    /\ \A i, j \in DOMAIN inbox : i < j /\ Input(i) /\ Input(j) =>
          inbox[i].pic # inbox[j].pic /\ stream[inbox[i].pic].order <= stream[inbox[j].pic].order

\* A correction only waits for an entry that has left the queue.
LinksAreLate ==
    \A l \in links : \A i \in DOMAIN entries : entries[i].number = l.number => i < head

\* An entry is marked complete when its picture is, and loses its mark when
\* no picture will refer to it any more.
EntryFollows(i, p) ==
    /\ entries[i].used => stream[p].used
    /\ entries[i].available => entries[i].used /\ Done(p)
    /\ stream[p].used /\ ~entries[i].used =>
          \A q \in Unstarted : TimesReferred(stream[q], entries[i].number) = 0
    /\ stream[p].used /\ ~entries[i].used => Done(p)
    /\ entries[i].object = entries[i].available
EntriesFollow ==
    \A i \in DOMAIN entries : \A p \in Pictures : HasNumber(p, entries[i].number) => EntryFollows(i, p)

\* That a picture is complete is said once.
Reference(i) == inbox[i].type = "REFERENCE"
Unmarked(p) ==
    \A e \in DOMAIN entries : entries[e].number = stream[p].number =>
        entries[e].used /\ ~entries[e].available
CompleteOnce ==
    /\ \A i \in DOMAIN inbox : Reference(i) =>
          stream[inbox[i].pic].used /\ Done(inbox[i].pic) /\ Unmarked(inbox[i].pic)
    /\ \A i, j \in DOMAIN inbox : Reference(i) /\ Reference(j) /\ inbox[i].pic = inbox[j].pic => i = j

StartedAfter ==
    \A p \in Pictures : Started(p) => \A i \in DOMAIN stream[p].refs : Done(Owner(stream, stream[p].refs[i]))

\* live_count is the nominal reference, until it is released, and one for every
\* place in the lists of the pictures that are being coded.
Nominal(r) ==
    /\ stage[r] # "coming" /\ stream[r].used
    /\ \A i \in DOMAIN entries : entries[i].number = stream[r].number => entries[i].used
Flying == {p \in Pictures : InFlight(p)}
Reads(S, r) == Sum([p \in Pictures |-> Occurrences(p, r)], S)
Reading(r) == Reads(Flying, r)
LiveIsHeld == \A r \in Pictures : live[r] = Count(Nominal(r)) + Reading(r)

HoldInvariant ==
    HoldTypes /\ OrderKept /\ InputsQueued /\ LinksAreLate /\ EntriesFollow /\ CompleteOnce
        /\ StartedAfter /\ LiveIsHeld

-----------------------------------------------------------------------------
(* The message queue.                                                      *)

LEMMA AppendFacts ==
    ASSUME NEW T, NEW s \in Seq(T), NEW m \in T
    PROVE  /\ Append(s, m) \in Seq(T)
           /\ \A i \in DOMAIN s : i \in DOMAIN Append(s, m) /\ Append(s, m)[i] = s[i] /\ i < Len(s) + 1
           /\ \A i \in DOMAIN Append(s, m) : i \in DOMAIN s \/ i = Len(s) + 1
           /\ Len(s) + 1 \in DOMAIN Append(s, m) /\ Append(s, m)[Len(s) + 1] = m
           /\ Len(s) + 1 \notin DOMAIN s
<1>1. /\ Append(s, m) \in Seq(T) /\ Len(Append(s, m)) = Len(s) + 1 /\ Len(s) \in Nat
      /\ DOMAIN s = 1..Len(s)
  OBVIOUS
<1>2. DOMAIN Append(s, m) = 1..Len(s) + 1
  BY <1>1
<1>3. Append(s, m)[Len(s) + 1] = m /\ \A i \in 1..Len(s) : Append(s, m)[i] = s[i]
  OBVIOUS
<1> QED BY <1>1, <1>2, <1>3

LEMMA TailFacts ==
    ASSUME NEW T, NEW s \in Seq(T), s # <<>>
    PROVE  /\ Tail(s) \in Seq(T) /\ 1 \in DOMAIN s /\ Head(s) = s[1] /\ s[1] \in T
           /\ \A i \in DOMAIN Tail(s) : i \in Nat /\ i > 0 /\ i + 1 \in DOMAIN s /\ Tail(s)[i] = s[i + 1]
           /\ \A i \in DOMAIN s : i # 1 => i > 1 /\ i - 1 \in DOMAIN Tail(s) /\ Tail(s)[i - 1] = s[i]
<1>1. /\ Tail(s) \in Seq(T) /\ Len(Tail(s)) = Len(s) - 1 /\ Len(s) \in Nat \ {0}
      /\ DOMAIN s = 1..Len(s) /\ Head(s) = s[1] /\ s[1] \in T
  OBVIOUS
<1>2. DOMAIN Tail(s) = 1..Len(s) - 1
  BY <1>1
<1>3. \A i \in 1..Len(s) - 1 : Tail(s)[i] = s[i + 1]
  OBVIOUS
<1>4. \A i \in 1..Len(s) : i # 1 => i > 1 /\ i - 1 \in 1..Len(s) - 1 /\ (i - 1) + 1 = i
  BY <1>1
<1> QED BY <1>1, <1>2, <1>3, <1>4

\* What a step does to the queue.
Posts(type, p) == inbox' = Append(inbox, [type |-> type, pic |-> p])
Takes(type, p) == inbox # <<>> /\ Head(inbox) = [type |-> type, pic |-> p] /\ inbox' = Tail(inbox)

\* The messages of a kind after the step, by their places before it.
LEMMA PostedFacts ==
    ASSUME inbox \in Seq(Messages), stream' = stream, NEW type \in {"INPUT", "REFERENCE", "FEEDBACK"},
           NEW p \in Pictures, Posts(type, p)
    PROVE  /\ inbox' \in Seq(Messages)'
           /\ \A i \in DOMAIN inbox : i \in DOMAIN inbox' /\ inbox'[i] = inbox[i] /\ i < Len(inbox) + 1
           /\ \A i \in DOMAIN inbox' : i \in DOMAIN inbox \/ i = Len(inbox) + 1
           /\ Len(inbox) + 1 \in DOMAIN inbox' /\ Len(inbox) + 1 \notin DOMAIN inbox
           /\ inbox'[Len(inbox) + 1].type = type /\ inbox'[Len(inbox) + 1].pic = p
<1> DEFINE m == [type |-> type, pic |-> p]
<1>1. m \in Messages /\ m.type = type /\ m.pic = p
  BY DEF Messages
<1>2. Messages' = Messages
  BY DEF Messages, Pictures
<1>3. inbox' = Append(inbox, m)
  BY DEF Posts
<1> HIDE DEF m
<1> QED BY <1>1, <1>2, <1>3, AppendFacts

LEMMA TakenFacts ==
    ASSUME inbox \in Seq(Messages), stream' = stream, NEW type, NEW p, Takes(type, p)
    PROVE  /\ inbox' \in Seq(Messages)'
           /\ 1 \in DOMAIN inbox /\ inbox[1].type = type /\ inbox[1].pic = p
           /\ \A i \in DOMAIN inbox' : i \in Nat /\ i > 0 /\ i + 1 \in DOMAIN inbox /\ inbox'[i] = inbox[i + 1]
           /\ \A i \in DOMAIN inbox : i # 1 => i > 1 /\ i - 1 \in DOMAIN inbox' /\ inbox'[i - 1] = inbox[i]
<1>1. inbox # <<>> /\ Head(inbox) = [type |-> type, pic |-> p] /\ inbox' = Tail(inbox)
  BY DEF Takes
<1>2. Messages' = Messages
  BY DEF Messages, Pictures
<1>3. inbox[1].type = type /\ inbox[1].pic = p
  BY <1>1, TailFacts
<1> QED BY <1>1, <1>2, <1>3, TailFacts

LEMMA MessageFacts ==
    ASSUME HoldTypes
    PROVE  \A i \in DOMAIN inbox : i \in Nat /\ i > 0 /\ inbox[i].pic \in Pictures
<1>1. \A i \in DOMAIN inbox : i \in Nat /\ i > 0 /\ inbox[i] \in Messages
  BY DEF HoldTypes
<1> QED BY <1>1 DEF Messages

-----------------------------------------------------------------------------
(* What a part of the invariant does not see.                              *)

LEMMA OrderStays ==
    ASSUME OrderKept, stream' = stream,
           \A q \in Pictures : (stage'[q] = "coming" <=> stage[q] = "coming") /\ (stage'[q] = "sent" <=> stage[q] = "sent")
    PROVE  OrderKept'
<1>1. Pictures' = Pictures
  BY DEF Pictures
<1>2. \A q \in Pictures : Received(q)' <=> Received(q)
  BY DEF Received
<1> QED BY <1>1, <1>2 DEF OrderKept

Internal == {"REFERENCE", "FEEDBACK"}

LEMMA InputsStay ==
    ASSUME HoldTypes, InputsQueued, stream' = stream,
           \A q \in Pictures : stage'[q] = "sent" <=> stage[q] = "sent",
           \/ inbox' = inbox
           \/ \E type \in Internal : \E p \in Pictures : Posts(type, p) \/ Takes(type, p)
    PROVE  InputsQueued' /\ inbox' \in Seq(Messages)'
<1>1. Pictures' = Pictures /\ Messages' = Messages
  BY DEF Pictures, Messages
<1>2. inbox \in Seq(Messages) /\ \A i \in DOMAIN inbox : i \in Nat /\ i > 0 /\ inbox[i].pic \in Pictures
  BY MessageFacts DEF HoldTypes
<1>3. CASE inbox' = inbox
  BY <1>1, <1>2, <1>3 DEF InputsQueued, Input
<1>4. ASSUME NEW type \in Internal, NEW p \in Pictures, Posts(type, p)
      PROVE  InputsQueued' /\ inbox' \in Seq(Messages)'
  <2> DEFINE new == Len(inbox) + 1
  <2>1. type \in {"INPUT", "REFERENCE", "FEEDBACK"} /\ type # "INPUT"
    BY <1>4 DEF Internal
  <2>2. /\ inbox' \in Seq(Messages)'
        /\ \A i \in DOMAIN inbox : i \in DOMAIN inbox' /\ inbox'[i] = inbox[i]
        /\ \A i \in DOMAIN inbox' : i \in DOMAIN inbox \/ i = new
        /\ inbox'[new].type # "INPUT"
    BY <1>2, <1>4, <2>1, PostedFacts
  <2> HIDE DEF new
  <2>3. \A i \in DOMAIN inbox' : Input(i)' => i \in DOMAIN inbox /\ Input(i)
    BY <2>2 DEF Input
  <2>4. \A i \in DOMAIN inbox : Input(i) => Input(i)'
    BY <2>2 DEF Input
  <2>5. \A q \in Pictures : stage'[q] = "sent" => \E i \in DOMAIN inbox' : Input(i)' /\ inbox'[i].pic = q
    BY <2>2, <2>4 DEF InputsQueued
  <2>6. \A i \in DOMAIN inbox' : Input(i)' => stage'[inbox'[i].pic] = "sent"
    BY <1>2, <2>2, <2>3 DEF InputsQueued
  <2>7. \A i, j \in DOMAIN inbox' : i < j /\ Input(i)' /\ Input(j)' =>
           inbox'[i].pic # inbox'[j].pic /\ stream[inbox'[i].pic].order <= stream[inbox'[j].pic].order
    BY <2>2, <2>3 DEF InputsQueued
  <2> QED BY <1>1, <2>2, <2>5, <2>6, <2>7 DEF InputsQueued
<1>5. ASSUME NEW type \in Internal, NEW p \in Pictures, Takes(type, p)
      PROVE  InputsQueued' /\ inbox' \in Seq(Messages)'
  <2>1. type # "INPUT"
    BY <1>5 DEF Internal
  <2>2. /\ inbox' \in Seq(Messages)'
        /\ 1 \in DOMAIN inbox /\ inbox[1].type # "INPUT"
        /\ \A i \in DOMAIN inbox' : i \in Nat /\ i + 1 \in DOMAIN inbox /\ inbox'[i] = inbox[i + 1]
        /\ \A i \in DOMAIN inbox : i # 1 => i - 1 \in DOMAIN inbox' /\ inbox'[i - 1] = inbox[i]
    BY <1>2, <1>5, <2>1, TakenFacts
  <2>3. \A q \in Pictures : stage'[q] = "sent" => \E i \in DOMAIN inbox' : Input(i)' /\ inbox'[i].pic = q
    <3> TAKE q \in Pictures
    <3> SUFFICES ASSUME stage'[q] = "sent"
                 PROVE  \E i \in DOMAIN inbox' : Input(i)' /\ inbox'[i].pic = q
      OBVIOUS
    <3>1. PICK i \in DOMAIN inbox : Input(i) /\ inbox[i].pic = q
      BY DEF InputsQueued
    <3>2. i # 1
      BY <2>2, <3>1 DEF Input
    <3>3. i - 1 \in DOMAIN inbox' /\ inbox'[i - 1] = inbox[i]
      BY <2>2, <3>2
    <3>4. inbox'[i - 1].type = "INPUT" /\ inbox'[i - 1].pic = q
      BY <3>1, <3>3 DEF Input
    <3>5. \E j \in DOMAIN inbox' : inbox'[j].type = "INPUT" /\ inbox'[j].pic = q
      BY <3>3, <3>4
    <3> QED BY <3>5 DEF Input
  <2>4. \A i \in DOMAIN inbox' : Input(i)' => stage'[inbox'[i].pic] = "sent"
    <3> TAKE i \in DOMAIN inbox'
    <3> SUFFICES ASSUME Input(i)'
                 PROVE  stage'[inbox'[i].pic] = "sent"
      OBVIOUS
    <3>1. i + 1 \in DOMAIN inbox /\ inbox'[i] = inbox[i + 1]
      BY <2>2
    <3>2. Input(i + 1)
      BY <3>1 DEF Input
    <3> QED BY <1>2, <3>1, <3>2 DEF InputsQueued
  <2>5. \A i, j \in DOMAIN inbox' : i < j /\ Input(i)' /\ Input(j)' =>
           inbox'[i].pic # inbox'[j].pic /\ stream[inbox'[i].pic].order <= stream[inbox'[j].pic].order
    <3> TAKE i, j \in DOMAIN inbox'
    <3> SUFFICES ASSUME i < j, Input(i)', Input(j)'
                 PROVE  inbox'[i].pic # inbox'[j].pic /\ stream[inbox'[i].pic].order <= stream[inbox'[j].pic].order
      OBVIOUS
    <3>1. /\ i + 1 \in DOMAIN inbox /\ inbox'[i] = inbox[i + 1]
          /\ j + 1 \in DOMAIN inbox /\ inbox'[j] = inbox[j + 1] /\ i + 1 < j + 1
      BY <2>2
    <3>2. Input(i + 1) /\ Input(j + 1)
      BY <3>1 DEF Input
    <3> QED BY <3>1, <3>2 DEF InputsQueued
  <2> QED BY <1>1, <2>2, <2>3, <2>4, <2>5 DEF InputsQueued
<1> QED BY <1>3, <1>4, <1>5

LEMMA LinksLateStay ==
    ASSUME CountTypes, LinksAreLate, links' \subseteq links, head' \in Nat, head' >= head,
           DOMAIN entries' = DOMAIN entries, \A i \in DOMAIN entries : entries'[i].number = entries[i].number
    PROVE  LinksAreLate'
<1>1. head \in Nat /\ \A i \in DOMAIN entries : i \in Nat
  BY EntryTypes DEF CountTypes
<1>2. \A i \in DOMAIN entries : i < head => i < head'
  BY <1>1
<1> QED BY <1>2 DEF LinksAreLate

\* Pictures only go on.
Onward ==
    /\ stream' = stream /\ Unstarted' \subseteq Unstarted
    /\ \A q \in Pictures : Done(q) => Done(q)'

LEMMA EntriesStay ==
    ASSUME CountTypes, EntriesFollow, Onward, DOMAIN entries' = DOMAIN entries,
           \A i \in DOMAIN entries : /\ entries'[i].number = entries[i].number
                                     /\ entries'[i].used = entries[i].used
                                     /\ entries'[i].available = entries[i].available
                                     /\ entries'[i].object = entries[i].object
    PROVE  EntriesFollow'
<1>1. Pictures' = Pictures /\ stream' = stream
  BY DEF Onward, Pictures
<1>2. \A i \in DOMAIN entries : \A p \in Pictures : HasNumber(p, entries[i].number) => EntryFollows(i, p)'
  <2> TAKE i \in DOMAIN entries
  <2> TAKE p \in Pictures
  <2> SUFFICES ASSUME HasNumber(p, entries[i].number)
               PROVE  EntryFollows(i, p)'
    OBVIOUS
  <2>1. EntryFollows(i, p)
    BY DEF EntriesFollow
  <2>2. /\ entries'[i].number = entries[i].number /\ entries'[i].used = entries[i].used
        /\ entries'[i].available = entries[i].available /\ entries'[i].object = entries[i].object
    OBVIOUS
  <2> QED BY <1>1, <2>1, <2>2 DEF EntryFollows, Onward
<1>3. \A i \in DOMAIN entries : \A p \in Pictures : HasNumber(p, entries[i].number)' => HasNumber(p, entries[i].number)
  BY <1>1 DEF HasNumber
<1> QED BY <1>1, <1>2, <1>3 DEF EntriesFollow

LEMMA CompleteStays ==
    ASSUME HoldTypes, CompleteOnce, Onward,
           \/ inbox' = inbox
           \/ \E type \in {"INPUT", "FEEDBACK"} : \E p \in Pictures : Posts(type, p)
           \/ \E type \in {"INPUT", "REFERENCE", "FEEDBACK"} : \E p \in Pictures : Takes(type, p),
           \A q \in Pictures : /\ \E i \in DOMAIN inbox' : inbox'[i].type = "REFERENCE" /\ inbox'[i].pic = q
                               /\ stream[q].used /\ Done(q) /\ Unmarked(q)
                               => Unmarked(q)'
    PROVE  CompleteOnce'
<1>1. Pictures' = Pictures /\ stream' = stream
  BY DEF Onward, Pictures
<1>2. inbox \in Seq(Messages) /\ \A i \in DOMAIN inbox : i \in Nat /\ i > 0 /\ inbox[i].pic \in Pictures
  BY MessageFacts DEF HoldTypes
<1>3. ASSUME NEW old, \A i \in DOMAIN inbox' : inbox'[i].type = "REFERENCE" =>
                            old[i] \in DOMAIN inbox /\ inbox'[i] = inbox[old[i]],
             \A i, j \in DOMAIN inbox' : inbox'[i].type = "REFERENCE" /\ inbox'[j].type = "REFERENCE"
                            /\ old[i] = old[j] => i = j
      PROVE  CompleteOnce'
  <2>1. \A i \in DOMAIN inbox' : Reference(i)' =>
           stream'[inbox'[i].pic].used /\ Done(inbox[i].pic)' /\ Unmarked(inbox[i].pic)'
    <3> TAKE i \in DOMAIN inbox'
    <3> SUFFICES ASSUME Reference(i)'
                 PROVE  stream'[inbox'[i].pic].used /\ Done(inbox[i].pic)' /\ Unmarked(inbox[i].pic)'
      OBVIOUS
    <3>1. PICK q : q = inbox'[i].pic
      OBVIOUS
    <3>2. inbox'[i].type = "REFERENCE"
      BY DEF Reference
    <3>3. old[i] \in DOMAIN inbox /\ inbox'[i] = inbox[old[i]]
      BY <1>3, <3>2
    <3>4. Reference(old[i]) /\ inbox[old[i]].pic = q /\ q \in Pictures
      BY <1>2, <3>1, <3>2, <3>3 DEF Reference
    <3>5. stream[q].used /\ Done(q) /\ Unmarked(q)
      BY <3>3, <3>4 DEF CompleteOnce
    <3>6. Unmarked(q)'
      BY <3>1, <3>2, <3>4, <3>5
    <3>7. Done(q)'
      BY <3>4, <3>5 DEF Onward
    <3> QED BY <1>1, <3>1, <3>5, <3>6, <3>7 DEF Done, Unmarked
  <2>2. \A i, j \in DOMAIN inbox' : Reference(i)' /\ Reference(j)' /\ inbox'[i].pic = inbox'[j].pic => i = j
    <3> TAKE i, j \in DOMAIN inbox'
    <3> SUFFICES ASSUME Reference(i)', Reference(j)', inbox'[i].pic = inbox'[j].pic
                 PROVE  i = j
      OBVIOUS
    <3>1. inbox'[i].type = "REFERENCE" /\ inbox'[j].type = "REFERENCE"
      BY DEF Reference
    <3>2. /\ old[i] \in DOMAIN inbox /\ inbox'[i] = inbox[old[i]]
          /\ old[j] \in DOMAIN inbox /\ inbox'[j] = inbox[old[j]]
      BY <1>3, <3>1
    <3>3. Reference(old[i]) /\ Reference(old[j]) /\ inbox[old[i]].pic = inbox[old[j]].pic
      BY <3>1, <3>2 DEF Reference
    <3>4. old[i] = old[j]
      BY <3>2, <3>3 DEF CompleteOnce
    <3> QED BY <1>3, <3>1, <3>4
  <2> QED BY <2>1, <2>2 DEF CompleteOnce
<1>4. CASE inbox' = inbox
  <2> DEFINE old == [i \in DOMAIN inbox' |-> i]
  <2>1. \A i \in DOMAIN inbox' : inbox'[i].type = "REFERENCE" => old[i] \in DOMAIN inbox /\ inbox'[i] = inbox[old[i]]
    BY <1>4
  <2>2. \A i, j \in DOMAIN inbox' : inbox'[i].type = "REFERENCE" /\ inbox'[j].type = "REFERENCE"
                            /\ old[i] = old[j] => i = j
    OBVIOUS
  <2> HIDE DEF old
  <2> QED BY <1>3, <2>1, <2>2
<1>5. ASSUME NEW type \in {"INPUT", "FEEDBACK"}, NEW p \in Pictures, Posts(type, p)
      PROVE  CompleteOnce'
  <2> DEFINE old == [i \in DOMAIN inbox' |-> i]
  <2>1. /\ \A i \in DOMAIN inbox : inbox'[i] = inbox[i]
        /\ \A i \in DOMAIN inbox' : i \in DOMAIN inbox \/ i = Len(inbox) + 1
        /\ inbox'[Len(inbox) + 1].type = type
    BY <1>1, <1>2, <1>5, PostedFacts
  <2>2. type # "REFERENCE"
    OBVIOUS
  <2>3. \A i \in DOMAIN inbox' : inbox'[i].type = "REFERENCE" => old[i] \in DOMAIN inbox /\ inbox'[i] = inbox[old[i]]
    BY <2>1, <2>2
  <2>4. \A i, j \in DOMAIN inbox' : inbox'[i].type = "REFERENCE" /\ inbox'[j].type = "REFERENCE"
                            /\ old[i] = old[j] => i = j
    OBVIOUS
  <2> HIDE DEF old
  <2> QED BY <1>3, <2>3, <2>4
<1>6. ASSUME NEW type \in {"INPUT", "REFERENCE", "FEEDBACK"}, NEW p \in Pictures, Takes(type, p)
      PROVE  CompleteOnce'
  <2> DEFINE old == [i \in DOMAIN inbox' |-> i + 1]
  <2>1. \A i \in DOMAIN inbox' : i \in Nat /\ i + 1 \in DOMAIN inbox /\ inbox'[i] = inbox[i + 1]
    BY <1>1, <1>2, <1>6, TakenFacts
  <2>2. \A i \in DOMAIN inbox' : inbox'[i].type = "REFERENCE" => old[i] \in DOMAIN inbox /\ inbox'[i] = inbox[old[i]]
    BY <2>1
  <2>3. \A i, j \in DOMAIN inbox' : inbox'[i].type = "REFERENCE" /\ inbox'[j].type = "REFERENCE"
                            /\ old[i] = old[j] => i = j
    BY <2>1
  <2> HIDE DEF old
  <2> QED BY <1>3, <2>2, <2>3
<1> QED BY <1>4, <1>5, <1>6

LEMMA StartedAfterStays ==
    ASSUME CountTypes, StartedAfter, Onward, \A q \in Pictures : Started(q)' => Started(q)
    PROVE  StartedAfter'
<1>1. Pictures' = Pictures /\ stream' = stream
  BY DEF Onward, Pictures
<1>2. \A p \in Pictures : \A i \in DOMAIN stream[p].refs : Owner(stream, stream[p].refs[i]) \in Pictures
  BY ReferenceFacts DEF CountTypes, Pictures
<1>3. ASSUME NEW p \in Pictures, Started(p)', NEW i \in DOMAIN stream[p].refs
      PROVE  Done(Owner(stream, stream[p].refs[i]))'
  <2>1. PICK r \in Pictures : r = Owner(stream, stream[p].refs[i])
    BY <1>2
  <2>2. Done(r)
    BY <1>3, <2>1 DEF StartedAfter
  <2>3. Done(r)'
    BY <2>2 DEF Onward
  <2> QED BY <1>1, <2>1, <2>3 DEF Done
<1> QED BY <1>1, <1>3 DEF StartedAfter

LEMMA LiveStays ==
    ASSUME HoldTypes, LiveIsHeld, stream' = stream, live' = live, Flying' = Flying,
           \A r \in Pictures : Nominal(r)' <=> Nominal(r)
    PROVE  LiveIsHeld' /\ live' \in [Pictures -> Int]'
<1>1. Pictures' = Pictures
  BY DEF Pictures
<1>2. \A r \in Pictures : Reading(r)' = Reading(r)
  BY <1>1 DEF Reading, Reads, Occurrences
<1>3. \A r \in Pictures : Count(Nominal(r))' = Count(Nominal(r))
  BY DEF Count
<1> QED BY <1>1, <1>2, <1>3 DEF LiveIsHeld, HoldTypes

-----------------------------------------------------------------------------
(* The steps around the kernel.                                            *)

\* A picture goes on in the pipeline, and the queues of the kernel stay.
LEMMA MovesOnward ==
    ASSUME CountTypes, stream' = stream, NEW p \in Pictures, NEW from \in StageNames, NEW to \in StageNames,
           Move(p, from, to),
           from \in {"reconstructed", "coded", "packed"} => to \in {"coded", "packed", "finished"},
           from = "started" => to = "reconstructed",
           from # "finished"
    PROVE  Onward
<1>1. /\ stage[p] = from /\ stage'[p] = to /\ Pictures' = Pictures
      /\ \A q \in Pictures : q # p => stage'[q] = stage[q]
  BY MoveFacts DEF Pictures
<1>2. \A q \in Pictures : Done(q) => Done(q)'
  BY <1>1 DEF Done
<1>3. \A q \in Pictures : Started(q) => Started(q)'
  BY <1>1 DEF Started
<1> QED BY <1>1, <1>2, <1>3 DEF Onward, Unstarted

LEMMA QuietKeepsHolds ==
    ASSUME CountInvariant, HoldInvariant, Onward, DOMAIN entries' = DOMAIN entries,
           \A i \in DOMAIN entries : /\ entries'[i].number = entries[i].number
                                     /\ entries'[i].used = entries[i].used
                                     /\ entries'[i].available = entries[i].available
                                     /\ entries'[i].object = entries[i].object,
           links' \subseteq links, head' = head, live' = live, Flying' = Flying,
           \A q \in Pictures : /\ stage'[q] = "coming" <=> stage[q] = "coming"
                               /\ stage'[q] = "sent" <=> stage[q] = "sent"
                               /\ Started(q)' => Started(q),
           \/ inbox' = inbox
           \/ \E p \in Pictures : Posts("FEEDBACK", p) \/ Takes("FEEDBACK", p)
    PROVE  HoldInvariant'
<1>1. CountTypes /\ HoldTypes /\ stream' = stream /\ head \in Nat
  BY DEF CountInvariant, HoldInvariant, Onward, CountTypes
<1>2. OrderKept'
  BY <1>1, OrderStays DEF HoldInvariant
<1>3. InputsQueued' /\ inbox' \in Seq(Messages)'
  <2>1. "FEEDBACK" \in Internal
    BY DEF Internal
  <2> QED BY <1>1, <2>1, InputsStay DEF HoldInvariant
<1>4. LinksAreLate'
  BY <1>1, LinksLateStay DEF HoldInvariant
<1>5. EntriesFollow'
  BY <1>1, EntriesStay DEF HoldInvariant
<1>6. CompleteOnce'
  <2>1. \A q \in Pictures : Unmarked(q) => Unmarked(q)'
    BY <1>1 DEF Unmarked
  <2> QED BY <1>1, <2>1, CompleteStays DEF HoldInvariant
<1>7. StartedAfter'
  BY <1>1, StartedAfterStays DEF HoldInvariant
<1>8. LiveIsHeld' /\ live' \in [Pictures -> Int]'
  <2>1. \A r \in Pictures : Nominal(r)' <=> Nominal(r)
    BY <1>1 DEF Nominal
  <2> QED BY <1>1, <2>1, LiveStays DEF HoldInvariant
<1> QED BY <1>2, <1>3, <1>4, <1>5, <1>6, <1>7, <1>8 DEF HoldInvariant, HoldTypes

LEMMA IdleKeepsHolds ==
    ASSUME CountInvariant, HoldInvariant, Pass \/ MeetEnd \/ UNCHANGED vars
    PROVE  HoldInvariant'
<1>1. /\ stream' = stream /\ stage' = stage /\ entries' = entries /\ links' = links /\ head' = head
      /\ live' = live /\ inbox' = inbox
  BY DEF Pass, MeetEnd, vars, managerVars, countVars
<1>2. Onward /\ Flying' = Flying /\ \A q \in Pictures : Started(q)' => Started(q)
  BY <1>1 DEF Onward, Done, Unstarted, Started, Flying, InFlight, Pictures
<1> QED BY <1>1, <1>2, QuietKeepsHolds

LEMMA PackKeepsHolds ==
    ASSUME CountInvariant, HoldInvariant, NEW p \in Pictures, Packetize(p) \/ Finish(p)
    PROVE  HoldInvariant'
<1>1. CountTypes
  BY DEF CountInvariant
<1>2. /\ stream' = stream /\ entries' = entries /\ links' = links /\ head' = head /\ live' = live
      /\ inbox' = inbox \/ Posts("FEEDBACK", p)
  BY DEF Packetize, Finish, managerVars, Send, Posts
<1>3. PICK from \in {"coded", "packed"} : \E to \in {"packed", "finished"} : Move(p, from, to)
  BY DEF Packetize, Finish
<1>4. PICK to \in {"packed", "finished"} : Move(p, from, to)
  BY <1>3
<1>5. from \in StageNames /\ to \in StageNames
  BY DEF StageNames
<1>6. Onward
  BY <1>1, <1>2, <1>4, <1>5, MovesOnward
<1>7. /\ stage[p] = from /\ stage'[p] = to /\ \A q \in Pictures : q # p => stage'[q] = stage[q]
  BY <1>1, <1>4, <1>5, MoveFacts
<1>8. /\ Flying' = Flying
      /\ \A q \in Pictures : /\ stage'[q] = "coming" <=> stage[q] = "coming"
                             /\ stage'[q] = "sent" <=> stage[q] = "sent"
                             /\ Started(q)' => Started(q)
  BY <1>2, <1>7 DEF Flying, InFlight, Started, Pictures
<1> QED BY <1>2, <1>6, <1>8, QuietKeepsHolds

LEMMA ReconstructKeepsHolds ==
    ASSUME CountInvariant, HoldInvariant, NEW p \in Pictures, Reconstruct(p)
    PROVE  HoldInvariant'
<1>1. CountTypes /\ HoldTypes /\ stream \in Streams /\ head \in Nat
  BY DEF CountInvariant, HoldInvariant, CountTypes
<1>2. /\ stream' = stream /\ entries' = entries /\ links' = links /\ head' = head /\ live' = live
      /\ Move(p, "started", "reconstructed")
      /\ IF stream[p].used THEN Posts("REFERENCE", p) ELSE inbox' = inbox
  BY DEF Reconstruct, managerVars, countVars, Send, Posts
<1>3. "started" \in StageNames /\ "reconstructed" \in StageNames
  BY DEF StageNames
<1>4. Onward
  BY <1>1, <1>2, <1>3, MovesOnward
<1>5. /\ stage[p] = "started" /\ stage'[p] = "reconstructed"
      /\ \A q \in Pictures : q # p => stage'[q] = stage[q]
  BY <1>1, <1>2, <1>3, MoveFacts
<1>6. /\ Flying' = Flying
      /\ \A q \in Pictures : /\ stage'[q] = "coming" <=> stage[q] = "coming"
                             /\ stage'[q] = "sent" <=> stage[q] = "sent"
                             /\ Started(q)' => Started(q)
  BY <1>2, <1>5 DEF Flying, InFlight, Started, Pictures
<1>7. OrderKept'
  BY <1>2, <1>6, OrderStays DEF HoldInvariant
<1>8. InputsQueued' /\ inbox' \in Seq(Messages)'
  <2>1. "REFERENCE" \in Internal
    BY DEF Internal
  <2> QED BY <1>1, <1>2, <1>6, <2>1, InputsStay DEF HoldInvariant
<1>9. LinksAreLate'
  BY <1>1, <1>2, LinksLateStay DEF HoldInvariant
<1>10. EntriesFollow'
  BY <1>1, <1>2, <1>4, EntriesStay DEF HoldInvariant
<1>11. CompleteOnce'
  <2>1. \A q \in Pictures : Unmarked(q) => Unmarked(q)'
    BY <1>2 DEF Unmarked
  <2>2. CASE ~stream[p].used
    <3>1. inbox' = inbox
      BY <1>2, <2>2
    <3> QED BY <1>1, <1>4, <2>1, <3>1, CompleteStays DEF HoldInvariant
  <2>3. CASE stream[p].used
    <3> DEFINE new == Len(inbox) + 1
    <3>1. /\ \A i \in DOMAIN inbox : inbox'[i] = inbox[i] /\ i # new
          /\ \A i \in DOMAIN inbox' : i \in DOMAIN inbox \/ i = new
          /\ inbox'[new].type = "REFERENCE" /\ inbox'[new].pic = p
      <4>1. Posts("REFERENCE", p) /\ inbox \in Seq(Messages)
        BY <1>1, <1>2, <2>3 DEF HoldTypes
      <4> QED BY <1>2, <4>1, PostedFacts
    <3> HIDE DEF new
    <3>2. ~Done(p) /\ Done(p)'
      BY <1>5 DEF Done
    <3>3. Unmarked(p)'
      <4>1. \A e \in DOMAIN entries : entries[e].number = stream[p].number =>
               entries[e].used /\ ~entries[e].available
        <5> TAKE e \in DOMAIN entries
        <5> SUFFICES ASSUME entries[e].number = stream[p].number
                     PROVE  entries[e].used /\ ~entries[e].available
          OBVIOUS
        <5>1. ~stream[p].overlay
          BY <1>1, <2>3, StreamAssumption DEF Pictures
        <5>2. EntryFollows(e, p)
          BY <5>1 DEF HoldInvariant, EntriesFollow, HasNumber
        <5> QED BY <2>3, <3>2, <5>2 DEF EntryFollows
      <4> QED BY <1>2, <4>1 DEF Unmarked
    <3>4. \A i \in DOMAIN inbox' : Reference(i)' =>
             /\ stream'[inbox'[i].pic].used /\ Done(inbox[i].pic)' /\ Unmarked(inbox[i].pic)'
      <4> TAKE i \in DOMAIN inbox'
      <4> SUFFICES ASSUME Reference(i)'
                   PROVE  stream'[inbox'[i].pic].used /\ Done(inbox[i].pic)' /\ Unmarked(inbox[i].pic)'
        OBVIOUS
      <4>1. CASE i = new
        BY <1>2, <2>3, <3>1, <3>2, <3>3, <4>1 DEF Done, Unmarked
      <4>2. CASE i # new
        <5>1. PICK q \in Pictures : q = inbox[i].pic
          BY <1>1, <3>1, <4>2, MessageFacts
        <5>2. inbox'[i].pic = q /\ i \in DOMAIN inbox /\ Reference(i)
          BY <3>1, <4>2, <5>1 DEF Reference
        <5>3. stream[q].used /\ Done(q) /\ Unmarked(q)
          BY <5>1, <5>2 DEF HoldInvariant, CompleteOnce
        <5>4. Done(q)' /\ Unmarked(q)'
          BY <1>4, <2>1, <5>3 DEF Onward
        <5> QED BY <1>2, <5>2, <5>3, <5>4 DEF Done, Unmarked
      <4> QED BY <4>1, <4>2
    <3>5. \A i, j \in DOMAIN inbox' : Reference(i)' /\ Reference(j)' /\ inbox'[i].pic = inbox'[j].pic => i = j
      <4>1. \A i \in DOMAIN inbox' : Reference(i)' /\ inbox'[i].pic = p => i = new
        <5> TAKE i \in DOMAIN inbox'
        <5> SUFFICES ASSUME Reference(i)', inbox'[i].pic = p, i # new
                     PROVE  FALSE
          OBVIOUS
        <5>1. i \in DOMAIN inbox /\ Reference(i) /\ inbox[i].pic = p
          BY <3>1 DEF Reference
        <5> QED BY <3>2, <5>1 DEF HoldInvariant, CompleteOnce
      <4>2. \A i, j \in DOMAIN inbox : Reference(i) /\ Reference(j) /\ inbox[i].pic = inbox[j].pic => i = j
        BY DEF HoldInvariant, CompleteOnce
      <4>3. \A i \in DOMAIN inbox' : Reference(i)' /\ i # new => i \in DOMAIN inbox /\ Reference(i) /\ inbox[i] = inbox'[i]
        BY <3>1 DEF Reference
      <4> QED BY <3>1, <4>1, <4>2, <4>3
    <3> QED BY <3>4, <3>5 DEF CompleteOnce
  <2> QED BY <2>2, <2>3
<1>12. StartedAfter'
  BY <1>1, <1>4, <1>6, StartedAfterStays DEF HoldInvariant
<1>13. LiveIsHeld' /\ live' \in [Pictures -> Int]'
  <2>1. \A r \in Pictures : Nominal(r)' <=> Nominal(r)
    BY <1>2, <1>6 DEF Nominal
  <2> QED BY <1>1, <1>2, <1>6, <2>1, LiveStays DEF HoldInvariant
<1> QED BY <1>7, <1>8, <1>9, <1>10, <1>11, <1>12, <1>13 DEF HoldInvariant, HoldTypes

\* How often the pictures of S read r is a number, and that of one and of the rest.
LEMMA ReadsOfParts ==
    ASSUME CountTypes, NEW r, NEW S \in SUBSET Pictures
    PROVE  /\ \A p \in Pictures :
                 /\ Occurrences(p, r) \in Nat
                 /\ Occurrences(p, r) = 0 <=> \A i \in DOMAIN stream[p].refs : Owner(stream, stream[p].refs[i]) # r
           /\ Reads(S, r) \in Nat
           /\ \A p \in S : Reads(S, r) = Occurrences(p, r) + Reads(S \ {p}, r) /\ Occurrences(p, r) <= Reads(S, r)
           /\ (\A p \in S : Occurrences(p, r) = 0) => Reads(S, r) = 0
<1> DEFINE f == [p \in Pictures |-> Occurrences(p, r)]
<1>1. \A p \in Pictures :
         /\ Occurrences(p, r) \in Nat
         /\ Occurrences(p, r) = 0 <=> \A i \in DOMAIN stream[p].refs : Owner(stream, stream[p].refs[i]) # r
  <2> TAKE p \in Pictures
  <2> DEFINE Places == {i \in DOMAIN stream[p].refs : Owner(stream, stream[p].refs[i]) = r}
  <2>1. stream[p].refs \in Seq(Nat)
    BY PictureFacts DEF CountTypes, Pictures
  <2>2. DOMAIN stream[p].refs = 1..Len(stream[p].refs) /\ Len(stream[p].refs) \in Nat
    BY <2>1
  <2>3. IsFiniteSet(Places)
    <3>1. IsFiniteSet(1..Len(stream[p].refs))
      BY <2>2, FS_Interval
    <3>2. Places \in SUBSET (1..Len(stream[p].refs))
      BY <2>2
    <3> QED BY <3>1, <3>2, FS_Subset
  <2>4. Cardinality(Places) \in Nat /\ (Cardinality(Places) = 0 <=> Places = {})
    <3> HIDE DEF Places
    <3> QED BY <2>3, FS_CardinalityType, FS_EmptySet
  <2>5. Occurrences(p, r) = Cardinality(Places)
    BY DEF Occurrences
  <2> QED BY <2>4, <2>5
<1>2. \A p \in S : f[p] = Occurrences(p, r) /\ f[p] \in Nat /\ f[p] \in Int
  BY <1>1
<1>3. IsFiniteSet(S)
  <2>1. IsFiniteSet(Pictures)
    BY PictureFacts DEF CountTypes, Pictures
  <2> QED BY <2>1, FS_Subset
<1>4. \A T : Reads(T, r) = Sum(f, T)
  BY DEF Reads
<1> HIDE DEF f
<1>5. Sum(f, S) \in Nat
  BY <1>2, <1>3, SumIsNumber
<1>6. \A p \in S : Sum(f, S) = f[p] + Sum(f, S \ {p})
  BY <1>2, <1>3, SumSplits
<1>7. \A p \in S : f[p] <= Sum(f, S)
  BY <1>2, <1>3, SumBounds
<1>8. (\A p \in S : f[p] = 0) => Sum(f, S) = 0
  BY <1>3, SumOfZeros
<1> QED BY <1>1, <1>2, <1>4, <1>5, <1>6, <1>7, <1>8

LEMMA CodeEntropyKeepsHolds ==
    ASSUME CountInvariant, HoldInvariant, NEW p \in Pictures, CodeEntropy(p)
    PROVE  HoldInvariant'
<1>1. CountTypes /\ HoldTypes /\ stream \in Streams /\ head \in Nat
  BY DEF CountInvariant, HoldInvariant, CountTypes
<1>2. /\ stream' = stream /\ entries' = entries /\ links' = links /\ head' = head /\ inbox' = inbox
      /\ Move(p, "reconstructed", "coded")
      /\ live' = [r \in Pictures |-> live[r] - Occurrences(p, r)]
  BY DEF CodeEntropy, managerVars
<1>3. "reconstructed" \in StageNames /\ "coded" \in StageNames
  BY DEF StageNames
<1>4. Onward
  BY <1>1, <1>2, <1>3, MovesOnward
<1>5. /\ stage[p] = "reconstructed" /\ stage'[p] = "coded"
      /\ \A q \in Pictures : q # p => stage'[q] = stage[q]
  BY <1>1, <1>2, <1>3, MoveFacts
<1>6. \A q \in Pictures : /\ stage'[q] = "coming" <=> stage[q] = "coming"
                          /\ stage'[q] = "sent" <=> stage[q] = "sent"
                          /\ Started(q)' => Started(q)
  BY <1>5 DEF Started
<1>7. Pictures' = Pictures /\ Flying' = Flying \ {p} /\ p \in Flying /\ Flying \in SUBSET Pictures
  <2>1. Pictures' = Pictures
    BY <1>2 DEF Pictures
  <2> QED BY <1>5, <2>1 DEF Flying, InFlight
<1>8. OrderKept'
  BY <1>2, <1>6, OrderStays DEF HoldInvariant
<1>9. InputsQueued' /\ inbox' \in Seq(Messages)'
  BY <1>1, <1>2, <1>6, InputsStay DEF HoldInvariant
<1>10. LinksAreLate'
  BY <1>1, <1>2, LinksLateStay DEF HoldInvariant
<1>11. EntriesFollow'
  BY <1>1, <1>2, <1>4, EntriesStay DEF HoldInvariant
<1>12. CompleteOnce'
  <2>1. \A q \in Pictures : Unmarked(q) => Unmarked(q)'
    BY <1>2 DEF Unmarked
  <2> QED BY <1>1, <1>2, <1>4, <2>1, CompleteStays DEF HoldInvariant
<1>13. StartedAfter'
  BY <1>1, <1>4, <1>6, StartedAfterStays DEF HoldInvariant
<1>14. LiveIsHeld' /\ live' \in [Pictures -> Int]'
  <2>1. \A r \in Pictures : /\ Nominal(r)' <=> Nominal(r)
                            /\ live'[r] \in Int /\ live'[r] = Count(Nominal(r)') + Reads(Flying \ {p}, r)
    <3> TAKE r \in Pictures
    <3>1. Nominal(r)' <=> Nominal(r)
      BY <1>2, <1>6 DEF Nominal
    <3>2. /\ Reads(Flying, r) = Occurrences(p, r) + Reads(Flying \ {p}, r)
          /\ Occurrences(p, r) \in Nat
      BY <1>1, <1>7, ReadsOfParts
    <3>3. Reads(Flying \ {p}, r) \in Nat
      <4>1. Flying \ {p} \in SUBSET Pictures
        BY <1>7
      <4> QED BY <1>1, <4>1, ReadsOfParts
    <3>4. live[r] \in Int /\ live[r] = Count(Nominal(r)) + Reads(Flying, r)
      BY <1>1 DEF HoldInvariant, LiveIsHeld, HoldTypes, Reading
    <3>5. live'[r] = live[r] - Occurrences(p, r)
      BY <1>2
    <3>6. Count(Nominal(r)) \in Int /\ Count(Nominal(r)') = Count(Nominal(r))
      BY <3>1 DEF Count
    <3> DEFINE o == Occurrences(p, r)
    <3> DEFINE a == Reads(Flying, r)
    <3> DEFINE b == Reads(Flying \ {p}, r)
    <3> DEFINE c == Count(Nominal(r))
    <3>7. o \in Int /\ a = o + b /\ b \in Int /\ c \in Int /\ live[r] = c + a /\ live'[r] = live[r] - o /\ live[r] \in Int
      BY <3>2, <3>3, <3>4, <3>5, <3>6
    <3> HIDE DEF o, a, b, c
    <3>8. live'[r] \in Int /\ live'[r] = c + b
      BY <3>7
    <3> QED BY <3>1, <3>6, <3>8 DEF b, c
  <2>2. \A r \in Pictures : Reading(r)' = Reads(Flying \ {p}, r)
    BY <1>2, <1>7 DEF Reading, Reads, Occurrences
  <2>3. \A r \in Pictures : Count(Nominal(r))' = Count(Nominal(r)')
    BY DEF Count
  <2>4. live' \in [Pictures -> Int]
    BY <1>2, <2>1
  <2> QED BY <1>7, <2>1, <2>2, <2>3, <2>4 DEF LiveIsHeld
<1> QED BY <1>8, <1>9, <1>10, <1>11, <1>12, <1>13, <1>14 DEF HoldInvariant, HoldTypes

LEMMA ReceiveFeedbackKeepsHolds ==
    ASSUME CountInvariant, HoldInvariant, NEW p \in Pictures, ReceiveFeedback(p)
    PROVE  HoldInvariant'
<1>1. CountTypes
  BY DEF CountInvariant
<1>2. /\ DOMAIN entries' = DOMAIN entries /\ CleanStep(links)
      /\ \A i \in DOMAIN entries : /\ entries'[i].used = entries[i].used
                                   /\ entries'[i].available = entries[i].available
                                   /\ entries'[i].object = entries[i].object
  BY <1>1, ReceiveFeedbackFacts
<1>3. /\ stream' = stream /\ stage' = stage /\ head' = head /\ live' = live
      /\ Takes("FEEDBACK", p)
  <2>1. ReceiveReference(p) \/ ReceiveFeedback(p)
    OBVIOUS
  <2>2. Head(inbox) = [type |-> "FEEDBACK", pic |-> p]
    BY DEF ReceiveFeedback, Receive
  <2> QED BY <2>1, <2>2, ReceiveOtherFacts DEF Takes
<1>4. links' \subseteq links /\ \A i \in DOMAIN entries : entries'[i].number = entries[i].number
  BY <1>2 DEF CleanStep, LinksLeft
<1>5. Onward /\ Flying' = Flying /\ \A q \in Pictures : Started(q)' => Started(q)
  BY <1>3 DEF Onward, Done, Unstarted, Started, Flying, InFlight, Pictures
<1> QED BY <1>2, <1>3, <1>4, <1>5, QuietKeepsHolds

\* A picture with an entry has been received, and has no other.
LEMMA EntryIsReceived ==
    ASSUME CountInvariant, NEW p \in Pictures, ~stream[p].overlay,
           NEW i \in DOMAIN entries, entries[i].number = stream[p].number
    PROVE  Received(p)
<1>1. stream \in Streams
  BY DEF CountInvariant, CountTypes
<1>2. PICK q \in Pictures : HasNumber(q, entries[i].number) /\ Received(q)
  BY DEF CountInvariant, EntriesMatch
<1>3. q = p
  BY <1>1, <1>2, NumbersAreUnique DEF HasNumber, Pictures
<1> QED BY <1>2, <1>3

LEMMA ArriveKeepsHolds ==
    ASSUME CountInvariant, HoldInvariant, NEW p \in Pictures, Arrive(p)
    PROVE  HoldInvariant'
<1>1. CountTypes /\ HoldTypes /\ stream \in Streams /\ head \in Nat
  BY DEF CountInvariant, HoldInvariant, CountTypes
<1>2. /\ stream' = stream /\ entries' = entries /\ links' = links /\ head' = head
      /\ Posts("INPUT", p) /\ Move(p, "coming", "sent")
      /\ live' = [live EXCEPT ![p] = Count(stream[p].used)]
      /\ \A q \in Pictures : stream[q].order < stream[p].order => stage[q] # "coming"
  BY DEF Arrive, managerVars, Send, Posts
<1>3. "coming" \in StageNames /\ "sent" \in StageNames
  BY DEF StageNames
<1>4. Onward
  BY <1>1, <1>2, <1>3, MovesOnward
<1>5. /\ stage[p] = "coming" /\ stage'[p] = "sent"
      /\ \A q \in Pictures : q # p => stage'[q] = stage[q]
  BY <1>1, <1>2, <1>3, MoveFacts
<1>6. /\ Pictures' = Pictures /\ Flying' = Flying /\ Flying \in SUBSET Pictures
      /\ \A q \in Pictures : (Started(q)' => Started(q)) /\ (Received(q)' <=> Received(q))
      /\ ~Received(p) /\ ~Done(p)
  BY <1>2, <1>5 DEF Flying, InFlight, Started, Received, Done, Pictures
<1>7. \A q \in Pictures : stream[q].order \in Nat
  BY <1>1, PictureFacts DEF Pictures
<1>8. OrderKept'
  <2>1. OrderKept
    BY DEF HoldInvariant
  <2>2. \A a, b \in Pictures : stage'[a] = "coming" /\ stage'[b] # "coming" => stream[b].order <= stream[a].order
    <3> TAKE a, b \in Pictures
    <3> SUFFICES ASSUME stage'[a] = "coming", stage'[b] # "coming"
                 PROVE  stream[b].order <= stream[a].order
      OBVIOUS
    <3>1. a # p /\ stage[a] = "coming"
      BY <1>5
    <3>2. CASE b = p
      BY <1>2, <1>7, <3>1, <3>2
    <3>3. CASE b # p
      BY <1>5, <2>1, <3>1, <3>3 DEF OrderKept
    <3> QED BY <3>2, <3>3
  <2>3. \A a, b \in Pictures : stage'[a] = "sent" /\ Received(b) => stream[b].order <= stream[a].order
    <3> TAKE a, b \in Pictures
    <3> SUFFICES ASSUME stage'[a] = "sent", Received(b)
                 PROVE  stream[b].order <= stream[a].order
      OBVIOUS
    <3>1. CASE a = p
      BY <1>5, <2>1, <3>1 DEF OrderKept, Received
    <3>2. CASE a # p
      BY <1>5, <2>1, <3>2 DEF OrderKept
    <3> QED BY <3>1, <3>2
  <2> QED BY <1>2, <1>6, <2>2, <2>3 DEF OrderKept
<1>9. InputsQueued' /\ inbox' \in Seq(Messages)'
  <2> DEFINE new == Len(inbox) + 1
  <2>1. /\ inbox' \in Seq(Messages)'
        /\ \A i \in DOMAIN inbox : i \in DOMAIN inbox' /\ inbox'[i] = inbox[i] /\ i < new
        /\ \A i \in DOMAIN inbox' : i \in DOMAIN inbox \/ i = new
        /\ new \in DOMAIN inbox'
        /\ inbox'[new].type = "INPUT" /\ inbox'[new].pic = p
    <3>1. inbox \in Seq(Messages)
      BY <1>1 DEF HoldTypes
    <3> QED BY <1>2, <3>1, PostedFacts
  <2>2. \A i \in DOMAIN inbox : i \in Nat /\ inbox[i].pic \in Pictures
    BY <1>1, MessageFacts
  <2>3. new \in Nat
    BY <1>1 DEF HoldTypes
  <2> HIDE DEF new
  <2>4. \A i \in DOMAIN inbox' : i # new => i \in DOMAIN inbox /\ inbox'[i] = inbox[i] /\ (Input(i)' => Input(i))
    BY <2>1 DEF Input
  <2>5. \A q \in Pictures : stage'[q] = "sent" => \E i \in DOMAIN inbox' : Input(i)' /\ inbox'[i].pic = q
    <3> TAKE q \in Pictures
    <3> SUFFICES ASSUME stage'[q] = "sent"
                 PROVE  \E i \in DOMAIN inbox' : Input(i)' /\ inbox'[i].pic = q
      OBVIOUS
    <3>1. CASE q = p
      BY <2>1, <3>1 DEF Input
    <3>2. CASE q # p
      <4>1. PICK i \in DOMAIN inbox : Input(i) /\ inbox[i].pic = q
        BY <1>5, <3>2 DEF HoldInvariant, InputsQueued
      <4> QED BY <2>1, <4>1 DEF Input
    <3> QED BY <3>1, <3>2
  <2>6. \A i \in DOMAIN inbox : Input(i) => stage[inbox[i].pic] = "sent"
    BY DEF HoldInvariant, InputsQueued
  <2>7. \A i \in DOMAIN inbox' : Input(i)' => stage'[inbox'[i].pic] = "sent"
    BY <1>5, <2>1, <2>2, <2>4, <2>6
  <2>8. \A i, j \in DOMAIN inbox' : i < j /\ Input(i)' /\ Input(j)' =>
           inbox'[i].pic # inbox'[j].pic /\ stream[inbox'[i].pic].order <= stream[inbox'[j].pic].order
    <3> TAKE i, j \in DOMAIN inbox'
    <3> SUFFICES ASSUME i < j, Input(i)', Input(j)'
                 PROVE  inbox'[i].pic # inbox'[j].pic /\ stream[inbox'[i].pic].order <= stream[inbox'[j].pic].order
      OBVIOUS
    <3>1. i # new
      BY <2>1, <2>2, <2>3
    <3>2. i \in DOMAIN inbox /\ inbox'[i] = inbox[i] /\ Input(i) /\ inbox[i].pic \in Pictures
      BY <2>2, <2>4, <3>1
    <3>3. CASE j = new
      <4>1. stage[inbox[i].pic] = "sent"
        BY <2>6, <3>2
      <4>2. stream[inbox[i].pic].order <= stream[p].order
        BY <1>5, <3>2, <4>1 DEF HoldInvariant, OrderKept
      <4> QED BY <1>5, <2>1, <3>2, <3>3, <4>1, <4>2
    <3>4. CASE j # new
      BY <2>4, <3>2, <3>4 DEF HoldInvariant, InputsQueued
    <3> QED BY <3>3, <3>4
  <2> QED BY <1>2, <1>6, <2>1, <2>5, <2>7, <2>8 DEF InputsQueued
<1>10. LinksAreLate'
  BY <1>1, <1>2, LinksLateStay DEF HoldInvariant
<1>11. EntriesFollow'
  BY <1>1, <1>2, <1>4, EntriesStay DEF HoldInvariant
<1>12. CompleteOnce'
  <2>1. \A q \in Pictures : Unmarked(q) => Unmarked(q)'
    BY <1>2 DEF Unmarked
  <2>2. "INPUT" \in {"INPUT", "FEEDBACK"}
    OBVIOUS
  <2> QED BY <1>1, <1>2, <1>4, <2>1, <2>2, CompleteStays DEF HoldInvariant
<1>13. StartedAfter'
  BY <1>1, <1>4, <1>6, StartedAfterStays DEF HoldInvariant
<1>14. LiveIsHeld' /\ live' \in [Pictures -> Int]'
  <2>1. live \in [Pictures -> Int] /\ Count(stream[p].used) \in Int
    BY <1>1 DEF HoldTypes, Count
  <2>2. Reads(Flying, p) = 0
    <3>1. \A q \in Flying : Occurrences(q, p) = 0
      <4> TAKE q \in Flying
      <4>1. q \in Pictures /\ Started(q)
        BY DEF Flying, InFlight, Started
      <4>2. \A i \in DOMAIN stream[q].refs : Owner(stream, stream[q].refs[i]) # p
        BY <1>6, <4>1 DEF HoldInvariant, StartedAfter
      <4> QED BY <1>1, <1>6, <4>1, <4>2, ReadsOfParts
    <3> QED BY <1>1, <1>6, <3>1, ReadsOfParts
  <2>3. Nominal(p)' <=> stream[p].used
    <3>1. stream[p].used => \A i \in DOMAIN entries : entries[i].number # stream[p].number
      <4>1. stream[p].used => ~stream[p].overlay
        BY <1>1, StreamAssumption DEF Pictures
      <4> QED BY <1>6, <4>1, EntryIsReceived
    <3> QED BY <1>2, <1>5, <3>1 DEF Nominal
  <2>4. \A r \in Pictures : r # p => (Nominal(r)' <=> Nominal(r))
    BY <1>2, <1>5 DEF Nominal
  <2>5. \A r \in Pictures : live'[r] = Count(Nominal(r)') + Reads(Flying, r)
    <3> TAKE r \in Pictures
    <3>1. CASE r = p
      <4>1. live'[p] = Count(stream[p].used)
        BY <1>2, <2>1
      <4>2. Count(Nominal(p)') = Count(stream[p].used)
        BY <2>3 DEF Count
      <4> QED BY <2>1, <2>2, <3>1, <4>1, <4>2
    <3>2. CASE r # p
      <4>1. live'[r] = live[r] /\ Count(Nominal(r)') = Count(Nominal(r))
        BY <1>2, <2>1, <2>4, <3>2 DEF Count
      <4> QED BY <4>1 DEF HoldInvariant, LiveIsHeld, Reading
    <3> QED BY <3>1, <3>2
  <2>6. \A r \in Pictures : Reading(r)' = Reads(Flying, r)
    BY <1>2, <1>6 DEF Reading, Reads, Occurrences
  <2>7. \A r \in Pictures : Count(Nominal(r))' = Count(Nominal(r)')
    BY DEF Count
  <2>8. live' \in [Pictures -> Int]
    BY <1>2, <2>1
  <2> QED BY <1>6, <2>5, <2>6, <2>7, <2>8 DEF LiveIsHeld
<1> QED BY <1>8, <1>9, <1>10, <1>11, <1>12, <1>13, <1>14 DEF HoldInvariant, HoldTypes

LEMMA StartKeepsHolds ==
    ASSUME CountInvariant, HoldInvariant, NEW p \in Pictures, Starts(p)
    PROVE  HoldInvariant' /\ Onward
<1>1. CountTypes /\ HoldTypes /\ stream \in Streams /\ head \in Nat
  BY DEF CountInvariant, HoldInvariant, CountTypes
<1>2. /\ stream' = stream /\ links' = links /\ head' = head /\ inbox' = inbox
      /\ DOMAIN entries' = DOMAIN entries
      /\ \A i \in DOMAIN entries : /\ entries'[i].number = entries[i].number
                                   /\ entries'[i].used = entries[i].used
                                   /\ entries'[i].available = entries[i].available
                                   /\ entries'[i].object = entries[i].object
      /\ live' = [r \in Pictures |-> live[r] + Occurrences(p, r)]
      /\ Ready(p)
  BY DEF Starts
<1>3. /\ stage[p] = "queued" /\ stage'[p] = "started"
      /\ \A q \in Pictures : q # p => stage'[q] = stage[q]
  BY DEF Starts
<1>4. Pictures' = Pictures
  BY <1>2 DEF Pictures
<1>5. \A q \in Pictures : /\ stage'[q] = "coming" <=> stage[q] = "coming"
                          /\ stage'[q] = "sent" <=> stage[q] = "sent"
                          /\ Started(q) => Started(q)'
                          /\ Started(q)' => Started(q) \/ q = p
                          /\ Done(q) => Done(q)'
  BY <1>3 DEF Started, Done
<1>6. Onward
  BY <1>2, <1>4, <1>5 DEF Onward, Unstarted
<1>7. Flying' = Flying \cup {p} /\ p \notin Flying /\ Flying \cup {p} \in SUBSET Pictures
  BY <1>3, <1>4 DEF Flying, InFlight
<1>8. OrderKept'
  BY <1>2, <1>5, OrderStays DEF HoldInvariant
<1>9. InputsQueued' /\ inbox' \in Seq(Messages)'
  BY <1>1, <1>2, <1>5, InputsStay DEF HoldInvariant
<1>10. LinksAreLate'
  BY <1>1, <1>2, LinksLateStay DEF HoldInvariant
<1>11. EntriesFollow'
  BY <1>1, <1>2, <1>6, EntriesStay DEF HoldInvariant
<1>12. CompleteOnce'
  <2>1. \A q \in Pictures : Unmarked(q) => Unmarked(q)'
    BY <1>2 DEF Unmarked
  <2> QED BY <1>1, <1>2, <1>6, <2>1, CompleteStays DEF HoldInvariant
<1>13. StartedAfter'
  <2>1. \A q \in Pictures : Started(q)' => \A k \in DOMAIN stream[q].refs :
           \E r \in Pictures : r = Owner(stream, stream[q].refs[k]) /\ Done(r)
    <3> TAKE q \in Pictures
    <3> SUFFICES ASSUME Started(q)', NEW k \in DOMAIN stream[q].refs
                 PROVE  \E r \in Pictures : r = Owner(stream, stream[q].refs[k]) /\ Done(r)
      OBVIOUS
    <3>1. PICK r \in Pictures : /\ r = Owner(stream, stream[q].refs[k])
                                /\ ~stream[r].overlay /\ stream[r].number = stream[q].refs[k]
      BY <1>1, ReferenceFacts DEF Pictures
    <3>2. CASE q # p
      <4>1. Started(q)
        BY <1>5, <3>2
      <4> QED BY <3>1, <4>1 DEF HoldInvariant, StartedAfter
    <3>3. CASE q = p
      <4>1. PICK i \in DOMAIN entries : entries[i].number = stream[p].refs[k] /\ entries[i].available
        BY <1>2, <3>3, ReadyFinds
      <4>2. EntryFollows(i, r)
        BY <3>1, <3>3, <4>1 DEF HoldInvariant, EntriesFollow, HasNumber
      <4> QED BY <3>1, <4>1, <4>2 DEF EntryFollows
    <3> QED BY <3>2, <3>3
  <2>2. \A q \in Pictures : Started(q)' => \A k \in DOMAIN stream[q].refs :
           \E r \in Pictures : r = Owner(stream, stream[q].refs[k]) /\ Done(r)'
    BY <1>5, <2>1
  <2>3. \A q \in Pictures : Started(q)' => \A k \in DOMAIN stream[q].refs :
           stage'[Owner(stream, stream[q].refs[k])] \in {"reconstructed", "coded", "packed", "finished"}
    BY <2>2 DEF Done
  <2> QED BY <1>2, <1>4, <2>3 DEF StartedAfter, Done
<1>14. LiveIsHeld' /\ live' \in [Pictures -> Int]'
  <2>1. \A r \in Pictures : live'[r] \in Int /\ live'[r] = Count(Nominal(r)') + Reads(Flying \cup {p}, r)
    <3> TAKE r \in Pictures
    <3>1. Nominal(r)' <=> Nominal(r)
      BY <1>2, <1>5 DEF Nominal
    <3>2. /\ Reads(Flying \cup {p}, r) = Occurrences(p, r) + Reads((Flying \cup {p}) \ {p}, r)
          /\ Occurrences(p, r) \in Nat
      BY <1>1, <1>7, ReadsOfParts
    <3>3. (Flying \cup {p}) \ {p} = Flying
      BY <1>7
    <3>4. Reads(Flying, r) \in Nat
      <4>1. Flying \in SUBSET Pictures
        BY <1>7
      <4> QED BY <1>1, <4>1, ReadsOfParts
    <3>5. live[r] \in Int /\ live[r] = Count(Nominal(r)) + Reads(Flying, r)
      BY <1>1 DEF HoldInvariant, LiveIsHeld, HoldTypes, Reading
    <3>6. live'[r] = live[r] + Occurrences(p, r)
      BY <1>2
    <3>7. Count(Nominal(r)) \in Int /\ Count(Nominal(r)') = Count(Nominal(r))
      BY <3>1 DEF Count
    <3>8. Reads(Flying \cup {p}, r) = Occurrences(p, r) + Reads(Flying, r)
      BY <3>2, <3>3
    <3>9. Occurrences(p, r) \in Int /\ Reads(Flying, r) \in Int
      BY <3>2, <3>4
    <3> DEFINE o == Occurrences(p, r)
    <3> DEFINE a == Reads(Flying \cup {p}, r)
    <3> DEFINE b == Reads(Flying, r)
    <3> DEFINE c == Count(Nominal(r))
    <3>10. o \in Int /\ a = o + b /\ b \in Int /\ c \in Int /\ live[r] = c + b /\ live'[r] = live[r] + o
      BY <3>5, <3>6, <3>7, <3>8, <3>9
    <3> HIDE DEF o, a, b, c
    <3>11. live'[r] \in Int /\ live'[r] = c + a
      BY <3>10
    <3> QED BY <3>1, <3>7, <3>11 DEF a, c
  <2>2. \A r \in Pictures : Reading(r)' = Reads(Flying \cup {p}, r)
    BY <1>2, <1>4, <1>7 DEF Reading, Reads, Occurrences
  <2>3. \A r \in Pictures : Count(Nominal(r))' = Count(Nominal(r)')
    BY DEF Count
  <2>4. live' \in [Pictures -> Int]
    BY <1>2, <2>1
  <2> QED BY <1>4, <2>1, <2>2, <2>3, <2>4 DEF LiveIsHeld
<1> QED BY <1>6, <1>8, <1>9, <1>10, <1>11, <1>12, <1>13, <1>14 DEF HoldInvariant, HoldTypes

LEMMA ReceiveReferenceKeepsHolds ==
    ASSUME CountInvariant, HoldInvariant, NEW p \in Pictures, ReceiveReference(p)
    PROVE  HoldInvariant'
<1>1. CountTypes /\ HoldTypes /\ stream \in Streams /\ head \in Nat
  BY DEF CountInvariant, HoldInvariant, CountTypes
<1> DEFINE found == Found(entries, head, stream[p].number)
<1>2. /\ DOMAIN entries' = DOMAIN entries /\ CleanStep(links) /\ entries' \in Seq(EntrySet)
      /\ \A i \in DOMAIN entries :
            /\ entries'[i].used = entries[i].used
            /\ IF i \in found
               THEN entries'[i].available /\ entries'[i].object
               ELSE entries'[i].available = entries[i].available /\ entries'[i].object = entries[i].object
  BY <1>1, ReceiveReferenceFacts
<1>3. /\ stream' = stream /\ stage' = stage /\ head' = head /\ live' = live
      /\ Takes("REFERENCE", p)
  <2>1. ReceiveReference(p) \/ ReceiveFeedback(p)
    OBVIOUS
  <2>2. Head(inbox) = [type |-> "REFERENCE", pic |-> p]
    BY DEF ReceiveReference, Receive
  <2> QED BY <2>1, <2>2, ReceiveOtherFacts DEF Takes
<1>4. links' \subseteq links /\ \A i \in DOMAIN entries : entries'[i].number = entries[i].number
  BY <1>2 DEF CleanStep, LinksLeft
<1>5. /\ Onward /\ Flying' = Flying /\ Pictures' = Pictures
      /\ \A q \in Pictures : (Started(q)' => Started(q)) /\ (Done(q)' <=> Done(q))
  BY <1>3 DEF Onward, Done, Unstarted, Started, Flying, InFlight, Pictures
<1>6. /\ 1 \in DOMAIN inbox /\ Reference(1) /\ inbox[1].pic = p
      /\ \A i \in DOMAIN inbox' : i \in Nat /\ i > 0 /\ i + 1 \in DOMAIN inbox /\ inbox'[i] = inbox[i + 1]
  <2>1. inbox \in Seq(Messages)
    BY <1>1 DEF HoldTypes
  <2> QED BY <1>3, <2>1, TakenFacts DEF Reference
<1>7. stream[p].used /\ Done(p) /\ Unmarked(p) /\ ~stream[p].overlay
  <2>1. stream[p].used /\ Done(p) /\ Unmarked(p)
    BY <1>6 DEF HoldInvariant, CompleteOnce
  <2> QED BY <1>1, <2>1, StreamAssumption DEF Pictures
<1>8. \A i \in found : i \in DOMAIN entries /\ entries[i].number = stream[p].number
  BY <1>1, SearchedFacts DEF Found
<1> HIDE DEF found
<1>9. OrderKept'
  BY <1>3, OrderStays DEF HoldInvariant
<1>10. InputsQueued' /\ inbox' \in Seq(Messages)'
  <2>1. "REFERENCE" \in Internal
    BY DEF Internal
  <2> QED BY <1>1, <1>3, <2>1, InputsStay DEF HoldInvariant
<1>11. LinksAreLate'
  BY <1>1, <1>2, <1>3, <1>4, LinksLateStay DEF HoldInvariant
<1>12. EntriesFollow'
  <2>1. \A i \in DOMAIN entries : \A q \in Pictures : HasNumber(q, entries[i].number) => EntryFollows(i, q)'
    <3> TAKE i \in DOMAIN entries
    <3> TAKE q \in Pictures
    <3> SUFFICES ASSUME HasNumber(q, entries[i].number)
                 PROVE  EntryFollows(i, q)'
      OBVIOUS
    <3>1. EntryFollows(i, q)
      BY DEF HoldInvariant, EntriesFollow
    <3>2. entries'[i].number = entries[i].number /\ entries'[i].used = entries[i].used
      BY <1>2, <1>4
    <3>3. /\ entries'[i].used => stream[q].used
          /\ stream[q].used /\ ~entries'[i].used =>
                \A a \in Unstarted : TimesReferred(stream[a], entries'[i].number) = 0
          /\ stream[q].used /\ ~entries'[i].used => Done(q)
      BY <3>1, <3>2 DEF EntryFollows
    <3>4. /\ entries'[i].available => entries'[i].used /\ Done(q)
          /\ entries'[i].object = entries'[i].available
      <4>1. CASE i \in found
        <5>1. entries[i].number = stream[p].number
          BY <1>8, <4>1
        <5>2. q = p
          BY <1>1, <1>7, <5>1, NumbersAreUnique DEF HasNumber, Pictures
        <5>3. entries'[i].used
          BY <1>7, <3>2, <5>1 DEF Unmarked
        <5>4. entries'[i].object = TRUE /\ entries'[i].available = TRUE
          <6>1. entries'[i] \in EntrySet
            BY <1>2
          <6>2. entries'[i].object \in BOOLEAN /\ entries'[i].available \in BOOLEAN
            BY <6>1 DEF EntrySet
          <6> QED BY <1>2, <4>1, <6>2
        <5> QED BY <1>7, <5>2, <5>3, <5>4
      <4>2. CASE i \notin found
        BY <1>2, <3>1, <3>2, <4>2 DEF EntryFollows
      <4> QED BY <4>1, <4>2
    <3>5. Unstarted' = Unstarted
      BY <1>3, <1>5 DEF Unstarted, Started
    <3> QED BY <1>3, <1>5, <3>3, <3>4, <3>5 DEF EntryFollows
  <2>2. \A i \in DOMAIN entries : \A q \in Pictures : HasNumber(q, entries[i].number)' => HasNumber(q, entries[i].number)
    BY <1>3, <1>4 DEF HasNumber
  <2> QED BY <1>2, <1>5, <2>1, <2>2 DEF EntriesFollow
<1>13. CompleteOnce'
  <2>1. \A q \in Pictures : /\ \E i \in DOMAIN inbox' : inbox'[i].type = "REFERENCE" /\ inbox'[i].pic = q
                            /\ stream[q].used /\ Done(q) /\ Unmarked(q)
                            => Unmarked(q)'
    <3> TAKE q \in Pictures
    <3> SUFFICES ASSUME NEW i \in DOMAIN inbox', inbox'[i].type = "REFERENCE", inbox'[i].pic = q,
                        stream[q].used, Unmarked(q)
                 PROVE  Unmarked(q)'
      OBVIOUS
    <3>1. i + 1 \in DOMAIN inbox /\ i + 1 # 1 /\ Reference(i + 1) /\ inbox[i + 1].pic = q
      BY <1>6 DEF Reference
    <3>2. q # p
      BY <1>6, <3>1 DEF HoldInvariant, CompleteOnce
    <3>3. stream[q].number # stream[p].number
      <4>1. ~stream[q].overlay
        BY <1>1, StreamAssumption DEF Pictures
      <4> QED BY <1>1, <1>7, <3>2, <4>1, NumbersAreUnique DEF Pictures
    <3>4. \A e \in DOMAIN entries : entries[e].number = stream[q].number =>
             entries'[e].used /\ ~entries'[e].available
      BY <1>2, <1>8, <3>3 DEF Unmarked
    <3> QED BY <1>2, <1>3, <1>4, <3>4 DEF Unmarked
  <2>2. "REFERENCE" \in {"INPUT", "REFERENCE", "FEEDBACK"}
    OBVIOUS
  <2> QED BY <1>1, <1>3, <1>5, <2>1, <2>2, CompleteStays DEF HoldInvariant
<1>14. StartedAfter'
  BY <1>1, <1>5, StartedAfterStays DEF HoldInvariant
<1>15. LiveIsHeld' /\ live' \in [Pictures -> Int]'
  <2>1. \A r \in Pictures : Nominal(r)' <=> Nominal(r)
    BY <1>2, <1>3, <1>4 DEF Nominal
  <2> QED BY <1>1, <1>3, <1>5, <2>1, LiveStays DEF HoldInvariant
<1> QED BY <1>9, <1>10, <1>11, <1>12, <1>13, <1>14, <1>15 DEF HoldInvariant, HoldTypes

\* The pictures that were received are the first ones in decode order.
LEMMA ReceivedAreFirst ==
    ASSUME CountTypes, OrderKept
    PROVE  {q \in Pictures : Received(q)} \in FirstPictures(stream)
<1>1. \A a, b \in Pictures : Received(a) /\ stream[b].order < stream[a].order => Received(b)
  <2> TAKE a, b \in Pictures
  <2> SUFFICES ASSUME Received(a), stream[b].order < stream[a].order, ~Received(b)
               PROVE  FALSE
    OBVIOUS
  <2>1. stage[a] # "coming" /\ (stage[b] = "coming" \/ stage[b] = "sent")
    BY DEF Received
  <2>2. stream[a].order <= stream[b].order
    BY <2>1 DEF OrderKept
  <2>3. stream[a].order \in Nat /\ stream[b].order \in Nat
    BY PictureFacts DEF CountTypes, Pictures
  <2> QED BY <2>2, <2>3
<1> QED BY <1>1 DEF FirstPictures, Pictures

\* The message of a picture's input is taken.
LEMMA TakenInputs ==
    ASSUME HoldTypes, OrderKept, InputsQueued, stream' = stream, NEW p \in Pictures, Takes("INPUT", p),
           stage'[p] = "queued", \A q \in Pictures : q # p => stage'[q] = stage[q]
    PROVE  OrderKept' /\ InputsQueued' /\ inbox' \in Seq(Messages)'
<1>1. inbox \in Seq(Messages) /\ \A i \in DOMAIN inbox : i \in Nat /\ i > 0 /\ inbox[i].pic \in Pictures
  BY MessageFacts DEF HoldTypes
<1>2. /\ inbox' \in Seq(Messages)'
      /\ 1 \in DOMAIN inbox /\ inbox[1].type = "INPUT" /\ inbox[1].pic = p
      /\ \A i \in DOMAIN inbox' : i \in Nat /\ i > 0 /\ i + 1 \in DOMAIN inbox /\ inbox'[i] = inbox[i + 1]
      /\ \A i \in DOMAIN inbox : i # 1 => i > 1 /\ i - 1 \in DOMAIN inbox' /\ inbox'[i - 1] = inbox[i]
  BY <1>1, TakenFacts
<1>3. Input(1) /\ stage[p] = "sent"
  BY <1>2 DEF InputsQueued, Input
<1>4. \A i \in DOMAIN inbox : i # 1 /\ Input(i) =>
         inbox[i].pic # p /\ stream[p].order <= stream[inbox[i].pic].order
  <2> TAKE i \in DOMAIN inbox
  <2> SUFFICES ASSUME i # 1, Input(i)
               PROVE  inbox[i].pic # p /\ stream[p].order <= stream[inbox[i].pic].order
    OBVIOUS
  <2>1. 1 < i
    BY <1>2
  <2> QED BY <1>2, <1>3, <2>1 DEF InputsQueued
<1>5. \A q \in Pictures : stage'[q] = "sent" => \E i \in DOMAIN inbox : i # 1 /\ Input(i) /\ inbox[i].pic = q
  <2> TAKE q \in Pictures
  <2> SUFFICES ASSUME stage'[q] = "sent"
               PROVE  \E i \in DOMAIN inbox : i # 1 /\ Input(i) /\ inbox[i].pic = q
    OBVIOUS
  <2>1. q # p /\ stage[q] = "sent"
    OBVIOUS
  <2>2. PICK i \in DOMAIN inbox : Input(i) /\ inbox[i].pic = q
    BY <2>1 DEF InputsQueued
  <2> QED BY <1>2, <2>1, <2>2
<1>6. Pictures' = Pictures
  BY DEF Pictures
<1>7. OrderKept'
  <2>1. \A a, b \in Pictures : stage'[a] = "coming" /\ stage'[b] # "coming" => stream[b].order <= stream[a].order
    BY <1>3 DEF OrderKept
  <2>2. \A a, b \in Pictures : stage'[a] = "sent" /\ Received(b)' => stream[b].order <= stream[a].order
    <3> TAKE a, b \in Pictures
    <3> SUFFICES ASSUME stage'[a] = "sent", Received(b)'
                 PROVE  stream[b].order <= stream[a].order
      OBVIOUS
    <3>1. CASE b = p
      BY <1>4, <1>5, <3>1
    <3>2. CASE b # p
      <4>1. Received(b)
        BY <3>2 DEF Received
      <4>2. stage[a] = "sent"
        OBVIOUS
      <4> QED BY <4>1, <4>2 DEF OrderKept
    <3> QED BY <3>1, <3>2
  <2> QED BY <1>6, <2>1, <2>2 DEF OrderKept
<1>8. InputsQueued'
  <2>1. \A q \in Pictures : stage'[q] = "sent" => \E i \in DOMAIN inbox' : Input(i)' /\ inbox'[i].pic = q
    <3> TAKE q \in Pictures
    <3> SUFFICES ASSUME stage'[q] = "sent"
                 PROVE  \E i \in DOMAIN inbox' : Input(i)' /\ inbox'[i].pic = q
      OBVIOUS
    <3>1. PICK i \in DOMAIN inbox : i # 1 /\ Input(i) /\ inbox[i].pic = q
      BY <1>5
    <3>2. i - 1 \in DOMAIN inbox' /\ inbox'[i - 1].type = "INPUT" /\ inbox'[i - 1].pic = q
      BY <1>2, <3>1 DEF Input
    <3>3. \E j \in DOMAIN inbox' : inbox'[j].type = "INPUT" /\ inbox'[j].pic = q
      BY <3>2
    <3> QED BY <3>3 DEF Input
  <2>2. \A i \in DOMAIN inbox' : /\ i \in Nat /\ i + 1 \in DOMAIN inbox /\ i + 1 # 1 /\ inbox'[i] = inbox[i + 1]
                                 /\ inbox[i + 1].pic \in Pictures
                                 /\ Input(i)' => Input(i + 1)
    BY <1>1, <1>2 DEF Input
  <2>3. \A i \in DOMAIN inbox' : Input(i)' => stage'[inbox'[i].pic] = "sent"
    BY <1>4, <2>2 DEF InputsQueued
  <2>4. \A i, j \in DOMAIN inbox' : i < j /\ Input(i)' /\ Input(j)' =>
           inbox'[i].pic # inbox'[j].pic /\ stream[inbox'[i].pic].order <= stream[inbox'[j].pic].order
    <3> TAKE i, j \in DOMAIN inbox'
    <3> SUFFICES ASSUME i < j, Input(i)', Input(j)'
                 PROVE  inbox'[i].pic # inbox'[j].pic /\ stream[inbox'[i].pic].order <= stream[inbox'[j].pic].order
      OBVIOUS
    <3>1. i + 1 < j + 1
      BY <2>2
    <3> QED BY <2>2, <3>1 DEF InputsQueued
  <2> QED BY <1>6, <2>1, <2>3, <2>4 DEF InputsQueued
<1> QED BY <1>2, <1>7, <1>8

LEMMA ReceiveInputKeepsHolds ==
    ASSUME CountInvariant, HoldInvariant, NEW p \in Pictures, ReceiveInput(p)
    PROVE  HoldInvariant' /\ Onward
<1> DEFINE ls == links \cup LinksBy(p)
<1> DEFINE new == Len(entries) + 1
<1>1. CountTypes /\ HoldTypes /\ stream \in Streams /\ head \in Nat
  BY DEF CountInvariant, HoldInvariant, CountTypes
<1>2. /\ DOMAIN entries' = IF stream[p].overlay THEN DOMAIN entries ELSE DOMAIN entries \cup {new}
      /\ CleanStep(ls)
      /\ \A i \in DOMAIN entries :
            /\ i # new
            /\ entries'[i].used = entries[i].used
            /\ entries'[i].available = entries[i].available
            /\ entries'[i].object = entries[i].object
      /\ ~stream[p].overlay => entries'[new] = NewEntry(p)
      /\ stage[p] = "sent" /\ stage'[p] = "queued"
      /\ \A q \in Pictures : q # p => stage'[q] = stage[q]
      /\ stream' = stream /\ head' = head /\ live' = live
      /\ Takes("INPUT", p)
  BY <1>1, ReceiveInputFacts DEF Takes
<1>3. /\ NewEntry(p).number = stream[p].number /\ NewEntry(p).used = stream[p].used
      /\ NewEntry(p).available = FALSE /\ NewEntry(p).object = FALSE
  BY <1>1, NewEntryFacts
<1>4. \A i \in DOMAIN entries : entries'[i].number = entries[i].number
  BY <1>2 DEF CleanStep
<1>5. links' = LinksLeft(ls)
  BY <1>2 DEF CleanStep
<1>6. Pictures' = Pictures
  BY <1>2 DEF Pictures
<1>7. /\ Onward /\ Flying' = Flying /\ ~Received(p) /\ ~Done(p)
      /\ \A q \in Pictures : /\ Started(q)' => Started(q)
                             /\ stage'[q] = "coming" <=> stage[q] = "coming"
  <2>1. \A q \in Pictures : (Started(q)' <=> Started(q)) /\ (Done(q)' <=> Done(q)) /\ (InFlight(q)' <=> InFlight(q))
    BY <1>2 DEF Started, Done, InFlight
  <2> QED BY <1>2, <1>6, <2>1 DEF Onward, Unstarted, Flying, Received, Done
<1>8. \A i \in DOMAIN entries' : i \in DOMAIN entries \/ (i = new /\ ~stream[p].overlay /\ entries'[i] = NewEntry(p))
  BY <1>2
<1>9. \A q \in Pictures : stream[q].used => ~stream[q].overlay
  BY <1>1, StreamAssumption DEF Pictures
<1> HIDE DEF new, ls
<1>10. OrderKept' /\ InputsQueued' /\ inbox' \in Seq(Messages)'
  BY <1>1, <1>2, TakenInputs DEF HoldInvariant
<1>11. LinksAreLate'
  <2> SUFFICES ASSUME NEW l \in links', NEW i \in DOMAIN entries', entries'[i].number = l.number
               PROVE  i < head
    BY <1>2 DEF LinksAreLate
  <2>1. l \in ls /\ Found(entries, head, l.number) = {}
    BY <1>5 DEF LinksLeft
  <2>2. CASE i \in DOMAIN entries
    <3>1. entries[i].number = l.number
      BY <1>4, <2>2
    <3>2. i \notin Searched(entries, head)
      BY <2>1, <3>1 DEF Found
    <3>3. DOMAIN entries = 1..Len(entries) /\ Len(entries) \in Nat /\ head \in Nat \ {0}
      BY <1>1 DEF CountTypes
    <3> QED BY <2>2, <3>2, <3>3 DEF Searched
  <2>3. CASE i \notin DOMAIN entries
    <3>1. ~stream[p].overlay /\ l.number = stream[p].number
      BY <1>3, <1>8, <2>3
    <3>2. l \in AllLinks(stream) /\ (Received(l.by) \/ l.by = p)
      BY <1>1, <2>1 DEF ls, LinksBy, CountTypes, CountInvariant, LinksWait
    <3>3. l.by \in Pictures /\ ComesBefore(stream, l.number, l.by)
      BY <1>1, <3>2, LinkFacts DEF Pictures
    <3>4. PICK r \in Pictures : ~stream[r].overlay /\ stream[r].number = l.number /\ stream[r].order < stream[l.by].order
      BY <3>3 DEF ComesBefore, Pictures
    <3>5. r = p
      BY <1>1, <3>1, <3>4, NumbersAreUnique DEF Pictures
    <3>6. l.by # p
      <4>1. stream[p].order \in Nat
        BY <1>1, PictureFacts DEF Pictures
      <4> QED BY <3>4, <3>5, <4>1
    <3>7. {q \in Pictures : Received(q)} \in FirstPictures(stream)
      BY <1>1, ReceivedAreFirst DEF HoldInvariant
    <3>8. Received(p)
      BY <3>2, <3>3, <3>4, <3>5, <3>6, <3>7 DEF FirstPictures, Pictures
    <3> QED BY <1>7, <3>8
  <2> QED BY <2>2, <2>3
<1>12. EntriesFollow'
  <2>1. \A i \in DOMAIN entries' : \A q \in Pictures : HasNumber(q, entries'[i].number) => EntryFollows(i, q)'
    <3> TAKE i \in DOMAIN entries'
    <3> TAKE q \in Pictures
    <3> SUFFICES ASSUME HasNumber(q, entries'[i].number)
                 PROVE  EntryFollows(i, q)'
      OBVIOUS
    <3>1. CASE i \in DOMAIN entries
      <4>1. /\ entries'[i].number = entries[i].number /\ entries'[i].used = entries[i].used
            /\ entries'[i].available = entries[i].available /\ entries'[i].object = entries[i].object
        BY <1>2, <1>4, <3>1
      <4>2. EntryFollows(i, q)
        BY <3>1, <4>1 DEF HoldInvariant, EntriesFollow, HasNumber
      <4> QED BY <1>2, <1>6, <1>7, <4>1, <4>2 DEF EntryFollows, Onward
    <3>2. CASE i \notin DOMAIN entries
      <4>1. /\ entries'[i].number = stream[p].number /\ entries'[i].used = stream[p].used /\ ~stream[p].overlay
            /\ entries'[i].available = FALSE /\ entries'[i].object = FALSE
        BY <1>3, <1>8, <3>2
      <4>2. q = p
        BY <1>1, <4>1, NumbersAreUnique DEF HasNumber, Pictures
      <4> QED BY <1>2, <4>1, <4>2 DEF EntryFollows
    <3> QED BY <3>1, <3>2
  <2>2. \A i \in DOMAIN entries' : \A q \in Pictures : HasNumber(q, entries[i].number)' => HasNumber(q, entries'[i].number)
    BY <1>2 DEF HasNumber
  <2> QED BY <1>6, <2>1, <2>2 DEF EntriesFollow
<1>13. \A q \in Pictures : q # p /\ stream[q].used =>
          \A i \in DOMAIN entries' : entries'[i].number = stream[q].number => i \in DOMAIN entries
  <2> TAKE q \in Pictures
  <2> SUFFICES ASSUME q # p, stream[q].used, NEW i \in DOMAIN entries', entries'[i].number = stream[q].number,
                      i \notin DOMAIN entries
               PROVE  FALSE
    OBVIOUS
  <2>1. ~stream[p].overlay /\ stream[p].number = stream[q].number
    BY <1>3, <1>8
  <2> QED BY <1>1, <1>9, <2>1, NumbersAreUnique DEF Pictures
<1>14. CompleteOnce'
  <2>1. \A q \in Pictures : stream[q].used /\ Done(q) /\ Unmarked(q) => Unmarked(q)'
    <3> TAKE q \in Pictures
    <3> SUFFICES ASSUME stream[q].used, Done(q), Unmarked(q)
                 PROVE  Unmarked(q)'
      OBVIOUS
    <3>1. \A e \in DOMAIN entries' : entries'[e].number = stream[q].number =>
             entries'[e].used /\ ~entries'[e].available
      BY <1>2, <1>4, <1>7, <1>13 DEF Unmarked
    <3> QED BY <1>2, <3>1 DEF Unmarked
  <2>2. "INPUT" \in {"INPUT", "REFERENCE", "FEEDBACK"}
    OBVIOUS
  <2> QED BY <1>1, <1>2, <1>7, <2>1, <2>2, CompleteStays DEF HoldInvariant
<1>15. StartedAfter'
  BY <1>1, <1>7, StartedAfterStays DEF HoldInvariant
<1>16. LiveIsHeld' /\ live' \in [Pictures -> Int]'
  <2>1. \A r \in Pictures : Nominal(r)' <=> Nominal(r)
    <3> TAKE r \in Pictures
    <3>1. ASSUME stream[r].used
          PROVE  (\A i \in DOMAIN entries' : entries'[i].number = stream[r].number => entries'[i].used)
                     <=> (\A i \in DOMAIN entries : entries[i].number = stream[r].number => entries[i].used)
      <4>1. \A i \in DOMAIN entries : i \in DOMAIN entries' /\ entries'[i].number = entries[i].number
                                         /\ entries'[i].used = entries[i].used
        BY <1>2, <1>4 DEF CleanStep
      <4>2. \A i \in DOMAIN entries' : i \notin DOMAIN entries /\ entries'[i].number = stream[r].number => entries'[i].used
        BY <1>3, <1>8, <1>13, <3>1
      <4> QED BY <4>1, <4>2
    <3> QED BY <1>2, <1>7, <3>1 DEF Nominal
  <2> QED BY <1>1, <1>2, <1>7, <2>1, LiveStays DEF HoldInvariant
<1> QED BY <1>7, <1>10, <1>11, <1>12, <1>14, <1>15, <1>16 DEF HoldInvariant, HoldTypes

\* What is counted of a picture whose entry can still be found, when nothing is
\* left of it, are the references of the pictures that were started.
LEMMA NothingLeft ==
    ASSUME CountInvariant, HoldInvariant, NEW i \in DOMAIN entries, i >= head, entries[i].dependents = 0,
           NEW p \in Pictures, HasNumber(p, entries[i].number)
    PROVE  Counted(stream, p, {q \in Pictures : Received(q)}) = Uses(stream, Pictures \ Unstarted, stream[p].number)
<1> DEFINE n == stream[p].number
<1> DEFINE R == {q \in Pictures : Received(q)}
<1>1. CountTypes /\ stream \in Streams /\ head \in Nat /\ i \in Nat
  BY EntryTypes DEF CountInvariant, CountTypes
<1>2. entries[i].number = n
  BY DEF HasNumber
<1>3. Total(Pending, n) = Total(Waiting, n)
  <2>1. \A l \in links : l.number # n
    BY <1>1, <1>2 DEF HoldInvariant, LinksAreLate
  <2>2. LinksOf(Pending, n) = LinksOf(Waiting, n)
    BY <2>1 DEF LinksOf, Pending
  <2> QED BY <2>2 DEF Total
<1>4. {l \in AllLinks(stream) : l.by \in R} = AllLinks(stream) \ Waiting
  <2>1. \A l \in AllLinks(stream) : l.by \in Pictures
    BY <1>1, LinkFacts DEF Pictures
  <2> QED BY <2>1 DEF Waiting, Received
<1> DEFINE all == Total(AllLinks(stream), n)
<1> DEFINE waiting == Total(Waiting, n)
<1> DEFINE come == Total(AllLinks(stream) \ Waiting, n)
<1>5. all = waiting + come /\ all \in Int /\ waiting \in Int /\ come \in Int
  <2>1. Waiting \in SUBSET AllLinks(stream) /\ AllLinks(stream) \ Waiting \in SUBSET AllLinks(stream)
    BY DEF Waiting
  <2> QED BY <1>1, <2>1, TotalOfParts
<1> DEFINE total == Uses(stream, Pictures, n)
<1> DEFINE unstarted == Uses(stream, Unstarted, n)
<1> DEFINE started == Uses(stream, Pictures \ Unstarted, n)
<1>6. total = unstarted + started /\ total \in Int /\ unstarted \in Int /\ started \in Int
  <2>1. Unstarted \in SUBSET Pictures /\ Pictures \ Unstarted \in SUBSET Pictures /\ Pictures = DOMAIN stream
    BY DEF Unstarted, Pictures
  <2>2. total \in Nat /\ unstarted \in Nat /\ started \in Nat
    BY <1>1, <2>1, UsesOfParts
  <2>3. total = unstarted + started
    BY <1>1, <2>1, UsesOfParts
  <2> QED BY <2>2, <2>3
<1> DEFINE given == stream[p].promised + stream[p].self
<1>7. given \in Int
  BY <1>1, PictureFacts DEF Pictures
<1>8. Owner(stream, n) = p
  BY <1>1, OwnerIs DEF HasNumber, Pictures
<1>9. 0 + waiting = unstarted + (given + (all - total))
  <2>1. Exact(i)
    BY ExactParts DEF CountInvariant
  <2>2. 0 + Total(Pending, n) = Uses(stream, Unstarted, n) + Surplus(stream, p)
    BY <1>2, <1>8, <2>1 DEF Exact
  <2>3. Surplus(stream, p) = given + (all - total)
    BY DEF Surplus, Pictures
  <2> QED BY <1>3, <2>2, <2>3
<1>10. Counted(stream, p, R) = given + come
  BY <1>4 DEF Counted
<1> HIDE DEF all, waiting, come, total, unstarted, given, R, n
<1>11. given + come = started
  <2> HIDE DEF started
  <2> QED BY <1>5, <1>6, <1>7, <1>9
<1> QED BY <1>10, <1>11 DEF R, n, started

\* Nobody who is still to be started refers to it.
LEMMA NobodyRefers ==
    ASSUME CountInvariant, HoldInvariant, NEW i \in DOMAIN entries, i >= head, entries[i].dependents = 0
    PROVE  \A q \in Unstarted : TimesReferred(stream[q], entries[i].number) = 0
<1> DEFINE R == {q \in Pictures : Received(q)}
<1>1. CountTypes /\ stream \in Streams
  BY DEF CountInvariant, CountTypes
<1>2. PICK p \in Pictures : HasNumber(p, entries[i].number) /\ Received(p)
  BY DEF CountInvariant, EntriesMatch
<1> DEFINE n == stream[p].number
<1>3. entries[i].number = n /\ ~stream[p].overlay
  BY <1>2 DEF HasNumber
<1> DEFINE S == Pictures \ Unstarted
<1>4. Counted(stream, p, R) = Uses(stream, S, n)
  BY <1>2, NothingLeft
<1>5. /\ Counted(stream, p, R) >= Uses(stream, R, n)
      /\ \A q \in Pictures \ R : TimesReferred(stream[q], n) > 0 => Counted(stream, p, R) > Uses(stream, R, n)
  <2>1. R \in FirstPictures(stream)
    BY <1>1, ReceivedAreFirst DEF HoldInvariant
  <2>2. p \in R
    BY <1>2
  <2> HIDE DEF R
  <2> QED BY <1>1, <1>3, <2>1, <2>2, CountAssumption DEF Pictures
<1>6. S \in SUBSET R /\ R \in SUBSET DOMAIN stream /\ R \ S \in SUBSET DOMAIN stream /\ S \in SUBSET DOMAIN stream
  BY DEF Unstarted, Started, Received, Pictures
<1>7. /\ Uses(stream, R, n) = Uses(stream, S, n) + Uses(stream, R \ S, n)
      /\ Uses(stream, R, n) \in Nat /\ Uses(stream, S, n) \in Nat /\ Uses(stream, R \ S, n) \in Nat
  <2> HIDE DEF R, S, n
  <2> QED BY <1>1, <1>6, UsesOfParts
<1>8. Uses(stream, R \ S, n) = 0 /\ Uses(stream, R, n) = Uses(stream, S, n)
  <2> DEFINE a == Uses(stream, R, n)
  <2> DEFINE b == Uses(stream, S, n)
  <2> DEFINE c == Uses(stream, R \ S, n)
  <2>1. a = b + c /\ a \in Nat /\ b \in Nat /\ c \in Nat /\ b >= a
    BY <1>4, <1>5, <1>7
  <2> HIDE DEF a, b, c
  <2>2. c = 0 /\ a = b
    BY <2>1
  <2> QED BY <2>2 DEF a, b, c
<1> DEFINE T == R \ S
<1>9. T \in SUBSET DOMAIN stream /\ Uses(stream, T, n) = 0
  BY <1>6, <1>8
<1>10. \A q \in T : TimesReferred(stream[q], n) = 0
  <2> HIDE DEF R, S, T, n
  <2> TAKE q \in T
  <2>1. Uses(stream, T, n) = TimesReferred(stream[q], n) + Uses(stream, T \ {q}, n)
    BY <1>1, <1>9, UsesOfParts
  <2>2. TimesReferred(stream[q], n) \in Nat /\ Uses(stream, T \ {q}, n) \in Nat
    <3>1. q \in DOMAIN stream /\ T \ {q} \in SUBSET DOMAIN stream
      BY <1>9
    <3> QED BY <1>1, <3>1, UsesOfParts, TimesReferredIsNumber
  <2> QED BY <1>9, <2>1, <2>2
<1>11. \A q \in Pictures \ R : TimesReferred(stream[q], n) = 0
  <2> TAKE q \in Pictures \ R
  <2>1. ~(Counted(stream, p, R) > Uses(stream, R, n))
    <3> HIDE DEF R, S, n
    <3> QED BY <1>4, <1>7, <1>8
  <2>2. TimesReferred(stream[q], n) \in Nat
    BY <1>1, TimesReferredIsNumber DEF Pictures
  <2> HIDE DEF R, n
  <2> QED BY <1>5, <2>1, <2>2
<1>12. \A q \in Unstarted : q \in T \/ q \in Pictures \ R
  BY DEF Unstarted
<1> HIDE DEF R, S, T, n
<1> QED BY <1>3, <1>10, <1>11, <1>12

LEMMA RetireKeepsHolds ==
    ASSUME CountInvariant, HoldInvariant, Retire
    PROVE  HoldInvariant' /\ Onward
<1>1. CountTypes /\ HoldTypes /\ stream \in Streams /\ head \in Nat
  BY DEF CountInvariant, HoldInvariant, CountTypes
<1>2. /\ DOMAIN entries' = DOMAIN entries
      /\ \A i \in DOMAIN entries :
            entries'[i] = IF i \in Gone THEN Released(entries[i]) ELSE entries[i]
      /\ head' \in Nat /\ head' >= head
      /\ stream' = stream /\ links' = links /\ stage' = stage /\ inbox' = inbox
      /\ live' = [r \in Pictures |-> live[r] - Count(\E i \in Gone : Owner(stream, entries[i].number) = r)]
  <2>1. Len(entries) \in Nat
    BY <1>1 DEF CountTypes
  <2>2. head' \in 1..Len(entries) + 1
    BY <1>1, RetireFacts
  <2>3. head' \in Nat
    BY <2>1, <2>2
  <2> QED BY <1>1, <2>3, RetireFacts
<1>3. \A i \in DOMAIN entries : entries[i] \in EntrySet /\ entries[i].used \in BOOLEAN /\ entries[i].available \in BOOLEAN
  BY <1>1, EntryTypes DEF EntrySet
<1>4. \A i \in Gone : /\ i \in DOMAIN entries /\ i >= head
                      /\ entries[i].dependents = 0 /\ entries[i].available
                      /\ entries'[i].number = entries[i].number
                      /\ entries'[i].used = FALSE /\ entries'[i].available = FALSE /\ entries'[i].object = FALSE
  <2> TAKE i \in Gone
  <2>1. i \in head..Len(entries) /\ entries[i].dependents = 0 /\ entries[i].available
    BY DEF Gone, Unneeded
  <2>2. i \in DOMAIN entries /\ i >= head
    BY <1>1, <2>1 DEF CountTypes
  <2>3. entries'[i] = Released(entries[i]) /\ entries[i] \in EntrySet
    BY <1>2, <1>3, <2>2
  <2>4. \A e \in EntrySet : /\ Released(e).number = e.number
                            /\ Released(e).used = FALSE /\ Released(e).available = FALSE /\ Released(e).object = FALSE
    BY DEF Released, EntrySet
  <2> QED BY <2>1, <2>2, <2>3, <2>4
<1>5. \A i \in DOMAIN entries : entries'[i].number = entries[i].number /\ (i \notin Gone => entries'[i] = entries[i])
  BY <1>2, <1>4
<1>6. /\ Onward /\ Flying' = Flying /\ Pictures' = Pictures /\ Flying \in SUBSET Pictures
      /\ \A q \in Pictures : (Started(q)' => Started(q)) /\ (Done(q)' <=> Done(q))
  BY <1>2 DEF Onward, Done, Unstarted, Started, Flying, InFlight, Pictures
<1>7. OrderKept'
  BY <1>2, OrderStays DEF HoldInvariant
<1>8. InputsQueued' /\ inbox' \in Seq(Messages)'
  BY <1>1, <1>2, InputsStay DEF HoldInvariant
<1>9. LinksAreLate'
  BY <1>1, <1>2, <1>5, LinksLateStay DEF HoldInvariant
<1>10. EntriesFollow'
  <2>1. \A i \in DOMAIN entries : \A q \in Pictures : HasNumber(q, entries[i].number) => EntryFollows(i, q)'
    <3> TAKE i \in DOMAIN entries
    <3> TAKE q \in Pictures
    <3> SUFFICES ASSUME HasNumber(q, entries[i].number)
                 PROVE  EntryFollows(i, q)'
      OBVIOUS
    <3>1. EntryFollows(i, q)
      BY DEF HoldInvariant, EntriesFollow
    <3>2. CASE i \in Gone
      <4>1. \A a \in Unstarted : TimesReferred(stream[a], entries[i].number) = 0
        BY <1>4, <3>2, NobodyRefers
      <4>2. Done(q)'
        BY <1>4, <1>6, <3>1, <3>2 DEF EntryFollows
      <4>3. Unstarted' = Unstarted
        BY <1>2, <1>6 DEF Unstarted, Started
      <4> QED BY <1>2, <1>4, <3>2, <4>1, <4>2, <4>3 DEF EntryFollows
    <3>3. CASE i \notin Gone
      <4>1. entries'[i] = entries[i]
        BY <1>5, <3>3
      <4> QED BY <1>2, <1>6, <3>1, <4>1 DEF EntryFollows, Onward
    <3> QED BY <3>2, <3>3
  <2>2. \A i \in DOMAIN entries : \A q \in Pictures : HasNumber(q, entries[i].number)' => HasNumber(q, entries[i].number)
    BY <1>2, <1>5 DEF HasNumber
  <2> QED BY <1>2, <1>6, <2>1, <2>2 DEF EntriesFollow
<1>11. CompleteOnce'
  <2>1. \A q \in Pictures : Unmarked(q) => Unmarked(q)'
    <3> TAKE q \in Pictures
    <3> SUFFICES ASSUME Unmarked(q)
                 PROVE  Unmarked(q)'
      OBVIOUS
    <3>1. \A e \in DOMAIN entries : entries[e].number = stream[q].number => entries'[e].used /\ ~entries'[e].available
      BY <1>4, <1>5 DEF Unmarked
    <3> QED BY <1>2, <1>5, <3>1 DEF Unmarked
  <2> QED BY <1>1, <1>2, <1>6, <2>1, CompleteStays DEF HoldInvariant
<1>12. StartedAfter'
  BY <1>1, <1>6, StartedAfterStays DEF HoldInvariant
<1>13. LiveIsHeld' /\ live' \in [Pictures -> Int]'
  <2>1. \A i \in DOMAIN entries : \A r \in Pictures : HasNumber(r, entries[i].number) <=> Owner(stream, entries[i].number) = r
    <3> TAKE i \in DOMAIN entries
    <3> TAKE r \in Pictures
    <3>1. PICK q \in Pictures : HasNumber(q, entries[i].number)
      BY DEF CountInvariant, EntriesMatch
    <3>2. Owner(stream, entries[i].number) = q
      BY <1>1, <3>1, OwnerIs DEF HasNumber, Pictures
    <3> QED BY <1>1, <3>1, <3>2, NumbersAreUnique DEF HasNumber, Pictures
  <2>2. \A r \in Pictures : live'[r] \in Int /\ live'[r] = Count(Nominal(r)') + Reads(Flying, r)
    <3> TAKE r \in Pictures
    <3> DEFINE released == \E i \in Gone : Owner(stream, entries[i].number) = r
    <3>1. live[r] \in Int /\ live[r] = Count(Nominal(r)) + Reads(Flying, r)
      BY <1>1 DEF HoldInvariant, LiveIsHeld, HoldTypes, Reading
    <3>2. Reads(Flying, r) \in Nat
      BY <1>1, <1>6, ReadsOfParts
    <3>3. live'[r] = live[r] - Count(released)
      BY <1>2
    <3>4. CASE released
      <4>1. PICK i \in Gone : Owner(stream, entries[i].number) = r
        BY <3>4
      <4>2. i \in DOMAIN entries /\ entries[i].available /\ HasNumber(r, entries[i].number)
        BY <1>4, <2>1, <4>1
      <4>3. EntryFollows(i, r)
        BY <4>2 DEF HoldInvariant, EntriesFollow
      <4>4. entries[i].used /\ stream[r].used /\ entries[i].number = stream[r].number /\ ~stream[r].overlay
        BY <4>2, <4>3 DEF EntryFollows, HasNumber
      <4>5. stage[r] # "coming"
        BY <4>2, <4>4, EntryIsReceived DEF Received
      <4>6. Nominal(r)
        BY <4>2, <4>4, <4>5 DEF Nominal, CountInvariant, EntriesMatch
      <4>7. ~Nominal(r)'
        <5>1. i \in DOMAIN entries' /\ entries'[i].number = stream'[r].number /\ ~entries'[i].used
          BY <1>2, <1>4, <4>1, <4>2, <4>4
        <5> QED BY <5>1 DEF Nominal
      <4>8. Count(Nominal(r)) = 1 /\ Count(Nominal(r)') = 0 /\ Count(released) = 1
        BY <3>4, <4>6, <4>7 DEF Count
      <4> HIDE DEF released
      <4> QED BY <3>1, <3>2, <3>3, <4>8
    <3>5. CASE ~released
      <4>1. Nominal(r)' <=> Nominal(r)
        <5>1. ASSUME stream[r].used
              PROVE  \A i \in DOMAIN entries : entries[i].number = stream[r].number => entries'[i] = entries[i]
          <6> TAKE i \in DOMAIN entries
          <6> SUFFICES ASSUME entries[i].number = stream[r].number
                       PROVE  i \notin Gone
            BY <1>5
          <6>1. HasNumber(r, entries[i].number)
            BY <1>1, <5>1, StreamAssumption DEF HasNumber, Pictures
          <6> QED BY <2>1, <3>5, <6>1
        <5>2. stream[r].used =>
                 ((\A i \in DOMAIN entries' : entries'[i].number = stream'[r].number => entries'[i].used)
                      <=> (\A i \in DOMAIN entries : entries[i].number = stream[r].number => entries[i].used))
          BY <1>2, <1>5, <5>1
        <5> QED BY <1>2, <5>2 DEF Nominal
      <4>2. Count(Nominal(r)') = Count(Nominal(r)) /\ Count(Nominal(r)) \in Int /\ Count(released) = 0
        BY <3>5, <4>1 DEF Count
      <4> HIDE DEF released
      <4> QED BY <3>1, <3>2, <3>3, <4>2
    <3> QED BY <3>4, <3>5
  <2>3. \A r \in Pictures : Reading(r)' = Reads(Flying, r)
    BY <1>2, <1>6 DEF Reading, Reads, Occurrences
  <2>4. \A r \in Pictures : Count(Nominal(r))' = Count(Nominal(r)')
    BY DEF Count
  <2>5. live' \in [Pictures -> Int]
    BY <1>2, <2>2
  <2> QED BY <1>6, <2>2, <2>3, <2>4, <2>5 DEF LiveIsHeld
<1> QED BY <1>6, <1>7, <1>8, <1>9, <1>10, <1>11, <1>12, <1>13 DEF HoldInvariant, HoldTypes

LEMMA InitHolds ==
    ASSUME Init
    PROVE  HoldInvariant
<1>1. CountTypes
  BY InitCounts DEF CountInvariant
<1>2. /\ inbox = <<>> /\ entries = <<>> /\ links = {} /\ live = [p \in Pictures |-> 0]
      /\ \A p \in Pictures : stage[p] = "coming"
  BY DEF Init
<1>3. DOMAIN entries = {} /\ DOMAIN inbox = {} /\ inbox \in Seq(Messages)
  BY <1>2
<1>4. /\ \A p \in Pictures : ~Started(p) /\ ~Received(p) /\ ~Nominal(p)
      /\ Flying = {}
  BY <1>2 DEF Started, Received, Nominal, Flying, InFlight
<1>5. LiveIsHeld
  <2>1. \A r \in Pictures : Reads({}, r) = 0
    <3>1. {} \in SUBSET Pictures
      OBVIOUS
    <3> QED BY <1>1, <3>1, ReadsOfParts
  <2>2. \A r \in Pictures : live[r] = 0 /\ Count(Nominal(r)) = 0 /\ Reading(r) = Reads(Flying, r)
    BY <1>2, <1>4 DEF Count, Reading
  <2> QED BY <1>4, <2>1, <2>2 DEF LiveIsHeld
<1>6. HoldTypes
  <2>1. \A p \in Pictures : 0 \in Int
    OBVIOUS
  <2> QED BY <1>2, <1>3, <2>1 DEF HoldTypes
<1> QED BY <1>2, <1>3, <1>4, <1>5, <1>6
        DEF HoldInvariant, OrderKept, InputsQueued, LinksAreLate, EntriesFollow, CompleteOnce, StartedAfter

LEMMA NextKeepsHolds ==
    ASSUME CountInvariant, HoldInvariant, [Next]_vars
    PROVE  HoldInvariant'
<1>1. CountTypes
  BY DEF CountInvariant
<1>2. CASE \E p \in Pictures : Arrive(p)
  BY <1>2, ArriveKeepsHolds
<1>3. CASE \E p \in Pictures : Pipeline(p)
  BY <1>3, ReconstructKeepsHolds, CodeEntropyKeepsHolds, PackKeepsHolds DEF Pipeline
<1>4. CASE Pass \/ MeetEnd \/ UNCHANGED vars
  BY <1>4, IdleKeepsHolds
<1>5. CASE Retire
  BY <1>5, RetireKeepsHolds
<1>6. CASE Start
  BY <1>1, <1>6, StartFacts, StartKeepsHolds
<1>7. CASE \E p \in Pictures : ReceiveInput(p) \/ ReceiveReference(p) \/ ReceiveFeedback(p)
  BY <1>7, ReceiveInputKeepsHolds, ReceiveReferenceKeepsHolds, ReceiveFeedbackKeepsHolds
<1> QED BY <1>2, <1>3, <1>4, <1>5, <1>6, <1>7 DEF Next, Manager

LEMMA HeldFollows ==
    ASSUME CountInvariant, HoldInvariant
    PROVE  ReferencesAreHeld
<1>1. CountTypes /\ stream \in Streams
  BY DEF CountInvariant, CountTypes
<1> SUFFICES ASSUME NEW p \in Pictures, NEW k \in DOMAIN stream[p].refs,
                    NEW r, r = Owner(stream, stream[p].refs[k])
             PROVE  /\ InFlight(p) => Done(r) /\ live[r] > 0
                    /\ p \in Unstarted /\ stage[r] # "coming" => live[r] > 0
  BY DEF ReferencesAreHeld, Done
<1>2. r \in Pictures /\ ~stream[r].overlay /\ stream[r].number = stream[p].refs[k] /\ stream[r].used
  BY <1>1, ReferenceFacts DEF Pictures
<1>3. live[r] = Count(Nominal(r)) + Reads(Flying, r)
  BY <1>2 DEF HoldInvariant, LiveIsHeld, Reading
<1>4. Flying \in SUBSET Pictures
  BY DEF Flying
<1>5. Reads(Flying, r) \in Nat
  BY <1>1, <1>4, ReadsOfParts
<1>6. Count(Nominal(r)) \in {0, 1} /\ (Nominal(r) => Count(Nominal(r)) = 1)
  BY DEF Count
<1>7. ASSUME InFlight(p)
      PROVE  Done(r) /\ live[r] > 0
  <2>1. Done(r)
    BY <1>7 DEF HoldInvariant, StartedAfter, InFlight, Started
  <2>2. p \in Flying
    BY <1>7 DEF Flying
  <2>3. Occurrences(p, r) \in Nat /\ Occurrences(p, r) # 0 /\ Occurrences(p, r) <= Reads(Flying, r)
    BY <1>1, <1>4, <2>2, ReadsOfParts
  <2> QED BY <1>3, <1>5, <1>6, <2>1, <2>3
<1>8. ASSUME p \in Unstarted, stage[r] # "coming"
      PROVE  live[r] > 0
  <2>1. \A i \in DOMAIN entries : entries[i].number = stream[r].number => entries[i].used
    <3> TAKE i \in DOMAIN entries
    <3> SUFFICES ASSUME entries[i].number = stream[r].number, ~entries[i].used
                 PROVE  FALSE
      OBVIOUS
    <3>1. EntryFollows(i, r)
      BY <1>2 DEF HoldInvariant, EntriesFollow, HasNumber
    <3>2. TimesReferred(stream[p], stream[r].number) = 0
      BY <1>2, <1>8, <3>1 DEF EntryFollows
    <3> QED BY <1>1, <1>2, <3>2, TimesReferredIsNumber DEF Pictures
  <2>2. Nominal(r)
    BY <1>2, <1>8, <2>1 DEF Nominal
  <2> DEFINE c == Count(Nominal(r))
  <2>3. c = 1 /\ live[r] = c + Reads(Flying, r)
    BY <1>3, <1>6, <2>2
  <2> HIDE DEF c
  <2> QED BY <1>5, <2>3
<1> QED BY <1>7, <1>8

\* The references of a picture stay in their buffers as long as it is coded, and
\* complete; those of a picture still to be started keep their nominal reference:
\* whatever the order of the messages, no buffer goes back to its pool too early.
THEOREM ReferencesHeld == Spec => []ReferencesAreHeld
<1>1. Init => CountInvariant /\ HoldInvariant
  BY InitCounts, InitHolds
<1>2. CountInvariant /\ HoldInvariant /\ [Next]_vars => CountInvariant' /\ HoldInvariant'
  BY NextKeepsCounts, NextKeepsHolds
<1>3. CountInvariant /\ HoldInvariant => ReferencesAreHeld
  BY HeldFollows
<1> QED BY <1>1, <1>2, <1>3, PTL DEF Spec
=============================================================================
