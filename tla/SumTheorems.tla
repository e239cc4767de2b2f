-------------------------------- MODULE SumTheorems --------------------------------
(***************************************************************************)
(* What a sum over a finite set is, whatever is summed: the sum of a day's    *)
(* payments, of a month's bills.                                            *)
(*                                                                         *)
(* SumFunctionOnSet is a recursive function on the subsets of the set, which *)
(* takes any element first.  The order: induction over the subsets of a      *)
(* finite set; that the recursive function exists, and is the only one; that *)
(* it does not matter which element is taken first; and what follows.       *)
(***************************************************************************)
EXTENDS Integers, FiniteSets, Functions, FiniteSetTheorems, WellFoundedInduction, TLAPS

\* What is true of the empty set, and of a set when it is true of the sets with one
\* element less, is true of all finite sets: Good has the sets it is true of.
LEMMA SetInduction ==
    ASSUME NEW S, IsFiniteSet(S), NEW Good,
           \A T \in SUBSET S : (\A x \in T : T \ {x} \in Good) => T \in Good
    PROVE  \A T \in SUBSET S : T \in Good
  <1> DEFINE Bad == {T \in SUBSET S : T \notin Good}
  <1>1. IsWellFoundedOn(StrictSubsetOrdering(S), FiniteSubsetsOf(S))
    BY FS_StrictSubsetOrderingWellFounded
  <1>2. Bad \subseteq FiniteSubsetsOf(S)
    BY FS_Subset DEF FiniteSubsetsOf
  <1>3. ASSUME Bad # {} PROVE FALSE
    <2> HIDE DEF Bad
    <2>1. PICK T \in Bad : \A U \in Bad : <<U, T>> \notin StrictSubsetOrdering(S)
      BY <1>1, <1>2, <1>3, WFMin
    <2> USE DEF Bad
    <2>2. PICK x \in T : T \ {x} \notin Good
      OBVIOUS
    <2>3. T \ {x} \in Bad
      BY <2>2
    <2>4. <<T \ {x}, T>> \in StrictSubsetOrdering(S)
      BY <2>2 DEF StrictSubsetOrdering
    <2>5. QED
      BY <2>1, <2>3, <2>4
  <1>4. QED
    BY <1>3

\* The same of the numbers.
LEMMA NumberInduction ==
    ASSUME NEW Good, 0 \in Good, \A n \in Nat : n \in Good => n + 1 \in Good
    PROVE  Nat \subseteq Good
  <1> SUFFICES ASSUME NEW n \in Nat PROVE n \in Good
    OBVIOUS
  <1> DEFINE S == 1 .. n
             Fine == {T \in SUBSET S : Cardinality(T) \in Good}
  <1>1. IsFiniteSet(S) /\ Cardinality(S) = n
    BY FS_Interval
  <1> HIDE DEF S
  <1>2. ASSUME NEW T \in SUBSET S, \A x \in T : T \ {x} \in Fine
        PROVE  T \in Fine
    <2>1. IsFiniteSet(T)
      BY <1>1, FS_Subset
    <2>2. CASE T = {}
      BY <2>2, FS_EmptySet
    <2>3. ASSUME NEW x \in T PROVE Cardinality(T) \in Good
      <3>1. /\ Cardinality(T \ {x}) = Cardinality(T) - 1
            /\ Cardinality(T) \in Nat /\ Cardinality(T \ {x}) \in Nat
        BY <2>1, FS_RemoveElement, FS_Subset, FS_CardinalityType
      <3>2. Cardinality(T \ {x}) \in Good
        BY <1>2
      <3>3. QED
        BY <3>1, <3>2
    <2>4. QED
      BY <2>2, <2>3
  <1>3. S \in Fine
    <2> HIDE DEF Fine
    <2>1. \A T \in SUBSET S : (\A x \in T : T \ {x} \in Fine) => T \in Fine
      BY <1>2
    <2>2. IsFiniteSet(S)
      BY <1>1
    <2>3. \A T \in SUBSET S : T \in Fine
      BY <2>1, <2>2, SetInduction
    <2>4. QED
      BY <2>3
  <1>4. QED
    BY <1>1, <1>3

One(s) == CHOOSE x \in s : TRUE

LEMMA OneIs == ASSUME NEW s, s # {} PROVE One(s) \in s
  BY DEF One

\* The value at s, given those at the smaller sets.
From(f, h, s) == IF s = {} THEN 0 ELSE f[One(s)] + h[s \ {One(s)}]

\* h adds up the values of f over the subsets of S of n elements at most.
Small(S, n) == {s \in SUBSET S : Cardinality(s) <= n}

LEMMA SmallerIs ==
    ASSUME NEW S, IsFiniteSet(S), NEW s \in SUBSET S, s # {}
    PROVE  /\ s \ {One(s)} \in SUBSET S
           /\ Cardinality(s \ {One(s)}) = Cardinality(s) - 1
           /\ Cardinality(s) \in Nat \ {0}
           /\ Cardinality(s \ {One(s)}) \in Nat
  <1>1. IsFiniteSet(s)
    BY FS_Subset
  <1>2. One(s) \in s
    BY OneIs
  <1>3. Cardinality(s \ {One(s)}) = Cardinality(s) - 1
    BY <1>1, <1>2, FS_RemoveElement
  <1>4. Cardinality(s) \in Nat /\ Cardinality(s \ {One(s)}) \in Nat
    BY <1>1, FS_Subset, FS_CardinalityType
  <1>5. QED
    BY <1>3, <1>4

\* The function there is on the small sets is one on those with one element more.
LEMMA AdderExists ==
    ASSUME NEW f, NEW S, IsFiniteSet(S), NEW n \in Nat
    PROVE  \E h : h = [s \in Small(S, n) |-> From(f, h, s)]
  <1> DEFINE Has(m) == \E h : h = [s \in Small(S, m) |-> From(f, h, s)]
             Good == {m \in Nat : Has(m)}
  <1>1. Has(0)
    <2> DEFINE h == [s \in Small(S, 0) |-> 0]
    <2>1. \A s \in Small(S, 0) : s = {}
      <3> TAKE s \in Small(S, 0)
      <3>1. s # {} => Cardinality(s) \in Nat \ {0}
        BY SmallerIs DEF Small
      <3>2. QED
        BY <3>1 DEF Small
    <2>2. \A s \in Small(S, 0) : From(f, h, s) = 0
      BY <2>1 DEF From
    <2>3. h = [s \in Small(S, 0) |-> From(f, h, s)]
      BY <2>2
    <2>4. QED
      BY <2>3
  <1>2. ASSUME NEW m \in Nat, Has(m) PROVE Has(m + 1)
    <2>1. PICK g : g = [s \in Small(S, m) |-> From(f, g, s)]
      BY <1>2
    <2> DEFINE h == [s \in Small(S, m + 1) |-> From(f, g, s)]
    <2>2. \A s \in Small(S, m) : s \in Small(S, m + 1) /\ h[s] = g[s]
      <3> TAKE s \in Small(S, m)
      <3>1. Cardinality(s) \in Nat
        BY FS_Subset, FS_CardinalityType DEF Small
      <3>2. s \in Small(S, m + 1)
        BY <3>1 DEF Small
      <3>3. h[s] = From(f, g, s) /\ g[s] = From(f, g, s)
        BY <2>1, <3>2
      <3>4. QED
        BY <3>2, <3>3
    <2>3. \A s \in Small(S, m + 1) : s # {} => s \ {One(s)} \in Small(S, m)
      BY SmallerIs DEF Small
    <2>4. \A s \in Small(S, m + 1) : From(f, g, s) = From(f, h, s)
      <3> HIDE DEF h
      <3>1. QED
        BY <2>2, <2>3 DEF From
    <2>5. h = [s \in Small(S, m + 1) |-> From(f, h, s)]
      BY <2>4
    <2>6. QED
      BY <2>5
  <1>3. Nat \subseteq Good
    <2>1. 0 \in Good /\ \A m \in Nat : m \in Good => m + 1 \in Good
      <3> HIDE DEF Has
      <3>1. QED
        BY <1>1, <1>2
    <2> HIDE DEF Good
    <2>2. QED
      BY <2>1, NumberInduction
  <1>4. QED
    BY <1>3

\* h adds up the values of f over every subset of S.
Adds(h, f, S) == h = [s \in SUBSET S |-> From(f, h, s)]

LEMMA SumIsAdded ==
    ASSUME NEW f, NEW S, IsFiniteSet(S)
    PROVE  \E h : Adds(h, f, S) /\ SumFunctionOnSet(f, S) = h[S]
  <1> DEFINE g == CHOOSE h : h = [s \in SUBSET S |->
                        IF s = {} THEN 0
                        ELSE f[CHOOSE x \in s : TRUE] + h[s \ {CHOOSE x \in s : TRUE}]]
  <1>1. SumFunctionOnSet(f, S) = g[S]
    BY DEF SumFunctionOnSet, FoldFunctionOnSet, MapThenFoldSet
  <1>2. PICK n \in Nat : n = Cardinality(S)
    BY FS_CardinalityType
  <1>3. Small(S, n) = SUBSET S
    <2>1. \A s \in SUBSET S : Cardinality(s) <= n
      BY <1>2, FS_Subset
    <2>2. QED
      BY <2>1 DEF Small
  <1>4. \E h : h = [s \in SUBSET S |-> From(f, h, s)]
    <2>1. PICK h : h = [s \in Small(S, n) |-> From(f, h, s)]
      BY AdderExists
    <2>2. QED
      BY <1>3, <2>1
  <1>5. \E h : h = [s \in SUBSET S |->
                        IF s = {} THEN 0
                        ELSE f[CHOOSE x \in s : TRUE] + h[s \ {CHOOSE x \in s : TRUE}]]
    BY <1>4 DEF From, One
  <1>6. g = [s \in SUBSET S |->
                 IF s = {} THEN 0
                 ELSE f[CHOOSE x \in s : TRUE] + g[s \ {CHOOSE x \in s : TRUE}]]
    BY <1>5
  <1> HIDE DEF g
  <1>7. Adds(g, f, S)
    BY <1>6 DEF Adds, From, One
  <1>8. QED
    BY <1>1, <1>7

\* There is one such function, whatever set it is worked out on.
LEMMA AddersAgree ==
    ASSUME NEW f, NEW S, IsFiniteSet(S), NEW T \in SUBSET S, NEW h, NEW g,
           Adds(h, f, S), Adds(g, f, T)
    PROVE  h[T] = g[T]
  <1> DEFINE Good == {s \in SUBSET T : h[s] = g[s]}
  <1>1. ASSUME NEW s \in SUBSET T, \A x \in s : s \ {x} \in Good
        PROVE  s \in Good
    <2>1. h[s] = From(f, h, s) /\ g[s] = From(f, g, s)
      BY DEF Adds
    <2>2. CASE s = {}
      BY <2>1, <2>2 DEF From
    <2>3. CASE s # {}
      <3>1. One(s) \in s
        BY <2>3, OneIs
      <3>2. h[s \ {One(s)}] = g[s \ {One(s)}]
        BY <1>1, <3>1
      <3>3. QED
        BY <2>1, <2>3, <3>2 DEF From
    <2>4. QED
      BY <2>2, <2>3
  <1>2. IsFiniteSet(T)
    BY FS_Subset
  <1>3. \A s \in SUBSET T : s \in Good
    <2> HIDE DEF Good
    <2>1. \A s \in SUBSET T : (\A x \in s : s \ {x} \in Good) => s \in Good
      BY <1>1
    <2>2. QED
      BY <1>2, <2>1, SetInduction
  <1>4. QED
    BY <1>3

\* A sum is nothing, or one element's share and the sum of the others.
LEMMA SumUnfolds ==
    ASSUME NEW f, NEW S, IsFiniteSet(S)
    PROVE  SumFunctionOnSet(f, S) =
               IF S = {} THEN 0
               ELSE f[One(S)] + SumFunctionOnSet(f, S \ {One(S)})
  <1>1. PICK h : Adds(h, f, S) /\ SumFunctionOnSet(f, S) = h[S]
    BY SumIsAdded
  <1>2. h[S] = From(f, h, S)
    BY <1>1 DEF Adds
  <1>3. CASE S = {}
    BY <1>1, <1>2, <1>3 DEF From
  <1>4. CASE S # {}
    <2> DEFINE T == S \ {One(S)}
    <2>1. T \in SUBSET S /\ IsFiniteSet(T)
      BY FS_Subset
    <2> HIDE DEF T
    <2>2. PICK g : Adds(g, f, T) /\ SumFunctionOnSet(f, T) = g[T]
      BY <2>1, SumIsAdded
    <2>3. h[T] = g[T]
      BY <1>1, <2>1, <2>2, AddersAgree
    <2>4. QED
      BY <1>1, <1>2, <1>4, <2>2, <2>3 DEF From, T
  <1>5. QED
    BY <1>3, <1>4

\* Sums of integers are integers.
LEMMA SumIsInt ==
    ASSUME NEW f, NEW S, IsFiniteSet(S), \A x \in S : f[x] \in Int
    PROVE  SumFunctionOnSet(f, S) \in Int
  <1> DEFINE Good == {T \in SUBSET S : SumFunctionOnSet(f, T) \in Int}
  <1>1. ASSUME NEW T \in SUBSET S, \A x \in T : T \ {x} \in Good
        PROVE  T \in Good
    <2>1. IsFiniteSet(T)
      BY FS_Subset
    <2>2. CASE T = {}
      <3>1. SumFunctionOnSet(f, T) = 0
        BY <2>1, <2>2, SumUnfolds
      <3>2. QED
        BY <3>1
    <2>3. CASE T # {}
      <3>1. One(T) \in T /\ f[One(T)] \in Int
        BY <2>3, OneIs
      <3>2. SumFunctionOnSet(f, T \ {One(T)}) \in Int
        BY <1>1, <3>1
      <3>3. SumFunctionOnSet(f, T) = f[One(T)] + SumFunctionOnSet(f, T \ {One(T)})
        BY <2>1, <2>3, SumUnfolds
      <3>4. QED
        BY <3>1, <3>2, <3>3
    <2>4. QED
      BY <2>2, <2>3
  <1>2. \A T \in SUBSET S : T \in Good
    <2> HIDE DEF Good
    <2>1. \A T \in SUBSET S : (\A x \in T : T \ {x} \in Good) => T \in Good
      BY <1>1
    <2>2. QED
      BY <2>1, SetInduction
  <1>3. QED
    BY <1>2

\* Any element may be taken first.
LEMMA SumWithout ==
    ASSUME NEW f, NEW S, IsFiniteSet(S), \A x \in S : f[x] \in Int, NEW e \in S
    PROVE  SumFunctionOnSet(f, S) = f[e] + SumFunctionOnSet(f, S \ {e})
  <1> DEFINE Good == {T \in SUBSET S : \A x \in T :
                 SumFunctionOnSet(f, T) = f[x] + SumFunctionOnSet(f, T \ {x})}
  <1>1. ASSUME NEW T \in SUBSET S, \A x \in T : T \ {x} \in Good
        PROVE  T \in Good
    <2> SUFFICES ASSUME NEW x \in T
                 PROVE  SumFunctionOnSet(f, T) = f[x] + SumFunctionOnSet(f, T \ {x})
      OBVIOUS
    <2>1. IsFiniteSet(T) /\ T # {}
      BY FS_Subset
    <2>2. PICK y \in T : y = One(T)
      BY OneIs
    <2>3. SumFunctionOnSet(f, T) = f[y] + SumFunctionOnSet(f, T \ {y})
      BY <2>1, <2>2, SumUnfolds
    <2>4. CASE x = y
      BY <2>3, <2>4
    <2>5. CASE x # y
      <3> DEFINE U == T \ {x, y}
      <3>1. (T \ {y}) \ {x} = U /\ (T \ {x}) \ {y} = U
        OBVIOUS
      <3>2. SumFunctionOnSet(f, T \ {y}) = f[x] + SumFunctionOnSet(f, U)
        BY <1>1, <2>5, <3>1
      <3>3. SumFunctionOnSet(f, T \ {x}) = f[y] + SumFunctionOnSet(f, U)
        BY <1>1, <2>5, <3>1
      <3>4. SumFunctionOnSet(f, U) \in Int /\ f[x] \in Int /\ f[y] \in Int
        <4>1. U \in SUBSET S
          OBVIOUS
        <4> HIDE DEF U
        <4>2. IsFiniteSet(U)
          BY <4>1, FS_Subset
        <4>3. QED
          BY <4>1, <4>2, SumIsInt
      <3> HIDE DEF U
      <3>5. QED
        BY <2>3, <3>2, <3>3, <3>4
    <2>6. QED
      BY <2>4, <2>5
  <1>2. S \in SUBSET S /\ \A T \in SUBSET S : T \in Good
    <2> HIDE DEF Good
    <2>1. \A T \in SUBSET S : (\A x \in T : T \ {x} \in Good) => T \in Good
      BY <1>1
    <2>2. QED
      BY <2>1, SetInduction
  <1>3. QED
    BY <1>2

LEMMA SumOfNone == ASSUME NEW f PROVE SumFunctionOnSet(f, {}) = 0
  <1>1. IsFiniteSet({})
    BY FS_EmptySet
  <1>2. QED
    BY <1>1, SumUnfolds

\* Two parts of a set.
LEMMA SumOfParts ==
    ASSUME NEW f, NEW S, NEW T, IsFiniteSet(S), IsFiniteSet(T), S \cap T = {},
           \A x \in S \cup T : f[x] \in Int
    PROVE  SumFunctionOnSet(f, S \cup T) = SumFunctionOnSet(f, S) + SumFunctionOnSet(f, T)
  <1> DEFINE Good == {U \in SUBSET S :
                 SumFunctionOnSet(f, U \cup T) = SumFunctionOnSet(f, U) + SumFunctionOnSet(f, T)}
  <1>1. SumFunctionOnSet(f, T) \in Int
    BY SumIsInt
  <1>2. ASSUME NEW U \in SUBSET S, \A x \in U : U \ {x} \in Good
        PROVE  U \in Good
    <2>1. IsFiniteSet(U) /\ IsFiniteSet(U \cup T)
      BY FS_Subset, FS_Union
    <2>2. CASE U = {}
      <3>1. SumFunctionOnSet(f, U \cup T) = SumFunctionOnSet(f, T)
        <4>1. U \cup T = T
          BY <2>2
        <4>2. QED
          BY <4>1, Zenon
      <3>2. SumFunctionOnSet(f, U) = 0
        BY <2>2, SumOfNone
      <3>3. QED
        BY <1>1, <3>1, <3>2
    <2>3. ASSUME NEW x \in U
          PROVE  SumFunctionOnSet(f, U \cup T) = SumFunctionOnSet(f, U) + SumFunctionOnSet(f, T)
      <3>1. SumFunctionOnSet(f, (U \cup T) \ {x}) = SumFunctionOnSet(f, (U \ {x}) \cup T)
        <4>1. (U \cup T) \ {x} = (U \ {x}) \cup T
          OBVIOUS
        <4>2. QED
          BY <4>1, Zenon
      <3>2. SumFunctionOnSet(f, U) = f[x] + SumFunctionOnSet(f, U \ {x})
        BY <2>1, SumWithout
      <3>3. SumFunctionOnSet(f, U \cup T) = f[x] + SumFunctionOnSet(f, (U \cup T) \ {x})
        <4>1. \A y \in U \cup T : f[y] \in Int
          OBVIOUS
        <4>2. x \in U \cup T
          OBVIOUS
        <4>3. QED
          BY <2>1, <4>1, <4>2, SumWithout
      <3>4. SumFunctionOnSet(f, (U \ {x}) \cup T)
                = SumFunctionOnSet(f, U \ {x}) + SumFunctionOnSet(f, T)
        BY <1>2
      <3>5. f[x] \in Int /\ SumFunctionOnSet(f, U \ {x}) \in Int
        BY <2>1, FS_Subset, SumIsInt
      <3>6. QED
        BY <1>1, <3>1, <3>2, <3>3, <3>4, <3>5
    <2>4. QED
      BY <2>2, <2>3
  <1>3. S \in SUBSET S /\ \A U \in SUBSET S : U \in Good
    <2> HIDE DEF Good
    <2>1. \A U \in SUBSET S : (\A x \in U : U \ {x} \in Good) => U \in Good
      BY <1>2
    <2>2. QED
      BY <2>1, SetInduction
  <1>4. QED
    BY <1>3

\* Only the values on the set matter.
LEMMA SumOfSame ==
    ASSUME NEW f, NEW g, NEW S, IsFiniteSet(S), \A x \in S : f[x] = g[x]
    PROVE  SumFunctionOnSet(f, S) = SumFunctionOnSet(g, S)
  <1> DEFINE Good == {T \in SUBSET S : SumFunctionOnSet(f, T) = SumFunctionOnSet(g, T)}
  <1>1. ASSUME NEW T \in SUBSET S, \A x \in T : T \ {x} \in Good
        PROVE  T \in Good
    <2>1. IsFiniteSet(T)
      BY FS_Subset
    <2>2. CASE T = {}
      <3>1. SumFunctionOnSet(f, T) = 0 /\ SumFunctionOnSet(g, T) = 0
        BY <2>2, SumOfNone
      <3>2. QED
        BY <3>1
    <2>3. CASE T # {}
      <3>1. One(T) \in T
        BY <2>3, OneIs
      <3>2. /\ SumFunctionOnSet(f, T) = f[One(T)] + SumFunctionOnSet(f, T \ {One(T)})
            /\ SumFunctionOnSet(g, T) = g[One(T)] + SumFunctionOnSet(g, T \ {One(T)})
        BY <2>1, <2>3, SumUnfolds
      <3>3. SumFunctionOnSet(f, T \ {One(T)}) = SumFunctionOnSet(g, T \ {One(T)})
        BY <1>1, <3>1
      <3>4. f[One(T)] = g[One(T)]
        BY <3>1
      <3>5. QED
        BY <3>2, <3>3, <3>4
    <2>4. QED
      BY <2>2, <2>3
  <1>2. S \in SUBSET S /\ \A T \in SUBSET S : T \in Good
    <2> HIDE DEF Good
    <2>1. \A T \in SUBSET S : (\A x \in T : T \ {x} \in Good) => T \in Good
      BY <1>1
    <2>2. QED
      BY <2>1, SetInduction
  <1>3. QED
    BY <1>2

\* A sum of nothing but zeros.
LEMMA SumOfZeros ==
    ASSUME NEW f, NEW S, IsFiniteSet(S), \A x \in S : f[x] = 0
    PROVE  SumFunctionOnSet(f, S) = 0
  <1> DEFINE Good == {T \in SUBSET S : SumFunctionOnSet(f, T) = 0}
  <1>1. ASSUME NEW T \in SUBSET S, \A x \in T : T \ {x} \in Good
        PROVE  T \in Good
    <2>1. IsFiniteSet(T)
      BY FS_Subset
    <2>2. CASE T = {}
      <3>1. SumFunctionOnSet(f, T) = 0
        BY <2>2, SumOfNone
      <3>2. QED
        BY <3>1
    <2>3. CASE T # {}
      <3>1. One(T) \in T
        BY <2>3, OneIs
      <3>2. SumFunctionOnSet(f, T) = f[One(T)] + SumFunctionOnSet(f, T \ {One(T)})
        BY <2>1, <2>3, SumUnfolds
      <3>3. SumFunctionOnSet(f, T \ {One(T)}) = 0
        BY <1>1, <3>1
      <3>4. f[One(T)] = 0
        BY <3>1
      <3>5. QED
        BY <3>2, <3>3, <3>4
    <2>4. QED
      BY <2>2, <2>3
  <1>2. S \in SUBSET S /\ \A T \in SUBSET S : T \in Good
    <2> HIDE DEF Good
    <2>1. \A T \in SUBSET S : (\A x \in T : T \ {x} \in Good) => T \in Good
      BY <1>1
    <2>2. QED
      BY <2>1, SetInduction
  <1>3. QED
    BY <1>2

\* Every element of U is in one group.
Groups(group, U) ==
    /\ \A k \in DOMAIN group : group[k] \subseteq U
    /\ \A x \in U : \E k \in DOMAIN group : x \in group[k]
    /\ \A x, j, k : j \in DOMAIN group /\ k \in DOMAIN group /\ x \in group[j] /\ x \in group[k] => j = k

\* g has the sum of each group.
SumOfEach(g, f, group) ==
    \A k \in DOMAIN group : g[k] = SumFunctionOnSet(f, group[k])

\* A sum may be taken group by group.
LEMMA SumByGroups ==
    ASSUME NEW U, NEW f, NEW group, NEW g, IsFiniteSet(U), IsFiniteSet(DOMAIN group),
           \A x \in U : f[x] \in Int, Groups(group, U), SumOfEach(g, f, group)
    PROVE  SumFunctionOnSet(g, DOMAIN group) = SumFunctionOnSet(f, U)
  <1> DEFINE K == DOMAIN group
             Of(J) == {x \in U : \E k \in J : x \in group[k]}
             Good == {J \in SUBSET K : SumFunctionOnSet(g, J) = SumFunctionOnSet(f, Of(J))}
  <1>1. \A J : IsFiniteSet(Of(J)) /\ Of(J) \in SUBSET U
    BY FS_Subset
  <1>2. \A k \in K : g[k] = SumFunctionOnSet(f, Of({k}))
    <2> TAKE k \in K
    <2>1. Of({k}) = group[k]
      BY DEF Groups
    <2>2. QED
      BY <2>1 DEF SumOfEach
  <1>3. \A J \in SUBSET K : \A k \in J : /\ Of(J) = Of({k}) \cup Of(J \ {k})
                                         /\ Of({k}) \cap Of(J \ {k}) = {}
    BY DEF Groups
  <1>4. Of({}) = {}
    OBVIOUS
  <1>5. IsFiniteSet(K) /\ Of(K) = U
    BY DEF Groups
  <1> HIDE DEF Of, K
  <1>6. \A k \in K : g[k] \in Int
    <2>1. \A k \in K : SumFunctionOnSet(f, Of({k})) \in Int
      <3> TAKE k \in K
      <3>1. \A x \in Of({k}) : f[x] \in Int
        BY <1>1
      <3>2. QED
        BY <1>1, <3>1, SumIsInt
    <2>2. QED
      BY <1>2, <2>1
  <1>7. ASSUME NEW J \in SUBSET K, \A k \in J : J \ {k} \in Good
        PROVE  J \in Good
    <2>1. IsFiniteSet(J)
      BY <1>5, FS_Subset
    <2>2. CASE J = {}
      <3>1. SumFunctionOnSet(g, J) = 0 /\ SumFunctionOnSet(f, Of(J)) = 0
        BY <1>4, <2>2, SumOfNone
      <3>2. QED
        BY <3>1
    <2>3. ASSUME NEW k \in J PROVE SumFunctionOnSet(g, J) = SumFunctionOnSet(f, Of(J))
      <3>1. SumFunctionOnSet(g, J) = g[k] + SumFunctionOnSet(g, J \ {k})
        <4>1. \A j \in J : g[j] \in Int
          BY <1>6
        <4>2. QED
          BY <2>1, <4>1, SumWithout
      <3>2. SumFunctionOnSet(g, J \ {k}) = SumFunctionOnSet(f, Of(J \ {k}))
        BY <1>7
      <3>3. SumFunctionOnSet(f, Of({k}) \cup Of(J \ {k}))
                = SumFunctionOnSet(f, Of({k})) + SumFunctionOnSet(f, Of(J \ {k}))
        <4> DEFINE A == Of({k})
                   B == Of(J \ {k})
        <4>1. IsFiniteSet(A) /\ IsFiniteSet(B) /\ A \cap B = {}
          BY <1>1, <1>3
        <4>2. \A x \in A \cup B : f[x] \in Int
          BY <1>1
        <4> HIDE DEF A, B
        <4>3. SumFunctionOnSet(f, A \cup B) = SumFunctionOnSet(f, A) + SumFunctionOnSet(f, B)
          BY <4>1, <4>2, SumOfParts
        <4>4. QED
          BY <4>3 DEF A, B
      <3>4. QED
        BY <1>2, <1>3, <3>1, <3>2, <3>3
    <2>4. QED
      BY <2>2, <2>3
  <1>8. K \in SUBSET K /\ \A J \in SUBSET K : J \in Good
    <2> HIDE DEF Good
    <2>1. \A J \in SUBSET K : (\A k \in J : J \ {k} \in Good) => J \in Good
      BY <1>7
    <2>2. QED
      BY <1>5, <2>1, SetInduction
  <1>9. QED
    BY <1>5, <1>8 DEF K

-----------------------------------------------------------------------------
(* Recursion along a sequence, and along steps that lead to an end.          *)


\* h is a at 0, and one step on at every next place up to n.
Walks(h, V, a, step, n) ==
    /\ h \in [0 .. n -> V]
    /\ h[0] = a
    /\ \A i \in 1 .. n : h[i] = step[<<h[i - 1], i>>]

LEMMA WalkExists ==
    ASSUME NEW V, NEW a \in V, NEW n \in Nat, NEW step \in [V \X (1 .. n) -> V]
    PROVE  \E h : Walks(h, V, a, step, n)
  <1> DEFINE Runs(h, m) == Walks(h, V, a, step, m)
             Good == {m \in Nat : m <= n => \E h : Runs(h, m)}
  <1> USE DEF Walks
  <1>1. 0 \in Good
    <2>1. Runs([i \in 0 .. 0 |-> a], 0)
      OBVIOUS
    <2> HIDE DEF Runs
    <2>2. QED
      BY <2>1
  <1>2. ASSUME NEW m \in Nat, m \in Good PROVE m + 1 \in Good
    <2> SUFFICES ASSUME m + 1 <= n PROVE \E h : Runs(h, m + 1)
      OBVIOUS
    <2>1. PICK g : Runs(g, m)
      BY <1>2
    <2>2. g[m] \in V /\ m + 1 \in 1 .. n
      BY <2>1
    <2>3. step[<<g[m], m + 1>>] \in V
      BY <2>2
    <2> DEFINE h == [i \in 0 .. m + 1 |-> IF i \in 0 .. m THEN g[i] ELSE step[<<g[m], m + 1>>]]
    <2>4. \A i \in 0 .. m : h[i] = g[i]
      OBVIOUS
    <2>5. h[m + 1] = step[<<g[m], m + 1>>]
      OBVIOUS
    <2>6. h \in [0 .. m + 1 -> V]
      BY <2>1, <2>3
    <2> HIDE DEF h
    <2>7. ASSUME NEW i \in 1 .. m + 1 PROVE h[i] = step[<<h[i - 1], i>>]
      <3>1. CASE i \in 1 .. m
        <4>1. i \in 0 .. m /\ i - 1 \in 0 .. m
          BY <3>1
        <4>2. QED
          BY <3>1, <4>1, <2>1, <2>4
      <3>2. CASE i = m + 1
        BY <3>2, <2>4, <2>5
      <3>3. QED
        BY <3>1, <3>2
    <2>8. Runs(h, m + 1)
      BY <2>1, <2>4, <2>6, <2>7
    <2> HIDE DEF Runs
    <2>9. QED
      BY <2>8
  <1> HIDE DEF Good
  <1>3. n \in Good
    BY <1>1, <1>2, NumberInduction
  <1>4. QED
    BY <1>3 DEF Good


\* Below the end, what comes next comes later.
Climbs(next, D, to) == \A d \in D : d < to => next[d] \in D /\ d < next[d]

\* How often one steps until the end is reached.
Counts(h, next, D, to) ==
    h \in [D -> Nat] /\ \A d \in D : h[d] = IF d >= to THEN 0 ELSE 1 + h[next[d]]

\* There is such a number for each day, found from the end on.
LEMMA CountExists ==
    ASSUME NEW D, D \subseteq Int, NEW least \in Int, \A d \in D : d >= least,
           NEW to \in Int, NEW next, Climbs(next, D, to)
    PROVE  \E h : Counts(h, next, D, to)
  <1> DEFINE Fits(h, k) ==
                 /\ h \in [D -> Nat]
                 /\ \A d \in D : d >= to - k => h[d] = IF d >= to THEN 0 ELSE 1 + h[next[d]]
             Good == {k \in Nat : \E h : Fits(h, k)}
  <1>1. 0 \in Good
    <2>1. Fits([d \in D |-> 0], 0)
      OBVIOUS
    <2> HIDE DEF Fits
    <2>2. QED
      BY <2>1
  <1>2. ASSUME NEW k \in Nat, k \in Good PROVE k + 1 \in Good
    <2>1. PICK h : Fits(h, k)
      BY <1>2
    <2>2. PICK g : g = [d \in D |-> IF d >= to THEN 0 ELSE 1 + h[next[d]]]
      OBVIOUS
    <2>3. g \in [D -> Nat]
      <3>1. \A d \in D : d < to => h[next[d]] \in Nat
        BY <2>1 DEF Climbs
      <3>2. \A d \in D : g[d] \in Nat
        BY <2>2, <3>1
      <3>3. QED
        BY <2>2, <3>2
    <2>4. ASSUME NEW d \in D, d >= to - (k + 1)
          PROVE  g[d] = IF d >= to THEN 0 ELSE 1 + g[next[d]]
      <3>1. CASE d >= to
        BY <2>2, <3>1
      <3>2. CASE ~(d >= to)
        <4>1. next[d] \in D /\ d < next[d]
          BY <3>2 DEF Climbs
        <4>2. PICK e \in D : e = next[d]
          BY <4>1
        <4>3. e >= to - k
          BY <2>4, <4>1, <4>2
        <4>4. h[e] = IF e >= to THEN 0 ELSE 1 + h[next[e]]
          BY <2>1, <4>3
        <4>5. g[e] = h[e]
          BY <2>2, <4>4
        <4>6. g[d] = 1 + h[e]
          BY <2>2, <3>2, <4>2
        <4>7. QED
          BY <3>2, <4>2, <4>5, <4>6
      <3>3. QED
        BY <3>1, <3>2
    <2>5. Fits(g, k + 1)
      BY <2>3, <2>4
    <2> HIDE DEF Fits
    <2>6. QED
      BY <2>5
  <1>3. Nat \subseteq Good
    <2> HIDE DEF Good
    <2>1. QED
      BY <1>1, <1>2, NumberInduction
  <1>4. PICK k \in Nat : to - k <= least
    <2>1. CASE to <= least
      BY <2>1
    <2>2. CASE ~(to <= least)
      <3>1. to - least \in Nat /\ to - (to - least) <= least
        BY <2>2
      <3>2. QED
        BY <3>1
    <2>3. QED
      BY <2>1, <2>2
  <1>5. PICK h : Fits(h, k)
    BY <1>3
  <1>6. \A d \in D : d >= to - k
    BY <1>4
  <1>7. Counts(h, next, D, to)
    BY <1>5, <1>6 DEF Counts
  <1>8. QED
    BY <1>7

-----------------------------------------------------------------------------
(* Sums along sequences.                                                    *)


\* s has every element of S once.
Lists(s, S, n) ==
    /\ n \in Nat
    /\ \A i \in 1 .. n : s[i] \in S
    /\ \A x \in S : \E i \in 1 .. n : s[i] = x
    /\ \A i, j \in 1 .. n : s[i] = s[j] => i = j

\* sum has the values of f along s, one after the other.
SumsUp(sum, f, s, n) ==
    /\ \A i \in 0 .. n : sum[i] \in Int
    /\ \A i \in 1 .. n : sum[i] = sum[i - 1] + f[s[i]]

\* A running sum ends at the sum of all.
LEMMA SumAlong ==
    ASSUME NEW S, IsFiniteSet(S), NEW f, \A x \in S : f[x] \in Int, NEW s, NEW n, Lists(s, S, n),
           NEW sum, SumsUp(sum, f, s, n)
    PROVE  sum[n] = sum[0] + SumFunctionOnSet(f, S)
  <1> USE DEF SumsUp
  <1> DEFINE Had(k) == {x \in S : \E i \in 1 .. k : s[i] = x}
             Good == {k \in Nat : k <= n => sum[k] = sum[0] + SumFunctionOnSet(f, Had(k))}
  <1>1. n \in Nat
    BY DEF Lists
  <1>2. ASSUME NEW k \in Nat, k <= n
        PROVE  /\ IsFiniteSet(Had(k)) /\ SumFunctionOnSet(f, Had(k)) \in Int
    <2>1. Had(k) \in SUBSET S
      OBVIOUS
    <2> HIDE DEF Had
    <2>2. IsFiniteSet(Had(k)) /\ \A x \in Had(k) : f[x] \in Int
      BY <2>1, FS_Subset
    <2>3. QED
      BY <2>2, SumIsInt
  <1>3. 0 \in Good
    <2>1. Had(0) = {}
      OBVIOUS
    <2>2. SumFunctionOnSet(f, Had(0)) = 0
      BY <2>1, SumOfNone
    <2>3. sum[0] \in Int
      BY <1>1
    <2> HIDE DEF Had
    <2>4. QED
      BY <2>2, <2>3
  <1>4. ASSUME NEW k \in Nat, k \in Good PROVE k + 1 \in Good
    <2> SUFFICES ASSUME k + 1 <= n
                 PROVE  sum[k + 1] = sum[0] + SumFunctionOnSet(f, Had(k + 1))
      OBVIOUS
    <2>1. k + 1 \in 1 .. n /\ k + 1 \in 0 .. n /\ k \in 0 .. n /\ (k + 1) - 1 = k /\ k <= n
      BY <1>1
    <2>2. s[k + 1] \in S
      BY <2>1 DEF Lists
    <2>3. s[k + 1] \in Had(k + 1)
      BY <2>1, <2>2
    <2>4. Had(k + 1) \ {s[k + 1]} = Had(k)
      <3>1. ASSUME NEW i \in 1 .. k PROVE s[i] # s[k + 1]
        <4>1. i \in 1 .. n /\ i # k + 1 /\ k + 1 \in 1 .. n
          BY <1>1, <2>1
        <4>2. s[i] = s[k + 1] => i = k + 1
          BY <4>1 DEF Lists
        <4>3. QED
          BY <4>1, <4>2
      <3>2. \A i \in 1 .. k + 1 : i \in 1 .. k \/ i = k + 1
        OBVIOUS
      <3>3. \A i \in 1 .. k : i \in 1 .. k + 1
        OBVIOUS
      <3>4. QED
        BY <3>1, <3>2, <3>3
    <2>5. IsFiniteSet(Had(k + 1)) /\ \A x \in Had(k + 1) : f[x] \in Int
      BY <1>2, <2>1
    <2>6. SumFunctionOnSet(f, Had(k)) \in Int
      BY <1>2, <2>1
    <2> HIDE DEF Had
    <2>7. SumFunctionOnSet(f, Had(k + 1)) = f[s[k + 1]] + SumFunctionOnSet(f, Had(k))
      BY <2>3, <2>4, <2>5, SumWithout
    <2>8. sum[k] = sum[0] + SumFunctionOnSet(f, Had(k))
      BY <1>4, <2>1
    <2>9. sum[k + 1] = sum[k] + f[s[k + 1]]
      BY <2>1
    <2>10. f[s[k + 1]] \in Int
      BY <2>2
    <2>11. sum[k] \in Int
      BY <2>1
    <2>12. 0 \in 0 .. n
      BY <1>1
    <2>13. sum[0] \in Int
      BY <2>12
    <2>14. QED
      BY <2>6, <2>7, <2>8, <2>9, <2>10, <2>11, <2>13
  <1>5. n \in Good
    <2> HIDE DEF Good
    <2>1. QED
      BY <1>1, <1>3, <1>4, NumberInduction
  <1>6. Had(n) = S
    BY DEF Lists
  <1>7. QED
    <2> HIDE DEF Had
    <2>1. QED
      BY <1>1, <1>5, <1>6

\* Every element of S has a place in T of its own.
Places(h, S, T) ==
    /\ T = {h[x] : x \in S}
    /\ \A x, y \in S : h[x] = h[y] => x = y

\* What is summed may be renamed.
LEMMA SumOfImage ==
    ASSUME NEW S, IsFiniteSet(S), NEW h, NEW T, Places(h, S, T), NEW f, NEW g,
           \A x \in S : f[x] \in Int /\ g[h[x]] = f[x]
    PROVE  IsFiniteSet(T) /\ SumFunctionOnSet(g, T) = SumFunctionOnSet(f, S)
  <1> DEFINE Im(U) == {h[x] : x \in U}
             Good == {U \in SUBSET S : IsFiniteSet(Im(U))
                                       /\ SumFunctionOnSet(g, Im(U)) = SumFunctionOnSet(f, U)}
  <1>1. ASSUME NEW U \in SUBSET S, \A x \in U : U \ {x} \in Good
        PROVE  U \in Good
    <2>1. CASE U = {}
      <3>1. Im(U) = {}
        BY <2>1
      <3> HIDE DEF Im
      <3>2. QED
        BY <2>1, <3>1, SumOfNone, FS_EmptySet
    <2>2. CASE U # {}
      <3>1. PICK x \in U : TRUE
        BY <2>2
      <3>2. U \ {x} \in Good
        BY <1>1
      <3>3. Im(U) = Im(U \ {x}) \cup {h[x]}
        OBVIOUS
      <3>4. h[x] \notin Im(U \ {x})
        BY <3>1 DEF Places
      <3>5. \A y \in Im(U) : g[y] \in Int
        OBVIOUS
      <3>6. IsFiniteSet(U) /\ \A y \in U : f[y] \in Int
        BY FS_Subset
      <3>7. IsFiniteSet(Im(U \ {x})) /\ SumFunctionOnSet(g, Im(U \ {x})) = SumFunctionOnSet(f, U \ {x})
        BY <3>2
      <3>8. g[h[x]] = f[x]
        BY <3>1
      <3> HIDE DEF Im
      <3>9. IsFiniteSet(Im(U))
        <4>1. PICK V, z : V = Im(U \ {x}) /\ z = h[x]
          OBVIOUS
        <4>2. IsFiniteSet(V \cup {z})
          BY <3>7, <4>1, FS_AddElement
        <4>3. QED
          BY <3>3, <4>1, <4>2
      <3>10. h[x] \in Im(U) /\ Im(U) \ {h[x]} = Im(U \ {x})
        BY <3>3, <3>4
      <3>11. SumFunctionOnSet(g, Im(U)) = g[h[x]] + SumFunctionOnSet(g, Im(U) \ {h[x]})
        BY <3>5, <3>9, <3>10, SumWithout
      <3>12. SumFunctionOnSet(f, U) = f[x] + SumFunctionOnSet(f, U \ {x})
        BY <3>1, <3>6, SumWithout
      <3>13. QED
        BY <3>7, <3>8, <3>9, <3>10, <3>11, <3>12
    <2>3. QED
      BY <2>1, <2>2
  <1>2. S \in Good
    <2> HIDE DEF Good
    <2>1. \A U \in SUBSET S : (\A x \in U : U \ {x} \in Good) => U \in Good
      BY <1>1
    <2>2. \A U \in SUBSET S : U \in Good
      BY <2>1, SetInduction
    <2>3. QED
      BY <2>2
  <1>3. T = Im(S)
    BY DEF Places
  <1>4. QED
    BY <1>2, <1>3

\* As many as there are.
LEMMA SumOfOnesLess ==
    ASSUME NEW S, IsFiniteSet(S), NEW f, \A x \in S : f[x] = -1
    PROVE  SumFunctionOnSet(f, S) = -Cardinality(S)
  <1> DEFINE Good == {U \in SUBSET S : SumFunctionOnSet(f, U) = -Cardinality(U)}
  <1>1. ASSUME NEW U \in SUBSET S, \A x \in U : U \ {x} \in Good
        PROVE  U \in Good
    <2>1. IsFiniteSet(U) /\ \A y \in U : f[y] \in Int
      BY FS_Subset
    <2>2. CASE U = {}
      BY <2>2, SumOfNone, FS_EmptySet
    <2>3. ASSUME NEW x \in U PROVE SumFunctionOnSet(f, U) = -Cardinality(U)
      <3>1. SumFunctionOnSet(f, U \ {x}) = -Cardinality(U \ {x})
        BY <1>1
      <3>2. SumFunctionOnSet(f, U) = f[x] + SumFunctionOnSet(f, U \ {x})
        BY <2>1, SumWithout
      <3>3. Cardinality(U \ {x}) = Cardinality(U) - 1 /\ Cardinality(U) \in Nat
        BY <2>1, FS_RemoveElement, FS_CardinalityType
      <3>4. f[x] = -1
        OBVIOUS
      <3>5. QED
        BY <3>1, <3>2, <3>3, <3>4
    <2>4. QED
      BY <2>2, <2>3
  <1>2. S \in Good
    <2> HIDE DEF Good
    <2>1. \A U \in SUBSET S : (\A x \in U : U \ {x} \in Good) => U \in Good
      BY <1>1
    <2>2. \A U \in SUBSET S : U \in Good
      BY <2>1, SetInduction
    <2>3. QED
      BY <2>2
  <1>3. QED
    BY <1>2
=============================================================================
