--------------------------- MODULE CoursesProofs ---------------------------
(***************************************************************************)
(* The timetable of the courses and what is paid of them.                   *)
(***************************************************************************)
EXTENDS Timetable, Passes, FiniteSetTheorems, SequenceTheorems,
        WellFoundedInduction, SumTheorems, TLAPS

-----------------------------------------------------------------------------
(* What is put in order.                                                    *)

\* R orders S, strictly.
Orders(R, S) ==
    /\ \A x \in S : <<x, x>> \notin R
    /\ \A x, y \in S : x # y => <<x, y>> \in R \/ <<y, x>> \in R
    /\ \A x, y, z \in S : <<x, y>> \in R /\ <<y, z>> \in R => <<x, z>> \in R

\* How many come before.
Rank(x, S, R) == Cardinality({y \in S : <<y, x>> \in R})

LEMMA RankRises ==
    ASSUME NEW S, NEW R, IsFiniteSet(S), Orders(R, S), NEW x \in S
    PROVE  /\ Rank(x, S, R) \in 0 .. Cardinality(S) - 1
           /\ \A y \in S : <<x, y>> \in R => Rank(x, S, R) < Rank(y, S, R)
  <1> DEFINE Below(y) == {z \in S : <<z, y>> \in R}
  <1>1. ASSUME NEW y \in S PROVE IsFiniteSet(Below(y)) /\ Cardinality(Below(y)) \in Nat
    <2>1. Below(y) \in SUBSET S
      OBVIOUS
    <2> HIDE DEF Below
    <2>2. QED
      BY <2>1, FS_Subset, FS_CardinalityType
  <1>2. Cardinality(Below(x)) < Cardinality(S) /\ Cardinality(S) \in Nat
    <2>1. Below(x) \in SUBSET S /\ x \notin Below(x)
      BY DEF Orders
    <2> HIDE DEF Below
    <2>2. QED
      BY <2>1, <1>1, FS_Subset, FS_CardinalityType
  <1>3. ASSUME NEW y \in S, <<x, y>> \in R PROVE Cardinality(Below(x)) < Cardinality(Below(y))
    <2>1. Below(x) \in SUBSET Below(y) /\ x \notin Below(x) /\ x \in Below(y)
      BY <1>3 DEF Orders
    <2>2. IsFiniteSet(Below(y)) /\ Cardinality(Below(y)) \in Nat /\ Cardinality(Below(x)) \in Nat
      BY <1>1
    <2> HIDE DEF Below
    <2>3. QED
      BY <2>1, <2>2, FS_Subset
  <1>4. \A y \in S : Rank(y, S, R) = Cardinality(Below(y)) /\ Cardinality(Below(y)) \in Nat
    BY <1>1 DEF Rank
  <1> HIDE DEF Below
  <1>5. QED
    BY <1>2, <1>3, <1>4

\* Every element has its place and every place its element.
LEMMA InOrderIs ==
    ASSUME NEW S, NEW R, IsFiniteSet(S), Orders(R, S)
    PROVE  /\ InOrder(S, R) \in Seq(S)
           /\ Len(InOrder(S, R)) = Cardinality(S)
           /\ DOMAIN InOrder(S, R) = 1 .. Cardinality(S)
           /\ Cardinality(S) \in Nat
           /\ \A x \in S : \E i \in DOMAIN InOrder(S, R) : InOrder(S, R)[i] = x
           /\ \A i, j \in DOMAIN InOrder(S, R) :
                 i < j <=> <<InOrder(S, R)[i], InOrder(S, R)[j]>> \in R
  <1> DEFINE n == Cardinality(S)
             rank == [x \in S |-> Rank(x, S, R) + 1]
             s == InOrder(S, R)
  <1>1. n \in Nat
    BY FS_CardinalityType
  <1>2. rank \in [S -> 1 .. n]
    <2>1. \A x \in S : Rank(x, S, R) \in 0 .. n - 1
      BY RankRises
    <2> HIDE DEF n
    <2>2. QED
      BY <1>1, <2>1
  <1>3. \A x, y \in S : <<x, y>> \in R => rank[x] < rank[y]
    <2>1. \A x, y \in S : <<x, y>> \in R => Rank(x, S, R) < Rank(y, S, R)
      BY RankRises
    <2>2. \A x \in S : Rank(x, S, R) \in Int
      BY RankRises
    <2>3. QED
      BY <2>1, <2>2
  <1>4. rank \in Injection(S, 1 .. n)
    <2>1. \A x, y \in S : rank[x] = rank[y] => x = y
      <3> TAKE x, y \in S
      <3>1. rank[x] \in Int /\ rank[y] \in Int
        BY <1>2
      <3>2. (<<x, y>> \in R => rank[x] < rank[y]) /\ (<<y, x>> \in R => rank[y] < rank[x])
        BY <1>3
      <3>3. x # y => <<x, y>> \in R \/ <<y, x>> \in R
        BY DEF Orders
      <3> HIDE DEF rank
      <3>4. QED
        BY <3>1, <3>2, <3>3
    <2> HIDE DEF rank, n
    <2>2. DOMAIN rank = S
      BY <1>2
    <2>3. QED
      BY <1>2, <2>1, <2>2 DEF Injection, IsInjective
  <1>5. rank \in Surjection(S, 1 .. n)
    <2>1. IsFiniteSet(1 .. n) /\ Cardinality(1 .. n) = n
      <3> HIDE DEF n
      <3>1. QED
        BY <1>1, FS_Interval
    <2> HIDE DEF rank
    <2>2. QED
      BY <1>4, <2>1, FS_Injection
  <1>6. \A i \in 1 .. n : \E x \in S : Rank(x, S, R) = i - 1
    <2> TAKE i \in 1 .. n
    <2>1. PICK x \in S : rank[x] = i
      BY <1>5 DEF Surjection
    <2>2. Rank(x, S, R) + 1 = i /\ Rank(x, S, R) \in Int
      BY <2>1, RankRises
    <2>3. QED
      BY <2>2
  <1>7. s = [i \in 1 .. n |-> CHOOSE x \in S : Rank(x, S, R) = i - 1]
    BY DEF InOrder, Rank
  <1>8. \A i \in 1 .. n : s[i] \in S /\ Rank(s[i], S, R) = i - 1
    BY <1>6, <1>7
  <1>9. DOMAIN s = 1 .. n
    BY <1>7
  <1> HIDE DEF s, n
  <1>10. s \in Seq(S) /\ Len(s) = n
    <2>1. s \in [1 .. n -> S]
      BY <1>7, <1>8
    <2>2. QED
      BY <1>1, <2>1, IsASeq
  <1>11. \A i \in 1 .. n : rank[s[i]] = i
    BY <1>8
  <1>12. \A x \in S : \E i \in 1 .. n : s[i] = x
    <2> TAKE x \in S
    <2>1. rank[x] \in 1 .. n
      BY <1>2
    <2>2. rank[s[rank[x]]] = rank[x] /\ s[rank[x]] \in S
      BY <2>1, <1>8, <1>11
    <2>3. s[rank[x]] = x
      <3> HIDE DEF rank
      <3>1. QED
        BY <2>2, <1>4 DEF Injection, IsInjective
    <2>4. QED
      BY <2>1, <2>3
  <1>13. ASSUME NEW i \in 1 .. n, NEW j \in 1 .. n PROVE i < j <=> <<s[i], s[j]>> \in R
    <2>1. s[i] \in S /\ s[j] \in S /\ rank[s[i]] = i /\ rank[s[j]] = j
      BY <1>8, <1>11
    <2> HIDE DEF rank
    <2>2. <<s[i], s[j]>> \in R => i < j
      BY <1>3, <2>1
    <2>3. <<s[j], s[i]>> \in R => j < i
      BY <1>3, <2>1
    <2>4. i # j => s[i] # s[j]
      BY <2>1
    <2>5. QED
      BY <2>1, <2>2, <2>3, <2>4 DEF Orders
  <1>14. QED
    BY <1>1, <1>9, <1>10, <1>12, <1>13 DEF s, n

Less(S) == {r \in S \X S : r[1] < r[2]}

\* Numbers in order.
LEMMA NumbersInOrder ==
    ASSUME NEW S, S \subseteq Int, IsFiniteSet(S)
    PROVE  LET s == InOrder(S, Less(S))
           IN  /\ s \in Seq(S) /\ Len(s) = Cardinality(S) /\ Len(s) \in Nat
               /\ DOMAIN s = 1 .. Len(s)
               /\ \A x \in S : \E i \in DOMAIN s : s[i] = x
               /\ \A i, j \in DOMAIN s : i < j => s[i] < s[j]
  <1>1. PICK R : R = Less(S)
    OBVIOUS
  <1>2. \A x, y \in S : <<x, y>> \in R <=> x < y
    BY <1>1 DEF Less
  <1>3. Orders(R, S)
    <2>1. \A x \in S : x \in Int
      OBVIOUS
    <2>2. QED
      BY <1>2, <2>1 DEF Orders
  <1>4. PICK s : s = InOrder(S, R)
    OBVIOUS
  <1>5. /\ s \in Seq(S) /\ Len(s) = Cardinality(S) /\ DOMAIN s = 1 .. Cardinality(S)
        /\ Cardinality(S) \in Nat
        /\ \A x \in S : \E i \in DOMAIN s : s[i] = x
        /\ \A i, j \in DOMAIN s : i < j <=> <<s[i], s[j]>> \in R
    BY <1>3, <1>4, InOrderIs
  <1>6. \A i \in DOMAIN s : s[i] \in S
    BY <1>5
  <1>7. \A i, j \in DOMAIN s : i < j => s[i] < s[j]
    BY <1>2, <1>5, <1>6
  <1>8. QED
    BY <1>1, <1>4, <1>5, <1>7

\* The latest of some days or moments is one of them.
LEMMA MaxIs ==
    ASSUME NEW n \in Nat, NEW S \in SUBSET (0 .. n), S # {}
    PROVE  Max(S) \in S /\ \A d \in S : d <= Max(S)
  <1>1. IsFiniteSet(S) /\ S \subseteq Int
    <2>1. IsFiniteSet(0 .. n)
      BY FS_Interval
    <2>2. IsFiniteSet(S)
      BY <2>1, FS_Subset
    <2>3. QED
      BY <2>2
  <1>2. Cardinality(S) \in Nat /\ Cardinality(S) # 0
    BY <1>1, FS_CardinalityType, FS_EmptySet
  <1>3. PICK s : s = InOrder(S, Less(S))
    OBVIOUS
  <1>4. /\ s \in Seq(S) /\ Len(s) = Cardinality(S) /\ DOMAIN s = 1 .. Len(s)
        /\ \A x \in S : \E i \in DOMAIN s : s[i] = x
        /\ \A i, j \in DOMAIN s : i < j => s[i] < s[j]
    BY <1>1, <1>3, NumbersInOrder
  <1>5. PICK last \in S : last = s[Len(s)]
    <2>1. Len(s) \in 1 .. Len(s)
      BY <1>2, <1>4
    <2>2. s[Len(s)] \in S
      BY <1>4, <2>1
    <2>3. QED
      BY <2>2
  <1>6. \A d \in S : last >= d
    <2> TAKE d \in S
    <2>1. PICK i \in DOMAIN s : s[i] = d
      BY <1>4
    <2>2. i = Len(s) \/ i < Len(s)
      BY <1>2, <1>4
    <2>3. Len(s) \in DOMAIN s
      BY <1>2, <1>4
    <2>4. d = last \/ d < last
      BY <1>4, <1>5, <2>1, <2>2, <2>3
    <2>5. QED
      BY <1>1, <2>4
  <1>7. Max(S) \in S /\ \A d \in S : Max(S) >= d
    BY <1>6 DEF Max
  <1>8. QED
    BY <1>1, <1>7

\* The sequence of the dates of a course has each of them and no other.
LEMMA DatesAre ==
    ASSUME NEW weekdays, NEW absences, NEW from \in Int, NEW to \in Int
    PROVE  /\ ToSet(DatesOf(weekdays, absences, from, to)) =
                 {d \in from .. to : d % WeekLen \in weekdays /\ ~absentOn(d, absences)}
           /\ DatesOf(weekdays, absences, from, to) \in Seq(from .. to)
           /\ Len(DatesOf(weekdays, absences, from, to)) \in Nat
  <1>1. PICK S : S = {d \in from .. to : d % WeekLen \in weekdays /\ ~absentOn(d, absences)}
    OBVIOUS
  <1>2. S \subseteq Int /\ S \in SUBSET (from .. to)
    BY <1>1
  <1>3. IsFiniteSet(S)
    BY <1>2, FS_Interval, FS_Subset
  <1>4. PICK s : s = InOrder(S, Less(S))
    OBVIOUS
  <1>5. DatesOf(weekdays, absences, from, to) = s
    BY <1>1, <1>4, Zenon DEF DatesOf, Less
  <1>6. /\ s \in Seq(S) /\ Len(s) \in Nat
        /\ \A x \in S : \E i \in DOMAIN s : s[i] = x
    BY <1>2, <1>3, <1>4, NumbersInOrder
  <1>7. s \in Seq(from .. to) /\ \A i \in DOMAIN s : s[i] \in S
    <2>1. PICK D : D = from .. to
      OBVIOUS
    <2>2. S \in SUBSET D
      BY <1>2, <2>1
    <2>3. s \in Seq(D) /\ \A i \in DOMAIN s : s[i] \in S
      BY <1>6, <2>2
    <2>4. QED
      BY <2>1, <2>3
  <1>8. ToSet(s) = S
    BY <1>6, <1>7 DEF ToSet
  <1>9. QED
    BY <1>1, <1>5, <1>6, <1>7, <1>8

\* Where nothing is on there is no date.
LEMMA NoDates ==
    ASSUME NEW absences, NEW from \in Int, NEW to \in Int
    PROVE  Len(DatesOf({}, absences, from, to)) = 0
  <1>1. PICK s : s = DatesOf({}, absences, from, to)
    OBVIOUS
  <1>2. ToSet(s) = {} /\ s \in Seq(from .. to) /\ Len(s) \in Nat
    BY <1>1, DatesAre
  <1>3. Len(s) # 0 => 1 \in DOMAIN s
    BY <1>2
  <1>4. QED
    BY <1>1, <1>2, <1>3 DEF ToSet

-----------------------------------------------------------------------------
(* Running sums and runs of days.                                            *)

LEMMA RunningIs ==
    ASSUME NEW start \in Int, NEW steps \in Seq(Int)
    PROVE  /\ Running(start, steps) \in [0 .. Len(steps) -> Int]
           /\ Running(start, steps)[0] = start
           /\ \A i \in 1 .. Len(steps) :
                 Running(start, steps)[i] = Running(start, steps)[i - 1] + steps[i]
  <1> DEFINE n == Len(steps)
             step == [r \in Int \X (1 .. n) |-> r[1] + steps[r[2]]]
             f == CHOOSE f : f = [i \in 0 .. n |-> IF i = 0 THEN start ELSE f[i - 1] + steps[i]]
  <1>1. n \in Nat /\ \A i \in 1 .. n : steps[i] \in Int
    OBVIOUS
  <1>2. Running(start, steps) = f
    BY DEF Running
  <1> HIDE DEF n
  <1>3. step \in [Int \X (1 .. n) -> Int]
    BY <1>1
  <1>4. \A v \in Int, i \in 1 .. n : step[<<v, i>>] = v + steps[i]
    OBVIOUS
  <1> HIDE DEF step
  <1>5. PICK h \in [0 .. n -> Int] : h[0] = start /\ \A i \in 1 .. n : h[i] = step[<<h[i - 1], i>>]
    <2>1. PICK V : V = Int
      OBVIOUS
    <2>2. start \in V /\ step \in [V \X (1 .. n) -> V] /\ n \in Nat
      BY <1>1, <1>3, <2>1
    <2>3. \E h : Walks(h, V, start, step, n)
      BY <2>2, WalkExists
    <2>4. QED
      BY <2>1, <2>3 DEF Walks
  <1>6. \A i \in 1 .. n : h[i] = h[i - 1] + steps[i]
    <2> TAKE i \in 1 .. n
    <2>1. i - 1 \in 0 .. n
      BY <1>1
    <2>2. QED
      BY <2>1, <1>4, <1>5
  <1>7. h = [i \in 0 .. n |-> IF i = 0 THEN start ELSE h[i - 1] + steps[i]]
    <2>1. \A i \in 0 .. n : h[i] = IF i = 0 THEN start ELSE h[i - 1] + steps[i]
      BY <1>1, <1>5, <1>6
    <2>2. QED
      BY <1>5, <2>1
  <1>8. f = [i \in 0 .. n |-> IF i = 0 THEN start ELSE f[i - 1] + steps[i]]
    BY <1>7
  <1> HIDE DEF f
  <1>9. DOMAIN f = 0 .. n /\ f[0] = start /\ \A i \in 1 .. n : f[i] = f[i - 1] + steps[i]
    <2>1. \A i \in 0 .. n : f[i] = IF i = 0 THEN start ELSE f[i - 1] + steps[i]
      BY <1>8
    <2>2. QED
      BY <1>1, <1>8, <2>1
  <1>10. \A i \in 0 .. n : f[i] \in Int
    <2> DEFINE Good == {i \in Nat : i <= n => f[i] \in Int}
    <2>1. 0 \in Good
      BY <1>9
    <2>2. ASSUME NEW i \in Nat, i \in Good PROVE i + 1 \in Good
      <3>1. i + 1 <= n => i + 1 \in 1 .. n /\ f[i] \in Int /\ f[i + 1] = f[i] + steps[i + 1]
        BY <1>1, <1>9, <2>2
      <3>2. QED
        BY <1>1, <3>1
    <2> HIDE DEF Good
    <2>3. Nat \subseteq Good
      BY <2>1, <2>2, NumberInduction
    <2>4. QED
      BY <1>1, <2>3 DEF Good
  <1>11. QED
    <2>1. f \in [0 .. n -> Int]
      BY <1>8, <1>10
    <2>2. QED
      BY <1>2, <1>9, <2>1 DEF n

LEMMA EndOfRunIs ==
    ASSUME NEW end \in Int, NEW sorted, Len(sorted) \in Nat,
           \A i \in 1 .. Len(sorted) : sorted[i].until \in Int
    PROVE  \E reach \in [0 .. Len(sorted) -> Int] :
              /\ reach[0] = end
              /\ \A i \in 1 .. Len(sorted) : reach[i] = Extended(reach[i - 1], sorted[i])
              /\ EndOfRun(end, sorted) = reach[Len(sorted)]
  <1>1. PICK n \in Nat : n = Len(sorted)
    OBVIOUS
  <1> DEFINE f == CHOOSE f : f = [i \in 0 .. Len(sorted) |->
                                    IF i = 0 THEN end ELSE Extended(f[i - 1], sorted[i])]
  <1>2. EndOfRun(end, sorted) = f[n]
    BY <1>1 DEF EndOfRun
  <1>3. \A v \in Int, i \in 1 .. n : Extended(v, sorted[i]) \in Int
    BY <1>1 DEF Extended
  <1>4. PICK step : step = [r \in Int \X (1 .. n) |-> Extended(r[1], sorted[r[2]])]
    OBVIOUS
  <1>5. step \in [Int \X (1 .. n) -> Int]
    BY <1>3, <1>4
  <1>6. \A v \in Int, i \in 1 .. n : step[<<v, i>>] = Extended(v, sorted[i])
    BY <1>4
  <1>7. PICK h : Walks(h, Int, end, step, n)
    <2>1. PICK V : V = Int
      OBVIOUS
    <2>2. end \in V /\ step \in [V \X (1 .. n) -> V]
      BY <1>5, <2>1
    <2>3. \E h : Walks(h, V, end, step, n)
      BY <2>2, WalkExists
    <2>4. QED
      BY <2>1, <2>3
  <1>8. h \in [0 .. n -> Int] /\ h[0] = end
    BY <1>7 DEF Walks
  <1>9. \A i \in 1 .. n : h[i] = Extended(h[i - 1], sorted[i])
    <2> TAKE i \in 1 .. n
    <2>1. i - 1 \in 0 .. n /\ h[i] = step[<<h[i - 1], i>>]
      BY <1>7 DEF Walks
    <2>2. h[i - 1] \in Int
      BY <1>8, <2>1
    <2>3. QED
      BY <2>1, <2>2, <1>6
  <1>10. h = [i \in 0 .. n |-> IF i = 0 THEN end ELSE Extended(h[i - 1], sorted[i])]
    <2>1. \A i \in 0 .. n : h[i] = IF i = 0 THEN end ELSE Extended(h[i - 1], sorted[i])
      BY <1>8, <1>9
    <2>2. QED
      BY <1>8, <2>1
  <1>11. f = [i \in 0 .. n |-> IF i = 0 THEN end ELSE Extended(f[i - 1], sorted[i])]
    BY <1>1, <1>10
  <1> HIDE DEF f
  <1>12. DOMAIN f = 0 .. n /\ f[0] = end
    BY <1>11
  <1>13. \A i \in 1 .. n : f[i] = Extended(f[i - 1], sorted[i])
    <2> TAKE i \in 1 .. n
    <2>1. f[i] = IF i = 0 THEN end ELSE Extended(f[i - 1], sorted[i])
      BY <1>11
    <2>2. QED
      BY <2>1
  <1>14. \A i \in 0 .. n : f[i] \in Int
    <2> DEFINE Good == {i \in Nat : i <= n => f[i] \in Int}
    <2>1. 0 \in Good
      BY <1>12
    <2>2. ASSUME NEW i \in Nat, i \in Good PROVE i + 1 \in Good
      <3> SUFFICES ASSUME i + 1 <= n PROVE f[i + 1] \in Int
        OBVIOUS
      <3>1. i + 1 \in 1 .. n /\ (i + 1) - 1 = i /\ f[i] \in Int
        BY <2>2
      <3>2. f[i + 1] = Extended(f[i], sorted[i + 1])
        BY <1>13, <3>1
      <3>3. Extended(f[i], sorted[i + 1]) \in Int
        BY <1>3, <3>1
      <3>4. QED
        BY <3>2, <3>3
    <2> HIDE DEF Good
    <2>3. Nat \subseteq Good
      BY <2>1, <2>2, NumberInduction
    <2>4. QED
      BY <2>3 DEF Good
  <1>15. f \in [0 .. n -> Int]
    BY <1>11, <1>14
  <1>16. QED
    BY <1>1, <1>2, <1>12, <1>13, <1>15

\* The days of some periods.
DaysOf(periods) == UNION {p.from .. p.until : p \in periods}

Spans(periods) == \A p \in periods : p.from \in Int /\ p.until \in Int /\ p.from <= p.until

\* reach goes along spans that begin ever later.
Reaches(reach, from, until, n) ==
    /\ from \in [1 .. n -> Int] /\ until \in [1 .. n -> Int] /\ reach \in [0 .. n -> Int]
    /\ \A i \in 1 .. n : from[i] <= until[i]
    /\ \A i, j \in 1 .. n : i < j => from[i] < from[j]
    /\ \A i \in 1 .. n :
          reach[i] = IF from[i] <= reach[i - 1] + 1 /\ until[i] > reach[i - 1]
                     THEN until[i] ELSE reach[i - 1]

\* Where one gets to that way: to a gap.
LEMMA ReachIs ==
    ASSUME NEW n \in Nat, NEW from, NEW until, NEW reach, Reaches(reach, from, until, n)
    PROVE  /\ reach[0] <= reach[n]
           /\ \A d \in reach[0] + 1 .. reach[n] : \E i \in 1 .. n : from[i] <= d /\ d <= until[i]
           /\ \A i \in 1 .. n : ~(from[i] <= reach[n] + 1 /\ reach[n] + 1 <= until[i])
           /\ reach[n] = reach[0] \/ \E i \in 1 .. n : reach[n] = until[i]
  <1> USE DEF Reaches
  <1>1. \A i \in 1 .. n : /\ reach[i - 1] \in Int /\ reach[i] \in Int
                          /\ from[i] \in Int /\ until[i] \in Int
    OBVIOUS
  <1> DEFINE Fine(i) ==
                 /\ reach[0] <= reach[i]
                 /\ \A d \in reach[0] + 1 .. reach[i] :
                       \E j \in 1 .. n : from[j] <= d /\ d <= until[j]
                 /\ reach[i] = reach[0] \/ \E j \in 1 .. n : reach[i] = until[j]
                 /\ \A k \in 0 .. i : reach[k] <= reach[i]
             Good == {i \in Nat : i <= n => Fine(i)}
  <1>2. 0 \in Good
    OBVIOUS
  <1>3. ASSUME NEW i \in Nat, i \in Good PROVE i + 1 \in Good
    <2> SUFFICES ASSUME i + 1 <= n PROVE Fine(i + 1)
      OBVIOUS
    <2>1. i + 1 \in 1 .. n /\ (i + 1) - 1 = i
      OBVIOUS
    <2>2. Fine(i)
      BY <1>3
    <2>3. /\ reach[i + 1] \in Int /\ reach[i] \in Int
          /\ reach[i + 1] = IF from[i + 1] <= reach[i] + 1 /\ until[i + 1] > reach[i]
                            THEN until[i + 1] ELSE reach[i]
      BY <1>1, <2>1
    <2>4. CASE reach[i + 1] = reach[i]
      <3>1. \A k \in 0 .. i + 1 : k \in 0 .. i \/ k = i + 1
        OBVIOUS
      <3>2. QED
        BY <2>2, <2>3, <2>4, <3>1
    <2>5. CASE /\ from[i + 1] <= reach[i] + 1 /\ until[i + 1] > reach[i]
               /\ reach[i + 1] = until[i + 1]
      <3>1. reach[0] \in Int /\ reach[0] <= reach[i] /\ reach[i] < reach[i + 1]
        BY <2>2, <2>3, <2>5
      <3>2. ASSUME NEW d \in reach[0] + 1 .. reach[i + 1]
            PROVE  \E j \in 1 .. n : from[j] <= d /\ d <= until[j]
        <4>1. CASE d <= reach[i]
          BY <4>1, <2>2, <2>3, <3>1
        <4>2. CASE d > reach[i]
          BY <4>2, <1>1, <2>1, <2>3, <2>5, <3>1
        <4>3. QED
          BY <4>1, <4>2, <2>3, <3>1
      <3>3. ASSUME NEW k \in 0 .. i + 1 PROVE reach[k] <= reach[i + 1]
        <4>1. k \in 0 .. i => reach[k] \in Int /\ reach[k] <= reach[i]
          BY <2>2
        <4>2. QED
          BY <4>1, <2>3, <3>1
      <3>4. QED
        BY <2>1, <2>3, <2>5, <3>1, <3>2, <3>3
    <2>6. QED
      BY <2>3, <2>4, <2>5
  <1>4. Fine(n)
    <2> HIDE DEF Fine
    <2>1. Nat \subseteq Good
      <3> HIDE DEF Good
      <3>1. QED
        BY <1>2, <1>3, NumberInduction
    <2>2. QED
      BY <2>1
  <1>5. ASSUME NEW i \in 1 .. n, from[i] <= reach[n] + 1, reach[n] + 1 <= until[i] PROVE FALSE
    <2>1. /\ i \in 0 .. n /\ i - 1 \in 0 .. n
          /\ reach[n] \in Int /\ reach[i] <= reach[n] /\ reach[i - 1] <= reach[n]
      BY <1>4
    <2>2. from[i] > reach[i - 1] + 1
      <3>1. reach[i] = IF from[i] <= reach[i - 1] + 1 /\ until[i] > reach[i - 1]
                       THEN until[i] ELSE reach[i - 1]
        OBVIOUS
      <3>2. QED
        BY <1>1, <1>5, <2>1, <3>1
    <2> DEFINE Low == {k \in Nat : k \in i .. n => reach[k] < from[i] - 1}
    <2>3. 0 \in Low
      OBVIOUS
    <2>4. ASSUME NEW k \in Nat, k \in Low PROVE k + 1 \in Low
      <3> SUFFICES ASSUME k + 1 \in i .. n PROVE reach[k + 1] < from[i] - 1
        OBVIOUS
      <3>1. k + 1 \in 1 .. n /\ k = (k + 1) - 1
        OBVIOUS
      <3>2. /\ reach[k] \in Int /\ reach[k + 1] \in Int /\ from[i] \in Int /\ from[k + 1] \in Int
            /\ until[k + 1] \in Int
            /\ reach[k + 1] = IF from[k + 1] <= reach[k] + 1 /\ until[k + 1] > reach[k]
                              THEN until[k + 1] ELSE reach[k]
        BY <1>1, <3>1
      <3>3. reach[k] < from[i] - 1
        <4>1. CASE k + 1 = i
          <5>1. i - 1 = k
            BY <4>1
          <5>2. QED
            BY <5>1, <2>2, <3>2
        <4>2. CASE k + 1 # i
          BY <4>2, <2>4
        <4>3. QED
          BY <4>1, <4>2
      <3>4. from[i] <= from[k + 1]
        <4>1. CASE k + 1 = i
          <5>1. from[i] = from[k + 1]
            BY <4>1
          <5>2. QED
            BY <5>1, <3>2
        <4>2. CASE k + 1 # i
          <5>1. i < k + 1
            BY <4>2
          <5>2. QED
            BY <5>1, <3>1, <3>2
        <4>3. QED
          BY <4>1, <4>2
      <3>5. QED
        BY <3>2, <3>3, <3>4
    <2> HIDE DEF Low
    <2>5. n \in Low
      <3>1. Nat \subseteq Low
        BY <2>3, <2>4, NumberInduction
      <3>2. QED
        BY <3>1
    <2>6. reach[n] < from[i] - 1
      BY <2>5 DEF Low
    <2>7. QED
      BY <1>1, <1>5, <2>1, <2>6
  <1>6. QED
    BY <1>4, <1>5

\* Some of them, each after the one before.
InRow(sorted, periods) ==
    /\ Len(sorted) \in Nat
    /\ \A i \in 1 .. Len(sorted) : sorted[i] \in periods
    /\ \A i, j \in 1 .. Len(sorted) : i < j => sorted[i].from < sorted[j].from

\* From paid days on, the run goes to where there is a gap, whatever the periods.
LEMMA RunIs ==
    ASSUME NEW periods, Spans(periods), NEW sorted, InRow(sorted, periods), NEW end \in Int
    PROVE  LET e == EndOfRun(end, sorted)
           IN  /\ e \in Int /\ end <= e
               /\ end + 1 .. e \subseteq DaysOf(periods)
               /\ \A i \in 1 .. Len(sorted) :
                     ~(sorted[i].from <= e + 1 /\ e + 1 <= sorted[i].until)
               /\ e = end \/ \E p \in periods : e = p.until
  <1>1. PICK n \in Nat : n = Len(sorted)
    BY DEF InRow
  <1>2. \A i \in 1 .. n : /\ sorted[i].from \in Int
                          /\ sorted[i].until \in Int /\ sorted[i].from <= sorted[i].until
    BY <1>1 DEF Spans, InRow
  <1>3. PICK reach \in [0 .. n -> Int] :
              /\ reach[0] = end
              /\ \A i \in 1 .. n : reach[i] = Extended(reach[i - 1], sorted[i])
              /\ EndOfRun(end, sorted) = reach[n]
    BY <1>1, <1>2, EndOfRunIs
  <1>4. PICK from : from = [i \in 1 .. n |-> sorted[i].from]
    OBVIOUS
  <1>5. PICK until : until = [i \in 1 .. n |-> sorted[i].until]
    OBVIOUS
  <1>6. /\ from \in [1 .. n -> Int] /\ until \in [1 .. n -> Int]
        /\ \A i \in 1 .. n : from[i] <= until[i]
    BY <1>2, <1>4, <1>5
  <1>7. \A i, j \in 1 .. n : i < j => from[i] < from[j]
    BY <1>1, <1>4 DEF InRow
  <1>8. \A i \in 1 .. n :
              reach[i] = IF from[i] <= reach[i - 1] + 1 /\ until[i] > reach[i - 1]
                         THEN until[i] ELSE reach[i - 1]
    BY <1>3, <1>4, <1>5 DEF Extended
  <1>9. /\ reach[0] <= reach[n]
        /\ \A d \in reach[0] + 1 .. reach[n] : \E i \in 1 .. n : from[i] <= d /\ d <= until[i]
        /\ \A i \in 1 .. n : ~(from[i] <= reach[n] + 1 /\ reach[n] + 1 <= until[i])
        /\ reach[n] = reach[0] \/ \E i \in 1 .. n : reach[n] = until[i]
    <2>1. Reaches(reach, from, until, n)
      BY <1>6, <1>7, <1>8 DEF Reaches
    <2>2. QED
      BY <2>1, ReachIs
  <1>10. ASSUME NEW d \in end + 1 .. reach[n] PROVE d \in DaysOf(periods)
    <2>1. PICK i \in 1 .. n : from[i] <= d /\ d <= until[i]
      BY <1>3, <1>9
    <2>2. d \in sorted[i].from .. sorted[i].until
      BY <1>2, <1>3, <1>4, <1>5, <2>1
    <2>3. QED
      BY <1>1, <2>2 DEF DaysOf, InRow
  <1>11. \A i \in 1 .. n : ~(sorted[i].from <= reach[n] + 1 /\ reach[n] + 1 <= sorted[i].until)
    BY <1>4, <1>5, <1>9
  <1>12. reach[n] = end \/ \E p \in periods : reach[n] = p.until
    BY <1>1, <1>3, <1>5, <1>9 DEF InRow
  <1>13. QED
    BY <1>1, <1>3, <1>9, <1>10, <1>11, <1>12

-----------------------------------------------------------------------------
(* The calendar.                                                            *)

LEMMA MonthsAre ==
    /\ Len(MonthLens) \in Nat \ {0} /\ Months = 1 .. Len(MonthLens)
    /\ \A m \in Months : MonthLens[m] \in Nat \ {0}
  <1>1. MonthLens \in Seq(Nat \ {0}) /\ MonthLens # <<>>
    BY AuditAssumption DEF AuditAssumption
  <1>2. QED
    BY <1>1 DEF Months

LEMMA FirstDays ==
    /\ FirstOf \in [1 .. Len(MonthLens) + 1 -> Nat]
    /\ FirstOf[1] = 0
    /\ \A m \in 1 .. Len(MonthLens) : FirstOf[m + 1] = FirstOf[m] + MonthLens[m]
  <1>1. PICK n \in Nat \ {0} : n = Len(MonthLens)
    BY MonthsAre
  <1>2. \A m \in 1 .. n : MonthLens[m] \in Nat
    BY <1>1, MonthsAre
  <1>3. PICK step : step = [r \in Nat \X (1 .. n) |-> r[1] + MonthLens[r[2]]]
    OBVIOUS
  <1>4. step \in [Nat \X (1 .. n) -> Nat]
    BY <1>2, <1>3
  <1>5. \A v \in Nat, i \in 1 .. n : step[<<v, i>>] = v + MonthLens[i]
    BY <1>3
  <1>6. PICK h : Walks(h, Nat, 0, step, n)
    <2>1. PICK V : V = Nat
      OBVIOUS
    <2>2. 0 \in V /\ step \in [V \X (1 .. n) -> V]
      BY <1>4, <2>1
    <2>3. \E h : Walks(h, V, 0, step, n)
      BY <2>2, WalkExists
    <2>4. QED
      BY <2>1, <2>3
  <1>7. h \in [0 .. n -> Nat] /\ h[0] = 0
    BY <1>6 DEF Walks
  <1>8. \A i \in 1 .. n : h[i] = h[i - 1] + MonthLens[i]
    <2> TAKE i \in 1 .. n
    <2>1. i - 1 \in 0 .. n /\ h[i] = step[<<h[i - 1], i>>]
      BY <1>6 DEF Walks
    <2>2. h[i - 1] \in Nat
      BY <1>7, <2>1
    <2>3. QED
      BY <2>1, <2>2, <1>5
  <1>9. PICK g : g = [m \in 1 .. n + 1 |-> h[m - 1]]
    OBVIOUS
  <1>10. g = [m \in 1 .. n + 1 |-> IF m = 1 THEN 0 ELSE g[m - 1] + MonthLens[m - 1]]
    <2>1. ASSUME NEW m \in 1 .. n + 1
          PROVE  g[m] = IF m = 1 THEN 0 ELSE g[m - 1] + MonthLens[m - 1]
      <3>1. CASE m = 1
        BY <3>1, <1>7, <1>9
      <3>2. CASE m # 1
        <4>1. m - 1 \in 1 .. n /\ m - 1 \in 1 .. n + 1
          BY <3>2
        <4>2. g[m] = h[m - 1] /\ g[m - 1] = h[(m - 1) - 1]
          BY <4>1, <1>9
        <4>3. h[m - 1] = h[(m - 1) - 1] + MonthLens[m - 1]
          BY <4>1, <1>8
        <4>4. QED
          BY <3>2, <4>2, <4>3
      <3>3. QED
        BY <3>1, <3>2
    <2>2. QED
      BY <2>1, <1>9
  <1>11. FirstOf = CHOOSE f : f = [m \in 1 .. Len(MonthLens) + 1 |->
                       IF m = 1 THEN 0 ELSE f[m - 1] + MonthLens[m - 1]]
    BY DEF FirstOf
  <1>12. FirstOf = [m \in 1 .. n + 1 |-> IF m = 1 THEN 0 ELSE FirstOf[m - 1] + MonthLens[m - 1]]
    BY <1>1, <1>10, <1>11
  <1>13. FirstOf[1] = 0 /\ DOMAIN FirstOf = 1 .. n + 1
    BY <1>12
  <1>14. \A m \in 1 .. n : FirstOf[m + 1] = FirstOf[m] + MonthLens[m]
    <2> TAKE m \in 1 .. n
    <2>1. m + 1 \in 1 .. n + 1 /\ m + 1 # 1 /\ (m + 1) - 1 = m
      OBVIOUS
    <2>2. FirstOf[m + 1] = FirstOf[(m + 1) - 1] + MonthLens[(m + 1) - 1]
      BY <1>12, <2>1
    <2>3. QED
      BY <2>1, <2>2
  <1>15. \A m \in 1 .. n + 1 : FirstOf[m] \in Nat
    <2> DEFINE Good == {k \in Nat : k <= n => FirstOf[k + 1] \in Nat}
    <2>1. 0 \in Good
      BY <1>13
    <2>2. ASSUME NEW k \in Nat, k \in Good PROVE k + 1 \in Good
      <3> SUFFICES ASSUME k + 1 <= n PROVE FirstOf[(k + 1) + 1] \in Nat
        OBVIOUS
      <3>1. k + 1 \in 1 .. n /\ FirstOf[k + 1] \in Nat
        BY <2>2
      <3>2. QED
        BY <3>1, <1>2, <1>14
    <2> HIDE DEF Good
    <2>3. Nat \subseteq Good
      BY <2>1, <2>2, NumberInduction
    <2>4. \A m \in 1 .. n + 1 : m - 1 \in Good /\ (m - 1) + 1 = m
      BY <2>3
    <2>5. QED
      BY <2>4 DEF Good
  <1>16. QED
    <2>1. FirstOf \in [1 .. n + 1 -> Nat]
      BY <1>12, <1>15
    <2>2. QED
      BY <1>1, <1>13, <1>14, <2>1

LEMMA FirstDaysRise ==
    /\ \A i, j \in 1 .. Len(MonthLens) + 1 : i < j => FirstOf[i] < FirstOf[j]
    /\ \A m \in 1 .. Len(MonthLens) + 1 : FirstOf[m] \in Nat
    /\ EndOfTime \in Nat /\ FirstOf[Len(MonthLens) + 1] = EndOfTime + 1
  <1>1. PICK n \in Nat \ {0} : n = Len(MonthLens)
    BY MonthsAre
  <1>2. \A m \in 1 .. n + 1 : FirstOf[m] \in Nat
    BY <1>1, FirstDays
  <1>3. \A m \in 1 .. n : FirstOf[m] < FirstOf[m + 1]
    <2> TAKE m \in 1 .. n
    <2>1. m \in 1 .. n + 1 /\ FirstOf[m] \in Nat /\ MonthLens[m] \in Nat \ {0}
      BY <1>1, <1>2, MonthsAre
    <2>2. FirstOf[m + 1] = FirstOf[m] + MonthLens[m]
      BY <1>1, FirstDays
    <2>3. QED
      BY <2>1, <2>2
  <1> DEFINE Good == {k \in Nat : k <= n => \A i \in 1 .. k : FirstOf[i] < FirstOf[k + 1]}
  <1>4. 0 \in Good
    OBVIOUS
  <1>5. ASSUME NEW k \in Nat, k \in Good PROVE k + 1 \in Good
    <2> SUFFICES ASSUME k + 1 <= n, NEW i \in 1 .. k + 1 PROVE FirstOf[i] < FirstOf[(k + 1) + 1]
      OBVIOUS
    <2>1. k + 1 \in 1 .. n /\ i \in 1 .. n + 1 /\ k + 1 \in 1 .. n + 1 /\ (k + 1) + 1 \in 1 .. n + 1
      OBVIOUS
    <2>2. /\ FirstOf[i] \in Nat /\ FirstOf[k + 1] \in Nat /\ FirstOf[(k + 1) + 1] \in Nat
          /\ FirstOf[k + 1] < FirstOf[(k + 1) + 1]
      BY <2>1, <1>2, <1>3
    <2>3. i = k + 1 \/ i \in 1 .. k
      OBVIOUS
    <2>4. i \in 1 .. k => FirstOf[i] < FirstOf[k + 1]
      BY <1>5
    <2>5. QED
      BY <2>2, <2>3, <2>4
  <1>6. Nat \subseteq Good
    <2> HIDE DEF Good
    <2>1. QED
      BY <1>4, <1>5, NumberInduction
  <1>7. ASSUME NEW i \in 1 .. n + 1, NEW j \in 1 .. n + 1, i < j PROVE FirstOf[i] < FirstOf[j]
    <2>1. PICK k \in Nat : k + 1 = j
      <3>1. j - 1 \in Nat /\ (j - 1) + 1 = j
        OBVIOUS
      <3>2. QED
        BY <3>1
    <2>2. k \in Good /\ k <= n /\ i \in 1 .. k
      BY <1>6, <1>7, <2>1
    <2>3. QED
      BY <2>1, <2>2
  <1>8. EndOfTime \in Nat /\ FirstOf[n + 1] = EndOfTime + 1
    <2>1. FirstOf[1] = 0 /\ 1 \in 1 .. n + 1 /\ n + 1 \in 1 .. n + 1 /\ 1 < n + 1
      BY FirstDays
    <2>2. FirstOf[1] < FirstOf[n + 1] /\ FirstOf[n + 1] \in Nat
      BY <1>2, <1>7, <2>1
    <2>3. QED
      BY <1>1, <2>1, <2>2 DEF EndOfTime
  <1>9. QED
    BY <1>1, <1>2, <1>7, <1>8

\* Every date is in one month.
LEMMA MonthIs ==
    ASSUME NEW d \in Dates
    PROVE  /\ MonthOf(d) \in Months
           /\ FirstOf[MonthOf(d)] <= d /\ d < FirstOf[MonthOf(d) + 1]
           /\ \A m \in Months : FirstOf[m] <= d /\ d < FirstOf[m + 1] => MonthOf(d) = m
  <1>1. PICK n \in Nat \ {0} : n = Len(MonthLens)
    BY MonthsAre
  <1>2. Months = 1 .. n /\ \A m \in 1 .. n + 1 : FirstOf[m] \in Nat
    BY <1>1, MonthsAre, FirstDaysRise
  <1>3. d \in Nat /\ FirstOf[1] <= d /\ d < FirstOf[n + 1]
    BY <1>1, FirstDays, FirstDaysRise DEF Dates
  <1>4. \E m \in 1 .. n : FirstOf[m] <= d /\ d < FirstOf[m + 1]
    <2> SUFFICES ASSUME \A m \in 1 .. n : ~(FirstOf[m] <= d /\ d < FirstOf[m + 1]) PROVE FALSE
      OBVIOUS
    <2> DEFINE Good == {k \in Nat : k <= n => FirstOf[k + 1] <= d}
    <2>1. 0 \in Good
      BY <1>3
    <2>2. ASSUME NEW k \in Nat, k \in Good PROVE k + 1 \in Good
      <3> SUFFICES ASSUME k + 1 <= n PROVE FirstOf[(k + 1) + 1] <= d
        OBVIOUS
      <3>1. k + 1 \in 1 .. n /\ (k + 1) + 1 \in 1 .. n + 1 /\ FirstOf[k + 1] <= d
        BY <2>2
      <3>2. FirstOf[(k + 1) + 1] \in Nat /\ ~(d < FirstOf[(k + 1) + 1])
        BY <1>2, <3>1
      <3>3. QED
        BY <1>3, <3>2
    <2> HIDE DEF Good
    <2>3. n \in Good
      BY <2>1, <2>2, NumberInduction
    <2>4. QED
      BY <1>2, <1>3, <2>3 DEF Good
  <1>5. \A l, m \in 1 .. n : FirstOf[l] <= d /\ d < FirstOf[l + 1]
                               /\ FirstOf[m] <= d /\ d < FirstOf[m + 1] => l = m
    <2>1. ASSUME NEW l \in 1 .. n, NEW m \in 1 .. n, d < FirstOf[l + 1], FirstOf[m] <= d, l < m
          PROVE  FALSE
      <3>1. l + 1 = m \/ l + 1 < m
        BY <2>1
      <3>2. l + 1 \in 1 .. n + 1 /\ m \in 1 .. n + 1
        OBVIOUS
      <3>3. l + 1 < m => FirstOf[l + 1] < FirstOf[m]
        BY <1>1, <3>2, FirstDaysRise
      <3>4. FirstOf[l + 1] \in Nat /\ FirstOf[m] \in Nat
        BY <1>2, <3>2
      <3>5. QED
        BY <1>3, <2>1, <3>1, <3>3, <3>4
    <2>2. QED
      BY <2>1
  <1>6. /\ MonthOf(d) \in 1 .. n
        /\ FirstOf[MonthOf(d)] <= d /\ d < FirstOf[MonthOf(d) + 1]
    BY <1>2, <1>4 DEF MonthOf
  <1>7. QED
    BY <1>2, <1>5, <1>6

-----------------------------------------------------------------------------
(* The timetable.                                                           *)

CourseShapes == [mode : Modes, trainer : Trainers \cup {Nobody}, active : BOOLEAN]

\* The ids given so far.
IdsAreGiven ==
    /\ ids \in [courses : Nat, slots : 0 .. MaxSlots, away : Nat]
    /\ DOMAIN courses \subseteq 1 .. ids.courses
    /\ DOMAIN slots \subseteq 1 .. ids.slots
    /\ doomed \in {NoCourse} \cup 1 .. ids.courses

\* A course is a row; those with visits or payments stay.
CoursesAreRows ==
    /\ \A c \in DOMAIN courses : courses[c] \in CourseShapes
    /\ kept \subseteq DOMAIN courses

\* A slot is one of a course, and its versions have begun: each names a day of
\* the week and a time of day.
SlotOK(r, of, now) ==
    /\ r = [course |-> r.course, versions |-> r.versions]
    /\ r.course \in of
    /\ DOMAIN r.versions \subseteq 0 .. now
    /\ DOMAIN r.versions # {}
    /\ \A v \in DOMAIN r.versions : ParseSlot(r.versions[v])

\* An absence is one that was entered.
AbsencesAreRows == \A a \in DOMAIN away : away[a] \in Absences

SlotsAreRows == \A s \in DOMAIN slots : SlotOK(slots[s], DOMAIN courses, clock)

\* A slot yet to be made has taken place at no time.
NothingAheadOfSlots ==
    /\ took \in [1 .. MaxSlots -> SUBSET Nat]
    /\ \A s \in ids.slots + 1 .. MaxSlots : took[s] = {}

ShapeInv ==
    /\ clock \in 0 .. LastClock
    /\ IdsAreGiven
    /\ CoursesAreRows
    /\ SlotsAreRows
    /\ AbsencesAreRows

TimeInv == ShapeInv /\ NothingAheadOfSlots /\ PastStands

-----------------------------------------------------------------------------

\* A version is in force at a moment, and what it says of it.
InForce(versions, v, t) == v <= t /\ \A next \in DOMAIN versions : next > v => t < next
Says(version, t) == DateOf(t) % WeekLen = version.weekday /\ t % HourLen = version.time

LEMMA ExpandIs ==
    ASSUME NEW versions, NEW from, NEW to
    PROVE  expandVersioned(versions, {}, from, to) =
               {t \in from .. to : \E v \in DOMAIN versions :
                                      InForce(versions, v, t) /\ Says(versions[v], t)}
  <1>1. \A d : ~absentOn(d, {})
    BY DEF absentOn
  <1>2. QED
    BY <1>1 DEF expandVersioned, InForce, Says

\* A stretch of time may be cut anywhere.
LEMMA ExpandCut ==
    ASSUME NEW versions, NEW now \in Nat
    PROVE  /\ expandVersioned(versions, {}, 0, now) =
                  expandVersioned(versions, {}, 0, now - 1) \cup expandVersioned(versions, {}, now, now)
           /\ expandVersioned(versions, {}, now, now) \subseteq Nat
  <1> DEFINE P(t) == \E v \in DOMAIN versions : InForce(versions, v, t) /\ Says(versions[v], t)
  <1>1. /\ expandVersioned(versions, {}, 0, now) = {t \in 0 .. now : P(t)}
        /\ expandVersioned(versions, {}, 0, now - 1) = {t \in 0 .. now - 1 : P(t)}
        /\ expandVersioned(versions, {}, now, now) = {t \in now .. now : P(t)}
    BY ExpandIs
  <1> HIDE DEF P
  <1>2. QED
    BY <1>1

\* A version that begins now leaves the moments before it alone.
LEMMA PastUntouched ==
    ASSUME NEW now \in Nat, NEW old, NEW new, NEW f,
           DOMAIN old \subseteq 0 .. now,
           new = [from \in DOMAIN old \cup {now} |-> IF from = now THEN f ELSE old[from]]
    PROVE  expandVersioned(new, {}, 0, now - 1) = expandVersioned(old, {}, 0, now - 1)
  <1>1. DOMAIN new = DOMAIN old \cup {now}
    OBVIOUS
  <1>2. ASSUME NEW t \in 0 .. now - 1, NEW v \in DOMAIN new, InForce(new, v, t)
        PROVE  v \in DOMAIN old /\ InForce(old, v, t) /\ new[v] = old[v]
    <2>1. v \in 0 .. now /\ v <= t
      BY <1>1, <1>2 DEF InForce
    <2>2. v # now
      BY <2>1
    <2>3. QED
      BY <1>1, <1>2, <2>2 DEF InForce
  <1>3. ASSUME NEW t \in 0 .. now - 1, NEW v \in DOMAIN old, InForce(old, v, t)
        PROVE  v \in DOMAIN new /\ InForce(new, v, t) /\ new[v] = old[v]
    <2>1. v \in 0 .. now /\ v <= t
      BY <1>3 DEF InForce
    <2>2. v # now
      BY <2>1
    <2>3. QED
      BY <1>1, <1>3, <2>2 DEF InForce
  <1>4. \A t \in 0 .. now - 1 :
          (\E v \in DOMAIN new : InForce(new, v, t) /\ Says(new[v], t))
            <=> (\E v \in DOMAIN old : InForce(old, v, t) /\ Says(old[v], t))
    BY <1>2, <1>3
  <1> DEFINE P(t) == \E v \in DOMAIN new : InForce(new, v, t) /\ Says(new[v], t)
             Q(t) == \E v \in DOMAIN old : InForce(old, v, t) /\ Says(old[v], t)
  <1>5. /\ expandVersioned(new, {}, 0, now - 1) = {t \in 0 .. now - 1 : P(t)}
        /\ expandVersioned(old, {}, 0, now - 1) = {t \in 0 .. now - 1 : Q(t)}
    BY ExpandIs
  <1>6. \A t \in 0 .. now - 1 : P(t) <=> Q(t)
    BY <1>4
  <1> HIDE DEF P, Q
  <1>7. QED
    BY <1>5, <1>6

\* A slot made now has no past.
LEMMA NoPastYet ==
    ASSUME NEW now \in Nat, NEW f
    PROVE  expandVersioned([from \in {now} |-> f], {}, 0, now - 1) = {}
  <1> DEFINE versions == [from \in {now} |-> f]
  <1>1. DOMAIN versions = {now}
    OBVIOUS
  <1> HIDE DEF versions
  <1>2. \A t \in 0 .. now - 1, v \in DOMAIN versions : ~InForce(versions, v, t)
    BY <1>1 DEF InForce
  <1>3. expandVersioned(versions, {}, 0, now - 1) = {}
    BY <1>2, ExpandIs
  <1>4. QED
    BY <1>3 DEF versions

-----------------------------------------------------------------------------

LEMMA TimeInit == InitTimetable => TimeInv
  <1> SUFFICES ASSUME InitTimetable PROVE TimeInv
    OBVIOUS
  <1>1. /\ clock = 0 /\ courses = <<>> /\ slots = <<>> /\ kept = {} /\ doomed = NoCourse
        /\ ids = [courses |-> 0, slots |-> 0, away |-> 0]
        /\ took = [s \in 1 .. MaxSlots |-> {}]
    BY DEF InitTimetable
  <1>2. MaxSlots \in Nat /\ LastClock \in Nat
    BY TimetableAssumption DEF TimetableAssumption
  <1>3. DOMAIN courses = {} /\ DOMAIN slots = {} /\ DOMAIN away = {}
    BY DEF InitTimetable
  <1>4. QED
    BY <1>1, <1>2, <1>3 DEF TimeInv, ShapeInv, IdsAreGiven, CoursesAreRows, SlotsAreRows,
                            AbsencesAreRows, NothingAheadOfSlots, PastStands

\* A course is made, changed or deleted.
LEMMA CoursesStep ==
    ASSUME TimeInv, handleEnrollmentCreate \/ handleEnrollmentUpdate \/ Keep
                    \/ DeleteEnrollmentRead \/ handleEnrollmentDelete
    PROVE  TimeInv'
  <1> USE DEF TimeInv, ShapeInv
  <1>0. CourseForms \subseteq [mode : STRING, trainer : Trainers \cup {Nobody}, active : BOOLEAN]
    BY TimetableAssumption DEF TimetableAssumption
  <1>1. CASE handleEnrollmentCreate
    <2>1. PICK f \in CourseForms :
             /\ validateEnrollment(f)
             /\ CreateEnrollment([f EXCEPT !.active = TRUE])
             /\ UNCHANGED <<clock, slots, away, kept, doomed, took>>
      BY <1>1 DEF handleEnrollmentCreate
    <2> DEFINE e == [f EXCEPT !.active = TRUE]
               n == ids.courses + 1
    <2>2. e \in CourseShapes
      BY <2>1, <1>0 DEF validateEnrollment, CourseShapes
    <2> HIDE DEF e
    <2>3. /\ courses' = [c \in DOMAIN courses \cup {n} |-> IF c \in DOMAIN courses THEN courses[c] ELSE e]
          /\ ids' = [ids EXCEPT !.courses = @ + 1]
      BY <2>1 DEF CreateEnrollment, e
    <2>4. ids'.courses = n /\ ids'.slots = ids.slots
          /\ ids' \in [courses : Nat, slots : 0 .. MaxSlots, away : Nat]
      BY <2>3 DEF IdsAreGiven
    <2>5. DOMAIN courses' = DOMAIN courses \cup {n}
          /\ \A c \in DOMAIN courses' : courses'[c] = IF c \in DOMAIN courses THEN courses[c] ELSE e
      BY <2>3
    <2>6. IdsAreGiven'
      BY <2>1, <2>4, <2>5 DEF IdsAreGiven
    <2>7. CoursesAreRows'
      BY <2>1, <2>2, <2>5 DEF CoursesAreRows
    <2>8. SlotsAreRows'
      BY <2>1, <2>5 DEF SlotsAreRows, SlotOK
    <2>9. NothingAheadOfSlots' /\ PastStands'
      BY <2>1, <2>4 DEF NothingAheadOfSlots, PastStands
    <2>10. QED
      BY <2>1, <2>6, <2>7, <2>8, <2>9 DEF AbsencesAreRows
  <1>2. CASE handleEnrollmentUpdate
    <2>1. PICK id \in DOMAIN courses, f \in CourseForms :
             /\ validateEnrollment(f)
             /\ courses' = [courses EXCEPT ![id] = f]
             /\ UNCHANGED <<clock, slots, away, kept, doomed, ids, took>>
      BY <1>2 DEF handleEnrollmentUpdate, UpdateEnrollment
    <2>2. f \in CourseShapes
      BY <2>1, <1>0 DEF validateEnrollment, CourseShapes
    <2>3. QED
      BY <2>1, <2>2 DEF IdsAreGiven, CoursesAreRows, SlotsAreRows, AbsencesAreRows,
         NothingAheadOfSlots, PastStands
  <1>3. CASE Keep \/ DeleteEnrollmentRead
    BY <1>3 DEF Keep, DeleteEnrollmentRead, IdsAreGiven, CoursesAreRows, SlotsAreRows,
                AbsencesAreRows, NothingAheadOfSlots, PastStands
  <1>4. CASE handleEnrollmentDelete
    <2> DEFINE gone == {doomed} \ kept
               left == {r \in DOMAIN slots : slots[r].course \notin gone}
    <2>1. /\ doomed' = NoCourse
          /\ courses' = [c \in DOMAIN courses \ gone |-> courses[c]]
          /\ slots' = [s \in left |-> slots[s]]
          /\ UNCHANGED <<clock, away, kept, ids, moves, took>>
      BY <1>4 DEF handleEnrollmentDelete
    <2>2. /\ DOMAIN courses' = DOMAIN courses \ gone
          /\ DOMAIN slots' = left
          /\ \A c \in DOMAIN courses' : courses'[c] = courses[c]
          /\ \A s \in DOMAIN slots' : s \in DOMAIN slots /\ slots'[s] = slots[s]
                                      /\ slots[s].course \notin gone
      BY <2>1
    <2>3. kept \cap gone = {}
      OBVIOUS
    <2> HIDE DEF gone, left
    <2>4. IdsAreGiven'
      BY <2>1, <2>2 DEF IdsAreGiven
    <2>5. CoursesAreRows'
      BY <2>1, <2>2, <2>3 DEF CoursesAreRows
    <2>6. SlotsAreRows'
      BY <2>1, <2>2 DEF SlotsAreRows, SlotOK
    <2>7. NothingAheadOfSlots' /\ PastStands'
      BY <2>1, <2>2 DEF NothingAheadOfSlots, PastStands
    <2>8. QED
      BY <2>1, <2>4, <2>5, <2>6, <2>7 DEF AbsencesAreRows
  <1>5. QED
    BY <1>1, <1>2, <1>3, <1>4

\* A slot is made, moved or deleted.
LEMMA SlotsStep ==
    ASSUME TimeInv, handleSlotCreate \/ handleSlotUpdate \/ handleSlotDelete
    PROVE  TimeInv'
  <1> USE DEF TimeInv, ShapeInv
  <1>0. clock \in Nat /\ LastClock \in Nat /\ MaxSlots \in Nat
    BY TimetableAssumption DEF TimetableAssumption
  <1>1. CASE handleSlotCreate
    <2> DEFINE n == ids.slots + 1
    <2>1. PICK c \in DOMAIN courses, f \in SlotForms :
             /\ ids.slots < MaxSlots
             /\ ParseSlot(f)
             /\ CreateSlot(c, f, clock)
             /\ UNCHANGED <<clock, courses, away, kept, doomed, took>>
      BY <1>1 DEF handleSlotCreate
    <2> DEFINE first == [from \in {clock} |-> f]
               row == [course |-> c, versions |-> first]
    <2>2. SlotOK(row, DOMAIN courses, clock) /\ row.versions = first
      <3>1. DOMAIN first = {clock} /\ first[clock] = f
        OBVIOUS
      <3> HIDE DEF first
      <3>2. QED
        BY <2>1, <3>1, <1>0 DEF SlotOK
    <2>3. expandVersioned(first, {}, 0, clock - 1) = {}
      BY <1>0, NoPastYet, Zenon
    <2>4. /\ slots' = [s \in DOMAIN slots \cup {n} |-> IF s \in DOMAIN slots THEN slots[s] ELSE row]
          /\ ids' = [ids EXCEPT !.slots = @ + 1]
      BY <2>1 DEF CreateSlot
    <2> HIDE DEF row, first
    <2>5. ids'.slots = n /\ ids'.courses = ids.courses /\ n \in 1 .. MaxSlots
          /\ ids' \in [courses : Nat, slots : 0 .. MaxSlots, away : Nat]
      BY <2>1, <2>4, <1>0 DEF IdsAreGiven
    <2>6. /\ DOMAIN slots' = DOMAIN slots \cup {n}
          /\ n \notin DOMAIN slots
          /\ \A s \in DOMAIN slots : slots'[s] = slots[s]
          /\ slots'[n] = row
      BY <2>4, <1>0 DEF IdsAreGiven
    <2>7. IdsAreGiven'
      BY <2>1, <2>5, <2>6, <1>0 DEF IdsAreGiven
    <2>8. CoursesAreRows'
      BY <2>1 DEF CoursesAreRows
    <2>9. SlotsAreRows'
      BY <2>1, <2>2, <2>6 DEF SlotsAreRows
    <2>10. took[n] = {}
      BY <2>5 DEF NothingAheadOfSlots, IdsAreGiven
    <2>11. NothingAheadOfSlots'
      BY <2>1, <2>5, <1>0 DEF NothingAheadOfSlots, IdsAreGiven
    <2>12. PastStands'
      BY <2>1, <2>2, <2>3, <2>6, <2>10 DEF PastStands
    <2>13. QED
      BY <2>1, <2>7, <2>8, <2>9, <2>11, <2>12 DEF AbsencesAreRows
  <1>2. CASE handleSlotUpdate
    <2>1. PICK s \in DOMAIN slots, f \in SlotForms :
             /\ ParseSlot(f)
             /\ AddSlotVersion(s, clock, f)
             /\ UNCHANGED <<clock, courses, away, kept, doomed, ids, took>>
      BY <1>2 DEF handleSlotUpdate
    <2> DEFINE old == slots[s].versions
               new == [from \in DOMAIN old \cup {clock} |-> IF from = clock THEN f ELSE old[from]]
               row == [course |-> slots[s].course, versions |-> new]
    <2>2. SlotOK(slots[s], DOMAIN courses, clock)
      BY DEF SlotsAreRows
    <2>3. slots' = [slots EXCEPT ![s] = row]
      <3>1. slots' = [slots EXCEPT ![s] = [slots[s] EXCEPT !.versions = new]]
        BY <2>1 DEF AddSlotVersion
      <3>2. [slots[s] EXCEPT !.versions = new] = row
        BY <2>2 DEF SlotOK
      <3>3. QED
        BY <3>1, <3>2
    <2>4. expandVersioned(new, {}, 0, clock - 1) = expandVersioned(old, {}, 0, clock - 1)
      <3>1. DOMAIN old \subseteq 0 .. clock
        BY <2>2 DEF SlotOK
      <3>2. QED
        BY <3>1, <1>0, PastUntouched
    <2>5. SlotOK(row, DOMAIN courses, clock) /\ row.versions = new
      <3>1. /\ DOMAIN new = DOMAIN old \cup {clock}
            /\ \A v \in DOMAIN new : new[v] = IF v = clock THEN f ELSE old[v]
        OBVIOUS
      <3> HIDE DEF new
      <3>2. QED
        BY <2>1, <2>2, <3>1, <1>0 DEF SlotOK
    <2> HIDE DEF row, new
    <2>6. DOMAIN slots' = DOMAIN slots /\ slots'[s] = row
          /\ \A r \in DOMAIN slots \ {s} : slots'[r] = slots[r]
      BY <2>3
    <2>7. SlotsAreRows'
      BY <2>1, <2>5, <2>6 DEF SlotsAreRows
    <2>8. PastStands'
      BY <2>1, <2>4, <2>5, <2>6 DEF PastStands
    <2>9. IdsAreGiven' /\ CoursesAreRows' /\ NothingAheadOfSlots'
      BY <2>1, <2>6 DEF IdsAreGiven, CoursesAreRows, NothingAheadOfSlots
    <2>10. QED
      BY <2>1, <2>7, <2>8, <2>9 DEF AbsencesAreRows
  <1>3. CASE handleSlotDelete
    <2>1. PICK s \in DOMAIN slots :
             /\ slots' = [r \in DOMAIN slots \ {s} |-> slots[r]]
             /\ UNCHANGED <<clock, courses, away, kept, doomed, ids, took>>
      BY <1>3 DEF handleSlotDelete, DeleteSlot
    <2>2. QED
      BY <2>1 DEF IdsAreGiven, CoursesAreRows, SlotsAreRows, AbsencesAreRows,
         NothingAheadOfSlots, PastStands
  <1>4. QED
    BY <1>1, <1>2, <1>3

\* An absence is entered or deleted: the timetable itself does not change.
LEMMA AbsencesStep ==
    ASSUME TimeInv, handleAbsenceCreate \/ handleAbsenceDelete
    PROVE  TimeInv'
  <1> USE DEF TimeInv, ShapeInv
  <1>1. /\ UNCHANGED <<clock, courses, slots, kept, doomed, took>>
        /\ ids' \in [courses : Nat, slots : 0 .. MaxSlots, away : Nat]
        /\ ids'.courses = ids.courses /\ ids'.slots = ids.slots
        /\ AbsencesAreRows'
    <2>1. CASE handleAbsenceCreate
      <3>1. /\ UNCHANGED <<clock, courses, slots, kept, doomed, took>>
            /\ ids' = [ids EXCEPT !.away = @ + 1]
        BY <2>1 DEF handleAbsenceCreate, CreateAbsence
      <3>2. AbsencesAreRows'
        BY <2>1 DEF handleAbsenceCreate, CreateAbsence, AbsencesAreRows
      <3>3. QED
        BY <3>1, <3>2 DEF IdsAreGiven
    <2>2. CASE handleAbsenceDelete
      BY <2>2 DEF handleAbsenceDelete, IdsAreGiven, AbsencesAreRows
    <2>3. QED
      BY <2>1, <2>2
  <1>2. QED
    BY <1>1 DEF IdsAreGiven, CoursesAreRows, SlotsAreRows, NothingAheadOfSlots, PastStands

\* A moment passes, and what was at it has been.
LEMMA PassStep ==
    ASSUME TimeInv, Pass
    PROVE  TimeInv'
  <1> USE DEF TimeInv, ShapeInv
  <1>0. clock \in Nat /\ LastClock \in Nat /\ MaxSlots \in Nat
    BY TimetableAssumption DEF TimetableAssumption
  <1> DEFINE at(s) == expandVersioned(slots[s].versions, {}, clock, clock)
  <1>1. /\ clock < LastClock /\ clock' = clock + 1
        /\ took' = [s \in DOMAIN took |-> took[s] \cup (IF s \in DOMAIN slots THEN at(s) ELSE {})]
        /\ UNCHANGED <<courses, slots, away, kept, doomed, ids, moves>>
    BY DEF Pass
  <1>2. \A s \in DOMAIN slots :
          /\ expandVersioned(slots[s].versions, {}, 0, clock) =
                 expandVersioned(slots[s].versions, {}, 0, clock - 1) \cup at(s)
          /\ at(s) \subseteq Nat
    BY <1>0, ExpandCut
  <1> HIDE DEF at
  <1>3. DOMAIN took = 1 .. MaxSlots /\ DOMAIN slots \subseteq 1 .. ids.slots
        /\ ids.slots \in 0 .. MaxSlots
    BY DEF NothingAheadOfSlots, IdsAreGiven
  <1>4. \A s \in DOMAIN slots : took'[s] = took[s] \cup at(s)
    BY <1>0, <1>1, <1>3
  <1>5. PastStands'
    <2>1. clock' - 1 = clock
      BY <1>0, <1>1
    <2>2. QED
      BY <1>1, <1>2, <1>4, <2>1 DEF PastStands
  <1>6. NothingAheadOfSlots'
    <2>1. took' \in [1 .. MaxSlots -> SUBSET Nat]
      BY <1>1, <1>2, <1>3 DEF NothingAheadOfSlots
    <2>2. ASSUME NEW s \in ids.slots + 1 .. MaxSlots PROVE took'[s] = {}
      <3>1. s \notin DOMAIN slots /\ s \in 1 .. MaxSlots
        BY <1>0, <1>3
      <3>2. took[s] = {}
        BY DEF NothingAheadOfSlots
      <3>3. QED
        BY <1>1, <1>3, <3>1, <3>2
    <2>3. QED
      BY <1>1, <2>1, <2>2 DEF NothingAheadOfSlots
  <1>7. SlotsAreRows'
    <2>1. \A r : SlotOK(r, DOMAIN courses, clock) => SlotOK(r, DOMAIN courses, clock + 1)
      BY <1>0 DEF SlotOK
    <2>2. QED
      BY <1>1, <2>1 DEF SlotsAreRows
  <1>8. clock' \in 0 .. LastClock /\ IdsAreGiven' /\ CoursesAreRows'
    BY <1>0, <1>1 DEF IdsAreGiven, CoursesAreRows
  <1>9. AbsencesAreRows'
    BY <1>1 DEF AbsencesAreRows
  <1>10. QED
    BY <1>5, <1>6, <1>7, <1>8, <1>9

LEMMA TimeStep == TimeInv /\ [NextTimetable]_timetableVars => TimeInv'
  <1>1. ASSUME TimeInv, UNCHANGED timetableVars PROVE TimeInv'
    BY <1>1 DEF timetableVars, TimeInv, ShapeInv, IdsAreGiven, CoursesAreRows, SlotsAreRows,
                AbsencesAreRows, NothingAheadOfSlots, PastStands
  <1>2. QED
    BY <1>1, CoursesStep, SlotsStep, AbsencesStep, PassStep DEF NextTimetable

THEOREM TimetableInvariant == SpecTimetable => []TimeInv
  BY TimeInit, TimeStep, PTL DEF SpecTimetable

\* Courses, slots and their versions keep their shape: no slot is left of a course
\* that is gone, and no course that visits or payments name is ever gone
\* (DeleteEnrollment and the two statements around it).
THEOREM TimetableTyped == SpecTimetable => []TimetableTypeOK
  <1>1. TimeInv => TimetableTypeOK
    BY DEF TimeInv, ShapeInv, IdsAreGiven, CoursesAreRows, SlotsAreRows, SlotOK, CourseShapes,
           TimetableTypeOK
  <1>2. QED
    BY <1>1, TimetableInvariant, PTL

\* Whatever is moved, and however often, the calendar over the past is what took
\* place (AddSlotVersion, expandVersioned).
THEOREM PastIsKept == SpecTimetable => []PastStands
  BY TimetableInvariant, PTL DEF TimeInv

-----------------------------------------------------------------------------
(* What is read from the timetable.                                         *)

LEMMA Measures ==
    /\ WeekLen \in Nat \ {0} /\ HourLen \in Nat \ {0}
    /\ LastClock \in Nat /\ LessonHorizon \in Nat
    /\ \A a \in Absences : a.from \in Int /\ a.to \in Int
  BY AuditAssumption, TimetableAssumption DEF AuditAssumption, TimetableAssumption

\* A moment is a time of its day.
LEMMA MomentIs ==
    ASSUME NEW t \in Nat
    PROVE  /\ DateOf(t) \in Nat /\ t % HourLen \in 0 .. HourLen - 1
           /\ t = DateOf(t) * HourLen + (t % HourLen)
           /\ DateOf(t) * HourLen \in Nat
  BY Measures DEF DateOf

\* The days are apart.
LEMMA DaysApart ==
    ASSUME NEW a \in Nat, NEW b \in Nat, a < b
    PROVE  /\ a * HourLen \in Nat /\ b * HourLen \in Nat
           /\ a * HourLen + HourLen <= b * HourLen
  <1>1. PICK k \in Nat : b = a + 1 + k
    <2>1. b - a - 1 \in Nat /\ b = a + 1 + (b - a - 1)
      OBVIOUS
    <2>2. QED
      BY <2>1
  <1>2. b * HourLen = a * HourLen + HourLen + k * HourLen
    BY <1>1, Measures
  <1>3. k * HourLen \in Nat /\ a * HourLen \in Nat /\ b * HourLen \in Nat
    BY Measures
  <1>4. QED
    BY <1>2, <1>3, Measures

\* A moment is of one day.
LEMMA DayOfMoment ==
    ASSUME NEW t \in Nat, NEW d \in Nat, NEW h \in 0 .. HourLen - 1
    PROVE  t = d * HourLen + h <=> DateOf(t) = d /\ t % HourLen = h
  <1> DEFINE e == DateOf(t)
             g == t % HourLen
  <1>1. /\ e \in Nat /\ g \in 0 .. HourLen - 1 /\ HourLen \in Nat
        /\ t = e * HourLen + g /\ e * HourLen \in Nat /\ d * HourLen \in Nat
    BY MomentIs, Measures
  <1> HIDE DEF e, g
  <1>2. ASSUME t = d * HourLen + h PROVE e = d
    <2>1. ~(e < d)
      <3>1. e < d => e * HourLen + HourLen <= d * HourLen
        BY <1>1, DaysApart
      <3>2. QED
        BY <1>1, <1>2, <3>1
    <2>2. ~(d < e)
      <3>1. d < e => d * HourLen + HourLen <= e * HourLen
        BY <1>1, DaysApart
      <3>2. QED
        BY <1>1, <1>2, <3>1
    <2>3. QED
      BY <1>1, <2>1, <2>2
  <1>3. t = d * HourLen + h => e = d /\ g = h
    BY <1>1, <1>2
  <1>4. e = d /\ g = h => t = d * HourLen + h
    BY <1>1
  <1>5. QED
    BY <1>3, <1>4 DEF e, g

\* The days follow the moments.
LEMMA LaterDay ==
    ASSUME NEW a \in Nat, NEW b \in Nat, a <= b
    PROVE  DateOf(a) <= DateOf(b)
  <1> DEFINE d == DateOf(a)
             e == DateOf(b)
  <1>1. /\ d \in Nat /\ e \in Nat
        /\ a % HourLen \in 0 .. HourLen - 1 /\ b % HourLen \in 0 .. HourLen - 1
        /\ a = d * HourLen + (a % HourLen) /\ b = e * HourLen + (b % HourLen)
        /\ d * HourLen \in Nat /\ e * HourLen \in Nat /\ HourLen \in Nat
    BY MomentIs, Measures
  <1> HIDE DEF d, e
  <1>2. e < d => e * HourLen + HourLen <= d * HourLen
    BY <1>1, DaysApart
  <1>3. ~(e < d)
    <2> SUFFICES ASSUME e < d PROVE FALSE
      OBVIOUS
    <2>1. PICK x \in Nat, y \in Nat : x = d * HourLen /\ y = e * HourLen
      BY <1>1
    <2>2. y + HourLen <= x
      BY <1>2, <2>1
    <2>3. a >= x /\ b < y + HourLen
      BY <1>1, <2>1
    <2>4. QED
      BY <1>1, <2>1, <2>2, <2>3
  <1>4. QED
    BY <1>1, <1>3 DEF d, e

\* Where the feed ends, and the last day it has whole.
Horizon == clock + LessonHorizon
WholeDay == DateOf(Horizon + 1) - 1

\* The moments of such a day are before its end.
LEMMA DayIsWhole ==
    ASSUME NEW t \in Nat, clock \in Nat, DateOf(t) <= WholeDay
    PROVE  t <= Horizon
  <1>1. Horizon \in Nat /\ Horizon + 1 \in Nat
    BY Measures DEF Horizon
  <1>2. DateOf(Horizon + 1) \in Nat /\ DateOf(t) \in Nat
    BY <1>1, MomentIs
  <1>3. Horizon + 1 <= t => DateOf(Horizon + 1) <= DateOf(t)
    BY <1>1, LaterDay
  <1>4. DateOf(t) <= DateOf(Horizon + 1) - 1
    BY DEF WholeDay
  <1>5. QED
    BY <1>1, <1>2, <1>3, <1>4

\* From now on the version of now is the one in force.
LEMMA VersionOfNow ==
    ASSUME TimeInv, NEW s \in DOMAIN slots, NEW t \in Nat, clock <= t
    PROVE  /\ ParseSlot(currentVersion(s))
           /\ (\E v \in DOMAIN slots[s].versions :
                  InForce(slots[s].versions, v, t) /\ Says(slots[s].versions[v], t))
                <=> Says(currentVersion(s), t)
  <1> DEFINE versions == slots[s].versions
             V == DOMAIN versions
             begun == {from \in V : from <= clock}
  <1>1. SlotOK(slots[s], DOMAIN courses, clock) /\ clock \in Nat
    BY Measures DEF TimeInv, ShapeInv, SlotsAreRows
  <1>2. V \in SUBSET (0 .. clock) /\ V # {} /\ \A v \in V : ParseSlot(versions[v])
    BY <1>1 DEF SlotOK
  <1>3. begun = V
    BY <1>1, <1>2
  <1>4. currentVersion(s) = versions[Max(V)]
    BY <1>3 DEF currentVersion
  <1> HIDE DEF versions, V, begun
  <1>5. Max(V) \in V /\ \A v \in V : v <= Max(V)
    BY <1>1, <1>2, MaxIs
  <1>6. \A v \in V : v \in Nat /\ v <= t
    BY <1>1, <1>2
  <1>7. \A v \in V : (\A next \in V : next > v => t < next) <=> v = Max(V)
    BY <1>5, <1>6
  <1>8. \A v \in DOMAIN versions : InForce(versions, v, t) <=> v = Max(V)
    BY <1>6, <1>7 DEF InForce, V
  <1>9. (\E v \in DOMAIN versions : InForce(versions, v, t) /\ Says(versions[v], t))
          <=> Says(versions[Max(V)], t)
    BY <1>5, <1>8 DEF V
  <1>10. QED
    BY <1>2, <1>4, <1>5, <1>9 DEF versions

\* An absence that is over says nothing of the days ahead.
LEMMA OverIsOver ==
    ASSUME TimeInv, NEW c, NEW d \in Int, OnDate <= d
    PROVE  absentOn(d, absencesOf(c, UpcomingAbsences(OnDate)))
             <=> absentOn(d, AbsencesForEnrollment(c))
  <1>1. \A a \in Entered : a.from \in Int /\ a.to \in Int
    BY Measures DEF TimeInv, ShapeInv, AbsencesAreRows, Entered
  <1>2. OnDate \in Int
    BY MomentIs, Measures DEF TimeInv, ShapeInv, OnDate
  <1>3. \A a \in Entered : d <= a.to => a.to >= OnDate
    BY <1>1, <1>2
  <1>4. QED
    BY <1>3 DEF absentOn, absencesOf, UpcomingAbsences, AbsencesForEnrollment

\* What the feed shows.
LEMMA FeedIs ==
    ASSUME TimeInv
    PROVE  \A l : l \in handleCalendarICS <=>
               /\ l = [slot |-> l.slot, at |-> l.at]
               /\ l.slot \in SlotHistories
               /\ l.at \in Nat /\ clock <= l.at /\ l.at <= Horizon
               /\ ~absentOn(DateOf(l.at), AbsencesForEnrollment(slots[l.slot].course))
               /\ Says(currentVersion(l.slot), l.at)
  <1> DEFINE last == Horizon
             there(s) == expandVersioned(slots[s].versions,
                             absencesOf(slots[s].course, UpcomingAbsences(OnDate)), clock, last)
  <1>1. clock \in Nat /\ last \in Int
    BY Measures DEF TimeInv, ShapeInv, Horizon
  <1>2. \A l : l \in handleCalendarICS <=>
            /\ l = [slot |-> l.slot, at |-> l.at]
            /\ l.slot \in SlotHistories /\ l.at \in there(l.slot)
    BY DEF handleCalendarICS, Expand, Horizon
  <1>3. ASSUME NEW s \in SlotHistories, NEW t
        PROVE  t \in there(s) <=>
                 /\ t \in Nat /\ clock <= t /\ t <= last
                 /\ ~absentOn(DateOf(t), AbsencesForEnrollment(slots[s].course))
                 /\ Says(currentVersion(s), t)
    <2>1. t \in clock .. last <=> t \in Nat /\ clock <= t /\ t <= last
      <3> HIDE DEF last
      <3>1. QED
        BY <1>1
    <2>2. t \in there(s) <=>
             /\ t \in clock .. last
             /\ ~absentOn(DateOf(t), absencesOf(slots[s].course, UpcomingAbsences(OnDate)))
             /\ \E v \in DOMAIN slots[s].versions :
                   InForce(slots[s].versions, v, t) /\ Says(slots[s].versions[v], t)
      BY DEF expandVersioned, InForce, Says
    <2>3. ASSUME t \in Nat, clock <= t
          PROVE  /\ absentOn(DateOf(t), absencesOf(slots[s].course, UpcomingAbsences(OnDate)))
                      <=> absentOn(DateOf(t), AbsencesForEnrollment(slots[s].course))
                 /\ (\E v \in DOMAIN slots[s].versions :
                        InForce(slots[s].versions, v, t) /\ Says(slots[s].versions[v], t))
                      <=> Says(currentVersion(s), t)
      <3>1. OnDate <= DateOf(t) /\ DateOf(t) \in Int
        BY <1>1, <2>3, LaterDay, MomentIs DEF OnDate
      <3>2. s \in DOMAIN slots
        BY DEF SlotHistories
      <3>3. QED
        BY <2>3, <3>1, <3>2, OverIsOver, VersionOfNow
    <2> HIDE DEF there, last
    <2>4. QED
      BY <2>1, <2>2, <2>3
  <1> HIDE DEF there, last
  <1>4. QED
    BY <1>2, <1>3 DEF last

PerSession == {s \in SlotHistories : courses[slots[s].course].mode = "per_session"}

\* The bot asks about a slot when the feed has a lesson of it.
LEMMA AskedIsShown ==
    ASSUME TimeInv
    PROVE  {s \in SlotsForWeekday(OnDate % WeekLen, OnDate) :
                currentVersion(s).time = clock % HourLen} =
           {l.slot : l \in {k \in handleCalendarICS : k.at = clock}} \cap PerSession
  <1> DEFINE asked == SlotsForWeekday(OnDate % WeekLen, OnDate)
             shown == {l.slot : l \in {k \in handleCalendarICS : k.at = clock}}
  <1>1. clock \in Nat /\ clock <= Horizon
    BY Measures DEF TimeInv, ShapeInv, Horizon
  <1>2. \A s : s \in shown <=>
          /\ s \in SlotHistories
          /\ ~absentOn(OnDate, AbsencesForEnrollment(slots[s].course))
          /\ Says(currentVersion(s), clock)
    <2> TAKE s
    <2> DEFINE l == [slot |-> s, at |-> clock]
    <2>1. s \in shown <=> l \in handleCalendarICS
      <3>1. ASSUME NEW k \in handleCalendarICS, k.at = clock, k.slot = s PROVE k = l
        BY <3>1, FeedIs
      <3>2. l.at = clock /\ l.slot = s
        OBVIOUS
      <3> HIDE DEF l
      <3>3. QED
        BY <3>1, <3>2
    <2>2. l.slot = s /\ l.at = clock /\ l = [slot |-> l.slot, at |-> l.at]
      OBVIOUS
    <2> HIDE DEF l, shown
    <2>3. QED
      BY <1>1, <2>1, <2>2, FeedIs DEF OnDate
  <1>3. \A s : s \in asked <=>
          /\ s \in PerSession
          /\ currentVersion(s).weekday = OnDate % WeekLen
          /\ ~absentOn(OnDate, AbsencesForEnrollment(slots[s].course))
    BY DEF SlotsForWeekday, PerSession, SlotHistories
  <1>4. \A s \in PerSession : s \in SlotHistories
    BY DEF PerSession
  <1> HIDE DEF asked, shown
  <1>5. QED
    BY <1>2, <1>3, <1>4 DEF Says, OnDate, asked, shown

\* The feed shows on the days ahead what the forecast counts.
LEMMA ShownIsCounted ==
    ASSUME TimeInv, NEW c \in ListEnrollments(TRUE)
    PROVE  {d \in {DateOf(l.at) : l \in {k \in handleCalendarICS : slots[k.slot].course = c}} :
                OnDate < d /\ d <= WholeDay} =
           ToSet(DatesOf({v.weekday : v \in slotDTOs(c)}, AbsencesForEnrollment(c),
                         OnDate + 1, WholeDay))
  <1> DEFINE ahead == {DateOf(l.at) : l \in {k \in handleCalendarICS : slots[k.slot].course = c}}
             weekdays == {v.weekday : v \in slotDTOs(c)}
             absent(d) == absentOn(d, AbsencesForEnrollment(c))
  <1>1. clock \in Nat /\ OnDate \in Nat /\ WholeDay \in Int
    <2>1. clock \in Nat /\ Horizon + 1 \in Nat
      BY Measures DEF TimeInv, ShapeInv, Horizon
    <2>2. DateOf(clock) \in Nat /\ DateOf(Horizon + 1) \in Nat
      BY <2>1, MomentIs
    <2>3. QED
      BY <2>1, <2>2 DEF OnDate, WholeDay
  <1>2. ToSet(DatesOf(weekdays, AbsencesForEnrollment(c), OnDate + 1, WholeDay)) =
            {d \in OnDate + 1 .. WholeDay : d % WeekLen \in weekdays /\ ~absent(d)}
    <2>1. OnDate + 1 \in Int
      BY <1>1
    <2> HIDE DEF weekdays
    <2>2. QED
      BY <1>1, <2>1, DatesAre
  <1>3. \A d : d \in weekdays <=> \E s \in ListSlots(c) : currentVersion(s).weekday = d
    BY DEF slotDTOs
  <1>4. \A s \in ListSlots(c) : s \in SlotHistories /\ s \in DOMAIN slots /\ slots[s].course = c
    BY DEF ListSlots, SlotHistories, ListEnrollments
  <1> HIDE DEF weekdays
  <1>5. ASSUME NEW d \in ahead, OnDate < d, d <= WholeDay
        PROVE  d \in OnDate + 1 .. WholeDay /\ d % WeekLen \in weekdays /\ ~absent(d)
    <2>1. PICK l \in handleCalendarICS : slots[l.slot].course = c /\ d = DateOf(l.at)
      OBVIOUS
    <2>2. /\ l.slot \in SlotHistories /\ l.at \in Nat
          /\ ~absentOn(DateOf(l.at), AbsencesForEnrollment(slots[l.slot].course))
          /\ Says(currentVersion(l.slot), l.at)
      BY FeedIs
    <2>3. l.slot \in ListSlots(c)
      BY <2>1, <2>2 DEF ListSlots, SlotHistories
    <2>4. d % WeekLen \in weekdays
      BY <1>3, <2>1, <2>2, <2>3 DEF Says
    <2>5. d \in Nat
      BY <2>1, <2>2, MomentIs
    <2>6. QED
      BY <1>1, <1>5, <2>1, <2>2, <2>4, <2>5
  <1>6. ASSUME NEW d \in OnDate + 1 .. WholeDay, d % WeekLen \in weekdays, ~absent(d)
        PROVE  d \in ahead /\ OnDate < d /\ d <= WholeDay
    <2>1. PICK s \in ListSlots(c) : currentVersion(s).weekday = d % WeekLen
      BY <1>3, <1>6
    <2> DEFINE h == currentVersion(s).time
               t == d * HourLen + h
               l == [slot |-> s, at |-> t]
    <2>2. h \in 0 .. HourLen - 1
      <3>1. s \in DOMAIN slots /\ clock <= clock
        BY <1>1, <1>4
      <3>2. ParseSlot(currentVersion(s))
        BY <1>1, <3>1, VersionOfNow
      <3>3. QED
        BY <3>2 DEF ParseSlot
    <2>3. d \in Nat /\ OnDate < d /\ d <= WholeDay
      BY <1>1
    <2>4. t \in Nat
      BY <2>2, <2>3, Measures
    <2>5. DateOf(t) = d /\ t % HourLen = h
      <3> HIDE DEF h
      <3>1. QED
        BY <2>2, <2>3, <2>4, DayOfMoment
    <2> HIDE DEF t
    <2>6. clock <= t
      <3>1. t < clock => DateOf(t) <= OnDate
        BY <1>1, <2>4, LaterDay DEF OnDate
      <3>2. QED
        BY <1>1, <2>3, <2>4, <2>5, <3>1
    <2>7. t <= Horizon
      BY <1>1, <2>3, <2>4, <2>5, DayIsWhole
    <2>8. Says(currentVersion(s), t)
      BY <2>1, <2>5 DEF Says
    <2>9. l = [slot |-> l.slot, at |-> l.at] /\ l.slot = s /\ l.at = t
      OBVIOUS
    <2> HIDE DEF l, h
    <2>10. l \in handleCalendarICS
      BY <1>4, <1>6, <2>3, <2>4, <2>5, <2>6, <2>7, <2>8, <2>9, FeedIs
    <2>11. QED
      BY <1>4, <2>3, <2>5, <2>9, <2>10
  <1> HIDE DEF ahead, absent
  <1>7. {d \in ahead : OnDate < d /\ d <= WholeDay} =
            {d \in OnDate + 1 .. WholeDay : d % WeekLen \in weekdays /\ ~absent(d)}
    BY <1>5, <1>6
  <1>8. QED
    BY <1>2, <1>7 DEF ahead, weekdays

\* A card says that the trainer is away when the bot does not ask.
LEMMA AwayIsSilent ==
    ASSUME TimeInv, NEW s \in PerSession,
           currentVersion(s).weekday = OnDate % WeekLen
    PROVE  s \in SlotsForWeekday(OnDate % WeekLen, OnDate)
             <=> ~handleCourses[slots[s].course].absence
  <1> DEFINE c == slots[s].course
  <1>1. s \in DOMAIN slots /\ courses[c].active /\ courses[c].mode = "per_session"
    BY DEF PerSession, SlotHistories
  <1>2. s \in SlotsForWeekday(OnDate % WeekLen, OnDate)
          <=> ~absentOn(OnDate, AbsencesForEnrollment(c))
    BY <1>1 DEF SlotsForWeekday
  <1>3. c \in ListEnrollments(TRUE) =>
          (c \in DOMAIN ActiveAbsenceByEnrollment(OnDate)
             <=> absentOn(OnDate, AbsencesForEnrollment(c)))
    BY DEF ActiveAbsenceByEnrollment, absentOn
  <1>4. c \in ListEnrollments(TRUE) =>
          handleCourses[c].absence = (c \in DOMAIN ActiveAbsenceByEnrollment(OnDate))
    BY DEF handleCourses
  <1>5. c \in ListEnrollments(TRUE)
    BY <1>1 DEF ListEnrollments, TimeInv, ShapeInv, SlotsAreRows, SlotOK
  <1>6. QED
    BY <1>2, <1>3, <1>4, <1>5

\* Both screens read the same slots.
LEMMA ScreensAgree == handleCourses = homeCourses
  <1>1. ListEnrollments(TRUE) = {b \in DOMAIN courses : courses[b].active}
    BY DEF ListEnrollments
  <1>2. \A c \in ListEnrollments(TRUE) : slotDTOs(c) = scheduleLines(c)
    BY <1>1 DEF slotDTOs, scheduleLines, ListSlots, AllActiveSlots, SlotHistories
  <1>3. QED
    BY <1>1, <1>2 DEF handleCourses, homeCourses

\* What the bot asks about, the feed as far as it goes, the forecast and the two
\* screens tell the same of the lessons, whatever was entered, moved and deleted before
\* (SlotsForWeekday, handleCalendarICS, UpcomingDates, handleCourses, homeCourses).
THEOREM CalendarAgrees == SpecTimetable => []CalendarIsAsked
  <1>1. TimeInv => CalendarIsAsked
    <2> SUFFICES ASSUME TimeInv PROVE CalendarIsAsked
      OBVIOUS
    <2>1. \A s \in PerSession : currentVersion(s).weekday = OnDate % WeekLen =>
              (s \in SlotsForWeekday(OnDate % WeekLen, OnDate)
                 <=> ~handleCourses[slots[s].course].absence)
      BY AwayIsSilent
    <2>2. QED
      BY <2>1, AskedIsShown, ShownIsCounted, ScreensAgree
         DEF CalendarIsAsked, PerSession, WholeDay, Horizon
  <1>2. QED
    BY <1>1, TimetableInvariant, PTL

-----------------------------------------------------------------------------
(* The paid periods.                                                        *)

\* Periods of months are that.
Calm(periods) ==
    /\ IsFiniteSet(periods)
    /\ \A p \in periods : p.from \in Dates /\ p.until \in Dates /\ p.from <= p.until
    /\ \A p, q \in periods : p # q => p.from # q.from

LEMMA MonthRanges ==
    ASSUME NEW payments, IsFiniteSet(payments), \A p \in payments : p.month \in {0} \cup Months
    PROVE  Calm(coveragePeriods(payments))
  <1> DEFINE Monthly == {q \in payments : q.kind = "course" /\ q.month # 0}
             periods == {monthRange(p.month) : p \in Monthly}
  <1>1. IsFiniteSet(periods)
    <2>1. IsFiniteSet(Monthly)
      BY FS_Subset
    <2>2. PICK f : f = [q \in Monthly |-> monthRange(q.month)]
      OBVIOUS
    <2>3. f \in Surjection(Monthly, periods)
      <3>1. f \in [Monthly -> periods] /\ \A p \in periods : \E q \in Monthly : f[q] = p
        BY <2>2
      <3> HIDE DEF periods, Monthly
      <3>2. QED
        BY <3>1 DEF Surjection
    <2> HIDE DEF Monthly, periods
    <2>4. QED
      BY <2>1, <2>3, FS_Surjection
  <1>2. \A m \in Months : /\ m \in 1 .. Len(MonthLens) + 1 /\ m + 1 \in 1 .. Len(MonthLens) + 1
                          /\ m < m + 1 /\ Len(MonthLens) + 1 \in 1 .. Len(MonthLens) + 1
                          /\ m + 1 = Len(MonthLens) + 1 \/ m + 1 < Len(MonthLens) + 1
    BY MonthsAre
  <1>3. ASSUME NEW m \in Months
        PROVE  /\ monthRange(m).from = FirstOf[m] /\ monthRange(m).until = FirstOf[m + 1] - 1
               /\ monthRange(m).from \in Dates /\ monthRange(m).until \in Dates
               /\ monthRange(m).from <= monthRange(m).until
    <2>1. /\ FirstOf[m] \in Nat /\ FirstOf[m + 1] \in Nat /\ FirstOf[m] < FirstOf[m + 1]
          /\ FirstOf[m + 1] <= EndOfTime + 1 /\ EndOfTime \in Nat
      BY <1>2, FirstDaysRise
    <2>2. monthRange(m) = [from |-> FirstOf[m], until |-> FirstOf[m + 1] - 1]
      BY DEF monthRange
    <2>3. QED
      BY <2>1, <2>2 DEF Dates
  <1>4. \A l, m \in Months : l # m => monthRange(l).from # monthRange(m).from
    <2> TAKE l, m \in Months
    <2>1. FirstOf[l] \in Nat /\ FirstOf[m] \in Nat
      BY <1>2, FirstDaysRise
    <2>2. l < m => FirstOf[l] < FirstOf[m]
      BY <1>2, FirstDaysRise
    <2>3. m < l => FirstOf[m] < FirstOf[l]
      BY <1>2, FirstDaysRise
    <2>4. l \in Nat /\ m \in Nat
      BY <1>2
    <2>5. QED
      BY <1>3, <2>1, <2>2, <2>3, <2>4
  <1>5. \A p \in periods : \E m \in Months : p = monthRange(m)
    OBVIOUS
  <1>6. coveragePeriods(payments) = periods
    BY DEF coveragePeriods
  <1> HIDE DEF periods
  <1>7. \A p \in periods : p.from \in Dates /\ p.until \in Dates /\ p.from <= p.until
    BY <1>3, <1>5
  <1>8. ASSUME NEW p \in periods, NEW q \in periods, p # q PROVE p.from # q.from
    <2>1. PICK l \in Months : p = monthRange(l)
      BY <1>5
    <2>2. PICK m \in Months : q = monthRange(m)
      BY <1>5
    <2>3. QED
      BY <1>4, <1>8, <2>1, <2>2
  <1>9. QED
    BY <1>1, <1>6, <1>7, <1>8 DEF Calm

LEMMA ByFromIs ==
    ASSUME NEW periods, Calm(periods), NEW some \in SUBSET periods
    PROVE  /\ Len(ByFrom(some)) \in Nat
           /\ \A i \in 1 .. Len(ByFrom(some)) : ByFrom(some)[i] \in some
           /\ \A p \in some : \E i \in 1 .. Len(ByFrom(some)) : ByFrom(some)[i] = p
           /\ \A i, j \in 1 .. Len(ByFrom(some)) : i < j => ByFrom(some)[i].from < ByFrom(some)[j].from
           /\ ByFrom(some) = <<>> <=> some = {}
           /\ some # {} => 1 \in 1 .. Len(ByFrom(some))
  <1>1. PICK R : R = {r \in some \X some : r[1].from < r[2].from}
    OBVIOUS
  <1>2. IsFiniteSet(some)
    BY FS_Subset DEF Calm
  <1>3. \A p \in some : p.from \in Int
    BY DEF Calm, Dates
  <1>4. \A p, q \in some : <<p, q>> \in R <=> p.from < q.from
    BY <1>1
  <1>5. Orders(R, some)
    <2>1. \A x \in some : <<x, x>> \notin R
      BY <1>3, <1>4
    <2>2. \A x, y \in some : x # y => <<x, y>> \in R \/ <<y, x>> \in R
      <3> TAKE x, y \in some
      <3>1. x # y => x.from # y.from
        BY DEF Calm
      <3>2. QED
        BY <1>3, <1>4, <3>1
    <2>3. \A x, y, z \in some : <<x, y>> \in R /\ <<y, z>> \in R => <<x, z>> \in R
      <3> TAKE x, y, z \in some
      <3>1. x.from \in Int /\ y.from \in Int /\ z.from \in Int
        BY <1>3
      <3>2. x.from < y.from /\ y.from < z.from => x.from < z.from
        BY <3>1
      <3>3. QED
        BY <1>4, <3>2
    <2>4. QED
      BY <2>1, <2>2, <2>3 DEF Orders
  <1>6. PICK s : s = ByFrom(some)
    OBVIOUS
  <1>7. s = InOrder(some, R)
    BY <1>1, <1>6 DEF ByFrom
  <1>8. /\ s \in Seq(some) /\ Len(s) = Cardinality(some) /\ DOMAIN s = 1 .. Cardinality(some)
        /\ Cardinality(some) \in Nat
        /\ \A x \in some : \E i \in DOMAIN s : s[i] = x
        /\ \A i, j \in DOMAIN s : i < j <=> <<s[i], s[j]>> \in R
    BY <1>2, <1>5, <1>7, InOrderIs
  <1>9. PICK n \in Nat : n = Len(s) /\ DOMAIN s = 1 .. n
    BY <1>8
  <1>10. \A i \in 1 .. n : s[i] \in some
    BY <1>8, <1>9
  <1>11. \A i, j \in 1 .. n : i < j => s[i].from < s[j].from
    BY <1>4, <1>8, <1>9, <1>10
  <1>12. s = <<>> <=> some = {}
    <2>1. s = <<>> <=> n = 0
      BY <1>8, <1>9
    <2>2. n = 0 => some = {}
      BY <1>8, <1>9
    <2>3. some = {} => n = 0
      BY <1>9, <1>10
    <2>4. QED
      BY <2>1, <2>2, <2>3
  <1>13. some # {} => 1 \in 1 .. n
    BY <1>8, <1>9
  <1>14. QED
    BY <1>6, <1>8, <1>9, <1>10, <1>11, <1>12, <1>13

\* A day is covered when it is paid for, to where the days paid for end.
LEMMA CoverageIs ==
    ASSUME NEW periods, Calm(periods), NEW today \in Nat
    PROVE  LET end == coverageFromToday(periods, today)
           IN  /\ end # NoDate <=> today \in DaysOf(periods)
               /\ end # NoDate => /\ end \in Dates /\ today <= end
                                  /\ today .. end \subseteq DaysOf(periods)
                                  /\ end + 1 \notin DaysOf(periods)
                                  /\ \E p \in periods : end = p.until
  <1>1. PICK some : some = {p \in periods : p.from <= today /\ today <= p.until}
    OBVIOUS
  <1>2. \A p \in periods : p.from \in Nat /\ p.until \in Nat /\ p.from <= p.until /\ p.until \in Dates
    BY DEF Calm, Dates
  <1>3. some = {} <=> today \notin DaysOf(periods)
    BY <1>1, <1>2 DEF DaysOf
  <1>4. PICK now : now = ByFrom(some)
    OBVIOUS
  <1>5. PICK sorted : sorted = ByFrom(periods)
    OBVIOUS
  <1>6. coverageFromToday(periods, today) =
            IF now = <<>> THEN NoDate ELSE EndOfRun(now[1].until, sorted)
    BY <1>1, <1>4, <1>5 DEF coverageFromToday, Covering
  <1>7. some \in SUBSET periods /\ periods \in SUBSET periods
    BY <1>1
  <1>8. now = <<>> <=> some = {}
    BY <1>4, <1>7, ByFromIs
  <1>9. CASE some = {}
    BY <1>3, <1>6, <1>8, <1>9
  <1>10. CASE some # {}
    <2>1. now[1] \in some
      BY <1>4, <1>7, <1>10, ByFromIs
    <2>2. PICK first \in periods : /\ first = now[1] /\ first.from <= today /\ today <= first.until
                                   /\ first.from \in Nat /\ first.until \in Nat /\ first.until \in Dates
      BY <1>1, <1>2, <2>1
    <2>3. PICK e : e = EndOfRun(first.until, sorted)
      OBVIOUS
    <2>4. /\ Len(sorted) \in Nat /\ \A i \in 1 .. Len(sorted) : sorted[i] \in periods
          /\ \A i, j \in 1 .. Len(sorted) : i < j => sorted[i].from < sorted[j].from
          /\ \A p \in periods : \E i \in 1 .. Len(sorted) : sorted[i] = p
      BY <1>5, <1>7, ByFromIs
    <2>5. Spans(periods)
      BY <1>2 DEF Spans
    <2>6. /\ e \in Int /\ first.until <= e
          /\ first.until + 1 .. e \subseteq DaysOf(periods)
          /\ \A i \in 1 .. Len(sorted) :
                ~(sorted[i].from <= e + 1 /\ e + 1 <= sorted[i].until)
          /\ e = first.until \/ \E p \in periods : e = p.until
      <3>1. InRow(sorted, periods) /\ first.until \in Int
        BY <2>2, <2>4 DEF InRow
      <3>2. QED
        BY <2>3, <2>5, <3>1, RunIs
    <2>7. e + 1 \notin DaysOf(periods)
      BY <2>4, <2>6 DEF DaysOf
    <2>8. today <= e
      BY <2>2, <2>6
    <2>9. today .. e \subseteq DaysOf(periods)
      <3> SUFFICES ASSUME NEW d \in today .. e PROVE d \in DaysOf(periods)
        OBVIOUS
      <3>1. CASE d <= first.until
        <4>1. d \in first.from .. first.until
          BY <2>2, <2>6, <3>1
        <4>2. QED
          BY <4>1 DEF DaysOf
      <3>2. CASE d > first.until
        <4>1. d \in first.until + 1 .. e
          BY <2>2, <2>6, <3>2
        <4>2. QED
          BY <4>1, <2>6
      <3>3. QED
        BY <2>2, <3>1, <3>2
    <2>10. e \in Dates /\ \E p \in periods : e = p.until
      BY <1>2, <2>2, <2>6
    <2>11. e # NoDate
      BY <2>6, <2>2 DEF NoDate
    <2>12. coverageFromToday(periods, today) = e
      BY <1>6, <1>8, <1>10, <2>2, <2>3
    <2>13. QED
      BY <1>3, <1>10, <2>7, <2>8, <2>9, <2>10, <2>11, <2>12
  <1>11. QED
    BY <1>9, <1>10

\* The run ahead is there when a paid period is ahead.
LEMMA UpcomingIs ==
    ASSUME NEW periods, Calm(periods), NEW today \in Nat
    PROVE  LET ahead == upcomingCoverage(periods, today)
           IN  /\ ahead.from = NoDate <=> \A p \in periods : p.from <= today
               /\ ahead.until \in {NoDate} \cup Dates
  <1>1. PICK some : some = {p \in periods : p.from > today}
    OBVIOUS
  <1>2. \A p \in periods : p.from \in Nat /\ p.until \in Nat /\ p.from <= p.until /\ p.until \in Dates
    BY DEF Calm, Dates
  <1>3. some = {} <=> \A p \in periods : p.from <= today
    BY <1>1, <1>2
  <1>4. PICK ahead : ahead = ByFrom(some)
    OBVIOUS
  <1>5. upcomingCoverage(periods, today) =
            IF ahead = <<>> THEN [from |-> NoDate, until |-> NoDate]
            ELSE [from |-> ahead[1].from, until |-> EndOfRun(ahead[1].until, ahead)]
    BY <1>1, <1>4 DEF upcomingCoverage
  <1>6. some \in SUBSET periods
    BY <1>1
  <1>7. ahead = <<>> <=> some = {}
    BY <1>4, <1>6, ByFromIs
  <1>8. CASE some = {}
    BY <1>3, <1>5, <1>7, <1>8
  <1>9. CASE some # {}
    <2>1. PICK first \in periods : /\ first = ahead[1] /\ first.from \in Nat
                                   /\ first.until \in Nat /\ first.until \in Dates
      BY <1>2, <1>4, <1>6, <1>9, ByFromIs
    <2>2. PICK e : e = EndOfRun(first.until, ahead)
      OBVIOUS
    <2>3. /\ Len(ahead) \in Nat /\ \A i \in 1 .. Len(ahead) : ahead[i] \in periods
          /\ \A i, j \in 1 .. Len(ahead) : i < j => ahead[i].from < ahead[j].from
      BY <1>4, <1>6, ByFromIs
    <2>4. Spans(periods)
      BY <1>2 DEF Spans
    <2>5. e = first.until \/ \E p \in periods : e = p.until
      <3>1. InRow(ahead, periods) /\ first.until \in Int
        BY <2>1, <2>3 DEF InRow
      <3>2. QED
        BY <2>2, <2>4, <3>1, RunIs
    <2>6. upcomingCoverage(periods, today) = [from |-> first.from, until |-> e]
      BY <1>5, <1>7, <1>9, <2>1, <2>2
    <2>7. first.from # NoDate
      BY <2>1 DEF NoDate
    <2>8. e \in Dates
      BY <1>2, <2>1, <2>5
    <2>9. QED
      BY <1>3, <1>9, <2>6, <2>7, <2>8
  <1>10. QED
    BY <1>8, <1>9

-----------------------------------------------------------------------------
(* The ledger.                                                              *)

\* Payments have ids and days, visits have days.
Books(payments, visits) ==
    /\ IsFiniteSet(payments)
    /\ \A p \in payments : p.id \in Nat \ {0} /\ p.date \in Int /\ p.lessons \in Int
    /\ \A p, q \in payments : p.id = q.id => p = q
    /\ IsFiniteSet(DOMAIN visits) /\ DOMAIN visits \subseteq Int

PaidLine(p) == [date |-> p.date, order |-> p.id, kind |-> p.kind, moves |-> p.lessons]

HeldLine(visits, v) ==
    [date |-> v, order |-> 0, kind |-> visits[v], moves |-> IF visits[v] = "done" THEN -1 ELSE 0]

PaidLines(payments) == {PaidLine(p) : p \in payments}
HeldLines(visits) == {HeldLine(visits, v) : v \in DOMAIN visits}

Sooner(a, b) ==
    \/ a.date < b.date
    \/ a.date = b.date /\ a.order # 0 /\ (b.order = 0 \/ a.order < b.order)

LinesOf(payments, visits) ==
    InOrder(PaidLines(payments) \cup HeldLines(visits),
            {r \in (PaidLines(payments) \cup HeldLines(visits))
                      \X (PaidLines(payments) \cup HeldLines(visits)) : Sooner(r[1], r[2])})

\* The lines of a ledger are numbers of lines by day, and differ in day or order.
LEMMA LinesAre ==
    ASSUME NEW payments, NEW visits, Books(payments, visits)
    PROVE  /\ IsFiniteSet(PaidLines(payments)) /\ IsFiniteSet(HeldLines(visits))
           /\ PaidLines(payments) \cap HeldLines(visits) = {}
           /\ \A x \in PaidLines(payments) \cup HeldLines(visits) :
                 x.date \in Int /\ x.order \in Nat /\ x.moves \in Int
           /\ \A x, y \in PaidLines(payments) \cup HeldLines(visits) :
                 x.date = y.date /\ x.order = y.order => x = y
           /\ \E h : /\ Places(h, payments, PaidLines(payments))
                     /\ \A p \in payments : h[p] = PaidLine(p)
           /\ \E h : /\ Places(h, DOMAIN visits, HeldLines(visits))
                     /\ \A v \in DOMAIN visits : h[v] = HeldLine(visits, v)
  <1> USE DEF PaidLines, HeldLines, PaidLine, HeldLine, Books
  <1>1. \A x \in PaidLines(payments) : \E p \in payments :
            x = PaidLine(p) /\ x.date = p.date /\ x.order = p.id /\ x.moves = p.lessons
    OBVIOUS
  <1>2. \A x \in HeldLines(visits) : \E v \in DOMAIN visits :
            x = HeldLine(visits, v) /\ x.date = v /\ x.order = 0 /\ x.moves \in {0, -1}
    OBVIOUS
  <1>3. PICK h : h = [p \in payments |-> PaidLine(p)]
    OBVIOUS
  <1>4. PICK g : g = [v \in DOMAIN visits |-> HeldLine(visits, v)]
    OBVIOUS
  <1>5. \A p \in payments : h[p] = PaidLine(p) /\ h[p].order = p.id
    BY <1>3
  <1>6. \A v \in DOMAIN visits : g[v] = HeldLine(visits, v) /\ g[v].date = v
    BY <1>4
  <1>7. Places(h, payments, PaidLines(payments))
    <2>1. {h[p] : p \in payments} = {PaidLine(p) : p \in payments}
      <3> HIDE DEF PaidLine
      <3>1. QED
        BY <1>5
    <2>2. \A p, q \in payments : h[p] = h[q] => p = q
      <3> HIDE DEF PaidLine
      <3>1. QED
        BY <1>5
    <2> HIDE DEF PaidLine
    <2>3. QED
      BY <2>1, <2>2 DEF Places
  <1>8. Places(g, DOMAIN visits, HeldLines(visits))
    <2>1. {g[v] : v \in DOMAIN visits} = {HeldLine(visits, v) : v \in DOMAIN visits}
      <3> HIDE DEF HeldLine
      <3>1. QED
        BY <1>6
    <2>2. \A v, w \in DOMAIN visits : g[v] = g[w] => v = w
      <3> HIDE DEF HeldLine
      <3>1. QED
        BY <1>6
    <2> HIDE DEF HeldLine
    <2>3. QED
      BY <2>1, <2>2 DEF Places
  <1>9. IsFiniteSet(PaidLines(payments))
    <2>1. h \in Surjection(payments, PaidLines(payments))
      <3>1. h \in [payments -> PaidLines(payments)]
        BY <1>3
      <3>2. \A x \in PaidLines(payments) : \E p \in payments : h[p] = x
        BY <1>5
      <3> HIDE DEF PaidLines, PaidLine
      <3>3. QED
        BY <3>1, <3>2 DEF Surjection
    <2> HIDE DEF PaidLines, PaidLine
    <2>2. QED
      BY <2>1, FS_Surjection
  <1>10. IsFiniteSet(HeldLines(visits))
    <2>1. g \in Surjection(DOMAIN visits, HeldLines(visits))
      <3>1. g \in [DOMAIN visits -> HeldLines(visits)]
        BY <1>4
      <3>2. \A x \in HeldLines(visits) : \E v \in DOMAIN visits : g[v] = x
        BY <1>6
      <3> HIDE DEF HeldLines, HeldLine
      <3>3. QED
        BY <3>1, <3>2 DEF Surjection
    <2> HIDE DEF HeldLines, HeldLine
    <2>2. QED
      BY <2>1, FS_Surjection
  <1>11. \A p \in payments : p.id \in Nat \ {0} /\ p.date \in Int /\ p.lessons \in Int
    OBVIOUS
  <1>12. \A v \in DOMAIN visits : v \in Int
    OBVIOUS
  <1>13. \A p, q \in payments : p.id = q.id => p = q
    OBVIOUS
  <1> HIDE DEF PaidLines, HeldLines, PaidLine, HeldLine, Books
  <1>14. \A x \in PaidLines(payments) \cup HeldLines(visits) :
                 x.date \in Int /\ x.order \in Nat /\ x.moves \in Int
    BY <1>1, <1>2, <1>11, <1>12
  <1>15. PaidLines(payments) \cap HeldLines(visits) = {}
    BY <1>1, <1>2, <1>11
  <1>16. \A x, y \in PaidLines(payments) \cup HeldLines(visits) :
                 x.date = y.date /\ x.order = y.order => x = y
    BY <1>1, <1>2, <1>11, <1>13
  <1>17. QED
    BY <1>5, <1>6, <1>7, <1>8, <1>9, <1>10, <1>14, <1>15, <1>16

\* They stand in a row.
LEMMA LinesInRow ==
    ASSUME NEW payments, NEW visits, Books(payments, visits)
    PROVE  /\ LinesOf(payments, visits) \in Seq(PaidLines(payments) \cup HeldLines(visits))
           /\ Lists(LinesOf(payments, visits), PaidLines(payments) \cup HeldLines(visits),
                    Len(LinesOf(payments, visits)))
  <1>1. PICK all : all = PaidLines(payments) \cup HeldLines(visits)
    OBVIOUS
  <1>2. PICK R : R = {r \in all \X all : Sooner(r[1], r[2])}
    OBVIOUS
  <1>3. \A x \in all : x.date \in Int /\ x.order \in Nat
    BY <1>1, LinesAre
  <1>4. \A x, y \in all : x.date = y.date /\ x.order = y.order => x = y
    BY <1>1, LinesAre
  <1>5. \A x, y \in all : <<x, y>> \in R <=> Sooner(x, y)
    BY <1>2
  <1>6. Orders(R, all)
    <2>1. \A x \in all : ~Sooner(x, x)
      BY <1>3 DEF Sooner
    <2>2. \A x, y \in all : x # y => Sooner(x, y) \/ Sooner(y, x)
      BY <1>3, <1>4 DEF Sooner
    <2>3. \A x, y, z \in all : Sooner(x, y) /\ Sooner(y, z) => Sooner(x, z)
      BY <1>3 DEF Sooner
    <2>4. QED
      BY <1>5, <2>1, <2>2, <2>3 DEF Orders
  <1>7. IsFiniteSet(all)
    BY <1>1, LinesAre, FS_Union
  <1>8. PICK s : s = InOrder(all, R)
    OBVIOUS
  <1>9. s = LinesOf(payments, visits)
    BY <1>1, <1>2, <1>8 DEF LinesOf
  <1>10. /\ s \in Seq(all) /\ Len(s) \in Nat /\ DOMAIN s = 1 .. Len(s)
         /\ \A x \in all : \E i \in DOMAIN s : s[i] = x
         /\ \A i, j \in DOMAIN s : i < j <=> <<s[i], s[j]>> \in R
    BY <1>6, <1>7, <1>8, InOrderIs
  <1>11. \A i, j \in 1 .. Len(s) : s[i] = s[j] => i = j
    <2> SUFFICES ASSUME NEW i \in 1 .. Len(s), NEW j \in 1 .. Len(s), s[i] = s[j], i # j
                 PROVE  FALSE
      OBVIOUS
    <2>1. i < j \/ j < i
      BY <1>10
    <2>2. <<s[i], s[i]>> \in R
      BY <1>10, <2>1
    <2>3. s[i] \in all
      BY <1>10
    <2>4. QED
      BY <1>6, <2>2, <2>3 DEF Orders
  <1>12. Lists(s, all, Len(s))
    BY <1>10, <1>11 DEF Lists
  <1>13. QED
    BY <1>1, <1>9, <1>10, <1>12

\* What a ledger opens and closes with, and its last row.
LEMMA LedgerCloses ==
    ASSUME NEW payments, NEW visits, Books(payments, visits), NEW opening \in Int
    PROVE  LET l == BuildLedger([payments |-> payments, visits |-> visits, opening |-> opening])
           IN  /\ l.opening = opening
               /\ l.closing = opening + SumOf(payments) - Cardinality(Attended(visits))
               /\ l.rows # <<>> => Last(l.rows).balance = l.closing
  <1>1. PICK d : d = [payments |-> payments, visits |-> visits, opening |-> opening]
    OBVIOUS
  <1>2. PICK s : s = LinesOf(payments, visits)
    OBVIOUS
  <1>3. PICK P, H : P = PaidLines(payments) /\ H = HeldLines(visits)
    OBVIOUS
  <1>4. /\ IsFiniteSet(P) /\ IsFiniteSet(H) /\ P \cap H = {}
        /\ \A x \in P \cup H : x.moves \in Int
    BY <1>3, LinesAre
  <1>5. s \in Seq(P \cup H) /\ Lists(s, P \cup H, Len(s))
    BY <1>2, <1>3, LinesInRow
  <1>6. PICK n \in Nat : n = Len(s)
    BY <1>5
  <1>7. DOMAIN s = 1 .. n /\ \A i \in 1 .. n : s[i] \in P \cup H
    BY <1>5, <1>6
  <1>8. PICK steps : steps = [i \in DOMAIN s |-> s[i].moves]
    OBVIOUS
  <1>9. steps \in Seq(Int) /\ Len(steps) = n
    <2>1. steps = [i \in 1 .. n |-> s[i].moves] /\ \A i \in 1 .. n : s[i].moves \in Int
      BY <1>4, <1>7, <1>8
    <2>2. QED
      BY <2>1
  <1>10. PICK sum : sum = Running(opening, steps)
    OBVIOUS
  <1>11. /\ sum \in [0 .. n -> Int] /\ sum[0] = opening
         /\ \A i \in 1 .. n : sum[i] = sum[i - 1] + steps[i]
    BY <1>9, <1>10, RunningIs
  <1>12. BuildLedger(d) =
            [rows |-> [i \in DOMAIN s |-> [date |-> s[i].date, kind |-> s[i].kind,
                                           balance |-> sum[i]]],
             opening |-> opening, closing |-> sum[n]]
    <2>1. d.payments = payments /\ d.visits = visits /\ d.opening = opening
      BY <1>1
    <2>2. BuildLedger(d) =
            [rows |-> [i \in DOMAIN LinesOf(d.payments, d.visits) |->
                          [date |-> LinesOf(d.payments, d.visits)[i].date,
                           kind |-> LinesOf(d.payments, d.visits)[i].kind,
                           balance |-> Running(d.opening,
                              [j \in DOMAIN LinesOf(d.payments, d.visits) |->
                                  LinesOf(d.payments, d.visits)[j].moves])[i]]],
             opening |-> d.opening,
             closing |-> Running(d.opening,
                              [j \in DOMAIN LinesOf(d.payments, d.visits) |->
                                  LinesOf(d.payments, d.visits)[j].moves])
                           [Len(LinesOf(d.payments, d.visits))]]
      BY Zenon DEF BuildLedger, LinesOf, PaidLines, HeldLines, PaidLine, HeldLine, Sooner
    <2>3. QED
      BY <1>2, <1>6, <1>8, <1>10, <2>1, <2>2
  <1>13. PICK f : f = [x \in P \cup H |-> x.moves]
    OBVIOUS
  <1>14. sum[n] = opening + SumFunctionOnSet(f, P \cup H)
    <2>1. PICK S : S = P \cup H
      OBVIOUS
    <2>2. IsFiniteSet(S) /\ \A x \in S : f[x] \in Int
      BY <1>4, <1>13, <2>1, FS_Union
    <2>3. Lists(s, S, n)
      BY <1>5, <1>6, <2>1
    <2>4. \A i \in 0 .. n : sum[i] \in Int
      BY <1>11
    <2>5. \A i \in 1 .. n : sum[i] = sum[i - 1] + f[s[i]]
      BY <1>7, <1>8, <1>11, <1>13
    <2>6. SumsUp(sum, f, s, n)
      BY <2>4, <2>5 DEF SumsUp
    <2>7. sum[n] = sum[0] + SumFunctionOnSet(f, S)
      BY <2>2, <2>3, <2>6, SumAlong
    <2>8. QED
      BY <1>11, <2>1, <2>7
  <1>15. SumFunctionOnSet(f, P \cup H) = SumFunctionOnSet(f, P) + SumFunctionOnSet(f, H)
    <2>1. \A x \in P \cup H : f[x] \in Int
      BY <1>4, <1>13
    <2>2. QED
      BY <1>4, <2>1, SumOfParts
  <1>16. SumFunctionOnSet(f, P) = SumOf(payments)
    <2>1. PICK h : Places(h, payments, P) /\ \A p \in payments : h[p] = PaidLine(p)
      BY <1>3, LinesAre
    <2>2. PICK g : g = [p \in payments |-> p.lessons]
      OBVIOUS
    <2>3. \A p \in payments : PaidLine(p) \in P /\ PaidLine(p).moves = p.lessons
      BY <1>3 DEF PaidLines, PaidLine
    <2>4. \A p \in payments : g[p] \in Int /\ f[h[p]] = g[p]
      <3>1. \A p \in payments : g[p] = p.lessons /\ p.lessons \in Int
        BY <2>2 DEF Books
      <3>2. QED
        BY <1>13, <2>1, <2>3, <3>1
    <2>5. IsFiniteSet(payments)
      BY DEF Books
    <2>6. SumFunctionOnSet(f, P) = SumFunctionOnSet(g, payments)
      BY <2>1, <2>4, <2>5, SumOfImage
    <2>7. QED
      BY <2>2, <2>6 DEF SumOf
  <1>17. SumFunctionOnSet(f, H) = -Cardinality(Attended(visits))
    <2>1. PICK V : V = DOMAIN visits
      OBVIOUS
    <2>2. PICK h : Places(h, V, H) /\ \A v \in V : h[v] = HeldLine(visits, v)
      BY <1>3, <2>1, LinesAre
    <2>3. PICK g : g = [v \in V |-> IF visits[v] = "done" THEN -1 ELSE 0]
      OBVIOUS
    <2>4. \A v \in V : HeldLine(visits, v) \in H
                       /\ HeldLine(visits, v).moves = IF visits[v] = "done" THEN -1 ELSE 0
      BY <1>3, <2>1 DEF HeldLines, HeldLine
    <2>5. \A v \in V : g[v] \in Int /\ f[h[v]] = g[v]
      BY <1>13, <2>2, <2>3, <2>4
    <2>6. IsFiniteSet(V)
      BY <2>1 DEF Books
    <2>7. SumFunctionOnSet(f, H) = SumFunctionOnSet(g, V)
      BY <2>2, <2>5, <2>6, SumOfImage
    <2>8. PICK A : A = Attended(visits)
      OBVIOUS
    <2>9. A \in SUBSET V /\ \A v \in V : v \in A <=> visits[v] = "done"
      BY <2>1, <2>8 DEF Attended
    <2>10. SumFunctionOnSet(g, A \cup (V \ A)) = SumFunctionOnSet(g, A) + SumFunctionOnSet(g, V \ A)
      <3>1. IsFiniteSet(A) /\ IsFiniteSet(V \ A) /\ A \cap (V \ A) = {}
        BY <2>6, <2>9, FS_Subset
      <3>2. \A v \in A \cup (V \ A) : g[v] \in Int
        BY <2>5, <2>9
      <3>3. QED
        BY <3>1, <3>2, SumOfParts
    <2>11. SumFunctionOnSet(g, A) = -Cardinality(A)
      <3>1. IsFiniteSet(A) /\ \A v \in A : g[v] = -1
        BY <2>3, <2>6, <2>9, FS_Subset
      <3>2. QED
        BY <3>1, SumOfOnesLess
    <2>12. SumFunctionOnSet(g, V \ A) = 0
      <3>1. IsFiniteSet(V \ A) /\ \A v \in V \ A : g[v] = 0
        BY <2>3, <2>6, <2>9, FS_Subset
      <3>2. QED
        BY <3>1, SumOfZeros
    <2>13. A \cup (V \ A) = V /\ Cardinality(A) \in Nat
      BY <2>6, <2>9, FS_Subset, FS_CardinalityType
    <2>14. QED
      BY <2>7, <2>8, <2>10, <2>11, <2>12, <2>13
  <1>18. SumOf(payments) \in Int /\ Cardinality(Attended(visits)) \in Nat
    <2>1. IsFiniteSet(payments) /\ \A p \in payments : p.lessons \in Int
      BY DEF Books
    <2>2. PICK g : g = [p \in payments |-> p.lessons]
      OBVIOUS
    <2>3. SumFunctionOnSet(g, payments) \in Int
      BY <2>1, <2>2, SumIsInt
    <2>4. Attended(visits) \in SUBSET DOMAIN visits
      BY DEF Attended
    <2>5. QED
      BY <2>2, <2>3, <2>4, FS_Subset, FS_CardinalityType DEF SumOf, Books
  <1>19. PICK rows : rows = [i \in DOMAIN s |-> [date |-> s[i].date, kind |-> s[i].kind,
                                                 balance |-> sum[i]]]
    OBVIOUS
  <1>20. rows # <<>> => Last(rows).balance = sum[n]
    <2>1. Len(rows) = n /\ DOMAIN rows = 1 .. n
      BY <1>7, <1>19
    <2>2. rows # <<>> => n # 0
      BY <1>7, <1>19
    <2>3. n # 0 => rows[n].balance = sum[n]
      BY <1>7, <1>19
    <2>4. QED
      BY <2>1, <2>2, <2>3 DEF Last
  <1>21. QED
    BY <1>1, <1>12, <1>14, <1>15, <1>16, <1>17, <1>18, <1>19, <1>20

\* Two parts of the payments.
LEMMA SumOfTwo ==
    ASSUME NEW A, NEW B, IsFiniteSet(A), IsFiniteSet(B), A \cap B = {},
           \A p \in A \cup B : p.lessons \in Int
    PROVE  /\ SumOf(A) \in Int /\ SumOf(B) \in Int
           /\ SumOf(A \cup B) = SumOf(A) + SumOf(B)
  <1>1. PICK f : f = [p \in A \cup B |-> p.lessons]
    OBVIOUS
  <1>2. PICK a : a = [p \in A |-> p.lessons]
    OBVIOUS
  <1>3. PICK b : b = [p \in B |-> p.lessons]
    OBVIOUS
  <1>4. /\ \A p \in A \cup B : f[p] \in Int
        /\ \A p \in A : f[p] = a[p] /\ a[p] \in Int
        /\ \A p \in B : f[p] = b[p] /\ b[p] \in Int
    BY <1>1, <1>2, <1>3
  <1>5. SumFunctionOnSet(f, A \cup B) = SumFunctionOnSet(f, A) + SumFunctionOnSet(f, B)
    BY <1>4, SumOfParts
  <1>6. SumFunctionOnSet(f, A) = SumFunctionOnSet(a, A)
    BY <1>4, SumOfSame
  <1>7. SumFunctionOnSet(f, B) = SumFunctionOnSet(b, B)
    BY <1>4, SumOfSame
  <1>8. SumFunctionOnSet(a, A) \in Int /\ SumFunctionOnSet(b, B) \in Int
    <2>1. \A p \in A : a[p] \in Int
      BY <1>4
    <2>2. \A p \in B : b[p] \in Int
      BY <1>4
    <2>3. QED
      BY <2>1, <2>2, SumIsInt
  <1>9. QED
    BY <1>1, <1>2, <1>3, <1>5, <1>6, <1>7, <1>8 DEF SumOf

LEMMA SumOfNothing == SumOf({}) = 0
  BY SumOfNone DEF SumOf

\* What is paid and not spent up to a day, that day with it.
PaidUpto(payments, to) == {p \in payments : p.date <= to}
HeldUpto(visits, to) == {d \in Attended(visits) : d <= to}
Upto(payments, visits, to) == SumOf(PaidUpto(payments, to)) - Cardinality(HeldUpto(visits, to))

LEMMA UptoIs ==
    ASSUME NEW payments, NEW visits, Books(payments, visits), NEW to \in Int
    PROVE  /\ IsFiniteSet(PaidUpto(payments, to)) /\ SumOf(PaidUpto(payments, to)) \in Int
           /\ IsFiniteSet(HeldUpto(visits, to)) /\ Cardinality(HeldUpto(visits, to)) \in Nat
           /\ Upto(payments, visits, to) \in Int
  <1>1. PaidUpto(payments, to) \in SUBSET payments /\ HeldUpto(visits, to) \in SUBSET DOMAIN visits
    BY DEF PaidUpto, HeldUpto, Attended
  <1>2. IsFiniteSet(PaidUpto(payments, to)) /\ IsFiniteSet(HeldUpto(visits, to))
    BY <1>1, FS_Subset DEF Books
  <1>3. \A p \in PaidUpto(payments, to) \cup {} : p.lessons \in Int
    BY <1>1 DEF Books
  <1>4. SumOf(PaidUpto(payments, to)) \in Int
    BY <1>2, <1>3, FS_EmptySet, SumOfTwo
  <1>5. QED
    BY <1>2, <1>4, FS_CardinalityType DEF Upto

\* However a ledger is cut, it opens with what there was before and closes with what
\* there is then.
LEMMA CutIs ==
    ASSUME NEW payments, NEW visits, Books(payments, visits), NEW from \in Int, NEW to \in Int,
           \A p \in payments : p.date \in Nat, DOMAIN visits \subseteq Nat,
           from = NoDate \/ (from \in Nat /\ from <= to)
    PROVE  LET l == BuildLedger(AuditData(payments, visits, from, to))
           IN  /\ l.closing = Upto(payments, visits, to)
               /\ l.opening = IF from = NoDate THEN 0 ELSE Upto(payments, visits, from - 1)
               /\ l.rows # <<>> => Last(l.rows).balance = l.closing
  <1>1. PICK P : P = {p \in payments : from <= p.date /\ p.date <= to}
    OBVIOUS
  <1>2. PICK D : D = {e \in DOMAIN visits : from <= e /\ e <= to}
    OBVIOUS
  <1>3. PICK V : V = [d \in D |-> visits[d]]
    OBVIOUS
  <1>4. PICK Q : Q = {p \in payments : from # NoDate /\ p.date < from}
    OBVIOUS
  <1>5. PICK B : B = {d \in Attended(visits) : from # NoDate /\ d < from}
    OBVIOUS
  <1>6. PICK opening : opening = SumOf(Q) - Cardinality(B)
    OBVIOUS
  <1>7. AuditData(payments, visits, from, to) = [payments |-> P, visits |-> V, opening |-> opening]
    BY <1>1, <1>2, <1>3, <1>4, <1>5, <1>6, Zenon DEF AuditData
  <1>8. DOMAIN V = D /\ D \in SUBSET DOMAIN visits /\ P \in SUBSET payments /\ Q \in SUBSET payments
    BY <1>1, <1>2, <1>3, <1>4
  <1>9. /\ \A p \in payments : p.date \in Int /\ p.lessons \in Int
        /\ \A d \in DOMAIN visits : d \in Int
        /\ IsFiniteSet(payments) /\ IsFiniteSet(DOMAIN visits)
    BY DEF Books
  <1>10. IsFiniteSet(P) /\ IsFiniteSet(Q) /\ IsFiniteSet(D)
    BY <1>8, <1>9, FS_Subset
  <1>11. Books(P, V)
    BY <1>8, <1>10 DEF Books
  <1>12. PICK A : A = Attended(V)
    OBVIOUS
  <1>13. A = {d \in Attended(visits) : from <= d /\ d <= to}
    BY <1>2, <1>3, <1>8, <1>12 DEF Attended
  <1>14. Attended(visits) \in SUBSET DOMAIN visits
    BY DEF Attended
  <1>15. IsFiniteSet(A) /\ IsFiniteSet(B) /\ Cardinality(A) \in Nat /\ Cardinality(B) \in Nat
    <2>1. A \in SUBSET DOMAIN visits /\ B \in SUBSET DOMAIN visits
      BY <1>5, <1>13, <1>14
    <2>2. QED
      BY <1>9, <2>1, FS_Subset, FS_CardinalityType
  <1>16. /\ Q \cup P = PaidUpto(payments, to) /\ Q \cap P = {}
    BY <1>1, <1>4, <1>9 DEF PaidUpto, NoDate
  <1>17. /\ B \cup A = HeldUpto(visits, to) /\ B \cap A = {}
    BY <1>5, <1>9, <1>13, <1>14 DEF HeldUpto, NoDate
  <1>18. /\ SumOf(Q) \in Int /\ SumOf(P) \in Int
         /\ SumOf(PaidUpto(payments, to)) = SumOf(Q) + SumOf(P)
    <2>1. \A p \in Q \cup P : p.lessons \in Int
      BY <1>8, <1>9
    <2>2. QED
      BY <1>10, <1>16, <2>1, SumOfTwo
  <1>19. Cardinality(HeldUpto(visits, to)) = Cardinality(B) + Cardinality(A)
    <2>1. Cardinality(B \cap A) = 0
      BY <1>17, FS_EmptySet
    <2>2. Cardinality(B \cup A) = Cardinality(B) + Cardinality(A) - Cardinality(B \cap A)
      BY <1>15, FS_Union
    <2>3. PICK a, b, c \in Nat : a = Cardinality(A) /\ b = Cardinality(B) /\ c = Cardinality(B \cap A)
      BY <1>15, <2>1
    <2>4. Cardinality(B \cup A) = b + a
      BY <2>1, <2>2, <2>3
    <2>5. QED
      BY <1>17, <2>3, <2>4
  <1>20. opening \in Int
    BY <1>6, <1>15, <1>18
  <1>21. PICK l : l = BuildLedger(AuditData(payments, visits, from, to))
    OBVIOUS
  <1>22. /\ l.opening = opening
         /\ l.closing = opening + SumOf(P) - Cardinality(A)
         /\ l.rows # <<>> => Last(l.rows).balance = l.closing
    BY <1>7, <1>11, <1>12, <1>20, <1>21, LedgerCloses
  <1>23. l.closing = Upto(payments, visits, to)
    BY <1>6, <1>15, <1>18, <1>19, <1>22 DEF Upto
  <1>24. opening = IF from = NoDate THEN 0 ELSE Upto(payments, visits, from - 1)
    <2>1. CASE from = NoDate
      <3>1. Q = {} /\ B = {}
        BY <1>4, <1>5, <2>1
      <3>2. QED
        BY <1>6, <2>1, <3>1, SumOfNothing, FS_EmptySet
    <2>2. CASE from # NoDate
      <3>1. Q = PaidUpto(payments, from - 1)
        BY <1>4, <1>9, <2>2 DEF PaidUpto
      <3>2. B = HeldUpto(visits, from - 1)
        BY <1>5, <1>9, <1>14, <2>2 DEF HeldUpto
      <3>3. QED
        BY <1>6, <2>2, <3>1, <3>2 DEF Upto
    <2>3. QED
      BY <2>1, <2>2
  <1>25. QED
    BY <1>21, <1>22, <1>23, <1>24

-----------------------------------------------------------------------------
(* What the payments are.                                                   *)

PaymentsHold ==
    /\ IsFiniteSet(paid)
    /\ paid \subseteq [id : 1 .. lastPay, kind : {"course", "extra"}, date : Dates,
                       lessons : Nat, month : {0} \cup Months]
    /\ \A p \in paid : /\ p.lessons = 0 \/ p.month = 0
                       /\ p.kind = "extra" => p.lessons = 0 /\ p.month = 0
    /\ \A p, q \in paid : p.id = q.id => p = q

\* The end that is claimed or told is a date.
WarnerTyped ==
    \/ warner = AtRest
    \/ \E step \in {"claim", "send"}, until \in Dates : warner = [step |-> step, until |-> until]

\* The inductive invariant of the payments, the journal and the reminder.
PayInv ==
    /\ day \in 0 .. LastDay
    /\ billing \in Billings
    /\ lastPay \in Nat
    /\ PaymentsHold
    /\ DOMAIN journal \subseteq VisitDates
    /\ claims \subseteq Dates
    /\ WarnerTyped

LEMMA BoundsHold ==
    /\ LastDay \in Nat /\ EndOfTime \in Nat /\ LastDay < EndOfTime
    /\ Billings \subseteq {"per_lesson", "monthly"}
    /\ VisitDates \subseteq Dates
    /\ PayForms \subseteq [kind : {"course", "extra"}, date : Dates, lessons : Int,
                           month : {0} \cup Months]
  <1>1. LastDay \in 0 .. EndOfTime - 1 /\ EndOfTime \in Nat
    BY PassesAssumption, FirstDaysRise DEF PassesAssumption
  <1>2. QED
    BY <1>1, PassesAssumption DEF PassesAssumption

\* A payment has lessons or a month, as the course is billed, and an extra neither.
LEMMA PaymentIs ==
    ASSUME NEW f \in PayForms, NEW by \in Billings, Acceptable(f, by), NEW n \in Nat, NEW id \in 1 .. n
    PROVE  /\ Payment(id, f, by) \in [id : 1 .. n, kind : {"course", "extra"}, date : Dates,
                                      lessons : Nat, month : {0} \cup Months]
           /\ Payment(id, f, by).id = id
           /\ Payment(id, f, by).lessons = 0 \/ Payment(id, f, by).month = 0
           /\ Payment(id, f, by).kind = "extra" =>
                 Payment(id, f, by).lessons = 0 /\ Payment(id, f, by).month = 0
  <1>1. /\ f.kind \in {"course", "extra"} /\ f.date \in Dates /\ f.lessons \in Int
        /\ f.month \in {0} \cup Months
    BY BoundsHold
  <1>2. by = "per_lesson" \/ by = "monthly"
    BY BoundsHold
  <1>3. f.kind = "course" /\ by = "per_lesson" => f.lessons \in Nat
    BY <1>1 DEF Acceptable
  <1>4. QED
    BY <1>1, <1>2, <1>3 DEF Payment

LEMMA PayInit == InitPasses => PayInv
  <1> SUFFICES ASSUME InitPasses PROVE PayInv
    OBVIOUS
  <1>1. PaymentsHold
    BY FS_EmptySet DEF InitPasses, PaymentsHold
  <1>2. QED
    BY <1>1, BoundsHold DEF InitPasses, PayInv, WarnerTyped

\* What is changed or added keeps them so, under an id of its own.
LEMMA PaymentsKept ==
    ASSUME PaymentsHold, lastPay \in Nat, NEW rest \in SUBSET paid, NEW n \in Nat, lastPay <= n,
           NEW p \in [id : 1 .. n, kind : {"course", "extra"}, date : Dates,
                      lessons : Nat, month : {0} \cup Months],
           p.lessons = 0 \/ p.month = 0, p.kind = "extra" => p.lessons = 0 /\ p.month = 0,
           \A q \in rest : q.id # p.id,
           paid' = rest \cup {p}, lastPay' = n
    PROVE  PaymentsHold'
  <1>1. IsFiniteSet(rest \cup {p})
    BY FS_Subset, FS_AddElement DEF PaymentsHold
  <1>2. rest \subseteq [id : 1 .. n, kind : {"course", "extra"}, date : Dates,
                        lessons : Nat, month : {0} \cup Months]
    BY DEF PaymentsHold
  <1>3. \A q \in rest \cup {p} : /\ q.lessons = 0 \/ q.month = 0
                                 /\ q.kind = "extra" => q.lessons = 0 /\ q.month = 0
    BY DEF PaymentsHold
  <1>4. \A q, r \in rest \cup {p} : q.id = r.id => q = r
    BY DEF PaymentsHold
  <1>5. QED
    BY <1>1, <1>2, <1>3, <1>4 DEF PaymentsHold

\* The balance speaks of dates.
LEMMA NowIs ==
    ASSUME PayInv
    PROVE  /\ Calm(coveragePeriods(paid)) /\ day \in Nat
           /\ Now.until \in {NoDate} \cup Dates
           /\ Now.covered => Now.until \in Dates
  <1>1. \A p \in paid : p.month \in {0} \cup Months
    BY DEF PayInv, PaymentsHold
  <1>2. Calm(coveragePeriods(paid))
    BY <1>1, MonthRanges DEF PayInv, PaymentsHold
  <1>3. day \in Nat
    BY BoundsHold DEF PayInv
  <1>4. PICK periods : periods = coveragePeriods(paid)
    OBVIOUS
  <1>5. PICK end : end = coverageFromToday(periods, day)
    OBVIOUS
  <1>6. PICK ahead : ahead = upcomingCoverage(periods, day)
    OBVIOUS
  <1>7. end # NoDate => end \in Dates
    BY <1>2, <1>3, <1>4, <1>5, CoverageIs
  <1>8. ahead.until \in {NoDate} \cup Dates
    BY <1>2, <1>3, <1>4, <1>6, UpcomingIs
  <1>9. /\ Now.covered <=> billing = "monthly" /\ end # NoDate
        /\ Now.until = IF billing = "monthly" /\ end # NoDate THEN end
                       ELSE IF billing = "monthly" THEN ahead.until ELSE NoDate
    BY <1>4, <1>5, <1>6 DEF Now, BalanceOf
  <1>10. QED
    BY <1>2, <1>3, <1>7, <1>8, <1>9

\* Every step keeps it.
LEMMA PayStep == PayInv /\ [NextPasses]_passesVars => PayInv'
  <1> SUFFICES ASSUME PayInv, [NextPasses]_passesVars PROVE PayInv'
    OBVIOUS
  <1>1. CASE CreatePass
    <2>1. PICK f \in PayForms : /\ Acceptable(f, billing) /\ lastPay' = lastPay + 1
                                /\ paid' = paid \cup {Payment(lastPay', f, billing)}
      BY <1>1 DEF CreatePass
    <2>2. UNCHANGED <<day, billing, journal, claims, warner>>
      BY <1>1 DEF CreatePass
    <2>3. lastPay \in Nat /\ lastPay + 1 \in Nat /\ lastPay + 1 \in 1 .. lastPay + 1 /\ PaymentsHold
      BY DEF PayInv
    <2>4. PICK p : p = Payment(lastPay', f, billing)
      OBVIOUS
    <2>5. /\ p \in [id : 1 .. lastPay + 1, kind : {"course", "extra"}, date : Dates,
                    lessons : Nat, month : {0} \cup Months]
          /\ p.lessons = 0 \/ p.month = 0
          /\ p.kind = "extra" => p.lessons = 0 /\ p.month = 0
          /\ p.id = lastPay + 1
      BY <2>1, <2>3, <2>4, PaymentIs DEF PayInv
    <2>6. \A q \in paid : q.id # p.id
      BY <2>3, <2>5 DEF PaymentsHold
    <2>7. PaymentsHold'
      BY <2>1, <2>3, <2>4, <2>5, <2>6, PaymentsKept
    <2>8. QED
      BY <2>1, <2>2, <2>3, <2>7 DEF PayInv, WarnerTyped
  <1>2. CASE UpdatePass
    <2>1. PICK p \in paid, f \in PayForms :
              /\ Acceptable(f, billing)
              /\ paid' = (paid \ {p}) \cup {Payment(p.id, f, billing)}
      BY <1>2 DEF UpdatePass
    <2>2. UNCHANGED <<day, billing, journal, claims, warner, lastPay>>
      BY <1>2 DEF UpdatePass
    <2>3. lastPay \in Nat /\ p.id \in 1 .. lastPay /\ PaymentsHold
      BY DEF PayInv, PaymentsHold
    <2>4. PICK q : q = Payment(p.id, f, billing)
      OBVIOUS
    <2>5. /\ q \in [id : 1 .. lastPay, kind : {"course", "extra"}, date : Dates,
                    lessons : Nat, month : {0} \cup Months]
          /\ q.lessons = 0 \/ q.month = 0
          /\ q.kind = "extra" => q.lessons = 0 /\ q.month = 0
          /\ q.id = p.id
      BY <2>1, <2>3, <2>4, PaymentIs DEF PayInv
    <2>6. \A r \in paid \ {p} : r.id # q.id
      BY <2>3, <2>5 DEF PaymentsHold
    <2>7. PaymentsHold'
      <3>1. PICK rest \in SUBSET paid : rest = paid \ {p}
        OBVIOUS
      <3>2. PICK n \in Nat : n = lastPay
        BY <2>3
      <3>3. lastPay' = n /\ lastPay <= n /\ lastPay \in Nat /\ paid' = rest \cup {q}
        BY <2>1, <2>2, <2>4, <3>1, <3>2
      <3>4. q \in [id : 1 .. n, kind : {"course", "extra"}, date : Dates,
                   lessons : Nat, month : {0} \cup Months]
        BY <2>5, <3>2
      <3>5. \A r \in rest : r.id # q.id
        BY <2>6, <3>1
      <3>6. QED
        BY <2>3, <2>5, <3>3, <3>4, <3>5, PaymentsKept
    <2>8. QED
      BY <2>2, <2>3, <2>7 DEF PayInv, WarnerTyped
  <1>3. CASE DeletePass
    <2>1. PICK p \in paid : paid' = paid \ {p}
      BY <1>3 DEF DeletePass
    <2>2. UNCHANGED <<day, billing, journal, claims, warner, lastPay>>
      BY <1>3 DEF DeletePass
    <2>3. IsFiniteSet(paid \ {p})
      BY FS_RemoveElement DEF PayInv, PaymentsHold
    <2>4. PaymentsHold'
      BY <2>1, <2>2, <2>3 DEF PayInv, PaymentsHold
    <2>5. QED
      BY <2>2, <2>4 DEF PayInv, WarnerTyped
  <1>4. CASE ChangeBilling
    BY <1>4 DEF ChangeBilling, PayInv, PaymentsHold, WarnerTyped
  <1>5. CASE Journal
    <2>1. PICK d \in VisitDates, status \in {"done", "cancelled", "none"} :
              journal' = [e \in {x \in DOMAIN journal \cup {d} : x # d \/ status # "none"} |->
                             IF e = d THEN status ELSE journal[e]]
      BY <1>5 DEF Journal
    <2>2. UNCHANGED <<day, billing, paid, claims, warner, lastPay>>
      BY <1>5 DEF Journal
    <2>3. DOMAIN journal' \subseteq VisitDates
      BY <2>1 DEF PayInv
    <2>4. QED
      BY <2>2, <2>3 DEF PayInv, PaymentsHold, WarnerTyped
  <1>6. CASE NewDay
    <2>1. day' \in 0 .. LastDay
      BY <1>6, BoundsHold DEF NewDay, PayInv
    <2>2. QED
      BY <1>6, <2>1 DEF NewDay, PayInv, PaymentsHold, WarnerTyped
  <1>7. CASE sendDueBillingReminders
    <2>1. Now.covered
      BY <1>7 DEF sendDueBillingReminders, dueForBillingReminder, NoticeDue
    <2>2. PICK until \in Dates : until = Now.until
      BY <2>1, NowIs
    <2>3. warner' = [step |-> "claim", until |-> until]
      BY <1>7, <2>2 DEF sendDueBillingReminders
    <2>4. WarnerTyped'
      BY <2>3 DEF WarnerTyped
    <2>5. UNCHANGED <<day, billing, paid, journal, claims, lastPay>>
      BY <1>7 DEF sendDueBillingReminders
    <2>6. QED
      BY <2>4, <2>5 DEF PayInv, PaymentsHold
  <1>8. CASE ClaimBillingReminder
    <2>1. PICK until \in Dates : warner = [step |-> "claim", until |-> until]
      <3>1. warner # AtRest
        BY <1>8 DEF ClaimBillingReminder, AtRest
      <3>2. PICK step \in {"claim", "send"}, until \in Dates : warner = [step |-> step, until |-> until]
        BY <3>1 DEF PayInv, WarnerTyped
      <3>3. step = "claim"
        BY <1>8, <3>2 DEF ClaimBillingReminder
      <3>4. QED
        BY <3>2, <3>3
    <2>2. claims' = claims \cup {until}
      BY <1>8, <2>1 DEF ClaimBillingReminder
    <2>3. warner' = AtRest \/ warner' = [step |-> "send", until |-> until]
      BY <1>8, <2>1 DEF ClaimBillingReminder
    <2>4. WarnerTyped'
      BY <2>3 DEF WarnerTyped
    <2>5. UNCHANGED <<day, billing, paid, journal, lastPay>>
      BY <1>8 DEF ClaimBillingReminder
    <2>6. QED
      BY <2>2, <2>4, <2>5 DEF PayInv, PaymentsHold
  <1>9. CASE SendWarning
    BY <1>9 DEF SendWarning, PayInv, PaymentsHold, WarnerTyped
  <1>10. CASE StartOver
    BY <1>10 DEF StartOver, PayInv, PaymentsHold, WarnerTyped
  <1>11. CASE UNCHANGED passesVars
    BY <1>11 DEF passesVars, PayInv, PaymentsHold, WarnerTyped
  <1>12. QED
    BY <1>1, <1>2, <1>3, <1>4, <1>5, <1>6, <1>7, <1>8, <1>9, <1>10, <1>11 DEF NextPasses

\* What CreatePass, UpdatePass and DeletePass leave in the store: a payment has an
\* id of its own, no later than the last one given, and is for lessons or for a
\* month, never both, an extra for neither.  What is marked, claimed and about to be
\* told are days of the calendar.
THEOREM PaymentsInvariant == SpecPasses => []PayInv
  BY PayInit, PayStep, PTL DEF SpecPasses

\* What the forms and the passes of the bot store stays of its kind: no payment has
\* both lessons and a month, no two have one id, and every end that was claimed is a
\* date (Form.Parse, ClaimBillingReminder).
THEOREM PassesTyped == SpecPasses => []PassesTypeOK
  <1>1. PayInv => PassesTypeOK
    <2> SUFFICES ASSUME PayInv PROVE PassesTypeOK
      OBVIOUS
    <2>1. warner.step \in {"rest", "claim", "send"}
      BY DEF PayInv, WarnerTyped, AtRest
    <2>2. \A p \in paid : /\ p.id \in 1 .. lastPay /\ p.kind \in {"course", "extra"}
                          /\ p.lessons \in Nat /\ p.month \in {0} \cup Months
                          /\ p.lessons = 0 \/ p.month = 0
      BY DEF PayInv, PaymentsHold
    <2>3. QED
      BY <2>1, <2>2 DEF PayInv, PaymentsHold, PassesTypeOK
  <1>2. QED
    BY <1>1, PaymentsInvariant, PTL

-----------------------------------------------------------------------------
(* The warning that a paid period ends.                                     *)

\* A pass under way holds one end.
WarnerHolds ==
    warner # AtRest =>
        warner \in {[step |-> "claim", until |-> warner.until],
                    [step |-> "send", until |-> warner.until]}

\* What the group was warned of had been claimed before.
WarnedIsClaimed == warned \in Seq(claims)

\* What is about to be sent was claimed by this very pass.
AboutToWarn ==
    warner.step = "send" =>
        /\ warner.until \in claims
        /\ warner.until \notin ToSet(warned)

WarnInv == WarnerHolds /\ WarnedIsClaimed /\ AboutToWarn /\ IsInjective(warned)

\* People and days do not come near it.
WarnerAside == UNCHANGED <<claims, warner, warned>>

LEMMA OthersStandAside ==
    ASSUME CreatePass \/ UpdatePass \/ DeletePass \/ ChangeBilling \/ Journal \/ NewDay
    PROVE  WarnerAside
  BY DEF CreatePass, UpdatePass, DeletePass, ChangeBilling, Journal, NewDay, WarnerAside

\* A sequence without repetitions gets one element it has not had.
LEMMA AppendNew ==
    ASSUME NEW S, NEW s \in Seq(S), NEW e \in S, IsInjective(s), e \notin ToSet(s)
    PROVE  Append(s, e) \in Seq(S) /\ IsInjective(Append(s, e))
  <1>1. /\ Append(s, e) \in Seq(S)
        /\ DOMAIN Append(s, e) = 1 .. Len(s) + 1
        /\ DOMAIN s = 1 .. Len(s) /\ Len(s) \in Nat
        /\ \A i \in 1 .. Len(s) : Append(s, e)[i] = s[i]
        /\ Append(s, e)[Len(s) + 1] = e
    OBVIOUS
  <1>2. \A i \in 1 .. Len(s) : s[i] # e
    BY <1>1 DEF ToSet
  <1>3. ASSUME NEW i \in DOMAIN Append(s, e), NEW j \in DOMAIN Append(s, e),
               Append(s, e)[i] = Append(s, e)[j]
        PROVE  i = j
    <2>1. CASE i \in 1 .. Len(s) /\ j \in 1 .. Len(s)
      BY <2>1, <1>1, <1>3 DEF IsInjective
    <2>2. CASE i = Len(s) + 1 \/ j = Len(s) + 1
      BY <2>2, <1>1, <1>2, <1>3
    <2>3. QED
      BY <2>1, <2>2, <1>1
  <1>4. QED
    BY <1>1, <1>3 DEF IsInjective

LEMMA WarnInit == InitPasses => WarnInv
  BY DEF InitPasses, WarnInv, WarnerHolds, WarnedIsClaimed, AboutToWarn, AtRest, IsInjective

\* Every step keeps the invariant.
LEMMA WarnStep == WarnInv /\ [NextPasses]_passesVars => WarnInv'
  <1> SUFFICES ASSUME WarnInv, [NextPasses]_passesVars
               PROVE  WarnInv'
    OBVIOUS
  <1> USE DEF WarnInv
  <1>1. CASE WarnerAside
    BY <1>1 DEF WarnerAside, WarnerHolds, WarnedIsClaimed, AboutToWarn
  <1>2. CASE sendDueBillingReminders
    <2>1. warner' = [step |-> "claim", until |-> Now.until]
      BY <1>2 DEF sendDueBillingReminders
    <2>2. UNCHANGED <<claims, warned>>
      BY <1>2 DEF sendDueBillingReminders
    <2>3. QED
      BY <2>1, <2>2 DEF WarnerHolds, WarnedIsClaimed, AboutToWarn
  <1>3. CASE ClaimBillingReminder
    <2>1. warner = [step |-> "claim", until |-> warner.until]
      BY <1>3 DEF ClaimBillingReminder, WarnerHolds, AtRest
    <2>2. claims' = claims \cup {warner.until} /\ warned' = warned
      BY <1>3 DEF ClaimBillingReminder
    <2>3. WarnedIsClaimed'
      BY <2>2 DEF WarnedIsClaimed
    <2>4. CASE warner.until \in claims
      BY <2>2, <2>3, <2>4, <1>3 DEF ClaimBillingReminder, WarnerHolds, AboutToWarn, AtRest
    <2>5. CASE warner.until \notin claims
      <3>1. warner' = [step |-> "send", until |-> warner.until]
        BY <2>1, <2>5, <1>3 DEF ClaimBillingReminder
      <3>2. warner.until \notin ToSet(warned)
        BY <2>5 DEF WarnedIsClaimed, ToSet
      <3>3. QED
        BY <3>1, <3>2, <2>2, <2>3 DEF WarnerHolds, AboutToWarn
    <2>6. QED
      BY <2>4, <2>5
  <1>4. CASE SendWarning
    <2>1. warner' = AtRest /\ claims' = claims
      BY <1>4 DEF SendWarning
    <2>2. warner.until \in claims /\ warner.until \notin ToSet(warned)
      BY <1>4 DEF SendWarning, AboutToWarn
    <2>3. warned' \in Seq(claims) /\ IsInjective(warned')
      BY <1>4, <2>2, AppendNew DEF SendWarning, WarnedIsClaimed
    <2>4. QED
      BY <2>1, <2>3 DEF WarnerHolds, WarnedIsClaimed, AboutToWarn, AtRest
  <1>5. CASE StartOver
    BY <1>5 DEF StartOver, WarnerHolds, WarnedIsClaimed, AboutToWarn, AtRest
  <1>6. CASE UNCHANGED passesVars
    BY <1>1, <1>6 DEF passesVars, WarnerAside
  <1>7. QED
    BY <1>1, <1>2, <1>3, <1>4, <1>5, <1>6, OthersStandAside DEF NextPasses

THEOREM WarnInvariant == SpecPasses => []WarnInv
  BY WarnInit, WarnStep, PTL DEF SpecPasses

\* The group is warned of an end of the paid days once at most, whatever becomes
\* of payments, process and messages (ClaimBillingReminder, store/billing.go:3-22).
THEOREM WarnedOnce == SpecPasses => []OneWarning
  <1>1. WarnInv => OneWarning
    BY DEF WarnInv, OneWarning, AboutToWarn
  <1>2. QED
    BY <1>1, WarnInvariant, PTL

-----------------------------------------------------------------------------
(* The pages of one course.                                                 *)

\* The payments and visits of the course are books, with dates.
LEMMA BooksHold ==
    ASSUME PayInv
    PROVE  /\ Books(paid, journal)
           /\ \A p \in paid : p.date \in Nat /\ p.date \in Dates /\ p.lessons \in Nat
           /\ DOMAIN journal \subseteq Nat /\ DOMAIN journal \subseteq Dates
  <1>1. \A p \in paid : /\ p.id \in 1 .. lastPay /\ p.date \in Dates /\ p.lessons \in Nat
    BY DEF PayInv, PaymentsHold
  <1>2. lastPay \in Nat
    BY DEF PayInv
  <1>3. Dates = 0 .. EndOfTime /\ EndOfTime \in Nat
    BY BoundsHold DEF Dates
  <1>4. DOMAIN journal \in SUBSET Dates
    BY BoundsHold DEF PayInv
  <1>5. IsFiniteSet(DOMAIN journal)
    <2>1. IsFiniteSet(Dates)
      BY <1>3, FS_Interval
    <2>2. QED
      BY <1>4, <2>1, FS_Subset
  <1>6. QED
    BY <1>1, <1>2, <1>3, <1>4, <1>5 DEF PayInv, PaymentsHold, Books

\* The dashboard's balance is that of all time.
LEMMA RemainingIs ==
    ASSUME PayInv
    PROVE  /\ Now.remaining = Upto(paid, journal, EndOfTime)
           /\ Now.remaining = SumOf(paid) - Now.done
           /\ Now.done = Cardinality(Attended(journal)) /\ Now.done \in Nat
           /\ SumOf(paid) \in Int /\ Now.remaining \in Int
  <1>1. /\ Now.remaining = SumOf(paid) - Cardinality(Attended(journal))
        /\ Now.done = Cardinality(Attended(journal))
    BY Zenon DEF Now, BalanceOf
  <1>2. EndOfTime \in Nat
    BY BoundsHold
  <1>3. PaidUpto(paid, EndOfTime) = paid
    BY <1>2, BooksHold DEF PaidUpto, Dates
  <1>4. HeldUpto(journal, EndOfTime) = Attended(journal)
    BY <1>2, BooksHold DEF HeldUpto, Dates, Attended
  <1>5. QED
    BY <1>1, <1>2, <1>3, <1>4, BooksHold, UptoIs DEF Upto

\* The first part of LedgerAgrees: the ledger is one story however it is cut.
LedgerIsOne ==
    LET over(from, to) == BuildLedger(AuditData(paid, journal, from, to))
        whole == [to \in -1 .. EndOfTime |-> IF to < 0 THEN 0 ELSE over(NoDate, to).closing]
    IN  /\ \A from, to \in Dates : from <= to =>
              LET l == over(from, to)
              IN  /\ l.closing = whole[to]
                  /\ l.opening = whole[from - 1]
                  /\ l.rows # <<>> => Last(l.rows).balance = l.closing
        /\ whole[EndOfTime] = Now.remaining

LEMMA LedgerOne == ASSUME PayInv PROVE LedgerIsOne
  <1>1. EndOfTime \in Nat /\ Dates = 0 .. EndOfTime
    BY BoundsHold DEF Dates
  <1>2. Books(paid, journal) /\ (\A p \in paid : p.date \in Nat) /\ DOMAIN journal \subseteq Nat
    BY BooksHold
  <1>3. PICK whole : whole = [to \in -1 .. EndOfTime |->
                IF to < 0 THEN 0 ELSE BuildLedger(AuditData(paid, journal, NoDate, to)).closing]
    OBVIOUS
  <1>4. \A to \in Dates : whole[to] = Upto(paid, journal, to)
    <2> TAKE to \in Dates
    <2>1. to \in Int /\ NoDate \in Int /\ to \in -1 .. EndOfTime /\ ~(to < 0)
      BY <1>1 DEF NoDate
    <2>2. BuildLedger(AuditData(paid, journal, NoDate, to)).closing = Upto(paid, journal, to)
      BY <1>2, <2>1, CutIs
    <2>3. QED
      BY <1>3, <2>1, <2>2
  <1>5. whole[-1] = 0
    BY <1>1, <1>3
  <1>6. Upto(paid, journal, -1) = 0
    <2>1. PaidUpto(paid, -1) = {} /\ HeldUpto(journal, -1) = {}
      BY <1>2 DEF PaidUpto, HeldUpto, Attended
    <2>2. QED
      BY <2>1, SumOfNothing, FS_EmptySet DEF Upto
  <1>7. ASSUME NEW from \in Dates, NEW to \in Dates, from <= to
        PROVE  LET l == BuildLedger(AuditData(paid, journal, from, to))
               IN  /\ l.closing = whole[to]
                   /\ l.opening = whole[from - 1]
                   /\ l.rows # <<>> => Last(l.rows).balance = l.closing
    <2>1. from \in Int /\ to \in Int /\ from \in Nat /\ from # NoDate
      BY <1>1 DEF NoDate
    <2>2. PICK l : l = BuildLedger(AuditData(paid, journal, from, to))
      OBVIOUS
    <2>3. /\ l.closing = Upto(paid, journal, to)
          /\ l.opening = Upto(paid, journal, from - 1)
          /\ l.rows # <<>> => Last(l.rows).balance = l.closing
      BY <1>2, <1>7, <2>1, <2>2, CutIs
    <2>4. Upto(paid, journal, from - 1) = whole[from - 1]
      <3>1. CASE from = 0
        <4>1. from - 1 = -1
          BY <3>1
        <4>2. QED
          BY <1>5, <1>6, <4>1
      <3>2. CASE from # 0
        <4>1. from - 1 \in Dates
          BY <1>1, <3>2
        <4>2. QED
          BY <1>4, <4>1
      <3>3. QED
        BY <3>1, <3>2
    <2>5. QED
      BY <1>4, <2>2, <2>3, <2>4
  <1>8. whole[EndOfTime] = Now.remaining
    BY <1>1, <1>4, RemainingIs
  <1>9. QED
    BY <1>3, <1>7, <1>8, Zenon DEF LedgerIsOne

-----------------------------------------------------------------------------
(* The packs.                                                               *)

Bought == {p \in paid : p.kind = "course" /\ p.lessons > 0}

Earlier(p, q) == p.date < q.date \/ (p.date = q.date /\ p.id < q.id)

PacksBought == InOrder(Bought, {r \in Bought \X Bought : Earlier(r[1], r[2])})

LEMMA PacksInRow ==
    ASSUME PayInv
    PROVE  /\ IsFiniteSet(Bought) /\ PacksBought \in Seq(Bought)
           /\ Lists(PacksBought, Bought, Len(PacksBought))
           /\ \A p \in Bought : p.lessons \in Nat \ {0}
  <1>1. PICK S : S = Bought
    OBVIOUS
  <1>2. PICK R : R = {r \in S \X S : Earlier(r[1], r[2])}
    OBVIOUS
  <1>3. S \in SUBSET paid /\ \A p \in S : p.lessons > 0
    BY <1>1 DEF Bought
  <1>4. \A p \in paid : p.date \in Int /\ p.id \in Int /\ p.lessons \in Nat
    BY BooksHold DEF Books
  <1>5. \A p, q \in paid : p.id = q.id => p = q
    BY BooksHold DEF Books
  <1>6. IsFiniteSet(S)
    BY <1>3, BooksHold, FS_Subset DEF Books
  <1>7. \A x, y \in S : <<x, y>> \in R <=> Earlier(x, y)
    BY <1>2
  <1>8. Orders(R, S)
    <2>1. \A x \in S : ~Earlier(x, x)
      BY <1>3, <1>4 DEF Earlier
    <2>2. \A x, y \in S : x # y => Earlier(x, y) \/ Earlier(y, x)
      BY <1>3, <1>4, <1>5 DEF Earlier
    <2>3. \A x, y, z \in S : Earlier(x, y) /\ Earlier(y, z) => Earlier(x, z)
      BY <1>3, <1>4 DEF Earlier
    <2>4. QED
      BY <1>7, <2>1, <2>2, <2>3 DEF Orders
  <1>9. PICK s : s = InOrder(S, R)
    OBVIOUS
  <1>10. s = PacksBought
    BY <1>1, <1>2, <1>9 DEF PacksBought
  <1>11. /\ s \in Seq(S) /\ Len(s) \in Nat /\ DOMAIN s = 1 .. Len(s)
         /\ \A x \in S : \E i \in DOMAIN s : s[i] = x
         /\ \A i, j \in DOMAIN s : i < j <=> <<s[i], s[j]>> \in R
    BY <1>6, <1>8, <1>9, InOrderIs
  <1>12. \A i, j \in 1 .. Len(s) : s[i] = s[j] => i = j
    <2> SUFFICES ASSUME NEW i \in 1 .. Len(s), NEW j \in 1 .. Len(s), s[i] = s[j], i # j
                 PROVE  FALSE
      OBVIOUS
    <2>1. i < j \/ j < i
      BY <1>11
    <2>2. <<s[i], s[i]>> \in R
      BY <1>11, <2>1
    <2>3. s[i] \in S
      BY <1>11
    <2>4. QED
      BY <1>8, <2>2, <2>3 DEF Orders
  <1>13. Lists(s, S, Len(s))
    BY <1>11, <1>12 DEF Lists
  <1>14. \A p \in S : p.lessons \in Nat \ {0}
    BY <1>3, <1>4
  <1>15. QED
    BY <1>1, <1>6, <1>10, <1>11, <1>13, <1>14

\* sum has what is paid with each pack of n, spent of them are spent.
Spends(sum, n, spent, done) ==
    /\ n \in Nat /\ spent \in 0 .. n
    /\ \A i \in 0 .. n : sum[i] \in Int
    /\ sum[0] = 0
    /\ sum[spent] <= done
    /\ \A i \in spent + 1 .. n : sum[i] > done

\* What the packs have left is what is paid after the lessons held.
LEMMA PacksAre ==
    ASSUME PayInv, NEW done \in Nat, NEW dates
    PROVE  \E n, sum, spent :
              /\ Spends(sum, n, spent, done) /\ sum[n] = SumOf(paid)
              /\ Len(RemainingPacks(paid, done, dates)) = n - spent
              /\ DOMAIN RemainingPacks(paid, done, dates) = 1 .. n - spent
              /\ \A k \in 1 .. n - spent :
                    /\ RemainingPacks(paid, done, dates)[k].left =
                          sum[spent + k] - (IF done > sum[(spent + k) - 1] THEN done
                                            ELSE sum[(spent + k) - 1])
                    /\ RemainingPacks(paid, done, dates)[k].through =
                          IF sum[spent + k] - done \in DOMAIN dates
                          THEN dates[sum[spent + k] - done] ELSE NoDate
  <1>1. PICK s : s = PacksBought
    OBVIOUS
  <1>2. PICK S : S = Bought
    OBVIOUS
  <1>3. /\ IsFiniteSet(S) /\ s \in Seq(S) /\ Lists(s, S, Len(s))
        /\ \A p \in S : p.lessons \in Nat \ {0}
    BY <1>1, <1>2, PacksInRow
  <1>4. PICK n \in Nat : n = Len(s)
    BY <1>3
  <1>5. DOMAIN s = 1 .. n /\ \A i \in 1 .. n : s[i] \in S
    BY <1>3, <1>4
  <1>6. PICK steps : steps = [i \in DOMAIN s |-> s[i].lessons]
    OBVIOUS
  <1>7. steps \in Seq(Int) /\ Len(steps) = n
    <2>1. steps = [i \in 1 .. n |-> s[i].lessons] /\ \A i \in 1 .. n : s[i].lessons \in Int
      BY <1>3, <1>5, <1>6
    <2>2. QED
      BY <2>1
  <1>8. PICK sum : sum = Running(0, steps)
    OBVIOUS
  <1>9. /\ sum \in [0 .. n -> Int] /\ sum[0] = 0
        /\ \A i \in 1 .. n : sum[i] = sum[i - 1] + steps[i]
    <2>1. PICK start \in Int : start = 0
      OBVIOUS
    <2>2. sum = Running(start, steps)
      BY <1>8, <2>1
    <2>3. /\ sum \in [0 .. n -> Int] /\ sum[0] = start
          /\ \A i \in 1 .. n : sum[i] = sum[i - 1] + steps[i]
      BY <1>7, <2>2, RunningIs
    <2>4. QED
      BY <2>1, <2>3
  <1>10. sum[n] = SumOf(paid)
    <2>1. PICK f : f = [p \in S |-> p.lessons]
      OBVIOUS
    <2>2. \A p \in S : f[p] \in Int
      BY <1>3, <2>1
    <2>3. SumsUp(sum, f, s, n)
      BY <1>5, <1>6, <1>9, <2>1 DEF SumsUp
    <2>4. Lists(s, S, n)
      BY <1>3, <1>4
    <2>5. sum[n] = sum[0] + SumFunctionOnSet(f, S)
      BY <1>3, <2>2, <2>3, <2>4, SumAlong
    <2>6. SumFunctionOnSet(f, S) = SumOf(S)
      BY <2>1 DEF SumOf
    <2>7. PICK T : T = paid \ S
      OBVIOUS
    <2>8. S \in SUBSET paid /\ S \cup T = paid /\ S \cap T = {}
      BY <1>2, <2>7 DEF Bought
    <2>9. IsFiniteSet(paid) /\ \A p \in paid : p.lessons \in Int
      BY BooksHold DEF Books
    <2>10. IsFiniteSet(T) /\ \A p \in S \cup T : p.lessons \in Int
      BY <2>7, <2>8, <2>9, FS_Subset
    <2>11. SumOf(S) \in Int /\ SumOf(S \cup T) = SumOf(S) + SumOf(T)
      BY <1>3, <2>8, <2>10, SumOfTwo
    <2>12. SumOf(T) = 0
      <3>1. \A p \in T : p.lessons = 0
        <4>1. \A p \in paid : p.kind \in {"course", "extra"} /\ p.lessons \in Nat
                              /\ (p.kind = "extra" => p.lessons = 0)
          BY DEF PayInv, PaymentsHold
        <4>2. QED
          BY <1>2, <2>7, <4>1 DEF Bought
      <3>2. PICK g : g = [p \in T |-> p.lessons]
        OBVIOUS
      <3>3. \A p \in T : g[p] = 0
        BY <3>1, <3>2
      <3>4. SumFunctionOnSet(g, T) = 0
        BY <2>10, <3>3, SumOfZeros
      <3>5. QED
        BY <3>2, <3>4 DEF SumOf
    <2>13. SumOf(paid) = SumOf(S) + SumOf(T)
      BY <2>8, <2>11
    <2>14. QED
      BY <1>9, <2>5, <2>6, <2>11, <2>12, <2>13
  <1>11. PICK under : under = {i \in 0 .. n : sum[i] <= done}
    OBVIOUS
  <1>12. PICK spent : spent = Max(under)
    OBVIOUS
  <1>13. spent \in under /\ \A i \in under : i <= spent
    <2>1. 0 \in under /\ under \in SUBSET (0 .. n)
      BY <1>9, <1>11
    <2>2. QED
      BY <1>12, <2>1, MaxIs
  <1>14. Spends(sum, n, spent, done)
    <2>1. \A i \in 0 .. n : sum[i] \in Int
      BY <1>9
    <2>2. ASSUME NEW i \in spent + 1 .. n PROVE sum[i] > done
      <3>1. i \in 0 .. n /\ i > spent /\ i \notin under
        BY <1>11, <1>13
      <3>2. QED
        BY <1>11, <2>1, <3>1
    <2>3. spent \in 0 .. n /\ sum[spent] <= done
      BY <1>11, <1>13
    <2>4. QED
      BY <1>9, <2>1, <2>2, <2>3 DEF Spends
  <1>15. RemainingPacks(paid, done, dates) =
            [k \in 1 .. n - spent |->
                [size |-> s[spent + k].lessons,
                 left |-> sum[spent + k] - (IF done > sum[(spent + k) - 1] THEN done
                                            ELSE sum[(spent + k) - 1]),
                 through |-> IF sum[spent + k] - done \in DOMAIN dates
                             THEN dates[sum[spent + k] - done] ELSE NoDate]]
    <2> DEFINE had == Running(0, [i \in DOMAIN PacksBought |-> PacksBought[i].lessons])
               out == Max({i \in 0 .. Len(PacksBought) : had[i] <= done})
    <2>1. RemainingPacks(paid, done, dates) =
            [k \in 1 .. Len(PacksBought) - out |->
                    [size |-> PacksBought[out + k].lessons,
                     left |-> had[out + k] - (IF done > had[(out + k) - 1] THEN done
                                              ELSE had[(out + k) - 1]),
                     through |-> IF had[out + k] - done \in DOMAIN dates
                                 THEN dates[had[out + k] - done] ELSE NoDate]]
      BY Zenon DEF RemainingPacks, PacksBought, Bought, Earlier
    <2>2. had = sum
      BY <1>1, <1>6, <1>8
    <2>3. out = spent
      <3> HIDE DEF had
      <3>1. QED
        BY <1>1, <1>4, <1>11, <1>12, <2>2
    <2> HIDE DEF had, out
    <2>4. QED
      BY <1>1, <1>4, <2>1, <2>2, <2>3
  <1>16. PICK packs : packs = RemainingPacks(paid, done, dates)
    OBVIOUS
  <1>17. /\ Len(packs) = n - spent /\ DOMAIN packs = 1 .. n - spent
         /\ \A k \in 1 .. n - spent :
              /\ packs[k].left = sum[spent + k] - (IF done > sum[(spent + k) - 1] THEN done
                                                   ELSE sum[(spent + k) - 1])
              /\ packs[k].through = IF sum[spent + k] - done \in DOMAIN dates
                                    THEN dates[sum[spent + k] - done] ELSE NoDate
    <2>1. n - spent \in Nat
      BY <1>14 DEF Spends
    <2>2. QED
      BY <1>15, <1>16, <2>1
  <1>18. QED
    BY <1>10, <1>14, <1>16, <1>17

\* The balance over the packs.
LEMMA PacksLeft ==
    ASSUME NEW n, NEW sum, NEW spent, NEW done \in Nat, Spends(sum, n, spent, done),
           NEW lefts \in Seq(Int), Len(lefts) = n - spent,
           \A k \in 1 .. n - spent :
              lefts[k] = sum[spent + k] - (IF done > sum[(spent + k) - 1] THEN done
                                           ELSE sum[(spent + k) - 1])
    PROVE  Running(0, lefts)[n - spent] = IF n = spent THEN 0 ELSE sum[n] - done
  <1>1. PICK m \in Nat : m = n - spent
    BY DEF Spends
  <1>2. PICK left : left = Running(0, lefts)
    OBVIOUS
  <1>3. left[0] = 0 /\ \A k \in 1 .. m : left[k] = left[k - 1] + lefts[k]
    <2>1. PICK start \in Int : start = 0
      OBVIOUS
    <2>2. left = Running(start, lefts) /\ Len(lefts) = m
      BY <1>1, <1>2, <2>1
    <2>3. left[0] = start /\ \A k \in 1 .. m : left[k] = left[k - 1] + lefts[k]
      BY <2>2, RunningIs
    <2>4. QED
      BY <2>1, <2>3
  <1>4. /\ n \in Nat /\ spent \in Nat /\ n = spent + m
        /\ \A i \in 0 .. n : sum[i] \in Int
        /\ sum[spent] <= done
        /\ \A i \in spent + 1 .. n : sum[i] > done
    BY <1>1 DEF Spends
  <1> DEFINE Good == {k \in Nat : k <= m => left[k] = IF k = 0 THEN 0 ELSE sum[spent + k] - done}
  <1>5. 0 \in Good
    BY <1>3
  <1>6. ASSUME NEW k \in Nat, k \in Good PROVE k + 1 \in Good
    <2> SUFFICES ASSUME k + 1 <= m PROVE left[k + 1] = sum[spent + (k + 1)] - done
      OBVIOUS
    <2>1. k + 1 \in 1 .. m /\ (k + 1) - 1 = k /\ k <= m /\ m = n - spent
      BY <1>1
    <2>2. /\ spent + k \in 0 .. n /\ spent + (k + 1) \in 0 .. n
          /\ (spent + (k + 1)) - 1 = spent + k
      BY <1>4, <2>1
    <2>3. sum[spent + k] \in Int /\ sum[spent + (k + 1)] \in Int
      BY <1>4, <2>2
    <2>4. lefts[k + 1] = sum[spent + (k + 1)] - (IF done > sum[spent + k] THEN done
                                                ELSE sum[spent + k])
      BY <2>1, <2>2
    <2>5. left[k + 1] = left[k] + lefts[k + 1]
      BY <1>3, <2>1
    <2>6. CASE k = 0
      <3>1. left[k] = 0 /\ sum[spent + k] <= done
        BY <1>3, <1>4, <2>6
      <3>2. QED
        BY <2>3, <2>4, <2>5, <3>1
    <2>7. CASE k # 0
      <3>1. left[k] = sum[spent + k] - done
        BY <1>6, <2>1, <2>7
      <3>2. spent + k \in spent + 1 .. n
        BY <2>2, <2>7, <1>4
      <3>3. sum[spent + k] > done
        BY <1>4, <3>2
      <3>4. PICK a, b \in Int : a = sum[spent + k] /\ b = sum[spent + (k + 1)]
        BY <2>3
      <3>5. lefts[k + 1] = b - a
        BY <2>4, <3>3, <3>4
      <3>6. left[k] = a - done
        BY <3>1, <3>4
      <3>7. left[k + 1] = b - done
        BY <2>5, <3>5, <3>6
      <3>8. QED
        BY <3>4, <3>7
    <2>8. QED
      BY <2>6, <2>7
  <1>7. m \in Good
    <2> HIDE DEF Good
    <2>1. QED
      BY <1>5, <1>6, NumberInduction
  <1>8. QED
    BY <1>1, <1>2, <1>4, <1>7

-----------------------------------------------------------------------------
(* The reconciliation page and the packs of the bot agree.                  *)

\* The default period opens at the last payment that bought something.
LEMMA DefaultOpens ==
    ASSUME PayInv
    PROVE  \A p \in paid : p.kind = "course" => p.date <= Build("last_payment", NoDate, NoDate).from
  <1>1. Build("last_payment", NoDate, NoDate).from = LastPaymentDate(paid)
    <2>1. resolveRange(paid, "last_payment", NoDate, NoDate, day) =
              [from |-> LastPaymentDate(paid), to |-> day]
      BY DEF resolveRange
    <2>2. Build("last_payment", NoDate, NoDate).from =
              resolveRange(paid, "last_payment", NoDate, NoDate, day).from
      BY Zenon DEF Build
    <2>3. QED
      BY <2>1, <2>2
  <1>2. PICK dates : dates = {p.date : p \in {q \in paid : q.kind = "course"}}
    OBVIOUS
  <1>3. LastPaymentDate(paid) = IF dates = {} THEN NoDate ELSE Max(dates)
    BY <1>2 DEF LastPaymentDate
  <1>4. EndOfTime \in Nat /\ dates \in SUBSET (0 .. EndOfTime)
    BY <1>2, BoundsHold, BooksHold DEF Dates
  <1>5. ASSUME NEW p \in paid, p.kind = "course" PROVE p.date <= Max(dates) /\ dates # {}
    <2>1. p.date \in dates
      BY <1>2, <1>5
    <2>2. QED
      BY <1>4, <2>1, MaxIs
  <1>6. QED
    BY <1>1, <1>3, <1>5

\* The dates ahead of a day.
LEMMA FirstIs ==
    ASSUME PayInv
    PROVE  FirstAhead(day, Marked) \in Nat /\ day <= FirstAhead(day, Marked)
           /\ day \in Nat /\ day < EndOfTime /\ EndOfTime \in Nat
  BY BoundsHold DEF PayInv, FirstAhead

\* The page of a lessons course over a period that ends on one day.
LEMMA PageIs ==
    ASSUME PayInv, NEW to \in Dates
    PROVE  Build("custom", 0, to).forecast =
               BuildForecast(billing, CourseDays, CourseAbsences, Upto(paid, journal, to),
                             IF billing = "monthly" THEN Now.until ELSE NoDate, day, to, Marked)
  <1>1. to \in Int /\ 0 <= to /\ 0 \in Int /\ 0 \in Nat
    BY BoundsHold DEF Dates
  <1>2. resolveRange(paid, "custom", 0, to, day) = [from |-> 0, to |-> to]
    BY <1>1 DEF resolveRange
  <1>3. BuildLedger(AuditData(paid, journal, 0, to)).closing = Upto(paid, journal, to)
    <2>1. PICK zero \in Int : zero = 0
      OBVIOUS
    <2>2. zero \in Nat /\ zero <= to
      BY <1>1, <2>1
    <2>3. BuildLedger(AuditData(paid, journal, zero, to)).closing = Upto(paid, journal, to)
      BY <1>1, <2>2, BooksHold, CutIs
    <2>4. QED
      BY <2>1, <2>3
  <1>4. PICK bounds : bounds = resolveRange(paid, "custom", 0, to, day)
    OBVIOUS
  <1>5. Build("custom", 0, to).forecast =
            BuildForecast(billing, CourseDays, CourseAbsences,
                BuildLedger(AuditData(paid, journal, bounds.from, bounds.to)).closing,
                IF billing = "monthly" THEN Now.until ELSE NoDate, day, bounds.to, Marked)
    BY <1>4, Zenon DEF Build
  <1>6. bounds.from = 0 /\ bounds.to = to
    BY <1>2, <1>4
  <1>7. QED
    BY <1>3, <1>5, <1>6

\* The packs of the bot add up to the balance, and the last ends where the page says.
PacksAgree ==
    LET packs == loadPacks
        far == Build("custom", 0, EndOfTime)
        left == Running(0, [i \in DOMAIN packs |-> packs[i].left])
    IN  /\ billing = "per_lesson" =>
              left[Len(packs)] = IF Now.remaining > 0 THEN Now.remaining ELSE 0
        /\ packs # <<>> /\ Last(packs).through # NoDate =>
              far.forecast.paidThrough = Last(packs).through

LEMMA NoPacks ==
    ASSUME loadPacks = <<>>
    PROVE  Len(loadPacks) = 0 /\ Running(0, [i \in DOMAIN loadPacks |-> loadPacks[i].left])[0] = 0
  <1>1. PICK start \in Int : start = 0
    OBVIOUS
  <1>2. PICK none : none = [i \in DOMAIN loadPacks |-> loadPacks[i].left]
    OBVIOUS
  <1>3. none \in Seq(Int)
    BY <1>2
  <1>4. Running(start, none)[0] = start
    BY <1>3, RunningIs
  <1>5. QED
    BY <1>1, <1>2, <1>4

LEMMA PacksDo ==
    ASSUME PayInv
    PROVE  PacksAgree
  <1>1. billing = "per_lesson" \/ billing = "monthly"
    BY BoundsHold DEF PayInv
  <1>2. PICK done \in Nat : done = Now.done
    BY RemainingIs
  <1>3. PICK n \in Int : n = Now.remaining
    BY RemainingIs
  <1>4. n = SumOf(paid) - done /\ SumOf(paid) \in Int
    BY <1>2, <1>3, RemainingIs
  <1>5. PICK all : all = DatesOf(CourseDays, CourseAbsences, FirstAhead(day, Marked), EndOfTime)
    OBVIOUS
  <1>6. Len(all) \in Nat /\ DOMAIN all = 1 .. Len(all)
    <2>1. FirstAhead(day, Marked) \in Int /\ EndOfTime \in Int
      BY FirstIs
    <2>2. all \in Seq(FirstAhead(day, Marked) .. EndOfTime) /\ Len(all) \in Nat
      BY <1>5, <2>1, DatesAre
    <2>3. QED
      BY <2>2
  <1>7. PICK dates : dates = UpcomingDates(CourseDays, CourseAbsences, day, Marked, Now.remaining)
    OBVIOUS
  <1>8. PICK packs : packs = loadPacks
    OBVIOUS
  <1>9. PICK lefts : lefts = [i \in DOMAIN packs |-> packs[i].left]
    OBVIOUS
  <1>10. PICK left : left = Running(0, lefts)
    OBVIOUS
  <1>11. CASE billing = "monthly" \/ n <= 0
    <2>1. packs = <<>>
      BY <1>3, <1>8, <1>11 DEF loadPacks
    <2>2. Len(packs) = 0 /\ left[0] = 0
      BY <1>8, <1>9, <1>10, <2>1, NoPacks
    <2>3. billing = "per_lesson" =>
             left[Len(packs)] = IF Now.remaining > 0 THEN Now.remaining ELSE 0
      BY <1>3, <1>11, <2>2
    <2>4. QED
      BY <1>8, <1>9, <1>10, <2>1, <2>3, Zenon DEF PacksAgree
  <1>12. CASE billing = "per_lesson" /\ n > 0
    <2>1. packs = RemainingPacks(paid, done, dates)
      BY <1>2, <1>3, <1>7, <1>8, <1>12 DEF loadPacks
    <2>2. PICK m, sum, spent :
              /\ Spends(sum, m, spent, done) /\ sum[m] = SumOf(paid)
              /\ Len(packs) = m - spent
              /\ DOMAIN packs = 1 .. m - spent
              /\ \A k \in 1 .. m - spent :
                    /\ packs[k].left = sum[spent + k] - (IF done > sum[(spent + k) - 1] THEN done
                                                         ELSE sum[(spent + k) - 1])
                    /\ packs[k].through = IF sum[spent + k] - done \in DOMAIN dates
                                          THEN dates[sum[spent + k] - done] ELSE NoDate
      BY <2>1, PacksAre
    <2>3. /\ m \in Nat /\ spent \in 0 .. m /\ sum[spent] <= done
          /\ \A i \in 0 .. m : sum[i] \in Int
      BY <2>2 DEF Spends
    <2>4. m # spent
      BY <1>4, <1>12, <2>2, <2>3
    <2>5. PICK k \in Nat : k = m - spent
      BY <2>3
    <2>6. lefts \in Seq(Int) /\ Len(lefts) = m - spent
      <3>1. \A i \in 1 .. k : packs[i].left \in Int
        <4> TAKE i \in 1 .. k
        <4>1. spent + i \in 0 .. m /\ (spent + i) - 1 \in 0 .. m
          BY <2>3, <2>5
        <4>2. sum[spent + i] \in Int /\ sum[(spent + i) - 1] \in Int
          BY <2>3, <4>1
        <4>3. QED
          BY <2>2, <2>5, <4>2
      <3>2. lefts = [i \in 1 .. k |-> packs[i].left]
        BY <1>9, <2>2, <2>5
      <3>3. QED
        BY <2>5, <3>1, <3>2
    <2>7. left[m - spent] = n
      <3>1. \A i \in 1 .. m - spent : lefts[i] = packs[i].left
        BY <1>9, <2>2
      <3>2. \A i \in 1 .. m - spent :
               lefts[i] = sum[spent + i] - (IF done > sum[(spent + i) - 1] THEN done
                                            ELSE sum[(spent + i) - 1])
        BY <2>2, <3>1
      <3>3. left[m - spent] = IF m = spent THEN 0 ELSE sum[m] - done
        BY <1>10, <2>2, <2>6, <3>2, PacksLeft
      <3>4. QED
        BY <1>4, <2>2, <2>4, <3>3
    <2>8. Last(packs).through = IF n \in DOMAIN dates THEN dates[n] ELSE NoDate
      <3>1. k \in 1 .. m - spent /\ spent + k = m /\ Len(packs) = k
        BY <2>2, <2>3, <2>4, <2>5
      <3>2. packs[k].through = IF sum[m] - done \in DOMAIN dates
                               THEN dates[sum[m] - done] ELSE NoDate
        BY <2>2, <3>1
      <3>3. Last(packs) = packs[k]
        BY <3>1 DEF Last
      <3>4. QED
        BY <1>4, <2>2, <3>2, <3>3
    <2>9. ASSUME Last(packs).through # NoDate
          PROVE  Build("custom", 0, EndOfTime).forecast.paidThrough = Last(packs).through
      <3>1. dates = SubSeq(all, 1, IF n < Len(all) THEN n ELSE Len(all))
        BY <1>3, <1>5, <1>7 DEF UpcomingDates
      <3>2. PICK l \in Nat : l = (IF n < Len(all) THEN n ELSE Len(all)) /\ l <= Len(all)
        <4>1. CASE n < Len(all)
          <5>1. n \in Nat
            BY <1>12
          <5>2. n <= Len(all)
            BY <1>6, <4>1
          <5>3. QED
            BY <4>1, <5>1, <5>2
        <4>2. CASE ~(n < Len(all))
          <5>1. PICK w \in Nat : w = Len(all)
            BY <1>6
          <5>2. w = (IF n < Len(all) THEN n ELSE Len(all)) /\ w <= Len(all)
            BY <4>2, <5>1
          <5>3. QED
            BY <5>2
        <4>3. QED
          BY <4>1, <4>2
      <3>3. l <= Len(all) /\ dates = [i \in 1 .. l |-> all[i]]
        <4>1. l <= Len(all)
          BY <3>2
        <4>2. SubSeq(all, 1, l) = [i \in 1 .. l |-> all[i]]
          <5>1. PICK one \in Int : one = 1
            OBVIOUS
          <5>2. SubSeq(all, one, l) = [i \in 1 .. l |-> all[i]]
            BY <5>1
          <5>3. QED
            BY <5>1, <5>2
        <4>3. QED
          BY <3>1, <3>2, <4>1, <4>2
      <3>4. n \in 1 .. l /\ Last(packs).through = all[n]
        BY <2>8, <2>9, <3>3
      <3>5. n \in 1 .. Len(all)
        BY <1>6, <3>3, <3>4
      <3>6. CourseDays # {}
        <4>1. FirstAhead(day, Marked) \in Int /\ EndOfTime \in Int
          BY FirstIs
        <4>2. CourseDays = {} => Len(all) = 0
          BY <1>5, <4>1, NoDates
        <4>3. QED
          BY <3>5, <4>2
      <3>7. EndOfTime \in Dates /\ ~(EndOfTime <= day)
        BY FirstIs DEF Dates
      <3>8. Build("custom", 0, EndOfTime).forecast =
               BuildForecast("per_lesson", CourseDays, CourseAbsences, n, NoDate, day, EndOfTime, Marked)
        BY <1>3, <1>12, <3>7, PageIs, RemainingIs
      <3>9. PICK had : had = {i \in DOMAIN all : i <= n}
        OBVIOUS
      <3>10. BuildForecast("per_lesson", CourseDays, CourseAbsences, n, NoDate, day, EndOfTime, Marked)
                 .paidThrough = IF had = {} THEN NoDate ELSE all[Max(had)]
        <4>1. BuildForecast("per_lesson", CourseDays, CourseAbsences, n, NoDate, day, EndOfTime, Marked)
                 .paidThrough =
                  LET ds == IF EndOfTime <= day \/ CourseDays = {} THEN <<>> ELSE all
                      stock == IF n < 0 THEN 0 ELSE n
                      pd == {i \in DOMAIN ds : i <= stock}
                  IN  IF pd = {} THEN NoDate ELSE ds[Max(pd)]
          BY <1>5 DEF BuildForecast
        <4>2. ~(n < 0)
          BY <1>12
        <4>3. QED
          BY <3>6, <3>7, <3>9, <4>1, <4>2
      <3>11. Max(had) = n /\ had # {}
        <4>1. n \in had /\ had \in SUBSET (0 .. Len(all))
          BY <1>6, <3>5, <3>9
        <4>2. Max(had) \in had /\ n <= Max(had)
          BY <1>6, <4>1, MaxIs
        <4>3. QED
          BY <3>9, <4>1, <4>2, <1>6
      <3>12. QED
        BY <3>4, <3>8, <3>10, <3>11
    <2>10. left[Len(packs)] = IF Now.remaining > 0 THEN Now.remaining ELSE 0
      BY <1>3, <1>12, <2>2, <2>7
    <2>11. QED
      BY <1>8, <1>9, <1>10, <2>9, <2>10, Zenon DEF PacksAgree
  <1>13. QED
    BY <1>1, <1>11, <1>12

\* The ledger is one story however it is cut, the default period opens at the last
\* payment that bought something, and the packs of the bot add up to the same balance
\* and end where the page says it is paid through (BuildLedger, resolveRange,
\* RemainingPacks).
THEOREM LedgersAgree == SpecPasses => []LedgerAgrees
  <1>1. PayInv => LedgerAgrees
    <2> SUFFICES ASSUME PayInv PROVE LedgerAgrees
      OBVIOUS
    <2>1. LedgerIsOne /\ PacksAgree
      BY LedgerOne, PacksDo
    <2>2. \A p \in paid : p.kind = "course" => p.date <= Build("last_payment", NoDate, NoDate).from
      BY DefaultOpens
    <2>3. QED
      BY <2>1, <2>2 DEF LedgerIsOne, PacksAgree, LedgerAgrees
  <1>2. QED
    BY <1>1, PaymentsInvariant, PTL

-----------------------------------------------------------------------------
(* What is paid ahead.                                                      *)

\* The first part of PaidAhead: what is shown as covered is paid.
CoverageHolds ==
    LET days == UNION {p.from .. p.until : p \in coveragePeriods(paid)}
    IN  billing = "monthly" =>
              /\ Now.covered <=> day \in days
              /\ Now.covered => day .. Now.until \subseteq days /\ Now.until + 1 \notin days
              /\ State(billing, Now, Notice, LowThreshold) = "empty"
                    <=> \A d \in days : d < day

LEMMA CoverageDoes == ASSUME PayInv PROVE CoverageHolds
  <1>1. PICK periods : periods = coveragePeriods(paid)
    OBVIOUS
  <1>2. PICK days : days = DaysOf(periods)
    OBVIOUS
  <1>3. Calm(periods) /\ day \in Nat
    BY <1>1, NowIs
  <1>4. PICK end : end = coverageFromToday(periods, day)
    OBVIOUS
  <1>5. /\ end # NoDate <=> day \in days
        /\ end # NoDate => /\ end \in Dates /\ day .. end \subseteq days /\ end + 1 \notin days
    BY <1>2, <1>3, <1>4, CoverageIs
  <1>6. PICK ahead : ahead = upcomingCoverage(periods, day)
    OBVIOUS
  <1>7. ahead.from = NoDate <=> \A p \in periods : p.from <= day
    BY <1>3, <1>6, UpcomingIs
  <1> SUFFICES ASSUME billing = "monthly"
               PROVE  /\ Now.covered <=> day \in days
                      /\ Now.covered => day .. Now.until \subseteq days /\ Now.until + 1 \notin days
                      /\ State(billing, Now, Notice, LowThreshold) = "empty"
                            <=> \A d \in days : d < day
    BY <1>1, <1>2 DEF CoverageHolds, DaysOf
  <1>8. /\ Now.covered <=> end # NoDate
        /\ Now.covered => Now.until = end
        /\ ~Now.covered => Now.prepaid = ahead.from
    <2>1. /\ Now.covered = (billing = "monthly" /\ coverageFromToday(coveragePeriods(paid), day) # NoDate)
          /\ Now.until = IF billing = "monthly"
                              /\ coverageFromToday(coveragePeriods(paid), day) # NoDate
                         THEN coverageFromToday(coveragePeriods(paid), day)
                         ELSE IF billing = "monthly"
                              THEN upcomingCoverage(coveragePeriods(paid), day).until ELSE NoDate
          /\ Now.prepaid = IF billing = "monthly"
                              /\ ~(billing = "monthly"
                                     /\ coverageFromToday(coveragePeriods(paid), day) # NoDate)
                           THEN upcomingCoverage(coveragePeriods(paid), day).from ELSE NoDate
      BY Zenon DEF Now, BalanceOf
    <2>2. QED
      BY <1>1, <1>4, <1>6, <2>1
  <1>9. State(billing, Now, Notice, LowThreshold) = "empty" <=> ~Now.covered /\ Now.prepaid = NoDate
    <2>1. Now.covered \in BOOLEAN
      BY <1>8, Zenon DEF Now, BalanceOf
    <2>2. CASE Now.covered
      BY <2>2 DEF State
    <2>3. CASE ~Now.covered
      BY <2>3 DEF State
    <2>4. QED
      BY <2>2, <2>3
  <1>10. (day \notin days /\ \A p \in periods : p.from <= day) <=> \A d \in days : d < day
    <2>1. \A p \in periods : p.from \in Nat /\ p.until \in Nat /\ p.from <= p.until
      BY <1>3, BoundsHold DEF Calm, Dates
    <2>2. \A d \in days : \E p \in periods : d \in p.from .. p.until
      BY <1>2 DEF DaysOf
    <2>3. \A p \in periods, d \in Int : p.from <= d /\ d <= p.until => d \in days
      BY <1>2 DEF DaysOf
    <2>4. ASSUME day \notin days, \A p \in periods : p.from <= day, NEW d \in days
          PROVE  d < day
      <3>1. PICK p \in periods : d \in p.from .. p.until
        BY <2>2
      <3>2. d \in Int /\ p.from <= day /\ d <= p.until
        BY <2>1, <2>4, <3>1
      <3>3. ~(day <= p.until)
        BY <1>3, <2>3, <2>4, <3>2
      <3>4. QED
        BY <1>3, <2>1, <3>2, <3>3
    <2>5. ASSUME \A d \in days : d < day
          PROVE  day \notin days /\ \A p \in periods : p.from <= day
      <3>1. day \notin days
        BY <1>3, <2>5
      <3>2. \A p \in periods : p.from \in days
        BY <2>1, <2>3
      <3>3. QED
        BY <1>3, <2>1, <2>5, <3>1, <3>2
    <2>6. QED
      BY <2>4, <2>5
  <1>11. QED
    BY <1>5, <1>7, <1>8, <1>9, <1>10

-----------------------------------------------------------------------------
(* What is asked for, of a course paid by the lesson.                       *)

\* How many of the first numbers are at most k.
LEMMA FirstFew ==
    ASSUME NEW L \in Nat, NEW k \in Nat
    PROVE  Cardinality({i \in 1 .. L : i <= k}) = IF k < L THEN k ELSE L
  <1>1. CASE k < L
    <2>1. {i \in 1 .. L : i <= k} = 1 .. k
      BY <1>1
    <2>2. Cardinality(1 .. k) = k
      BY FS_Interval
    <2>3. QED
      BY <1>1, <2>1, <2>2
  <1>2. CASE ~(k < L)
    <2>1. {i \in 1 .. L : i <= k} = 1 .. L
      BY <1>2
    <2>2. Cardinality(1 .. L) = L
      BY FS_Interval
    <2>3. QED
      BY <1>2, <2>1, <2>2
  <1>3. QED
    BY <1>1, <1>2

DatesTo(to) ==
    IF to <= day \/ CourseDays = {} THEN <<>>
    ELSE DatesOf(CourseDays, CourseAbsences, FirstAhead(day, Marked), to)

\* What is asked for is what the balance lacks for the dates.
LEMMA TopUpIs ==
    ASSUME PayInv, NEW to \in Dates, NEW closing \in Int, NEW until
    PROVE  /\ Len(DatesTo(to)) \in Nat
           /\ BuildForecast("per_lesson", CourseDays, CourseAbsences, closing, until, day, to, Marked).topUp =
                 IF to <= day \/ CourseDays = {} THEN 0
                 ELSE IF closing < Len(DatesTo(to)) THEN Len(DatesTo(to)) - closing ELSE 0
  <1>1. PICK dates : dates = DatesTo(to)
    OBVIOUS
  <1>2. FirstAhead(day, Marked) \in Int /\ to \in Int
    BY FirstIs DEF Dates
  <1>3. Len(dates) \in Nat /\ DOMAIN dates = 1 .. Len(dates)
    <2>1. CASE to <= day \/ CourseDays = {}
      BY <1>1, <2>1 DEF DatesTo
    <2>2. CASE ~(to <= day \/ CourseDays = {})
      <3>1. dates \in Seq(FirstAhead(day, Marked) .. to) /\ Len(dates) \in Nat
        BY <1>1, <1>2, <2>2, DatesAre DEF DatesTo
      <3>2. QED
        BY <3>1
    <2>3. QED
      BY <2>1, <2>2
  <1>4. PICK L \in Nat : L = Len(dates)
    BY <1>3
  <1>5. PICK stock \in Nat : stock = IF closing < 0 THEN 0 ELSE closing
    <2>1. closing < 0 \/ closing \in Nat
      OBVIOUS
    <2>2. QED
      BY <2>1
  <1>6. PICK debt : debt = IF closing >= 0 \/ to <= day \/ CourseDays = {} THEN 0 ELSE -closing
    OBVIOUS
  <1>7. BuildForecast("per_lesson", CourseDays, CourseAbsences, closing, until, day, to, Marked).topUp =
            (L - Cardinality({i \in 1 .. L : i <= stock})) + debt
    <2>1. BuildForecast("per_lesson", CourseDays, CourseAbsences, closing, until, day, to, Marked).topUp =
            LET ds == DatesTo(to)
                st == IF closing < 0 THEN 0 ELSE closing
                db == IF closing >= 0 \/ to <= day \/ CourseDays = {} THEN 0 ELSE -closing
            IN  (Len(ds) - Cardinality({i \in DOMAIN ds : i <= st})) + db
      BY DEF BuildForecast, DatesTo
    <2>2. QED
      BY <1>1, <1>3, <1>4, <1>5, <1>6, <2>1
  <1>8. Cardinality({i \in 1 .. L : i <= stock}) = IF stock < L THEN stock ELSE L
    BY FirstFew
  <1>9. CASE to <= day \/ CourseDays = {}
    <2>1. L = 0 /\ debt = 0
      BY <1>1, <1>4, <1>6, <1>9 DEF DatesTo
    <2>2. QED
      BY <1>1, <1>3, <1>7, <1>8, <1>9, <2>1
  <1>10. CASE ~(to <= day \/ CourseDays = {})
    <2>1. debt = IF closing >= 0 THEN 0 ELSE -closing
      BY <1>6, <1>10
    <2>2. (L - (IF stock < L THEN stock ELSE L)) + debt = IF closing < L THEN L - closing ELSE 0
      BY <1>5, <2>1
    <2>3. QED
      BY <1>1, <1>3, <1>4, <1>7, <1>8, <1>10, <2>2
  <1>11. QED
    BY <1>9, <1>10

\* The payments with some more lessons.
With(f) ==
    paid \cup {[id |-> lastPay + 1, kind |-> "course", date |-> 0, lessons |-> f, month |-> 0]}

\* Their balance is that many lessons more.
LEMMA BoughtIs ==
    ASSUME PayInv, NEW f \in Int, NEW to \in Dates
    PROVE  BuildLedger(AuditData(With(f), journal, NoDate, to)).closing = Upto(paid, journal, to) + f
  <1>1. PICK new : new = [id |-> lastPay + 1, kind |-> "course", date |-> 0, lessons |-> f, month |-> 0]
    OBVIOUS
  <1>2. new.id = lastPay + 1 /\ new.date = 0 /\ new.lessons = f
    BY <1>1
  <1>3. lastPay \in Nat /\ \A p \in paid : p.id \in 1 .. lastPay
    BY DEF PayInv, PaymentsHold
  <1>4. PICK P : P = paid \cup {new}
    OBVIOUS
  <1>5. P = With(f)
    BY <1>1, <1>4 DEF With
  <1>6. /\ IsFiniteSet(paid) /\ \A p \in paid : p.date \in Nat /\ p.lessons \in Int
        /\ \A p, q \in paid : p.id = q.id => p = q
        /\ IsFiniteSet(DOMAIN journal) /\ DOMAIN journal \subseteq Nat
    BY BooksHold DEF Books
  <1>7. Books(P, journal)
    <2>1. IsFiniteSet(P)
      BY <1>4, <1>6, FS_AddElement
    <2>2. \A p \in P : p.id \in Nat \ {0} /\ p.date \in Int /\ p.lessons \in Int
      BY <1>2, <1>3, <1>4, <1>6
    <2>3. \A p, q \in P : p.id = q.id => p = q
      BY <1>2, <1>3, <1>4, <1>6
    <2>4. QED
      BY <1>6, <2>1, <2>2, <2>3 DEF Books
  <1>8. \A p \in P : p.date \in Nat
    BY <1>2, <1>4, <1>6
  <1>9. NoDate \in Int /\ to \in Int /\ to \in Nat
    BY BoundsHold DEF NoDate, Dates
  <1>10. BuildLedger(AuditData(P, journal, NoDate, to)).closing = Upto(P, journal, to)
    BY <1>6, <1>7, <1>8, <1>9, CutIs
  <1>11. PaidUpto(P, to) = PaidUpto(paid, to) \cup {new}
    BY <1>2, <1>4, <1>9 DEF PaidUpto
  <1>12. SumOf({new}) = f
    <2>1. PICK g : g = [p \in {new} |-> p.lessons]
      OBVIOUS
    <2>2. PICK S : S = {new}
      OBVIOUS
    <2>3. IsFiniteSet(S) /\ S \ {new} = {} /\ new \in S /\ g[new] = f
      BY <1>2, <2>1, <2>2, FS_Singleton
    <2>4. \A p \in S : g[p] \in Int
      BY <2>2, <2>3
    <2>5. SumFunctionOnSet(g, S) = g[new] + SumFunctionOnSet(g, S \ {new})
      BY <2>3, <2>4, SumWithout
    <2>6. SumFunctionOnSet(g, S) = f
      BY <2>3, <2>5, SumOfNone
    <2>7. QED
      BY <2>1, <2>2, <2>6 DEF SumOf
  <1>13. PICK U : U = PaidUpto(paid, to)
    OBVIOUS
  <1>14. /\ IsFiniteSet(U) /\ SumOf(U) \in Int /\ Cardinality(HeldUpto(journal, to)) \in Nat
    BY <1>9, <1>13, BooksHold, UptoIs
  <1>15. SumOf(U \cup {new}) = SumOf(U) + f
    <2>1. U \in SUBSET paid
      BY <1>13 DEF PaidUpto
    <2>2. U \cap {new} = {} /\ \A p \in U \cup {new} : p.lessons \in Int
      BY <1>2, <1>3, <1>6, <2>1
    <2>3. IsFiniteSet({new})
      BY FS_Singleton
    <2>4. SumOf(U \cup {new}) = SumOf(U) + SumOf({new})
      BY <1>14, <2>2, <2>3, SumOfTwo
    <2>5. QED
      BY <1>12, <2>4
  <1>16. Upto(P, journal, to) = Upto(paid, journal, to) + f
    BY <1>11, <1>13, <1>14, <1>15 DEF Upto
  <1>17. QED
    BY <1>5, <1>10, <1>16

\* The second part of PaidAhead: that many lessons more are enough, one less is not.
LessonsAreEnough ==
    LET page(to) == Build("custom", 0, to).forecast
        with(f, to) == BuildForecast(billing, CourseDays, CourseAbsences,
                          BuildLedger(AuditData(With(f), journal, NoDate, to)).closing, NoDate,
                          day, to, Marked)
    IN  billing = "per_lesson" => \A to \in Dates : LET f == page(to) IN
              /\ with(f.topUp, to).topUp = 0
              /\ f.topUp > 0 => with(f.topUp - 1, to).topUp = 1

LEMMA LessonsDo == ASSUME PayInv PROVE LessonsAreEnough
  <1> SUFFICES ASSUME billing = "per_lesson", NEW to \in Dates
               PROVE  LET f == Build("custom", 0, to).forecast.topUp
                          with(x) == BuildForecast("per_lesson", CourseDays, CourseAbsences,
                             BuildLedger(AuditData(With(x), journal, NoDate, to)).closing, NoDate,
                             day, to, Marked).topUp
                      IN  with(f) = 0 /\ (f > 0 => with(f - 1) = 1)
    BY DEF LessonsAreEnough
  <1>1. PICK c \in Int : c = Upto(paid, journal, to)
    <2>1. to \in Int
      BY DEF Dates
    <2>2. QED
      BY <2>1, BooksHold, UptoIs
  <1>2. PICK L \in Nat : L = Len(DatesTo(to))
    BY <1>1, TopUpIs
  <1>3. \A x \in Int : BuildForecast("per_lesson", CourseDays, CourseAbsences, x, NoDate, day, to, Marked).topUp =
            IF to <= day \/ CourseDays = {} THEN 0 ELSE IF x < L THEN L - x ELSE 0
    BY <1>2, TopUpIs
  <1>4. PICK f : f = Build("custom", 0, to).forecast.topUp
    OBVIOUS
  <1>5. f = IF to <= day \/ CourseDays = {} THEN 0 ELSE IF c < L THEN L - c ELSE 0
    <2>1. Build("custom", 0, to).forecast =
             BuildForecast("per_lesson", CourseDays, CourseAbsences, c, NoDate, day, to, Marked)
      BY <1>1, PageIs
    <2>2. QED
      BY <1>3, <1>4, <2>1
  <1>6. ASSUME NEW x \in Int
        PROVE  BuildForecast("per_lesson", CourseDays, CourseAbsences,
                             BuildLedger(AuditData(With(x), journal, NoDate, to)).closing, NoDate,
                             day, to, Marked).topUp =
                  IF to <= day \/ CourseDays = {} THEN 0 ELSE IF c + x < L THEN L - (c + x) ELSE 0
    <2>1. PICK y \in Int : y = c + x
      OBVIOUS
    <2>2. BuildLedger(AuditData(With(x), journal, NoDate, to)).closing = y
      BY <1>1, <2>1, BoughtIs
    <2>3. QED
      BY <1>3, <2>1, <2>2
  <1>7. f \in Int
    BY <1>5
  <1>8. BuildForecast("per_lesson", CourseDays, CourseAbsences,
                      BuildLedger(AuditData(With(f), journal, NoDate, to)).closing, NoDate,
                      day, to, Marked).topUp = 0
    BY <1>5, <1>6, <1>7
  <1>9. ASSUME f > 0
        PROVE  BuildForecast("per_lesson", CourseDays, CourseAbsences,
                      BuildLedger(AuditData(With(f - 1), journal, NoDate, to)).closing, NoDate,
                      day, to, Marked).topUp = 1
    <2>1. f - 1 \in Int
      BY <1>7
    <2>2. ~(to <= day \/ CourseDays = {}) /\ f = L - c
      BY <1>5, <1>9
    <2>3. c + (f - 1) < L /\ L - (c + (f - 1)) = 1
      BY <2>2
    <2>4. QED
      BY <1>6, <2>1, <2>2, <2>3
  <1>10. QED
    BY <1>4, <1>8, <1>9

-----------------------------------------------------------------------------
(* What is asked for, of a course paid by the month.                        *)

\* A month after a day is later, and not far.
LEMMA MonthLater ==
    ASSUME NEW d \in Dates
    PROVE  /\ NextMonth(d) = d + MonthLens[MonthOf(d)]
           /\ d < NextMonth(d) /\ NextMonth(d) <= 2 * EndOfTime + 1
  <1>1. PICK n \in Nat \ {0} : n = Len(MonthLens)
    BY MonthsAre
  <1>2. PICK m \in 1 .. n : m = MonthOf(d) /\ FirstOf[m] <= d /\ d < FirstOf[m + 1]
    BY <1>1, MonthIs, MonthsAre
  <1>3. FirstOf[m] \in Nat /\ FirstOf[m + 1] \in Nat /\ FirstOf[m + 1] = FirstOf[m] + MonthLens[m]
        /\ MonthLens[m] \in Nat \ {0}
    BY <1>1, FirstDays, FirstDaysRise, MonthsAre
  <1>4. FirstOf[m + 1] <= EndOfTime + 1 /\ EndOfTime \in Nat
    <2>1. m + 1 = n + 1 \/ m + 1 < n + 1
      OBVIOUS
    <2>2. m + 1 \in 1 .. n + 1 /\ n + 1 \in 1 .. n + 1
      OBVIOUS
    <2>3. FirstOf[m + 1] = FirstOf[n + 1] \/ FirstOf[m + 1] < FirstOf[n + 1]
      BY <1>1, <2>1, <2>2, FirstDaysRise
    <2>4. FirstOf[n + 1] = EndOfTime + 1 /\ EndOfTime \in Nat
      BY <1>1, FirstDaysRise
    <2>5. QED
      BY <1>3, <2>3, <2>4
  <1>5. NextMonth(d) = FirstOf[m + 1] + (d - FirstOf[m])
    BY <1>2 DEF NextMonth
  <1>6. d \in Nat /\ d <= EndOfTime
    BY <1>4 DEF Dates
  <1>7. NextMonth(d) = d + MonthLens[m] /\ d < NextMonth(d)
    BY <1>3, <1>5, <1>6
  <1>8. NextMonth(d) <= 2 * EndOfTime + 1
    BY <1>3, <1>4, <1>5, <1>6
  <1>9. QED
    BY <1>2, <1>7, <1>8

\* How many months it takes.
LEMMA MonthsFromIs ==
    ASSUME NEW to \in Dates
    PROVE  /\ MonthLens[1] - 1 \in Dates
           /\ MonthsFrom(to)[MonthLens[1] - 1] \in Nat
           /\ MonthsFrom(to)[-1] = 1 + MonthsFrom(to)[MonthLens[1] - 1]
           /\ \A d \in Dates : MonthsFrom(to)[d] \in Nat
           /\ \A d \in Dates : d >= to => MonthsFrom(to)[d] = 0
           /\ \A d \in Dates : d < to => /\ MonthsFrom(to)[NextMonth(d)] \in Nat
                                         /\ MonthsFrom(to)[d] = 1 + MonthsFrom(to)[NextMonth(d)]
  <1>1. EndOfTime \in Nat /\ to \in Nat /\ to <= EndOfTime
    BY FirstDaysRise DEF Dates
  <1>2. PICK D : D = -1 .. 2 * EndOfTime + 1
    OBVIOUS
  <1>3. \A d \in D : d \in Int /\ d >= -1
    BY <1>1, <1>2
  <1>4. Dates \subseteq D /\ \A d \in D : d < to => d = -1 \/ d \in Dates
    BY <1>1, <1>2 DEF Dates
  <1>5. PICK next : next = [d \in D |-> IF d < 0 THEN MonthLens[1] - 1 ELSE NextMonth(d)]
    OBVIOUS
  <1>6. \A d \in Dates : next[d] = NextMonth(d)
    <2> TAKE d \in Dates
    <2>1. d \in D /\ ~(d < 0)
      BY <1>4 DEF Dates
    <2>2. QED
      BY <1>5, <2>1
  <1>17. MonthLens[1] \in Nat \ {0} /\ MonthLens[1] <= EndOfTime + 1
    <2>1. PICK n \in Nat \ {0} : n = Len(MonthLens)
      BY MonthsAre
    <2>2. MonthLens[1] \in Nat \ {0} /\ FirstOf[1] = 0 /\ FirstOf[1 + 1] = FirstOf[1] + MonthLens[1]
      BY <2>1, MonthsAre, FirstDays
    <2>3. 1 + 1 = n + 1 \/ 1 + 1 < n + 1
      OBVIOUS
    <2>4. 1 + 1 \in 1 .. n + 1 /\ n + 1 \in 1 .. n + 1
      OBVIOUS
    <2>5. FirstOf[1 + 1] = FirstOf[n + 1] \/ FirstOf[1 + 1] < FirstOf[n + 1]
      BY <2>1, <2>3, <2>4, FirstDaysRise
    <2>6. FirstOf[n + 1] = EndOfTime + 1
      BY <2>1, FirstDaysRise
    <2>7. FirstOf[1 + 1] = MonthLens[1]
      BY <2>2
    <2>8. QED
      BY <1>1, <2>2, <2>5, <2>6, <2>7
  <1>7. Climbs(next, D, to)
    <2> SUFFICES ASSUME NEW d \in D, d < to PROVE next[d] \in D /\ d < next[d]
      BY DEF Climbs
    <2>1. CASE d = -1
      <3>1. next[d] = MonthLens[1] - 1
        BY <1>5, <2>1
      <3>2. QED
        BY <1>1, <1>2, <1>17, <2>1, <3>1
    <2>2. CASE d \in Dates
      <3>1. d < NextMonth(d) /\ NextMonth(d) <= 2 * EndOfTime + 1 /\ d \in Nat
        BY <2>2, MonthLater DEF Dates
      <3>2. NextMonth(d) \in Int
        <4>1. NextMonth(d) = d + MonthLens[MonthOf(d)] /\ MonthLens[MonthOf(d)] \in Nat
          BY <2>2, MonthLater, MonthIs, MonthsAre
        <4>2. QED
          BY <3>1, <4>1
      <3>3. QED
        BY <1>1, <1>2, <1>6, <2>2, <3>1, <3>2
    <2>3. QED
      BY <1>4, <2>1, <2>2
  <1>8. PICK h : Counts(h, next, D, to)
    <2>1. PICK least \in Int : least = -1
      OBVIOUS
    <2>2. \A d \in D : d >= least
      BY <1>3, <2>1
    <2>3. D \subseteq Int /\ to \in Int
      BY <1>1, <1>3
    <2>4. QED
      BY <1>7, <2>2, <2>3, CountExists
  <1> DEFINE f == CHOOSE f : f = [d \in -1 .. 2 * EndOfTime + 1 |->
                     IF d >= to THEN 0
                     ELSE 1 + f[IF d < 0 THEN MonthLens[1] - 1 ELSE NextMonth(d)]]
  <1>9. MonthsFrom(to) = f
    BY DEF MonthsFrom
  <1>10. h = [d \in -1 .. 2 * EndOfTime + 1 |->
                     IF d >= to THEN 0
                     ELSE 1 + h[IF d < 0 THEN MonthLens[1] - 1 ELSE NextMonth(d)]]
    <2>1. h \in [D -> Nat] /\ \A d \in D : h[d] = IF d >= to THEN 0 ELSE 1 + h[next[d]]
      BY <1>8 DEF Counts
    <2>2. \A d \in D : next[d] = IF d < 0 THEN MonthLens[1] - 1 ELSE NextMonth(d)
      BY <1>5
    <2>3. h = [d \in D |-> IF d >= to THEN 0 ELSE 1 + h[next[d]]]
      BY <2>1
    <2>4. [d \in D |-> IF d >= to THEN 0 ELSE 1 + h[next[d]]] =
              [d \in D |-> IF d >= to THEN 0
                           ELSE 1 + h[IF d < 0 THEN MonthLens[1] - 1 ELSE NextMonth(d)]]
      BY <2>2
    <2>5. QED
      BY <1>2, <2>3, <2>4
  <1>11. f = [d \in -1 .. 2 * EndOfTime + 1 |->
                     IF d >= to THEN 0
                     ELSE 1 + f[IF d < 0 THEN MonthLens[1] - 1 ELSE NextMonth(d)]]
    BY <1>10
  <1> HIDE DEF f
  <1>12. \A d \in D : f[d] = IF d >= to THEN 0 ELSE 1 + f[next[d]]
    BY <1>2, <1>5, <1>11
  <1>13. \A d \in D : f[d] = h[d]
    <2> DEFINE Good == {k \in Nat : \A d \in D : d >= to - k => f[d] = h[d]}
    <2>1. \A d \in D : h[d] = IF d >= to THEN 0 ELSE 1 + h[next[d]]
      BY <1>8 DEF Counts
    <2>2. 0 \in Good
      <3>1. \A d \in D : d >= to => f[d] = 0 /\ h[d] = 0
        BY <1>12, <2>1
      <3>2. QED
        BY <1>1, <1>3, <3>1
    <2>3. ASSUME NEW k \in Nat, k \in Good PROVE k + 1 \in Good
      <3> SUFFICES ASSUME NEW d \in D, d >= to - (k + 1) PROVE f[d] = h[d]
        OBVIOUS
      <3>1. CASE d >= to
        BY <1>12, <2>1, <3>1
      <3>2. CASE ~(d >= to)
        <4>1. next[d] \in D /\ d < next[d]
          BY <1>1, <1>3, <1>7, <3>2 DEF Climbs
        <4>2. next[d] >= to - k
          BY <1>1, <1>3, <4>1
        <4>3. f[next[d]] = h[next[d]]
          BY <2>3, <4>1, <4>2
        <4>4. QED
          BY <1>12, <2>1, <3>2, <4>3
      <3>3. QED
        BY <3>1, <3>2
    <2>4. Nat \subseteq Good
      <3> HIDE DEF Good
      <3>1. QED
        BY <2>2, <2>3, NumberInduction
    <2>5. PICK k \in Nat : k = to + 1
      BY <1>1
    <2>6. \A d \in D : d >= to - k
      BY <1>1, <1>3, <2>5
    <2>7. QED
      BY <2>4, <2>6
  <1>14. \A d \in D : f[d] \in Nat
    BY <1>8, <1>13 DEF Counts
  <1>15. ASSUME NEW d \in Dates
         PROVE  /\ f[d] \in Nat
                /\ d >= to => f[d] = 0
                /\ d < to => f[NextMonth(d)] \in Nat /\ f[d] = 1 + f[NextMonth(d)]
    <2>1. d \in D /\ d \in Int
      BY <1>3, <1>4
    <2>2. d < to => next[d] \in D /\ next[d] = NextMonth(d) /\ ~(d >= to)
      BY <1>1, <1>6, <1>7, <2>1 DEF Climbs
    <2>3. QED
      BY <1>12, <1>14, <2>1, <2>2
  <1>16. MonthLens[1] - 1 \in Dates /\ f[MonthLens[1] - 1] \in Nat /\ f[-1] = 1 + f[MonthLens[1] - 1]
    <2>1. PICK d : d = -1
      OBVIOUS
    <2>2. d \in D /\ d < 0 /\ ~(d >= to)
      BY <1>1, <1>2, <2>1
    <2>3. next[d] = MonthLens[1] - 1
      BY <1>5, <2>2
    <2>4. MonthLens[1] - 1 \in Dates
      BY <1>1, <1>17 DEF Dates
    <2>5. f[d] = 1 + f[MonthLens[1] - 1]
      BY <1>12, <2>2, <2>3
    <2>6. f[MonthLens[1] - 1] \in Nat
      BY <1>15, <2>4
    <2>7. QED
      BY <2>1, <2>4, <2>5, <2>6
  <1>18. QED
    BY <1>9, <1>15, <1>16

\* Months that do not get shorter take one from a day to the month that is as far ahead.
LEMMA MonthsReach ==
    ASSUME NEW to \in Dates, NEW from \in Dates, NEW m \in Months, NEW M \in Months,
           m = MonthOf(from), M = MonthOf(to),
           \A i \in m .. M - 1 : MonthLens[i] <= MonthLens[i + 1],
           NEW k \in Nat, k = MonthsFrom(to)[from], m + k < M
    PROVE  FALSE
  <1>1. PICK n \in Nat \ {0} : n = Len(MonthLens)
    BY MonthsAre
  <1>2. /\ m \in 1 .. n /\ M \in 1 .. n
        /\ \A i \in 1 .. n : MonthLens[i] \in Nat \ {0} /\ FirstOf[i] \in Nat /\ FirstOf[i + 1] \in Nat
        /\ \A i \in 1 .. n : FirstOf[i + 1] = FirstOf[i] + MonthLens[i]
    <2>1. \A i \in 1 .. n : i \in 1 .. n + 1 /\ i + 1 \in 1 .. n + 1
      OBVIOUS
    <2>2. QED
      BY <1>1, <2>1, MonthsAre, FirstDays, FirstDaysRise
  <1>3. PICK l \in Nat \ {0} : l <= MonthLens[m] /\ from = FirstOf[m] + l - 1
    <2>1. FirstOf[m] <= from /\ from < FirstOf[m + 1] /\ from \in Nat
      BY MonthIs DEF Dates
    <2>2. /\ (from - FirstOf[m]) + 1 \in Nat \ {0} /\ (from - FirstOf[m]) + 1 <= MonthLens[m]
          /\ from = FirstOf[m] + ((from - FirstOf[m]) + 1) - 1
      BY <1>2, <2>1
    <2>3. QED
      BY <2>2
  <1>4. PICK count : count = MonthsFrom(to)
    OBVIOUS
  <1>5. /\ \A d \in Dates : count[d] \in Nat
        /\ \A d \in Dates : d >= to => count[d] = 0
        /\ \A d \in Dates : d < to => count[NextMonth(d)] \in Nat /\ count[d] = 1 + count[NextMonth(d)]
    BY <1>4, MonthsFromIs
  <1>6. \A i \in 1 .. n : FirstOf[i + 1] - 1 <= EndOfTime /\ EndOfTime \in Nat
    <2> TAKE i \in 1 .. n
    <2>1. i + 1 = n + 1 \/ i + 1 < n + 1
      OBVIOUS
    <2>2. i + 1 \in 1 .. n + 1 /\ n + 1 \in 1 .. n + 1
      OBVIOUS
    <2>3. FirstOf[i + 1] = FirstOf[n + 1] \/ FirstOf[i + 1] < FirstOf[n + 1]
      BY <1>1, <2>1, <2>2, FirstDaysRise
    <2>4. FirstOf[n + 1] = EndOfTime + 1 /\ EndOfTime \in Nat
      BY <1>1, FirstDaysRise
    <2>5. QED
      BY <1>2, <2>3, <2>4
  <1>7. ASSUME NEW i \in 1 .. n, l <= MonthLens[i]
        PROVE  /\ FirstOf[i] + l - 1 \in Dates /\ MonthOf(FirstOf[i] + l - 1) = i
               /\ NextMonth(FirstOf[i] + l - 1) = FirstOf[i + 1] + l - 1
    <2>1. PICK d \in Int : d = FirstOf[i] + l - 1
      BY <1>2, <1>3
    <2>2. FirstOf[i] <= d /\ d < FirstOf[i + 1] /\ d \in Nat
      BY <1>2, <1>3, <1>7, <2>1
    <2>3. d \in Dates
      BY <1>2, <1>6, <2>2 DEF Dates
    <2>4. i \in Months
      BY <1>1, MonthsAre
    <2>5. MonthOf(d) = i
      BY <2>2, <2>3, <2>4, MonthIs
    <2>6. NextMonth(d) = FirstOf[i + 1] + (d - FirstOf[i])
      BY <2>5 DEF NextMonth
    <2>7. NextMonth(d) = FirstOf[i + 1] + l - 1
      BY <1>2, <1>3, <2>1, <2>6
    <2>8. QED
      BY <2>1, <2>3, <2>5, <2>7
  <1> DEFINE At(j) == FirstOf[m + j] + l - 1
             Good == {j \in Nat : j <= k => l <= MonthLens[m + j] /\ count[At(j)] = k - j}
  <1>8. \A j \in 0 .. k : m + j \in 1 .. n /\ m + j < M
    BY <1>2
  <1>9. 0 \in Good
    <2>1. At(0) = from /\ m + 0 = m
      BY <1>2, <1>3
    <2>2. count[At(0)] = k
      BY <1>4, <2>1
    <2> HIDE DEF At
    <2>3. QED
      BY <1>3, <2>1, <2>2
  <1>10. ASSUME NEW j \in Nat, j \in Good PROVE j + 1 \in Good
    <2> SUFFICES ASSUME j + 1 <= k
                 PROVE  l <= MonthLens[m + (j + 1)] /\ count[At(j + 1)] = k - (j + 1)
      OBVIOUS
    <2>1. j <= k /\ j \in 0 .. k /\ m + j \in 1 .. n /\ m + j \in m .. M - 1 /\ (m + j) + 1 = m + (j + 1)
          /\ m + (j + 1) \in 1 .. n
      BY <1>2, <1>8
    <2>2. l <= MonthLens[m + j] /\ count[At(j)] = k - j
      BY <1>10, <2>1
    <2>3. MonthLens[m + j] <= MonthLens[m + (j + 1)]
      BY <2>1
    <2>4. l <= MonthLens[m + (j + 1)]
      BY <1>2, <1>3, <2>1, <2>2, <2>3
    <2>5. At(j) \in Dates /\ NextMonth(At(j)) = At(j + 1)
      <3>1. /\ FirstOf[m + j] + l - 1 \in Dates
            /\ NextMonth(FirstOf[m + j] + l - 1) = FirstOf[(m + j) + 1] + l - 1
        BY <1>7, <2>1, <2>2
      <3>2. QED
        BY <2>1, <3>1
    <2>6. At(j) < to
      <3>1. count[At(j)] # 0
        BY <2>2
      <3>2. ~(At(j) >= to)
        BY <1>5, <2>5, <3>1
      <3>3. At(j) \in Int /\ to \in Int
        BY <2>5 DEF Dates
      <3> HIDE DEF At
      <3>4. QED
        BY <3>2, <3>3
    <2> HIDE DEF At
    <2>7. count[At(j + 1)] \in Nat /\ count[At(j)] = 1 + count[At(j + 1)]
      BY <1>5, <2>5, <2>6
    <2>8. QED
      BY <2>2, <2>4, <2>7
  <1>11. k \in Good
    <2> HIDE DEF Good
    <2>1. QED
      BY <1>9, <1>10, NumberInduction
  <1>12. PICK i \in 1 .. n : i = m + k /\ i < M
    BY <1>8
  <1>13. l <= MonthLens[i] /\ count[FirstOf[i] + l - 1] = 0
    BY <1>11, <1>12
  <1>14. PICK d \in Dates : d = FirstOf[i] + l - 1
    BY <1>7, <1>13
  <1>15. d >= to
    <2>1. d \in Int /\ to \in Int
      BY DEF Dates
    <2>2. d < to => count[NextMonth(d)] \in Nat /\ count[d] = 1 + count[NextMonth(d)]
      BY <1>5
    <2>3. count[d] = 0
      BY <1>13, <1>14
    <2>4. ~(d < to)
      BY <2>2, <2>3
    <2>5. QED
      BY <2>1, <2>4
  <1>16. d < FirstOf[i + 1]
    BY <1>2, <1>3, <1>13, <1>14
  <1>17. FirstOf[i + 1] <= FirstOf[M]
    <2>1. i + 1 = M \/ i + 1 < M
      BY <1>2, <1>12
    <2>2. i + 1 \in 1 .. n + 1 /\ M \in 1 .. n + 1
      BY <1>2
    <2>3. FirstOf[i + 1] = FirstOf[M] \/ FirstOf[i + 1] < FirstOf[M]
      BY <1>1, <2>1, <2>2, FirstDaysRise
    <2>4. QED
      BY <1>2, <2>3
  <1>18. FirstOf[M] <= to
    BY MonthIs
  <1>19. QED
    <2>1. d \in Int /\ to \in Int /\ FirstOf[M] \in Int /\ FirstOf[i + 1] \in Int
      BY <1>2 DEF Dates
    <2>2. QED
      BY <1>15, <1>16, <1>17, <1>18, <2>1

\* The last part of PaidAhead: that many months more take what is paid to the end.
MonthsAreEnough ==
    LET page(to) == Build("custom", 0, to).forecast
        month(d) == IF d < 0 THEN 0 ELSE MonthOf(d)
        last(n) == Min({n, Len(MonthLens)})
        reached(n) == FirstOf[last(n) + 1] - 1
    IN  billing = "monthly" => \A to \in day + 1 .. EndOfTime :
              LET f == page(to)
                  begin == month(IF Now.until # NoDate THEN Now.until ELSE f.dates[1] - 1)
              IN  /\ f.uncovered > 0
                  /\ \A m \in Months : begin <= m /\ m < MonthOf(to) =>
                                          MonthLens[m] <= MonthLens[m + 1]
                  => f.topUp > 0 /\ reached(begin + f.topUp) >= to

\* What is paid, now or ahead, ends on a date.
LEMMA PaidUntil ==
    ASSUME PayInv
    PROVE  /\ Now.until \in {NoDate} \cup Dates
           /\ \A d \in Dates : d # NoDate
  <1>1. PICK periods : periods = coveragePeriods(paid)
    OBVIOUS
  <1>2. Calm(periods) /\ day \in Nat
    BY <1>1, NowIs
  <1>3. PICK end : end = coverageFromToday(periods, day)
    OBVIOUS
  <1>4. PICK ahead : ahead = upcomingCoverage(periods, day)
    OBVIOUS
  <1>5. Now.until = IF billing = "monthly" /\ end # NoDate THEN end
                    ELSE IF billing = "monthly" THEN ahead.until ELSE NoDate
    <2>1. Now.until = IF billing = "monthly"
                              /\ coverageFromToday(coveragePeriods(paid), day) # NoDate
                         THEN coverageFromToday(coveragePeriods(paid), day)
                         ELSE IF billing = "monthly"
                              THEN upcomingCoverage(coveragePeriods(paid), day).until ELSE NoDate
      BY Zenon DEF Now, BalanceOf
    <2>2. QED
      BY <1>1, <1>3, <1>4, <2>1
  <1>6. end # NoDate => end \in Dates
    BY <1>2, <1>3, CoverageIs
  <1>7. ahead.until \in {NoDate} \cup Dates
    BY <1>2, <1>4, UpcomingIs
  <1>8. \A d \in Dates : d # NoDate
    BY FirstDaysRise DEF Dates, NoDate
  <1>9. QED
    BY <1>5, <1>6, <1>7, <1>8

\* The dates a page goes over.
LEMMA TopUpLength ==
    ASSUME PayInv, NEW to \in Dates
    PROVE  Len(DatesTo(to)) \in Nat /\ DOMAIN DatesTo(to) = 1 .. Len(DatesTo(to))
  <1>1. CASE to <= day \/ CourseDays = {}
    BY <1>1 DEF DatesTo
  <1>2. CASE ~(to <= day \/ CourseDays = {})
    <2>1. FirstAhead(day, Marked) \in Int /\ to \in Int
      BY FirstIs DEF Dates
    <2>2. PICK D : D = FirstAhead(day, Marked) .. to
      OBVIOUS
    <2>3. DatesTo(to) \in Seq(D) /\ Len(DatesTo(to)) \in Nat
      BY <1>2, <2>1, <2>2, DatesAre DEF DatesTo
    <2>4. QED
      BY <2>3
  <1>3. QED
    BY <1>1, <1>2

\* The day a page counts the months from.
CountedFrom(to) ==
    IF Now.until # NoDate THEN Now.until ELSE Build("custom", 0, to).forecast.dates[1] - 1

\* What the page says of a monthly course: it counts from a day before the end.
LEMMA MonthlyPage ==
    ASSUME PayInv, billing = "monthly", NEW to \in Dates,
           Build("custom", 0, to).forecast.uncovered > 0
    PROVE  /\ CountedFrom(to) \in {-1} \cup Dates /\ CountedFrom(to) < to
           /\ Build("custom", 0, to).forecast.topUp = MonthsFrom(to)[CountedFrom(to)]
  <1>1. PICK until \in {NoDate} \cup Dates : until = Now.until
    BY PaidUntil
  <1>2. until # NoDate => until \in Dates
    BY <1>1
  <1>3. PICK dates : dates = DatesTo(to)
    OBVIOUS
  <1>4. PICK c : c = Upto(paid, journal, to)
    OBVIOUS
  <1>5. Build("custom", 0, to).forecast =
            BuildForecast("monthly", CourseDays, CourseAbsences, c, until, day, to, Marked)
    BY <1>1, <1>4, PageIs
  <1>6. PICK had : had = {i \in DOMAIN dates : until # NoDate /\ dates[i] <= until}
    OBVIOUS
  <1>7. PICK f : f = BuildForecast("monthly", CourseDays, CourseAbsences, c, until, day, to, Marked)
    OBVIOUS
  <1>8. /\ f.uncovered = Len(dates) - Cardinality(had) /\ f.dates = dates
        /\ f.topUp = monthsToCover(until, dates, f.uncovered, to)
    BY <1>3, <1>6, <1>7 DEF BuildForecast, DatesTo
  <1>9. f.uncovered > 0
    BY <1>5, <1>7
  <1>10. to \in Nat /\ to <= EndOfTime /\ day \in Int /\ EndOfTime \in Nat /\ NoDate = -1
         /\ \A d \in Dates : d \in Nat
    BY FirstIs, FirstDaysRise DEF Dates, NoDate
  <1>11. PICK from : from = IF until # NoDate THEN until ELSE dates[1] - 1
    OBVIOUS
  <1>12. CountedFrom(to) = from
    BY <1>1, <1>5, <1>7, <1>8, <1>11 DEF CountedFrom
  <1>13. PICK L \in Nat : L = Len(dates) /\ DOMAIN dates = 1 .. L
    BY <1>3, TopUpLength
  <1>14. \A i \in 1 .. L : dates[i] \in Nat /\ dates[i] <= to
    <2>1. CASE to <= day \/ CourseDays = {}
      BY <1>3, <1>13, <2>1 DEF DatesTo
    <2>2. CASE ~(to <= day \/ CourseDays = {})
      <3>1. FirstAhead(day, Marked) \in Nat
        BY FirstIs
      <3>2. PICK D : D = FirstAhead(day, Marked) .. to
        OBVIOUS
      <3>3. dates \in Seq(D)
        BY <1>3, <1>10, <2>2, <3>1, <3>2, DatesAre DEF DatesTo
      <3>4. \A i \in 1 .. L : dates[i] \in D
        BY <1>13, <3>3
      <3>5. QED
        BY <1>10, <3>1, <3>2, <3>4
    <2>3. QED
      BY <2>1, <2>2
  <1>15. Cardinality(1 .. L) = L /\ Cardinality({}) = 0
    BY FS_Interval, FS_EmptySet
  <1>16. from \in {-1} \cup Dates /\ from < to
    <2>1. CASE until = NoDate
      <3>1. had = {}
        BY <1>6, <2>1
      <3>2. 1 \in 1 .. L
        BY <1>8, <1>9, <1>13, <1>15, <3>1
      <3>3. PICK first \in Nat : first = dates[1] /\ first <= to
        BY <1>14, <3>2
      <3>4. from = first - 1
        BY <1>11, <2>1, <3>3
      <3>5. from = -1 \/ from \in 0 .. EndOfTime
        BY <1>10, <3>3, <3>4
      <3>6. QED
        BY <1>10, <3>3, <3>4, <3>5 DEF Dates
    <2>2. CASE until # NoDate
      <3> SUFFICES ASSUME ~(until < to) PROVE FALSE
        BY <1>2, <1>11, <2>2
      <3>1. until \in Nat
        BY <1>2, <1>10, <2>2
      <3>2. had = 1 .. L
        BY <1>6, <1>10, <1>13, <1>14, <2>2, <3>1
      <3>3. QED
        BY <1>8, <1>9, <1>13, <1>15, <3>2
    <2>3. QED
      BY <2>1, <2>2
  <1>17. f.topUp = MonthsFrom(to)[from]
    <2>1. f.uncovered # 0
      BY <1>9
    <2>2. QED
      BY <1>8, <1>11, <2>1 DEF monthsToCover
  <1>18. QED
    BY <1>5, <1>7, <1>12, <1>16, <1>17

\* Counted so, the months lead to the month of the end.
LEMMA MonthsLead ==
    ASSUME NEW to \in Dates, NEW from \in {-1} \cup Dates, from < to,
           NEW begin, begin = IF from < 0 THEN 0 ELSE MonthOf(from),
           NEW M \in Months, M = MonthOf(to),
           \A m \in Months : begin <= m /\ m < M => MonthLens[m] <= MonthLens[m + 1],
           NEW k \in Nat, k = MonthsFrom(to)[from]
    PROVE  begin \in Nat /\ k > 0 /\ M <= begin + k
  <1>1. PICK n \in Nat \ {0} : n = Len(MonthLens) /\ Months = 1 .. n
    BY MonthsAre
  <1>2. \A d \in Dates : d \in Nat
    BY DEF Dates
  <1>3. CASE from = -1
    <2>1. begin = 0
      BY <1>3
    <2>2. PICK day1 \in Dates : day1 = MonthLens[1] - 1
      BY MonthsFromIs
    <2>3. PICK k1 \in Nat : k1 = MonthsFrom(to)[day1] /\ k = 1 + k1
      BY <1>3, <2>2, MonthsFromIs
    <2>4. PICK m \in Months : m = 1 /\ m = MonthOf(day1)
      <3>1. 1 \in Months /\ FirstOf[1] = 0 /\ FirstOf[1 + 1] = FirstOf[1] + MonthLens[1]
            /\ MonthLens[1] \in Nat \ {0}
        BY <1>1, MonthsAre, FirstDays
      <3>2. FirstOf[1] <= day1 /\ day1 < FirstOf[1 + 1]
        BY <2>2, <3>1
      <3>3. MonthOf(day1) = 1
        BY <3>1, <3>2, MonthIs
      <3>4. QED
        BY <3>1, <3>3
    <2>5. \A i \in m .. M - 1 : MonthLens[i] <= MonthLens[i + 1]
      <3>1. \A i \in m .. M - 1 : i \in Months /\ begin <= i /\ i < M
        BY <1>1, <2>1, <2>4
      <3>2. QED
        BY <3>1
    <2>6. ~(m + k1 < M)
      BY <2>3, <2>4, <2>5, MonthsReach
    <2>7. QED
      BY <1>1, <2>1, <2>3, <2>4, <2>6
  <1>4. CASE from \in Dates
    <2>1. ~(from < 0)
      BY <1>2, <1>4
    <2>2. PICK m \in Months : m = MonthOf(from) /\ begin = m
      BY <1>4, <2>1, MonthIs
    <2>3. \A i \in m .. M - 1 : MonthLens[i] <= MonthLens[i + 1]
      <3>1. \A i \in m .. M - 1 : i \in Months /\ begin <= i /\ i < M
        BY <1>1, <2>2
      <3>2. QED
        BY <3>1
    <2>4. ~(m + k < M)
      BY <1>4, <2>2, <2>3, MonthsReach
    <2>5. k > 0
      BY <1>4, MonthsFromIs
    <2>6. QED
      BY <1>1, <2>2, <2>4, <2>5
  <1>5. QED
    BY <1>3, <1>4

LEMMA MonthsDo == ASSUME PayInv PROVE MonthsAreEnough
  <1> DEFINE page(to) == Build("custom", 0, to).forecast
             month(d) == IF d < 0 THEN 0 ELSE MonthOf(d)
             counted(to) == IF Now.until # NoDate THEN Now.until ELSE page(to).dates[1] - 1
  <1> SUFFICES ASSUME billing = "monthly", NEW to \in day + 1 .. EndOfTime,
                      page(to).uncovered > 0,
                      \A m \in Months : month(counted(to)) <= m /\ m < MonthOf(to) =>
                                            MonthLens[m] <= MonthLens[m + 1]
               PROVE  /\ page(to).topUp > 0
                      /\ FirstOf[Min({month(counted(to)) + page(to).topUp, Len(MonthLens)}) + 1] - 1 >= to
    BY DEF MonthsAreEnough
  <1>1. to \in Dates /\ to \in Nat /\ EndOfTime \in Nat
    BY FirstIs DEF Dates
  <1>2. PICK from \in {-1} \cup Dates : /\ from = CountedFrom(to) /\ from < to
                                        /\ page(to).topUp = MonthsFrom(to)[from]
    BY <1>1, MonthlyPage
  <1>3. from = counted(to)
    BY <1>2 DEF CountedFrom
  <1>4. PICK begin : begin = IF from < 0 THEN 0 ELSE MonthOf(from)
    OBVIOUS
  <1>5. begin = month(counted(to))
    BY <1>3, <1>4
  <1>6. PICK k \in Nat : k = page(to).topUp /\ k = MonthsFrom(to)[from]
    BY <1>1, <1>2, MonthsFromIs
  <1> HIDE DEF page, month, counted
  <1>7. PICK n \in Nat \ {0} : n = Len(MonthLens) /\ Months = 1 .. n
    BY MonthsAre
  <1>8. PICK M \in 1 .. n : M = MonthOf(to) /\ FirstOf[M] <= to /\ to < FirstOf[M + 1]
    BY <1>1, <1>7, MonthIs, MonthsAre
  <1>9. \A i \in 1 .. n + 1 : FirstOf[i] \in Nat
    BY <1>7, FirstDaysRise
  <1>10. \A i, j \in 1 .. n + 1 : i < j => FirstOf[i] < FirstOf[j]
    BY <1>7, FirstDaysRise
  <1>11. begin \in Nat /\ k > 0 /\ M <= begin + k
    <2>1. \A m \in Months : begin <= m /\ m < M => MonthLens[m] <= MonthLens[m + 1]
      BY <1>5, <1>8
    <2>2. M \in Months
      BY <1>7
    <2>3. QED
      BY <1>1, <1>2, <1>4, <1>6, <1>8, <2>1, <2>2, MonthsLead
  <1>12. PICK l \in M .. n : l = Min({begin + k, n})
    <2>1. CASE begin + k <= n
      <3>1. Min({begin + k, n}) = begin + k
        BY <1>11, <2>1 DEF Min
      <3>2. QED
        BY <1>11, <2>1, <3>1
    <2>2. CASE ~(begin + k <= n)
      <3>1. Min({begin + k, n}) = n
        BY <1>11, <2>2 DEF Min
      <3>2. QED
        BY <3>1
    <2>3. QED
      BY <2>1, <2>2
  <1>13. FirstOf[l + 1] - 1 >= to
    <2>1. l + 1 \in 1 .. n + 1 /\ M + 1 \in 1 .. n + 1 /\ (l = M \/ M + 1 < l + 1)
      OBVIOUS
    <2>2. FirstOf[l + 1] >= FirstOf[M + 1] /\ FirstOf[l + 1] \in Nat /\ FirstOf[M + 1] \in Nat
      BY <1>9, <1>10, <2>1
    <2>3. QED
      BY <1>1, <1>8, <2>2
  <1>14. QED
    BY <1>5, <1>6, <1>7, <1>11, <1>12, <1>13

\* A monthly course is covered exactly on the days paid without a gap and never shown
\* empty while a day ahead is paid.  What the page asks for by the lesson is enough and
\* not too much; by the month, where no month is shorter than the one before it, it is
\* enough after the paid run of now or the first ahead, and with nothing paid after the
\* month of the day before the first lesson (coverageFromToday, upcomingCoverage,
\* BuildForecast, monthsToCover).
THEOREM AheadIsPaid == SpecPasses => []PaidAhead
  <1>1. PayInv => PaidAhead
    <2> SUFFICES ASSUME PayInv PROVE PaidAhead
      OBVIOUS
    <2>1. CoverageHolds /\ LessonsAreEnough /\ MonthsAreEnough
      BY CoverageDoes, LessonsDo, MonthsDo
    <2>2. QED
      BY <2>1 DEF CoverageHolds, LessonsAreEnough, MonthsAreEnough, With, PaidAhead
  <1>2. QED
    BY <1>1, PaymentsInvariant, PTL
=============================================================================
