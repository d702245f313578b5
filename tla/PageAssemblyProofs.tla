------------------------- MODULE PageAssemblyProofs -------------------------
(***************************************************************************)
(* Proofs about PageAssembly, for a page of any size and any finite number *)
(* of words, rules and pictures on it.                                     *)
(***************************************************************************)
EXTENDS PageAssembly, FiniteSetTheorems, WellFoundedInduction, TLAPS

-----------------------------------------------------------------------------
(* Induction over numbers, for a set of them rather than an operator.      *)

(* What holds of 0 and goes from each number below N to the next one holds *)
(* of all up to N.                                                         *)
LEMMA UpTo ==
  ASSUME NEW N \in Nat, NEW P, 0 \in P, \A n \in 0 .. N - 1 : n \in P => n + 1 \in P
  PROVE \A n \in 0 .. N : n \in P
<1> SUFFICES ASSUME NEW n \in 0 .. N, n \notin P  PROVE FALSE
  OBVIOUS
<1> DEFINE Bad == {T \in FiniteSubsetsOf(0 .. N) : \E k \in 0 .. N : k \notin P /\ T = 0 .. k}
<1>1. Bad \subseteq FiniteSubsetsOf(0 .. N)
  OBVIOUS
<1>2. Bad # {}
  <2>1. 0 .. n \in FiniteSubsetsOf(0 .. N)
    BY FS_Interval DEF FiniteSubsetsOf
  <2> QED BY <2>1
<1>3. PICK T \in Bad : \A U \in Bad : <<U, T>> \notin StrictSubsetOrdering(0 .. N)
  <2> HIDE DEF Bad
  <2> QED BY <1>1, <1>2, FS_StrictSubsetOrderingWellFounded, WFMin
<1>4. PICK k \in 0 .. N : k \notin P /\ T = 0 .. k
  OBVIOUS
<1>5. k # 0 /\ k - 1 \in 0 .. N - 1 /\ k - 1 \in 0 .. N /\ k = (k - 1) + 1
  BY <1>4
<1>6. k - 1 \notin P
  BY <1>4, <1>5
<1>7. 0 .. k - 1 \in Bad
  <2>1. IsFiniteSet(0 .. k - 1)
    BY FS_Interval
  <2>2. 0 .. k - 1 \in SUBSET (0 .. N)
    BY <1>5
  <2> QED BY <1>5, <1>6, <2>1, <2>2 DEF FiniteSubsetsOf
<1>8. <<0 .. k - 1, T>> \in StrictSubsetOrdering(0 .. N)
  <2>1. 0 .. k - 1 \subseteq 0 .. k /\ k \in 0 .. k /\ k \notin 0 .. k - 1 /\ 0 .. k \subseteq 0 .. N
    BY <1>5
  <2> QED BY <1>4, <2>1 DEF StrictSubsetOrdering
<1> QED BY <1>3, <1>7, <1>8

-----------------------------------------------------------------------------
(* Lists in order                                                          *)

(* A finite set and an order of its elements, as a set of pairs.           *)
Ordered(S, R) ==
  /\ IsFiniteSet(S)
  /\ \A x \in S : <<x, x>> \notin R
  /\ \A x, y, z \in S : <<x, y>> \in R /\ <<y, z>> \in R => <<x, z>> \in R
  /\ \A x, y \in S : x # y => <<x, y>> \in R \/ <<y, x>> \in R
Before(S, R, x) == {y \in S : <<y, x>> \in R}
Enumerated(s, S, R) ==
  /\ DOMAIN s = 1 .. Cardinality(S)
  /\ \A i \in 1 .. Cardinality(S) :
       (\E x \in S : Cardinality(Before(S, R, x)) = i - 1)
         => s[i] \in S /\ Cardinality(Before(S, R, s[i])) = i - 1

(* Fewer elements are before x than there are, and before y more if x is.  *)
LEMMA BeforeSizes ==
  ASSUME NEW S, NEW R, Ordered(S, R), NEW x \in S
  PROVE /\ Cardinality(S) \in Nat
        /\ Cardinality(Before(S, R, x)) \in 0 .. Cardinality(S) - 1
        /\ \A y \in S : <<x, y>> \in R
             => Cardinality(Before(S, R, x)) < Cardinality(Before(S, R, y))
<1>1. IsFiniteSet(S) /\ Cardinality(S) \in Nat
  BY FS_CardinalityType DEF Ordered
<1>2. \A T \in SUBSET S : IsFiniteSet(T) /\ Cardinality(T) \in Nat
  BY <1>1, FS_Subset, FS_CardinalityType
<1>3. Before(S, R, x) \in SUBSET (S \ {x}) /\ S \ {x} \in SUBSET S
  BY DEF Before, Ordered
<1>4. Cardinality(Before(S, R, x)) <= Cardinality(S \ {x})
  BY <1>2, <1>3, FS_Subset
<1>5. Cardinality(S \ {x}) = Cardinality(S) - 1
  BY <1>1, FS_RemoveElement
<1>6. Cardinality(Before(S, R, x)) \in Nat
  BY <1>2, <1>3
<1>7. ASSUME NEW y \in S, <<x, y>> \in R
      PROVE Cardinality(Before(S, R, x)) < Cardinality(Before(S, R, y))
  <2>1. Before(S, R, x) \cup {x} \in SUBSET Before(S, R, y) /\ x \notin Before(S, R, x)
    BY <1>7 DEF Before, Ordered
  <2>2. Before(S, R, y) \in SUBSET S /\ Before(S, R, x) \in SUBSET S
    BY DEF Before
  <2>3. Cardinality(Before(S, R, x) \cup {x}) = Cardinality(Before(S, R, x)) + 1
    BY <1>2, <2>1, <2>2, FS_AddElement
  <2>4. Cardinality(Before(S, R, x) \cup {x}) <= Cardinality(Before(S, R, y))
    BY <1>2, <2>1, <2>2, FS_Subset
  <2>5. Cardinality(Before(S, R, y)) \in Nat
    BY <1>2, <2>2
  <2> QED BY <1>6, <2>3, <2>4, <2>5
<1> QED BY <1>1, <1>4, <1>5, <1>6, <1>7

(* The list holds each element once, the lesser ones first.                *)
LEMMA Enumerates ==
  ASSUME NEW S, NEW R, Ordered(S, R), NEW s, Enumerated(s, S, R)
  PROVE
    /\ Cardinality(S) \in Nat /\ DOMAIN s = 1 .. Cardinality(S)
    /\ \A i \in DOMAIN s : s[i] \in S
    /\ \A x \in S : \E i \in DOMAIN s : s[i] = x
    /\ \A i, j \in DOMAIN s : i < j => <<s[i], s[j]>> \in R /\ s[i] # s[j]
<1> DEFINE n == Cardinality(S)
           rank == [x \in S |-> Cardinality(Before(S, R, x))]
<1>1. n \in Nat /\ IsFiniteSet(S)
  BY FS_CardinalityType DEF Ordered
<1>2. rank \in Injection(S, 0 .. n - 1)
  <2>1. rank \in [S -> 0 .. n - 1]
    BY BeforeSizes
  <2>2. \A x, y \in S : rank[x] = rank[y] => x = y
    <3> SUFFICES ASSUME NEW x \in S, NEW y \in S, x # y  PROVE rank[x] # rank[y]
      OBVIOUS
    <3>1. rank[x] \in Int /\ rank[y] \in Int
      BY <1>1, <2>1
    <3>2. rank[x] < rank[y] \/ rank[y] < rank[x]
      BY BeforeSizes DEF Ordered
    <3> QED BY <3>1, <3>2
  <2> QED BY <2>1, <2>2 DEF Injection, IsInjective
<1>3. IsFiniteSet(0 .. n - 1) /\ Cardinality(0 .. n - 1) = n
  <2> HIDE DEF n, rank
  <2>1. 0 \in Int /\ n - 1 \in Int /\ (0 > n - 1 <=> n = 0) /\ n - 1 - 0 + 1 = n
    BY <1>1
  <2> QED BY <1>1, <2>1, FS_Interval
<1>4. rank \in Surjection(S, 0 .. n - 1)
  BY <1>2, <1>3, FS_Injection
<1>5. DOMAIN s = 1 .. n
  BY DEF Enumerated
<1>6. \A i \in 1 .. n : s[i] \in S /\ rank[s[i]] = i - 1
  <2> SUFFICES ASSUME NEW i \in 1 .. n  PROVE s[i] \in S /\ rank[s[i]] = i - 1
    OBVIOUS
  <2>1. i - 1 \in 0 .. n - 1
    BY <1>1
  <2>2. \E x \in S : Cardinality(Before(S, R, x)) = i - 1
    BY <1>4, <2>1 DEF Surjection
  <2> QED BY <2>2 DEF Enumerated
<1>7. \A x \in S : rank[x] \in 0 .. n - 1
  BY <1>2 DEF Injection
<1>8. \A x \in S : \E i \in 1 .. n : s[i] = x
  <2> SUFFICES ASSUME NEW x \in S  PROVE \E i \in 1 .. n : s[i] = x
    OBVIOUS
  <2>1. rank[x] + 1 \in 1 .. n /\ (rank[x] + 1) - 1 = rank[x]
    BY <1>1, <1>7
  <2>2. s[rank[x] + 1] \in S /\ rank[s[rank[x] + 1]] = rank[x]
    BY <1>6, <2>1
  <2>3. s[rank[x] + 1] = x
    BY <1>2, <2>2 DEF Injection, IsInjective
  <2> QED BY <2>1, <2>3
<1>9. \A i, j \in 1 .. n : i < j => <<s[i], s[j]>> \in R /\ s[i] # s[j]
  <2> SUFFICES ASSUME NEW i \in 1 .. n, NEW j \in 1 .. n, i < j
               PROVE <<s[i], s[j]>> \in R /\ s[i] # s[j]
    OBVIOUS
  <2>1. rank[s[i]] < rank[s[j]]
    BY <1>1, <1>6
  <2>2. s[i] \in S /\ s[j] \in S /\ rank[s[i]] \in Int /\ rank[s[j]] \in Int
    BY <1>6
  <2>3. s[i] # s[j]
    BY <2>1, <2>2
  <2>4. <<s[j], s[i]>> \in R => rank[s[j]] < rank[s[i]]
    BY <2>2, BeforeSizes
  <2>5. <<s[j], s[i]>> \notin R
    BY <2>1, <2>2, <2>4
  <2> QED BY <2>2, <2>3, <2>5 DEF Ordered
<1> QED BY <1>1, <1>5, <1>6, <1>8, <1>9

(* The numbers of a finite set, the lesser ones first.                     *)
Less(S) == {p \in S \X S : p[1] < p[2]}

LEMMA Sorted ==
  ASSUME NEW S \in SUBSET Int, IsFiniteSet(S)
  PROVE LET s == Increasing(S) IN
    /\ Cardinality(S) \in Nat /\ DOMAIN s = 1 .. Cardinality(S) /\ Len(s) = Cardinality(S)
    /\ \A i \in DOMAIN s : s[i] \in S
    /\ \A x \in S : \E i \in DOMAIN s : s[i] = x
    /\ \A i, j \in DOMAIN s : i < j => s[i] < s[j]
<1>1. Ordered(S, Less(S))
  BY DEF Ordered, Less
<1>2. Enumerated(Increasing(S), S, Less(S))
  <2> DEFINE s == Increasing(S)
  <2>1. \A x \in S : {y \in S : y < x} = Before(S, Less(S), x)
    BY DEF Before, Less
  <2>2. DOMAIN s = 1 .. Cardinality(S)
    BY DEF Increasing, InOrder
  <2>3. ASSUME NEW i \in 1 .. Cardinality(S), NEW w \in S, Cardinality(Before(S, Less(S), w)) = i - 1
        PROVE s[i] \in S /\ Cardinality(Before(S, Less(S), s[i])) = i - 1
    <3>1. s[i] = CHOOSE x \in S : Cardinality({y \in S : y < x}) = i - 1
      BY DEF Increasing, InOrder
    <3>2. Cardinality({y \in S : y < w}) = i - 1
      BY <2>1, <2>3
    <3>3. s[i] \in S /\ Cardinality({y \in S : y < s[i]}) = i - 1
      <4> HIDE DEF s
      <4> QED BY <3>1, <3>2
    <3> QED BY <2>1, <3>3
  <2> QED BY <2>2, <2>3 DEF Enumerated
<1>3. \A x, y : <<x, y>> \in Less(S) => x < y
  BY DEF Less
<1>4. Cardinality(S) \in Nat /\ Len(Increasing(S)) = Cardinality(S)
  BY FS_CardinalityType DEF Increasing, InOrder
<1>5. PICK s : s = Increasing(S)
  OBVIOUS
<1>6. Enumerated(s, S, Less(S))
  BY <1>2, <1>5
<1>7. /\ DOMAIN s = 1 .. Cardinality(S)
      /\ \A i \in DOMAIN s : s[i] \in S
      /\ \A x \in S : \E i \in DOMAIN s : s[i] = x
      /\ \A i, j \in DOMAIN s : i < j => <<s[i], s[j]>> \in Less(S) /\ s[i] # s[j]
  BY <1>1, <1>6, Enumerates
<1> QED BY ONLY <1>3, <1>4, <1>5, <1>7

(* A finite set of numbers has a least and a greatest one.                 *)
LEMMA Extremes ==
  ASSUME NEW S \in SUBSET Int, IsFiniteSet(S), S # {}
  PROVE /\ Max(S) \in S /\ \A y \in S : y <= Max(S)
        /\ Min(S) \in S /\ \A y \in S : Min(S) <= y
<1> DEFINE s == Increasing(S)
           n == Cardinality(S)
<1>1. /\ n \in Nat /\ DOMAIN s = 1 .. n
      /\ \A i \in 1 .. n : s[i] \in S
      /\ \A x \in S : \E i \in 1 .. n : s[i] = x
      /\ \A i, j \in 1 .. n : i < j => s[i] < s[j]
  BY Sorted
<1>2. n > 0
  BY <1>1, FS_EmptySet
<1> HIDE DEF s, n
<1>3. s[n] \in S /\ \A y \in S : s[n] >= y
  <2>1. n \in 1 .. n /\ \A i \in 1 .. n : i = n \/ i < n
    BY <1>1, <1>2
  <2>2. ASSUME NEW i \in 1 .. n  PROVE s[n] >= s[i] /\ s[i] \in Int
    <3>1. s[i] \in Int /\ s[n] \in Int
      BY <1>1, <2>1
    <3>2. i = n \/ s[n] > s[i]
      BY <1>1, <2>1
    <3> QED BY <3>1, <3>2
  <2> QED BY <1>1, <2>1, <2>2
<1>4. s[1] \in S /\ \A y \in S : s[1] =< y
  <2>1. 1 \in 1 .. n /\ \A i \in 1 .. n : i = 1 \/ 1 < i
    BY <1>1, <1>2
  <2>2. ASSUME NEW i \in 1 .. n  PROVE s[1] =< s[i] /\ s[i] \in Int
    <3>1. s[i] \in Int /\ s[1] \in Int
      BY <1>1, <2>1
    <3>2. i = 1 \/ s[1] < s[i]
      BY <1>1, <2>1
    <3> QED BY <3>1, <3>2
  <2> QED BY <1>1, <2>1, <2>2
<1>5. Max(S) \in S /\ \A y \in S : Max(S) >= y
  BY <1>3 DEF Max
<1>6. Min(S) \in S /\ \A y \in S : Min(S) =< y
  BY <1>4 DEF Min
<1> QED BY <1>5, <1>6

(* Cells told apart by their place or by where the scan met them.          *)
Keyed(S) ==
  /\ IsFiniteSet(S)
  /\ \A c \in S : c.row \in Nat /\ c.column \in Nat /\ c.first \in Nat \X Nat
  /\ \A c, d \in S : c # d => c.row # d.row \/ c.column # d.column \/ c.first # d.first
Reading(S) == {p \in S \X S : ReadBefore(p[1], p[2])}

LEMMA ReadInOrder ==
  ASSUME NEW S, Keyed(S)
  PROVE LET s == InOrder(S, ReadBefore) IN
    /\ Cardinality(S) \in Nat /\ DOMAIN s = 1 .. Cardinality(S) /\ Len(s) = Cardinality(S)
    /\ \A i \in DOMAIN s : s[i] \in S
    /\ \A x \in S : \E i \in DOMAIN s : s[i] = x
    /\ \A i, j \in DOMAIN s : i < j => s[i] # s[j]
<1>1. Ordered(S, Reading(S))
  <2>1. IsFiniteSet(S)
    BY DEF Keyed
  <2>2. \A x \in S : ~ReadBefore(x, x)
    BY DEF Keyed, ReadBefore, ScannedBefore
  <2>3. \A x, y, z \in S : ReadBefore(x, y) /\ ReadBefore(y, z) => ReadBefore(x, z)
    BY DEF Keyed, ReadBefore, ScannedBefore
  <2>4. \A x, y \in S : x # y => ReadBefore(x, y) \/ ReadBefore(y, x)
    BY DEF Keyed, ReadBefore, ScannedBefore
  <2> QED BY <2>1, <2>2, <2>3, <2>4 DEF Ordered, Reading
<1>2. Enumerated(InOrder(S, ReadBefore), S, Reading(S))
  <2> DEFINE s == InOrder(S, ReadBefore)
  <2>1. \A x \in S : {y \in S : ReadBefore(y, x)} = Before(S, Reading(S), x)
    BY DEF Before, Reading
  <2>2. DOMAIN s = 1 .. Cardinality(S)
    BY DEF InOrder
  <2>3. ASSUME NEW i \in 1 .. Cardinality(S), NEW w \in S, Cardinality(Before(S, Reading(S), w)) = i - 1
        PROVE s[i] \in S /\ Cardinality(Before(S, Reading(S), s[i])) = i - 1
    <3>1. s[i] = CHOOSE x \in S : Cardinality({y \in S : ReadBefore(y, x)}) = i - 1
      BY DEF InOrder
    <3>2. Cardinality({y \in S : ReadBefore(y, w)}) = i - 1
      BY <2>1, <2>3
    <3>3. s[i] \in S /\ Cardinality({y \in S : ReadBefore(y, s[i])}) = i - 1
      <4> HIDE DEF s
      <4> QED BY <3>1, <3>2
    <3> QED BY <2>1, <3>3
  <2> QED BY <2>2, <2>3 DEF Enumerated
<1>3. Cardinality(S) \in Nat /\ Len(InOrder(S, ReadBefore)) = Cardinality(S)
  BY FS_CardinalityType DEF Keyed, InOrder
<1>5. PICK s : s = InOrder(S, ReadBefore)
  OBVIOUS
<1>6. Enumerated(s, S, Reading(S))
  BY <1>2, <1>5
<1>7. /\ DOMAIN s = 1 .. Cardinality(S)
      /\ \A i \in DOMAIN s : s[i] \in S
      /\ \A x \in S : \E i \in DOMAIN s : s[i] = x
      /\ \A i, j \in DOMAIN s : i < j => <<s[i], s[j]>> \in Reading(S) /\ s[i] # s[j]
  BY <1>1, <1>6, Enumerates
<1> QED BY ONLY <1>3, <1>5, <1>7

-----------------------------------------------------------------------------
(* Groups of united cells                                                  *)

(* What is reached from p in each number of steps.                         *)
Grows(f, p, A, N) == f = [n \in 0 .. N |-> IF n = 0 THEN {p} ELSE Reached(f[n - 1], A)]

LEMMA GrowthDefined ==
  ASSUME NEW p, NEW A, NEW N \in Nat
  PROVE \E f : Grows(f, p, A, N)
<1> DEFINE P == {m \in Nat : \E f : Grows(f, p, A, m)}
<1>1. 0 \in P
  <2> DEFINE f == [n \in 0 .. 0 |-> {p}]
  <2>1. Grows(f, p, A, 0)
    BY DEF Grows
  <2> HIDE DEF f
  <2> QED BY <2>1
<1>2. ASSUME NEW m \in 0 .. N - 1, m \in P  PROVE m + 1 \in P
  <2>1. PICK f : Grows(f, p, A, m)
    BY <1>2
  <2> DEFINE g == [n \in 0 .. m + 1 |-> IF n = m + 1 THEN Reached(f[m], A) ELSE f[n]]
  <2>2. ASSUME NEW n \in 0 .. m + 1
        PROVE g[n] = IF n = 0 THEN {p} ELSE Reached(g[n - 1], A)
    <3>1. CASE n = m + 1
      BY <3>1
    <3>2. CASE n # m + 1
      <4>1. n \in 0 .. m /\ (n # 0 => n - 1 \in 0 .. m /\ n - 1 \in 0 .. m + 1 /\ n - 1 # m + 1)
        BY <3>2
      <4>2. f[n] = IF n = 0 THEN {p} ELSE Reached(f[n - 1], A)
        BY <2>1, <4>1 DEF Grows
      <4> QED BY <3>2, <4>1, <4>2
    <3> QED BY <3>1, <3>2
  <2>3. Grows(g, p, A, m + 1)
    BY <2>2 DEF Grows
  <2> HIDE DEF g
  <2> QED BY <2>3
<1>3. N \in 0 .. N
  OBVIOUS
<1> HIDE DEF P
<1>4. N \in P
  BY <1>1, <1>2, <1>3, UpTo
<1> QED BY <1>4 DEF P

LEMMA Growth ==
  ASSUME NEW p, NEW A, IsFiniteSet(A)
  PROVE \E f : /\ f[0] = {p} /\ f[Cardinality(A)] = United(p, A)
               /\ \A n \in 0 .. Cardinality(A) - 1 : f[n + 1] = Reached(f[n], A)
<1> DEFINE N == Cardinality(A)
           grow == CHOOSE f : Grows(f, p, A, N)
<1>1. N \in Nat
  BY FS_CardinalityType
<1>2. Grows(grow, p, A, N)
  <2>1. \E f : Grows(f, p, A, N)
    BY <1>1, GrowthDefined
  <2> QED BY <2>1
<1>3. grow[N] = United(p, A)
  BY DEF United, Grows
<1> HIDE DEF grow
<1>4. grow[0] = {p}
  BY <1>1, <1>2 DEF Grows
<1>5. ASSUME NEW n \in 0 .. N - 1  PROVE grow[n + 1] = Reached(grow[n], A)
  <2>1. n + 1 \in 0 .. N /\ n + 1 # 0 /\ (n + 1) - 1 = n
    BY <1>1
  <2> QED BY <1>2, <2>1 DEF Grows
<1> QED BY <1>3, <1>4, <1>5

(* A group is closed when no edge leaves it.                               *)
Closed(K, A) == \A e \in A : e[1] \in K <=> e[2] \in K
Inner(K, A) == {e \in A : e[1] \in K /\ e[2] \in K}

(* Unless all it reaches is in it already, a group gains an edge.          *)
LEMMA GrowthGains ==
  ASSUME NEW A, IsFiniteSet(A), NEW K
  PROVE /\ K \subseteq Reached(K, A)
        /\ Closed(K, A) => Closed(Reached(K, A), A)
        /\ Cardinality(Inner(K, A)) \in Nat
        /\ ~Closed(K, A) => Cardinality(Inner(Reached(K, A), A)) >= Cardinality(Inner(K, A)) + 1
        /\ Cardinality(Inner(K, A)) >= Cardinality(A) => Closed(K, A)
<1>1. K \subseteq Reached(K, A)
  BY DEF Reached
<1>2. ASSUME Closed(K, A)  PROVE Closed(Reached(K, A), A)
  <2>1. Reached(K, A) = K
    BY <1>2 DEF Reached, Closed
  <2> QED BY <1>2, <2>1
<1>3. \A L : Inner(L, A) \in SUBSET A /\ IsFiniteSet(Inner(L, A)) /\ Cardinality(Inner(L, A)) \in Nat
  <2> TAKE L
  <2>1. Inner(L, A) \in SUBSET A
    BY DEF Inner
  <2> QED BY <2>1, FS_Subset, FS_CardinalityType
<1>4. ASSUME ~Closed(K, A)
      PROVE Cardinality(Inner(Reached(K, A), A)) >= Cardinality(Inner(K, A)) + 1
  <2>1. PICK e \in A : ~(e[1] \in K <=> e[2] \in K)
    BY <1>4 DEF Closed
  <2>2. e \notin Inner(K, A)
    BY <2>1 DEF Inner
  <2>3. e[1] \in Reached(K, A) /\ e[2] \in Reached(K, A)
    BY <2>1 DEF Reached
  <2>4. e \in Inner(Reached(K, A), A)
    BY <2>3 DEF Inner
  <2>5. Inner(K, A) \cup {e} \in SUBSET Inner(Reached(K, A), A)
    BY <1>1, <2>4 DEF Inner
  <2>6. Cardinality(Inner(K, A) \cup {e}) = Cardinality(Inner(K, A)) + 1
    BY <1>3, <2>2, FS_AddElement
  <2>7. Cardinality(Inner(K, A) \cup {e}) <= Cardinality(Inner(Reached(K, A), A))
    BY <1>3, <2>5, FS_Subset
  <2> QED BY <1>3, <2>6, <2>7
<1>5. ASSUME Cardinality(Inner(K, A)) >= Cardinality(A)  PROVE Closed(K, A)
  <2>1. Cardinality(Inner(K, A)) <= Cardinality(A) /\ Cardinality(A) \in Nat
    BY <1>3, FS_Subset, FS_CardinalityType
  <2>2. Cardinality(Inner(K, A)) = Cardinality(A)
    BY <1>3, <1>5, <2>1
  <2>3. Inner(K, A) = A
    BY <1>3, <2>2, FS_Subset
  <2> QED BY <2>3 DEF Inner, Closed
<1> QED BY <1>1, <1>2, <1>3, <1>4, <1>5

(* What is united with p is the least closed group p is in.                *)
LEMMA UnitedCloses ==
  ASSUME NEW p, NEW A, IsFiniteSet(A)
  PROVE /\ p \in United(p, A) /\ Closed(United(p, A), A)
        /\ \A K : p \in K /\ Closed(K, A) => United(p, A) \subseteq K
<1> DEFINE N == Cardinality(A)
<1>1. N \in Nat /\ N \in 0 .. N
  BY FS_CardinalityType
<1>2. PICK f : /\ f[0] = {p} /\ f[N] = United(p, A)
               /\ \A n \in 0 .. N - 1 : f[n + 1] = Reached(f[n], A)
  BY SMTT(60), Growth
<1> HIDE DEF N
<1>3. p \in f[N] /\ (Closed(f[N], A) \/ Cardinality(Inner(f[N], A)) >= N)
  <2> DEFINE P == {n \in Nat : /\ p \in f[n]
                               /\ Closed(f[n], A) \/ Cardinality(Inner(f[n], A)) >= n}
  <2>1. 0 \in P
    BY <1>2, GrowthGains
  <2>2. ASSUME NEW n \in 0 .. N - 1, n \in P  PROVE n + 1 \in P
    <3>1. f[n + 1] = Reached(f[n], A) /\ n + 1 \in Nat /\ n \in Nat
      BY <1>2
    <3>2. p \in f[n + 1]
      BY <2>2, <3>1, GrowthGains
    <3>3. CASE Closed(f[n], A)
      BY <3>1, <3>2, <3>3, GrowthGains
    <3>4. CASE ~Closed(f[n], A)
      <4>1. Cardinality(Inner(f[n], A)) >= n /\ Cardinality(Inner(f[n], A)) \in Nat
        BY <2>2, <3>4, GrowthGains
      <4>2. Cardinality(Inner(f[n + 1], A)) >= Cardinality(Inner(f[n], A)) + 1
        BY <3>1, <3>4, GrowthGains
      <4>3. Cardinality(Inner(f[n + 1], A)) \in Nat
        BY GrowthGains
      <4>4. Cardinality(Inner(f[n + 1], A)) >= n + 1
        BY <3>1, <4>1, <4>2, <4>3
      <4> QED BY <3>1, <3>2, <4>4
    <3> QED BY <3>3, <3>4
  <2> HIDE DEF P
  <2>3. N \in P
    BY <1>1, <2>1, <2>2, UpTo
  <2> QED BY <2>3 DEF P
<1>4. Closed(f[N], A)
  BY <1>3, GrowthGains DEF N
<1>5. ASSUME NEW K, p \in K, Closed(K, A)  PROVE f[N] \subseteq K
  <2> DEFINE P == {n \in Nat : f[n] \subseteq K}
  <2>1. 0 \in P
    BY <1>2, <1>5
  <2>2. ASSUME NEW n \in 0 .. N - 1, n \in P  PROVE n + 1 \in P
    <3>1. f[n + 1] = Reached(f[n], A) /\ n + 1 \in Nat /\ f[n] \subseteq K
      BY <1>2, <2>2
    <3>2. Reached(f[n], A) \subseteq K
      BY <1>5, <3>1 DEF Reached, Closed
    <3> QED BY <3>1, <3>2
  <2> HIDE DEF P
  <2>3. N \in P
    BY <1>1, <2>1, <2>2, UpTo
  <2> QED BY <2>3 DEF P
<1> QED BY <1>2, <1>3, <1>4, <1>5

(* Groups that share a cell are the same group.                            *)
LEMMA GroupsApart ==
  ASSUME NEW A, IsFiniteSet(A), NEW p, NEW q, NEW m \in United(p, A) \cap United(q, A)
  PROVE United(p, A) = United(q, A)
<1>1. \A x, y : m \in United(x, A) \cap United(y, A) => United(x, A) \subseteq United(y, A)
  <2> SUFFICES ASSUME NEW x, NEW y, m \in United(x, A) \cap United(y, A)
               PROVE x \in United(y, A)
    BY UnitedCloses
  <2> SUFFICES ASSUME x \notin United(y, A)  PROVE FALSE
    OBVIOUS
  <2> DEFINE K == (United(x, A) \cup {x} \cup UNION {{e[1], e[2]} : e \in A}) \ United(y, A)
  <2>1. Closed(K, A)
    <3>1. Closed(United(y, A), A)
      BY UnitedCloses
    <3> QED BY <3>1 DEF Closed
  <2>2. x \in K
    OBVIOUS
  <2>3. United(x, A) \subseteq K
    BY <2>1, <2>2, UnitedCloses
  <2> QED BY <2>3
<1> QED BY <1>1

-----------------------------------------------------------------------------
(* Sums and means                                                          *)

Some(s) == CHOOSE x \in s : TRUE
UpToSize(S, n) == {s \in SUBSET S : Cardinality(s) <= n}
Sums(f, D) == f = [s \in D |-> IF s = {} THEN 0 ELSE Some(s) + f[s \ {Some(s)}]]

LEMMA SubsetSizes ==
  ASSUME NEW S, IsFiniteSet(S)
  PROVE /\ Cardinality(S) \in Nat /\ UpToSize(S, Cardinality(S)) = SUBSET S
        /\ \A s \in SUBSET S : Cardinality(s) \in Nat
        /\ \A s \in SUBSET S : s # {} => /\ Some(s) \in s /\ s \ {Some(s)} \in SUBSET S
                                         /\ Cardinality(s \ {Some(s)}) = Cardinality(s) - 1
        /\ \A s \in SUBSET S : Cardinality(s) = 0 <=> s = {}
<1>1. Cardinality(S) \in Nat
  BY FS_CardinalityType
<1>2. \A s \in SUBSET S : IsFiniteSet(s) /\ Cardinality(s) <= Cardinality(S) /\ Cardinality(s) \in Nat
  BY FS_Subset, FS_CardinalityType
<1>3. \A s \in SUBSET S : s # {} => Some(s) \in s
  BY DEF Some
<1>4. \A s \in SUBSET S : s # {} => Cardinality(s \ {Some(s)}) = Cardinality(s) - 1
  BY <1>2, <1>3, FS_RemoveElement
<1> QED BY <1>1, <1>2, <1>3, <1>4, FS_EmptySet DEF UpToSize

(* The sum of every subset is defined from that of a smaller one.          *)
LEMMA SumsDefined ==
  ASSUME NEW S, IsFiniteSet(S)
  PROVE \E f : Sums(f, SUBSET S)
<1> DEFINE N == Cardinality(S)
           P == {n \in Nat : \E f : Sums(f, UpToSize(S, n))}
<1>1. 0 \in P
  <2> DEFINE f == [s \in UpToSize(S, 0) |-> 0]
  <2>1. \A s \in UpToSize(S, 0) : s = {}
    BY SubsetSizes DEF UpToSize
  <2>2. Sums(f, UpToSize(S, 0))
    BY <2>1 DEF Sums
  <2> HIDE DEF f
  <2> QED BY <2>2
<1>2. ASSUME NEW m \in 0 .. N - 1, m \in P  PROVE m + 1 \in P
  <2>1. PICK f : Sums(f, UpToSize(S, m))
    BY <1>2
  <2> DEFINE D == UpToSize(S, m + 1)
             g == [s \in D |-> IF s \in UpToSize(S, m) THEN f[s] ELSE Some(s) + f[s \ {Some(s)}]]
  <2>2. ASSUME NEW s \in D
        PROVE g[s] = IF s = {} THEN 0 ELSE Some(s) + g[s \ {Some(s)}]
    <3>1. s \in SUBSET S /\ Cardinality(s) \in Nat /\ Cardinality(s) <= m + 1 /\ m \in Nat
      BY SubsetSizes DEF UpToSize
    <3>2. s = {} => s \in UpToSize(S, m)
      BY <3>1, SubsetSizes DEF UpToSize
    <3>3. s # {} => s \ {Some(s)} \in UpToSize(S, m) /\ s \ {Some(s)} \in D
      <4>1. s # {} => Cardinality(s \ {Some(s)}) <= m /\ Cardinality(s \ {Some(s)}) <= m + 1
        BY <3>1, SubsetSizes
      <4> QED BY <3>1, <4>1 DEF UpToSize
    <3>4. s \in UpToSize(S, m) => f[s] = IF s = {} THEN 0 ELSE Some(s) + f[s \ {Some(s)}]
      BY <2>1 DEF Sums
    <3>5. g[s] = IF s = {} THEN 0 ELSE Some(s) + f[s \ {Some(s)}]
      BY <3>2, <3>4
    <3>6. s # {} => g[s \ {Some(s)}] = f[s \ {Some(s)}]
      BY <3>3
    <3> QED BY <3>5, <3>6
  <2>3. Sums(g, UpToSize(S, m + 1))
    BY <2>2 DEF Sums
  <2> HIDE DEF g
  <2>4. m + 1 \in Nat
    BY <1>2
  <2> QED BY <2>3, <2>4
<1>3. N \in Nat /\ N \in 0 .. N
  BY SubsetSizes
<1> HIDE DEF P, N
<1>4. N \in P
  BY <1>1, <1>2, <1>3, UpTo
<1>5. \E f : Sums(f, UpToSize(S, N))
  BY <1>4 DEF P
<1>6. UpToSize(S, N) = SUBSET S
  BY SubsetSizes DEF N
<1> QED BY <1>5, <1>6

(* The sum of numbers between lo and hi.                                   *)
LEMMA SumBetween ==
  ASSUME NEW lo \in Nat, NEW hi \in Nat, NEW S \in SUBSET (lo .. hi), IsFiniteSet(S)
  PROVE /\ SumSet(S) \in Nat
        /\ lo * Cardinality(S) <= SumSet(S) /\ SumSet(S) <= hi * Cardinality(S)
<1> DEFINE N == Cardinality(S)
           sum == CHOOSE f : Sums(f, SUBSET S)
           P == {n \in Nat : \A s \in SUBSET S : Cardinality(s) = n =>
                               sum[s] \in Nat /\ lo * n <= sum[s] /\ sum[s] <= hi * n}
<1>1. Sums(sum, SUBSET S)
  <2>1. \E f : Sums(f, SUBSET S)
    BY SumsDefined
  <2> QED BY <2>1
<1>2. SumSet(S) = sum[S]
  BY DEF SumSet, FoldSet, MapThenFoldSet, Sums, Some
<1> HIDE DEF sum
<1>3. \A s \in SUBSET S : sum[s] = IF s = {} THEN 0 ELSE Some(s) + sum[s \ {Some(s)}]
  BY <1>1 DEF Sums
<1>4. 0 \in P
  <2>1. \A s \in SUBSET S : Cardinality(s) = 0 => sum[s] = 0
    BY <1>3, SubsetSizes
  <2>2. hi * 0 = 0 /\ lo * 0 = 0
    OBVIOUS
  <2> QED BY <2>1, <2>2
<1>5. ASSUME NEW n \in 0 .. N - 1, n \in P  PROVE n + 1 \in P
  <2> SUFFICES ASSUME NEW s \in SUBSET S, Cardinality(s) = n + 1
               PROVE sum[s] \in Nat /\ lo * (n + 1) <= sum[s] /\ sum[s] <= hi * (n + 1)
    BY <1>5
  <2>1. n \in Nat /\ s # {}
    BY SubsetSizes
  <2>2. Some(s) \in lo .. hi /\ s \ {Some(s)} \in SUBSET S /\ Cardinality(s \ {Some(s)}) = n
    <3>1. /\ Some(s) \in s /\ s \ {Some(s)} \in SUBSET S
          /\ Cardinality(s \ {Some(s)}) = Cardinality(s) - 1
      BY <2>1, SubsetSizes
    <3>2. Some(s) \in lo .. hi
      BY <3>1
    <3>3. Cardinality(s \ {Some(s)}) = n
      BY <2>1, <3>1
    <3> QED BY <3>1, <3>2, <3>3
  <2> DEFINE a == Some(s)
             b == sum[s \ {Some(s)}]
  <2>3. sum[s] = a + b
    BY <1>3, <2>1
  <2>4. b \in Nat /\ lo * n <= b /\ b <= hi * n
    BY <1>5, <2>2
  <2>5. a \in lo .. hi
    BY <2>2
  <2> HIDE DEF a, b
  <2>6. /\ hi * (n + 1) = hi * n + hi /\ hi * n \in Nat
        /\ lo * (n + 1) = lo * n + lo /\ lo * n \in Nat
    BY <2>1
  <2> QED BY <2>3, <2>4, <2>5, <2>6
<1>6. N \in Nat /\ N \in 0 .. N
  BY SubsetSizes
<1> HIDE DEF P, N
<1>7. N \in P
  BY <1>4, <1>5, <1>6, UpTo
<1> QED BY <1>2, <1>7 DEF P, N

(* A mean rounds to a number in the same range.                            *)
LEMMA MeanBetween ==
  ASSUME NEW lo \in Nat, NEW hi \in Nat, NEW S \in SUBSET (lo .. hi), IsFiniteSet(S), S # {}
  PROVE (2 * SumSet(S) + Cardinality(S)) \div (2 * Cardinality(S)) \in lo .. hi
<1> DEFINE n == Cardinality(S)
           a == 2 * SumSet(S) + n
           q == a \div (2 * n)
<1>1. n \in Nat /\ n > 0
  BY FS_CardinalityType, FS_EmptySet
<1>2. SumSet(S) \in Nat /\ lo * n <= SumSet(S) /\ SumSet(S) <= hi * n
  BY SumBetween
<1> HIDE DEF n
<1>3. a \in Nat /\ 2 * n \in Nat /\ 2 * n > 0
  BY <1>1, <1>2
<1>4. a <= 2 * (hi * n) + n /\ 2 * (lo * n) <= a /\ hi * n \in Nat /\ lo * n \in Nat
  BY <1>1, <1>2
<1> HIDE DEF a
<1>5. q \in Int /\ (2 * n) * q <= a /\ a < (2 * n) * (q + 1)
  BY <1>3
<1>6. q >= lo
  <2> SUFFICES ASSUME q < lo  PROVE FALSE
    BY <1>5
  <2>1. q + 1 <= lo
    BY <1>5
  <2>2. (2 * n) * (q + 1) <= (2 * n) * lo
    BY <1>3, <1>5, <2>1
  <2>3. (2 * n) * lo = 2 * (lo * n)
    BY <1>1
  <2> QED BY <1>3, <1>4, <1>5, <2>2, <2>3
<1>7. q <= hi
  <2> SUFFICES ASSUME q > hi  PROVE FALSE
    BY <1>5
  <2>1. q >= hi + 1
    BY <1>5
  <2>2. (2 * n) * q >= (2 * n) * (hi + 1)
    BY <1>3, <1>5, <2>1
  <2>3. (2 * n) * (hi + 1) = 2 * (hi * n) + 2 * n
    BY <1>1
  <2> QED BY <1>1, <1>3, <1>4, <1>5, <2>2, <2>3
<1> QED BY <1>5, <1>6, <1>7 DEF a, n

-----------------------------------------------------------------------------
(* Boundaries of rows and columns                                          *)

(* What a function takes from a finite set is finite.                      *)
LEMMA ImageFinite ==
  ASSUME NEW S, IsFiniteSet(S), NEW f, NEW T, \A y \in T : \E x \in S : f[x] = y
  PROVE IsFiniteSet(T)
<1> DEFINE U == {f[x] : x \in S}
           g == [x \in S |-> f[x]]
<1>1. g \in Surjection(S, U)
  BY DEF Surjection
<1>2. IsFiniteSet(U)
  BY <1>1, FS_Surjection
<1>3. T \in SUBSET U
  OBVIOUS
<1> QED BY <1>2, <1>3, FS_Subset

Between(S, lo, hi) == S \subseteq lo .. hi /\ IsFiniteSet(S)
Within(S, hi) == Between(S, 0, hi)

(* Clusters of positions in a range have their means in it.                *)
LEMMA ClustersWithin ==
  ASSUME NEW lo \in Nat, NEW hi \in Nat, NEW S, Between(S, lo, hi), NEW gap
  PROVE Between(ClusterPositions(S, gap), lo, hi)
<1> DEFINE starts == {p \in S : \A q \in S : ~(q < p /\ p - q <= gap)}
           cluster(p) == {q \in S : q >= p /\ \A s \in starts : ~(p < s /\ s <= q)}
           mean(c) == (2 * SumSet(c) + Cardinality(c)) \div (2 * Cardinality(c))
<1>1. S \subseteq lo .. hi /\ IsFiniteSet(S) /\ starts \in SUBSET S
  BY DEF Between
<1>2. ASSUME NEW p \in starts  PROVE mean(cluster(p)) \in lo .. hi
  <2>1. cluster(p) \in SUBSET (lo .. hi) /\ cluster(p) \in SUBSET S
    BY <1>1
  <2>2. p \in cluster(p)
    <3>1. p \in S /\ p \in Int
      BY <1>1
    <3>2. \A s \in starts : s \in Int
      BY <1>1
    <3> HIDE DEF starts
    <3> QED BY <3>1, <3>2
  <2>3. IsFiniteSet(cluster(p))
    BY <1>1, <2>1, FS_Subset
  <2> HIDE DEF cluster
  <2> QED BY <2>1, <2>2, <2>3, MeanBetween
<1>3. IsFiniteSet(starts)
  BY <1>1, FS_Subset
<1> DEFINE bounds == {mean(cluster(p)) : p \in starts}
           f == [p \in starts |-> mean(cluster(p))]
<1>4. ClusterPositions(S, gap) = bounds
  BY DEF ClusterPositions
<1> HIDE DEF starts, cluster, mean
<1>5. \A y \in bounds : \E p \in starts : f[p] = y
  OBVIOUS
<1>6. IsFiniteSet(bounds)
  <2> HIDE DEF bounds, f
  <2> QED BY <1>3, <1>5, ImageFinite
<1> QED BY <1>2, <1>4, <1>6 DEF Between

LEMMA SupplementWithin ==
  ASSUME NEW lo \in Nat, NEW hi \in Nat, NEW A, NEW B, Between(A, lo, hi), Between(B, lo, hi)
  PROVE Between(Supplement(A, B).bounds, lo, hi)
<1>1. Between(A \cup B, lo, hi)
  BY FS_Union DEF Between
<1>2. Between(ClusterPositions(A \cup B, MergeGap(A \cup B)), lo, hi)
  BY <1>1, ClustersWithin
<1>3. \/ Supplement(A, B).bounds = A
      \/ Supplement(A, B).bounds = ClusterPositions(A \cup B, MergeGap(A \cup B))
  BY DEF Supplement
<1> QED BY <1>2, <1>3

LEMMA RuledWithin ==
  ASSUME NEW segments, NEW n \in Nat
  PROVE Within(Ruled(segments, n), Spot * n)
<1> DEFINE f == [k \in 0 .. n |-> Spot * k]
<1>1. Ruled(segments, n) \subseteq {Spot * k : k \in 0 .. n}
  BY DEF Ruled
<1>2. \A y \in Ruled(segments, n) : \E k \in 0 .. n : f[k] = y
  BY <1>1
<1> HIDE DEF f
<1>3. IsFiniteSet(0 .. n)
  BY FS_Interval
<1>4. IsFiniteSet(Ruled(segments, n))
  BY <1>2, <1>3, ImageFinite
<1>5. \A k \in 0 .. n : Spot * k \in 0 .. Spot * n
  BY DEF Spot
<1> QED BY <1>1, <1>4, <1>5 DEF Between, Within

(* The next number is in the set.                                          *)
LEMMA NextIn ==
  ASSUME NEW S \in SUBSET Int, IsFiniteSet(S), NEW p \in Neighbours(S)
  PROVE p[1] \in S /\ p[2] \in S /\ p[1] < p[2] /\ p = <<p[1], p[2]>>
<1>1. PICK x \in S \ {Max(S)} : p = <<x, Next1(S, x)>>
  BY DEF Neighbours
<1>2. Max(S) \in S /\ x <= Max(S) /\ x \in S
  BY Extremes
<1>3. Max(S) > x
  <2>1. Max(S) \in Int /\ x \in Int /\ x # Max(S)
    BY <1>2
  <2> QED BY <1>2, <2>1
<1> DEFINE T == {y \in S : y > x}
<1>4. T # {} /\ T \in SUBSET Int /\ T \in SUBSET S
  BY <1>2, <1>3
<1>5. IsFiniteSet(T)
  BY <1>4, FS_Subset
<1>6. Min(T) \in T
  <2> HIDE DEF T
  <2> QED BY <1>4, <1>5, Extremes
<1> QED BY <1>1, <1>2, <1>6 DEF Next1

LEMMA NeighboursFinite ==
  ASSUME NEW S \in SUBSET Int, IsFiniteSet(S)
  PROVE IsFiniteSet(Neighbours(S))
<1> DEFINE f == [x \in S |-> <<x, Next1(S, x)>>]
<1>1. \A p \in Neighbours(S) : \E x \in S : f[x] = p
  BY DEF Neighbours
<1> HIDE DEF f
<1> QED BY <1>1, ImageFinite

(* Finitely many words, each in its spot.                                  *)
Placed(ws) ==
  /\ IsFiniteSet(ws)
  /\ \A w \in ws : w.line \in 0 .. Rows - 1 /\ w.col \in 0 .. Cols - 1 /\ w.shift \in 0 .. 11

LEMMA SomePlaced ==
  ASSUME NEW ws, Placed(ws), NEW vs \in SUBSET ws
  PROVE Placed(vs)
BY FS_Subset DEF Placed

LEMMA WordInPage ==
  ASSUME NEW ws, Placed(ws), NEW w \in ws
  PROVE /\ InPage(WordBox(w)) /\ WordBox(w).x1 >= 12 /\ WordBox(w).x2 < Spot * Cols
        /\ WordBox(w).y1 = Spot * w.line + 12 /\ WordBox(w).y2 = Spot * w.line + 48
<1>1. Rows \in Nat /\ Cols \in Nat
  BY SpotsAssumption
<1>2. w.line \in 0 .. Rows - 1 /\ w.col \in 0 .. Cols - 1 /\ w.shift \in 0 .. 11
  BY DEF Placed
<1> DEFINE l == w.line
           c == w.col
           s == w.shift
<1>3. WordBox(w) = [x1 |-> 60 * c + 12 + s, y1 |-> 60 * l + 12,
                    x2 |-> 60 * c + 48 + s, y2 |-> 60 * l + 48]
  BY DEF WordBox, Box, Spot
<1>4. l \in 0 .. Rows - 1 /\ c \in 0 .. Cols - 1 /\ s \in 0 .. 11
  BY <1>2
<1> HIDE DEF l, c, s
<1>5. /\ 60 * c + 12 + s \in Nat /\ 60 * c + 48 + s \in (60 * c + 12 + s) + 1 .. 60 * Cols
      /\ 60 * c + 12 + s >= 12 /\ 60 * c + 48 + s < 60 * Cols
  BY <1>1, <1>4
<1>6. 60 * l + 12 \in Nat /\ 60 * l + 48 \in (60 * l + 12) + 1 .. 60 * Rows
  BY <1>1, <1>4
<1> QED BY <1>3, <1>5, <1>6 DEF InPage, Spot, l

LEMMA LinesFinite ==
  ASSUME NEW ws, Placed(ws)
  PROVE {w.line : w \in ws} \subseteq 0 .. Rows - 1 /\ IsFiniteSet({w.line : w \in ws})
<1> DEFINE f == [w \in ws |-> w.line]
           T == {w.line : w \in ws}
<1>1. T \subseteq 0 .. Rows - 1
  BY DEF Placed
<1>2. \A y \in T : \E w \in ws : f[w] = y
  OBVIOUS
<1>3. IsFiniteSet(ws)
  BY DEF Placed
<1> HIDE DEF f, T
<1>4. IsFiniteSet(T)
  BY <1>2, <1>3, ImageFinite
<1> QED BY <1>1, <1>4 DEF T

LEMMA RowBoundsWithin ==
  ASSUME NEW ws, Placed(ws), NEW lo \in Nat, NEW hi \in Nat,
         \A w \in ws : lo <= WordBox(w).y1 /\ WordBox(w).y2 <= hi
  PROVE Between(RowTextBounds(ws), lo, hi)
<1> DEFINE lines == {w.line : w \in ws}
           mid(p) == (Spot * p[1] + 48 + Spot * p[2] + 12) \div 2
           mids == {mid(p) : p \in Neighbours(lines)}
           f == [p \in Neighbours(lines) |-> mid(p)]
           ends == {Spot * Min(lines) + 12, Spot * Max(lines) + 48}
<1>1. Rows \in Nat /\ lines \subseteq 0 .. Rows - 1 /\ IsFiniteSet(lines) /\ lines \in SUBSET Int
  BY LinesFinite, SpotsAssumption
<1>0. \A l \in lines : lo <= Spot * l + 12 /\ Spot * l + 48 <= hi
  BY WordInPage
<1>2. CASE Cardinality(lines) < 2
  BY <1>2, FS_EmptySet DEF RowTextBounds, Between
<1>3. CASE ~(Cardinality(lines) < 2)
  <2>1. RowTextBounds(ws) = ends \cup mids
    BY <1>3 DEF RowTextBounds
  <2> HIDE DEF lines
  <2>2. lines # {}
    BY <1>3, FS_EmptySet
  <2>3. Min(lines) \in 0 .. Rows - 1 /\ Max(lines) \in 0 .. Rows - 1
    BY <1>1, <2>2, Extremes
  <2>4. ends \subseteq lo .. hi
    <3>1. /\ lo <= Spot * Min(lines) + 12 /\ Spot * Min(lines) + 48 <= hi
          /\ lo <= Spot * Max(lines) + 12 /\ Spot * Max(lines) + 48 <= hi
      BY <1>0, <1>1, <2>2, Extremes
    <3> QED BY <1>1, <2>3, <3>1 DEF Spot
  <2>5. ASSUME NEW p \in Neighbours(lines)  PROVE mid(p) \in lo .. hi
    <3>1. p[1] \in 0 .. Rows - 1 /\ p[2] \in 0 .. Rows - 1
      BY <1>1, NextIn
    <3>2. lo <= Spot * p[1] + 12 /\ Spot * p[2] + 48 <= hi /\ p[1] < p[2]
      BY <1>0, <1>1, NextIn
    <3> QED BY <1>1, <3>1, <3>2 DEF Spot
  <2>6. IsFiniteSet(mids)
    <3>1. \A y \in mids : \E p \in Neighbours(lines) : f[p] = y
      OBVIOUS
    <3>2. IsFiniteSet(Neighbours(lines))
      BY <1>1, NeighboursFinite
    <3> HIDE DEF mids, f
    <3> QED BY <3>1, <3>2, ImageFinite
  <2>7. IsFiniteSet(ends)
    <3>1. ends = {Spot * Min(lines) + 12} \cup {Spot * Max(lines) + 48}
      OBVIOUS
    <3> HIDE DEF ends
    <3> QED BY <3>1, FS_Singleton, FS_AddElement
  <2>8. IsFiniteSet(ends \cup mids)
    BY <2>6, <2>7, FS_Union
  <2>9. ends \cup mids \subseteq lo .. hi
    BY <2>4, <2>5
  <2> QED BY <2>1, <2>8, <2>9 DEF Between
<1> QED BY <1>2, <1>3

LEMMA ColumnBoundsWithin ==
  ASSUME NEW ws, Placed(ws), NEW lo \in Nat, NEW hi \in Nat,
         \A w \in ws : lo <= WordBox(w).x1 /\ WordBox(w).x2 <= hi
  PROVE Between(ColumnTextBounds(ws), lo, hi)
<1> DEFINE lines == {w.line : w \in ws}
           starts == {WordBox(w).x1 : w \in ws}
           ends == {WordBox(w).x2 : w \in ws}
           hits(x) == Cardinality({l \in lines : \E w \in ws : w.line = l /\ WordBox(w).x1 = x})
           good == {x \in starts : hits(x) >= Larger(3, (75 * Cardinality(lines)) \div 100)}
           mid(p) == (p[1] + p[2]) \div 2
           mids == {mid(p) : p \in Neighbours(good)}
           outer == {Min(good), Max(ends)}
<1>1. \A w \in ws : WordBox(w).x1 \in lo .. hi /\ WordBox(w).x2 \in lo .. hi
  <2>1. Cols \in Nat /\ Spot * Cols \in Nat
    BY SpotsAssumption DEF Spot
  <2>2. \A w \in ws : /\ WordBox(w).x1 \in Nat /\ WordBox(w).x2 \in Nat
                      /\ WordBox(w).x1 < WordBox(w).x2
    BY <2>1, WordInPage DEF InPage
  <2> QED BY <2>2
<1>2. starts \subseteq lo .. hi /\ ends \subseteq lo .. hi
  BY <1>1
<1>3. IsFiniteSet(starts)
  <2> DEFINE f == [w \in ws |-> WordBox(w).x1]
  <2>1. \A y \in starts : \E w \in ws : f[w] = y
    OBVIOUS
  <2>2. IsFiniteSet(ws)
    BY DEF Placed
  <2> HIDE DEF f, starts
  <2> QED BY <2>1, <2>2, ImageFinite
<1>4. IsFiniteSet(ends)
  <2> DEFINE f == [w \in ws |-> WordBox(w).x2]
  <2>1. \A y \in ends : \E w \in ws : f[w] = y
    OBVIOUS
  <2>2. IsFiniteSet(ws)
    BY DEF Placed
  <2> HIDE DEF f, ends
  <2> QED BY <2>1, <2>2, ImageFinite
<1>5. good \in SUBSET starts
  OBVIOUS
<1>6. ends # {} <=> starts # {}
  OBVIOUS
<1>7. \/ ColumnTextBounds(ws) = {}
      \/ Cardinality(good) >= 2 /\ ColumnTextBounds(ws) = outer \cup mids
  <2>1. Cardinality(good) \in Nat
    <3> HIDE DEF good, starts
    <3> QED BY <1>3, <1>5, FS_Subset, FS_CardinalityType
  <2>2. CASE Cardinality(lines) < 4 \/ Cardinality(good) < 2
    BY <2>2 DEF ColumnTextBounds
  <2>3. CASE ~(Cardinality(lines) < 4 \/ Cardinality(good) < 2)
    <3>1. ColumnTextBounds(ws) = outer \cup mids
      BY <2>3 DEF ColumnTextBounds
    <3>2. Cardinality(good) >= 2
      <4> HIDE DEF good
      <4> QED BY <2>1, <2>3
    <3> QED BY <3>1, <3>2
  <2> QED BY <2>2, <2>3
<1> HIDE DEF starts, ends, good
<1>8. good \subseteq lo .. hi /\ IsFiniteSet(good) /\ good \in SUBSET Int
  <2>1. IsFiniteSet(good)
    BY <1>3, <1>5, FS_Subset
  <2>2. \A x \in lo .. hi : x \in Int
    OBVIOUS
  <2>3. good \subseteq lo .. hi
    BY <1>2, <1>5
  <2> QED BY <2>1, <2>2, <2>3
<1>9. ASSUME Cardinality(good) >= 2
      PROVE Between(outer \cup mids, lo, hi)
  <2>1. good # {}
    BY <1>9, FS_EmptySet
  <2>2. Min(good) \in lo .. hi
    BY <1>8, <2>1, Extremes
  <2>3. Max(ends) \in lo .. hi
    <3>1. ends # {} /\ ends \in SUBSET Int
      <4>1. \A x \in lo .. hi : x \in Int
        OBVIOUS
      <4>2. starts # {}
        BY <1>5, <2>1
      <4> QED BY <1>2, <1>6, <4>1, <4>2
    <3> QED BY <1>2, <1>4, <3>1, Extremes
  <2>4. ASSUME NEW p \in Neighbours(good)  PROVE mid(p) \in lo .. hi
    <3>1. p[1] \in lo .. hi /\ p[2] \in lo .. hi
      BY <1>8, NextIn
    <3> QED BY <1>1, <3>1
  <2>5. IsFiniteSet(mids)
    <3> DEFINE f == [p \in Neighbours(good) |-> mid(p)]
    <3>1. \A y \in mids : \E p \in Neighbours(good) : f[p] = y
      OBVIOUS
    <3>2. IsFiniteSet(Neighbours(good))
      BY <1>8, NeighboursFinite
    <3> HIDE DEF mids, f
    <3> QED BY <3>1, <3>2, ImageFinite
  <2>6. IsFiniteSet(outer)
    <3>1. outer = {Min(good)} \cup {Max(ends)}
      OBVIOUS
    <3> HIDE DEF outer
    <3> QED BY <3>1, FS_Singleton, FS_AddElement
  <2>7. IsFiniteSet(outer \cup mids)
    BY <2>5, <2>6, FS_Union
  <2>8. outer \cup mids \subseteq lo .. hi
    BY <2>2, <2>3, <2>4
  <2> QED BY <2>7, <2>8 DEF Between
<1> QED BY <1>7, <1>9, FS_EmptySet DEF Between

LEMMA BoundariesOrdered ==
  ASSUME NEW hi \in Nat, NEW S, Within(S, hi)
  PROVE LET s == Increasing(S) IN
    /\ Len(s) \in Nat
    /\ \A i \in 1 .. Len(s) : s[i] \in 0 .. hi
    /\ \A i, j \in 1 .. Len(s) : i < j => s[i] < s[j]
<1>1. S \subseteq 0 .. hi /\ IsFiniteSet(S) /\ S \in SUBSET Int
  BY DEF Between, Within
<1> DEFINE s == Increasing(S)
<1>2. /\ Cardinality(S) \in Nat /\ DOMAIN s = 1 .. Cardinality(S) /\ Len(s) = Cardinality(S)
      /\ \A i \in DOMAIN s : s[i] \in S
      /\ \A i, j \in DOMAIN s : i < j => s[i] < s[j]
  BY <1>1, Sorted
<1> HIDE DEF s
<1>3. /\ Len(s) \in Nat
      /\ \A i \in 1 .. Len(s) : s[i] \in 0 .. hi
      /\ \A i, j \in 1 .. Len(s) : i < j => s[i] < s[j]
  BY <1>1, <1>2
<1> QED BY <1>3 DEF s

-----------------------------------------------------------------------------
(* The cells of a table                                                    *)

CellOK(c) ==
  /\ {"row", "column", "rowspan", "colspan", "words", "first", "box"} = DOMAIN c
  /\ c.row \in Nat /\ c.column \in Nat /\ c.first \in Nat \X Nat
  /\ c.rowspan \in Nat \ {0} /\ c.colspan \in Nat \ {0}
  /\ InPage(c.box)
TableOK(cells) ==
  /\ IsFiniteSet(cells)
  /\ \A c \in cells : CellOK(c)
  /\ \A c, d \in cells : c.first = d.first => c = d

GridOK(grid) ==
  /\ Len(grid.y) \in Nat /\ Len(grid.x) \in Nat
  /\ \A i \in 1 .. Len(grid.y) : grid.y[i] \in 0 .. Spot * Rows
  /\ \A i, j \in 1 .. Len(grid.y) : i < j => grid.y[i] < grid.y[j]
  /\ \A i \in 1 .. Len(grid.x) : grid.x[i] \in 0 .. Spot * Cols
  /\ \A i, j \in 1 .. Len(grid.x) : i < j => grid.x[i] < grid.x[j]

LEMMA BoundariesOK ==
  ASSUME NEW ws, Placed(ws), NEW ink
  PROVE GridOK(Boundaries(ink, ws))
<1> DEFINE down == {w \in ws : CenterDown(WordBox(w), Region(ink))}
           across == {w \in ws : CenterAcross(WordBox(w), Region(ink))}
           rows == Supplement(Ruled(ink.h, Rows), RowTextBounds(down))
           cols == Supplement(Ruled(ink.v, Cols), ColumnTextBounds(across))
<1>1. /\ Spot * Rows \in Nat /\ Spot * Cols \in Nat /\ Rows \in Nat /\ Cols \in Nat
      /\ Placed(down) /\ Placed(across)
  BY SomePlaced, SpotsAssumption DEF Spot
<1> HIDE DEF down, across
<1>2. Within(rows.bounds, Spot * Rows)
  <2>1. \A w \in down : 0 <= WordBox(w).y1 /\ WordBox(w).y2 <= Spot * Rows
    BY <1>1, WordInPage DEF InPage
  <2> QED BY <1>1, <2>1, RuledWithin, RowBoundsWithin, SupplementWithin DEF Within
<1>3. Within(cols.bounds, Spot * Cols)
  <2>1. \A w \in across : 0 <= WordBox(w).x1 /\ WordBox(w).x2 <= Spot * Cols
    BY <1>1, WordInPage DEF InPage
  <2> QED BY <1>1, <2>1, RuledWithin, ColumnBoundsWithin, SupplementWithin DEF Within
<1>4. /\ Boundaries(ink, ws).y = Increasing(rows.bounds)
      /\ Boundaries(ink, ws).x = Increasing(cols.bounds)
  BY DEF Boundaries, down, across
<1> HIDE DEF rows, cols
<1> QED BY <1>1, <1>2, <1>3, <1>4, BoundariesOrdered DEF GridOK

(* A group of base cells: where its cell lies, and what it meets first.    *)
LEMMA GroupFirst ==
  ASSUME NEW m \in Nat, NEW n \in Nat, NEW g \in SUBSET ((1 .. m) \X (1 .. n)), g # {}
  PROVE /\ FirstOf(g) \in g
        /\ Min({p[1] : p \in g}) \in 1 .. m /\ Max({p[1] : p \in g}) \in 1 .. m
        /\ Min({p[2] : p \in g}) \in 1 .. n /\ Max({p[2] : p \in g}) \in 1 .. n
        /\ Min({p[1] : p \in g}) <= Max({p[1] : p \in g})
        /\ Min({p[2] : p \in g}) <= Max({p[2] : p \in g})
<1> DEFINE T1 == {p[1] : p \in g}
           T2 == {p[2] : p \in g}
<1>1. T1 \in SUBSET (1 .. m) /\ T1 # {} /\ T1 \in SUBSET Int
  OBVIOUS
<1>2. T2 \in SUBSET (1 .. n) /\ T2 # {} /\ T2 \in SUBSET Int
  OBVIOUS
<1>3. IsFiniteSet(1 .. m) /\ IsFiniteSet(1 .. n)
  BY FS_Interval
<1> DEFINE r == Min(T1)
           T == {q \in 1 .. n : <<r, q>> \in g}
           c == Min(T)
<1>4. r \in T1 /\ (\A y \in T1 : r <= y) /\ Max(T1) \in T1 /\ \A y \in T1 : y <= Max(T1)
  <2> HIDE DEF T1
  <2> QED BY <1>1, <1>3, FS_Subset, Extremes
<1>5. Min(T2) \in T2 /\ (\A y \in T2 : Min(T2) <= y) /\ Max(T2) \in T2
  <2> HIDE DEF T2
  <2> QED BY <1>2, <1>3, FS_Subset, Extremes
<1>6. T # {} /\ T \in SUBSET (1 .. n) /\ T \in SUBSET Int
  <2>1. PICK p \in g : p[1] = r
    BY <1>4
  <2>2. p = <<p[1], p[2]>> /\ p[2] \in 1 .. n
    OBVIOUS
  <2> HIDE DEF r
  <2> QED BY <2>1, <2>2
<1>7. c \in T /\ \A y \in T : c <= y
  <2> HIDE DEF T
  <2> QED BY <1>3, <1>6, FS_Subset, Extremes
<1> HIDE DEF c
<1>8. FirstOf(g) \in g
  <2> DEFINE p == <<r, c>>
  <2>1. p \in g /\ p[1] = r /\ p[2] = c
    BY <1>7
  <2>2. \A q \in g : q = <<q[1], q[2]>> /\ q[1] \in T1 /\ q[1] \in Int /\ q[2] \in 1 .. n
    OBVIOUS
  <2> HIDE DEF r, T1
  <2>3. ASSUME NEW q \in g  PROVE p[1] < q[1] \/ (p[1] = q[1] /\ p[2] <= q[2])
    <3>1. CASE q[1] = r
      <4>1. q[2] \in T
        BY <2>2, <3>1
      <4> QED BY <1>7, <2>1, <3>1, <4>1
    <3>2. CASE q[1] # r
      <4>1. r <= q[1] /\ r \in Int
        BY <1>1, <1>4, <2>2
      <4> QED BY <2>1, <2>2, <3>2, <4>1
    <3> QED BY <3>1, <3>2
  <2> HIDE DEF p
  <2> QED BY <2>1, <2>3 DEF FirstOf
<1> HIDE DEF r
<1>9. r \in 1 .. m /\ Max(T1) \in 1 .. m /\ r <= Max(T1)
  BY <1>1, <1>4
<1>10. Min(T2) \in 1 .. n /\ Max(T2) \in 1 .. n /\ Min(T2) <= Max(T2)
  BY <1>2, <1>5
<1> QED BY <1>8, <1>9, <1>10 DEF r

LEMMA CellOfOK ==
  ASSUME NEW grid, GridOK(grid), Len(grid.y) >= 2, Len(grid.x) >= 2,
         NEW g \in SUBSET BaseCells(grid), g # {}, NEW ws
  PROVE CellOK(CellOf(g, grid, ws)) /\ CellOf(g, grid, ws).first = FirstOf(g)
<1> DEFINE m == Len(grid.y) - 1
           n == Len(grid.x) - 1
           r0 == Min({p[1] : p \in g})
           r1 == Max({p[1] : p \in g})
           c0 == Min({p[2] : p \in g})
           c1 == Max({p[2] : p \in g})
           c == CellOf(g, grid, ws)
<1>1. m \in Nat /\ n \in Nat /\ g \in SUBSET ((1 .. m) \X (1 .. n))
  BY DEF GridOK, BaseCells
<1>2. /\ FirstOf(g) \in g
      /\ r0 \in 1 .. m /\ r1 \in 1 .. m /\ c0 \in 1 .. n /\ c1 \in 1 .. n /\ r0 <= r1 /\ c0 <= c1
  <2> HIDE DEF m, n
  <2> QED BY <1>1, GroupFirst
<1> HIDE DEF r0, r1, c0, c1
<1>3. /\ c.row = r0 - 1 /\ c.column = c0 - 1 /\ c.rowspan = r1 - r0 + 1 /\ c.colspan = c1 - c0 + 1
      /\ c.first = FirstOf(g)
      /\ c.box = [x1 |-> grid.x[c0], y1 |-> grid.y[r0], x2 |-> grid.x[c1 + 1], y2 |-> grid.y[r1 + 1]]
      /\ {"row", "column", "rowspan", "colspan", "words", "first", "box"} = DOMAIN c
  <2> DEFINE box == Box(grid.x[c0], grid.y[r0], grid.x[c1 + 1], grid.y[r1 + 1])
  <2>1. c = [row |-> r0 - 1, column |-> c0 - 1, rowspan |-> r1 - r0 + 1, colspan |-> c1 - c0 + 1,
             box |-> box, words |-> CellWords(ws, box), first |-> FirstOf(g)]
    BY DEF CellOf, r0, r1, c0, c1
  <2>2. box = [x1 |-> grid.x[c0], y1 |-> grid.y[r0], x2 |-> grid.x[c1 + 1], y2 |-> grid.y[r1 + 1]]
    BY DEF Box
  <2> HIDE DEF c, box
  <2> QED BY <2>1, <2>2
<1> HIDE DEF c
<1>4. /\ c0 \in 1 .. Len(grid.x) /\ c1 + 1 \in 1 .. Len(grid.x) /\ c0 < c1 + 1
      /\ r0 \in 1 .. Len(grid.y) /\ r1 + 1 \in 1 .. Len(grid.y) /\ r0 < r1 + 1
  <2>1. Len(grid.x) \in Nat /\ Len(grid.y) \in Nat
    BY DEF GridOK
  <2>2. r0 \in 1 .. m /\ r1 \in 1 .. m /\ c0 \in 1 .. n /\ c1 \in 1 .. n /\ r0 <= r1 /\ c0 <= c1
    BY <1>2
  <2> QED BY <2>1, <2>2
<1> DEFINE a == grid.x[c0]
           b == grid.x[c1 + 1]
           d == grid.y[r0]
           e == grid.y[r1 + 1]
<1>5. /\ a \in 0 .. Spot * Cols /\ b \in 0 .. Spot * Cols /\ a < b
      /\ d \in 0 .. Spot * Rows /\ e \in 0 .. Spot * Rows /\ d < e
  BY <1>4 DEF GridOK
<1> HIDE DEF a, b, d, e
<1>6. a \in Nat /\ b \in a + 1 .. Spot * Cols /\ d \in Nat /\ e \in d + 1 .. Spot * Rows
  <2>1. Spot * Cols \in Int /\ Spot * Rows \in Int
    BY SpotsAssumption DEF Spot
  <2> QED BY <1>5, <2>1
<1>7. InPage(c.box)
  BY <1>3, <1>6 DEF InPage, a, b, d, e
<1>8. c.first \in Nat \X Nat
  <2> HIDE DEF m, n
  <2>1. FirstOf(g) \in (1 .. m) \X (1 .. n)
    BY <1>1, <1>2
  <2> QED BY <1>3, <2>1
<1>9. c.row \in Nat /\ c.column \in Nat /\ c.rowspan \in Nat \ {0} /\ c.colspan \in Nat \ {0}
  <2> HIDE DEF m, n
  <2> QED BY <1>2, <1>3
<1> QED BY <1>3, <1>7, <1>8, <1>9 DEF CellOK, c

LEMMA UnseparatedOK ==
  ASSUME NEW grid, GridOK(grid), NEW ink
  PROVE /\ IsFiniteSet(BaseCells(grid))
        /\ Unseparated(grid, ink) \in SUBSET (BaseCells(grid) \X BaseCells(grid))
        /\ IsFiniteSet(Unseparated(grid, ink))
<1> DEFINE base == BaseCells(grid)
<1>1. IsFiniteSet(base)
  <2>1. Len(grid.y) - 1 \in Int /\ Len(grid.x) - 1 \in Int
    BY DEF GridOK
  <2>2. IsFiniteSet(1 .. Len(grid.y) - 1) /\ IsFiniteSet(1 .. Len(grid.x) - 1)
    BY <2>1, FS_Interval
  <2> QED BY <2>2, FS_Product DEF BaseCells
<1>2. Unseparated(grid, ink) \in SUBSET (base \X base)
  BY DEF Unseparated
<1>3. IsFiniteSet(base \X base)
  BY <1>1, FS_Product
<1> QED BY <1>1, <1>2, <1>3, FS_Subset

(* A ruled table's cells lie in the page, and no two begin where the scan  *)
(* of the grid meets the same base cell.                                   *)
LEMMA StructureOK ==
  ASSUME NEW grid, GridOK(grid), NEW ink, NEW ws, Structure(grid, ink, ws) # NoTable
  PROVE TableOK(Structure(grid, ink, ws).cells)
<1> DEFINE A == Unseparated(grid, ink)
           base == BaseCells(grid)
           groups == {United(p, A) : p \in base}
           cells == {CellOf(g, grid, ws) : g \in groups}
<1>1. /\ IsFiniteSet(base) /\ A \in SUBSET (base \X base) /\ IsFiniteSet(A)
  BY UnseparatedOK
<1>2. Len(grid.y) >= 2 /\ Len(grid.x) >= 2 /\ Structure(grid, ink, ws).cells = cells
  <2>1. Len(grid.y) \in Nat /\ Len(grid.x) \in Nat
    BY DEF GridOK
  <2>2. ~(Len(grid.y) < 2 \/ Len(grid.x) < 2) /\ Structure(grid, ink, ws).cells = cells
    BY DEF Structure
  <2> QED BY <2>1, <2>2
<1> HIDE DEF A, base
<1>3. ASSUME NEW p \in base
      PROVE p \in United(p, A) /\ United(p, A) \in SUBSET base
  <2>1. Closed(base, A)
    BY <1>1 DEF Closed
  <2> QED BY <1>1, <2>1, UnitedCloses
<1>4. \A g \in groups : g \in SUBSET base /\ g # {}
  BY <1>3
<1>5. \A g \in groups : CellOK(CellOf(g, grid, ws)) /\ CellOf(g, grid, ws).first = FirstOf(g)
  BY <1>2, <1>4, CellOfOK DEF base
<1>6. \A g \in groups : FirstOf(g) \in g
  <2> SUFFICES ASSUME NEW g \in groups  PROVE FirstOf(g) \in g
    OBVIOUS
  <2> DEFINE m == Len(grid.y) - 1
             n == Len(grid.x) - 1
  <2>1. m \in Nat /\ n \in Nat
    BY <1>2 DEF GridOK
  <2>2. g \in SUBSET ((1 .. m) \X (1 .. n)) /\ g # {}
    BY <1>4 DEF base, BaseCells
  <2> HIDE DEF m, n, groups
  <2> QED BY <2>1, <2>2, GroupFirst
<1>7. \A g, h \in groups : FirstOf(g) = FirstOf(h) => g = h
  <2> SUFFICES ASSUME NEW g \in groups, NEW h \in groups, FirstOf(g) = FirstOf(h)  PROVE g = h
    OBVIOUS
  <2>1. PICK p \in base : g = United(p, A)
    OBVIOUS
  <2>2. PICK q \in base : h = United(q, A)
    OBVIOUS
  <2>3. FirstOf(g) \in United(p, A) \cap United(q, A)
    BY <1>6, <2>1, <2>2
  <2> QED BY <1>1, <2>1, <2>2, <2>3, GroupsApart
<1>8. IsFiniteSet(groups)
  <2> DEFINE f == [p \in base |-> United(p, A)]
  <2>1. \A g \in groups : \E p \in base : f[p] = g
    OBVIOUS
  <2> HIDE DEF f, groups
  <2> QED BY <1>1, <2>1, ImageFinite
<1>9. IsFiniteSet(cells)
  <2> DEFINE f == [g \in groups |-> CellOf(g, grid, ws)]
  <2>1. \A c \in cells : \E g \in groups : f[g] = c
    OBVIOUS
  <2> HIDE DEF f, groups, cells
  <2> QED BY <1>8, <2>1, ImageFinite
<1>10. \A c, d \in cells : c.first = d.first => c = d
  <2> HIDE DEF groups
  <2> QED BY <1>5, <1>7
<1>11. \A c \in cells : CellOK(c)
  <2> HIDE DEF groups
  <2> QED BY <1>5
<1> QED BY <1>2, <1>9, <1>10, <1>11 DEF TableOK

(* A table without rules has a cell for each of its rows and columns.      *)
LEMMA FromRowsOK ==
  ASSUME NEW ws, Placed(ws), NEW rows \in SUBSET {w.line : w \in ws},
         NEW bands \in SUBSET {WordBox(w).x1 : w \in {w \in ws : w.line \in rows}}, bands # {}
  PROVE TableOK(FromRows(rows, bands, ws).cells)
<1> DEFINE line == Increasing(rows)
           left == Increasing(bands)
           all == {w \in ws : w.line \in rows}
           hull == Hull({WordBox(w) : w \in all})
           right(c) == IF c = Len(left) THEN hull.x2 + 1 ELSE left[c + 1]
           box(r, c) == Box(left[c], Spot * line[r] + 12, right(c), Spot * line[r] + 48)
           cell(r, c) ==
             [row |-> r - 1, column |-> c - 1, rowspan |-> 1, colspan |-> 1, first |-> <<r, c>>,
              box |-> box(r, c),
              words |-> {w \in LineWords(line[r], ws) : left[c] - 5 <= WordBox(w).x1
                                                           /\ WordBox(w).x1 < right(c) - 5}]
           cells == {cell(r, c) : r \in DOMAIN line, c \in DOMAIN left}
<1>1. FromRows(rows, bands, ws).cells = cells
  BY DEF FromRows
<1>2. rows \subseteq 0 .. Rows - 1 /\ IsFiniteSet(rows) /\ Placed(all) /\ IsFiniteSet(all)
  BY LinesFinite, SomePlaced, FS_Subset DEF Placed
<1>3. \A w \in all : InPage(WordBox(w)) /\ WordBox(w).x2 < Spot * Cols
  BY <1>2, WordInPage
<1>4. bands \in SUBSET Nat /\ IsFiniteSet(bands)
  <2> DEFINE f == [w \in all |-> WordBox(w).x1]
  <2>1. \A x \in bands : \E w \in all : f[w] = x
    OBVIOUS
  <2>2. bands \in SUBSET Nat
    BY <1>3 DEF InPage
  <2>3. IsFiniteSet(all)
    BY <1>2
  <2> HIDE DEF f, all
  <2>4. IsFiniteSet(bands)
    BY ONLY <2>1, <2>3, ImageFinite
  <2> QED BY <2>2, <2>4
<1>5. hull.x2 \in Nat /\ hull.x2 < Spot * Cols /\ \A x \in bands : x < hull.x2
  <2> DEFINE ends == {WordBox(w).x2 : w \in all}
             f == [w \in all |-> WordBox(w).x2]
  <2>1. \A x \in ends : \E w \in all : f[w] = x
    OBVIOUS
  <2>2. IsFiniteSet(ends)
    <3> HIDE DEF f, all, ends
    <3> QED BY <1>2, <2>1, ImageFinite
  <2>3. \A w \in all : WordBox(w).x1 \in Nat /\ WordBox(w).x2 \in Nat /\ WordBox(w).x1 < WordBox(w).x2
    BY <1>3 DEF InPage
  <2>4. ends \in SUBSET Int /\ ends # {} /\ \A y \in ends : y \in Nat /\ y < Spot * Cols
    BY <1>3, <2>3
  <2>5. {b.x2 : b \in {WordBox(w) : w \in all}} = ends
    OBVIOUS
  <2>6. hull.x2 = Max(ends)
    BY <2>5 DEF Hull, Box
  <2>7. Max(ends) \in ends /\ \A y \in ends : y <= Max(ends)
    <3> HIDE DEF ends
    <3> QED BY <2>2, <2>4, Extremes
  <2>8. \A x \in bands : x < Max(ends)
    <3> SUFFICES ASSUME NEW x \in bands  PROVE x < Max(ends)
      OBVIOUS
    <3>1. PICK w \in all : x = WordBox(w).x1
      OBVIOUS
    <3>2. WordBox(w).x2 \in ends
      BY <3>1
    <3>3. WordBox(w).x2 <= Max(ends) /\ Max(ends) \in Nat
      BY <2>4, <2>7, <3>2
    <3> QED BY <2>3, <3>1, <3>3
  <2> QED BY <2>4, <2>6, <2>7, <2>8
<1>6. /\ Len(line) \in Nat /\ DOMAIN line = 1 .. Len(line)
      /\ \A r \in DOMAIN line : line[r] \in 0 .. Rows - 1
  <2>1. rows \in SUBSET Int /\ IsFiniteSet(rows)
    BY <1>2
  <2>2. /\ Len(line) \in Nat /\ DOMAIN line = 1 .. Len(line)
        /\ \A r \in DOMAIN line : line[r] \in rows
    BY ONLY <2>1, Sorted
  <2> HIDE DEF line
  <2> QED BY <1>2, <2>2
<1>7. /\ Len(left) \in Nat /\ DOMAIN left = 1 .. Len(left)
      /\ \A c \in DOMAIN left : left[c] \in bands
      /\ \A c, d \in DOMAIN left : c < d => left[c] < left[d]
  <2>1. bands \in SUBSET Int
    BY <1>4
  <2> QED BY <1>4, <2>1, Sorted
<1> DEFINE top == hull.x2
<1> HIDE DEF line, left
<1>8. ASSUME NEW r \in DOMAIN line, NEW c \in DOMAIN left
      PROVE InPage(box(r, c))
  <2>1. left[c] \in Nat /\ right(c) \in Nat /\ left[c] < right(c) /\ right(c) <= Spot * Cols
    <3>1. CASE c = Len(left)
      <4>1. right(c) = top + 1
        BY <3>1
      <4>2. top \in Nat /\ top < Spot * Cols /\ left[c] \in Nat /\ left[c] < top
        BY <1>4, <1>5, <1>7
      <4>3. Spot * Cols \in Int
        BY SpotsAssumption DEF Spot
      <4> HIDE DEF top, right
      <4> QED BY <4>1, <4>2, <4>3
    <3>2. CASE c # Len(left)
      <4>1. c + 1 \in DOMAIN left /\ c < c + 1
        BY <1>7, <3>2
      <4>2. right(c) = left[c + 1] /\ left[c] < left[c + 1]
        BY <1>7, <3>2, <4>1
      <4>3. left[c] \in Nat /\ left[c + 1] \in Nat /\ left[c + 1] < top /\ top < Spot * Cols /\ top \in Nat
        BY <1>4, <1>5, <1>7, <4>1
      <4>4. Spot * Cols \in Int
        BY SpotsAssumption DEF Spot
      <4> HIDE DEF top, right
      <4> QED BY <4>2, <4>3, <4>4
    <3> QED BY <3>1, <3>2
  <2>2. line[r] \in 0 .. Rows - 1
    BY <1>6
  <2> DEFINE k == line[r]
             a == left[c]
             b == right(c)
  <2>3. box(r, c) = [x1 |-> a, y1 |-> 60 * k + 12, x2 |-> b, y2 |-> 60 * k + 48]
    BY DEF Box, Spot
  <2>4. a \in Nat /\ b \in a + 1 .. Spot * Cols
    <3>1. Spot * Cols \in Int
      BY SpotsAssumption DEF Spot
    <3> HIDE DEF a, b, right
    <3> QED BY <2>1, <3>1 DEF a, b
  <2>5. k \in 0 .. Rows - 1 /\ Rows \in Nat
    BY <2>2, SpotsAssumption
  <2> HIDE DEF k, a, b
  <2>6. 60 * k + 12 \in Nat /\ 60 * k + 48 \in (60 * k + 12) + 1 .. 60 * Rows
    BY <2>5
  <2> QED BY <2>3, <2>4, <2>6 DEF InPage, Spot
<1> HIDE DEF box, right
<1>9. ASSUME NEW r \in DOMAIN line, NEW c \in DOMAIN left
      PROVE CellOK(cell(r, c)) /\ cell(r, c).first = <<r, c>>
  <2>1. r \in Nat /\ c \in Nat /\ r - 1 \in Nat /\ c - 1 \in Nat
    BY <1>6, <1>7
  <2> QED BY <1>8, <2>1 DEF CellOK
<1>10. IsFiniteSet(cells)
  <2> DEFINE places == (1 .. Len(line)) \X (1 .. Len(left))
             f == [p \in places |-> cell(p[1], p[2])]
  <2>1. IsFiniteSet(places)
    <3>1. IsFiniteSet(1 .. Len(line)) /\ IsFiniteSet(1 .. Len(left))
      BY <1>6, <1>7, FS_Interval
    <3> QED BY ONLY <3>1, FS_Product
  <2> HIDE DEF cell
  <2>2. ASSUME NEW y \in cells  PROVE \E p \in places : f[p] = y
    <3>1. PICK r \in DOMAIN line, c \in DOMAIN left : y = cell(r, c)
      OBVIOUS
    <3>2. <<r, c>> \in places
      BY <1>6, <1>7
    <3>3. f[<<r, c>>] = cell(r, c)
      <4> HIDE DEF places
      <4> QED BY <3>2
    <3> HIDE DEF places, f
    <3> QED BY <3>1, <3>2, <3>3
  <2> HIDE DEF places, f, cells
  <2> QED BY <2>1, <2>2, ImageFinite
<1> HIDE DEF cell
<1>11. ASSUME NEW c \in cells, NEW d \in cells, c.first = d.first  PROVE c = d
  <2>1. PICK r \in DOMAIN line, k \in DOMAIN left : c = cell(r, k)
    OBVIOUS
  <2>2. PICK q \in DOMAIN line, l \in DOMAIN left : d = cell(q, l)
    OBVIOUS
  <2>3. <<r, k>> = <<q, l>>
    BY <1>9, <1>11, <2>1, <2>2
  <2> QED BY <2>1, <2>2, <2>3
<1>12. \A c \in cells : CellOK(c)
  BY <1>9
<1> QED BY <1>1, <1>10, <1>11, <1>12 DEF TableOK

LEMMA RunsOK ==
  ASSUME NEW ws, Placed(ws)
  PROVE Runs(ws) \in SUBSET SUBSET {w.line : w \in ws} /\ IsFiniteSet(Runs(ws))
<1> DEFINE lines == {w.line : w \in ws}
           order == Increasing(TableRows(ws))
           n == Len(order)
           part(i, j) == {order[k] : k \in i .. j}
           good(i) == {j \in i .. n : \A k \in i + 1 .. j :
                         Cardinality(SharedBands(part(i, k), ws)) >= MinCols}
           end(i) == Max(good(i))
<1>1. lines \in SUBSET Int /\ IsFiniteSet(lines)
  <2>1. lines \subseteq 0 .. Rows - 1 /\ IsFiniteSet(lines)
    BY LinesFinite
  <2>2. \A x \in 0 .. Rows - 1 : x \in Int
    OBVIOUS
  <2> QED BY <2>1, <2>2
<1>2. TableRows(ws) \in SUBSET lines
  BY DEF TableRows
<1>3. TableRows(ws) \in SUBSET Int /\ IsFiniteSet(TableRows(ws))
  BY <1>1, <1>2, FS_Subset
<1>4. n \in Nat /\ \A k \in 1 .. n : order[k] \in lines
  <2>1. /\ Len(order) \in Nat /\ DOMAIN order = 1 .. Len(order)
        /\ \A k \in DOMAIN order : order[k] \in TableRows(ws)
    BY ONLY <1>3, Sorted
  <2> HIDE DEF order
  <2> QED BY <1>2, <2>1
<1>5. Runs(ws) \in SUBSET {part(i, end(i)) : i \in 1 .. n}
  BY DEF Runs
<1> HIDE DEF order, lines, n
<1>6. ASSUME NEW i \in 1 .. n  PROVE part(i, end(i)) \in SUBSET lines
  <2>1. i \in good(i)
    BY <1>4
  <2>2. good(i) \in SUBSET (i .. n)
    OBVIOUS
  <2>3. IsFiniteSet(i .. n)
    BY <1>4, FS_Interval
  <2>4. good(i) \in SUBSET Int /\ IsFiniteSet(good(i)) /\ good(i) # {}
    <3>1. \A j \in i .. n : j \in Int
      OBVIOUS
    <3> HIDE DEF good
    <3> QED BY <2>1, <2>2, <2>3, <3>1, FS_Subset
  <2> HIDE DEF good
  <2>5. end(i) \in i .. n
    BY <2>2, <2>4, Extremes
  <2> HIDE DEF end
  <2>6. \A k \in i .. end(i) : k \in 1 .. n
    BY <1>4, <2>5
  <2> QED BY <1>4, <2>6
<1> HIDE DEF part, end
<1>7. Runs(ws) \in SUBSET SUBSET lines
  BY <1>5, <1>6
<1>8. IsFiniteSet(SUBSET lines)
  BY <1>1, FS_SUBSET
<1>9. IsFiniteSet(Runs(ws))
  BY <1>7, <1>8, FS_Subset
<1> QED BY <1>7, <1>9 DEF lines

(* Tables have cells, each at its own place in the page.                   *)
TablesOK(ts) ==
  /\ IsFiniteSet(ts)
  /\ \A t \in ts : "cells" \in DOMAIN t /\ TableOK(t.cells)

LEMMA ClampedOK ==
  ASSUME NEW ts, TablesOK(ts), NEW a4
  PROVE TablesOK({ClampToA4(t, a4) : t \in ts})
<1> DEFINE f == [t \in ts |-> ClampToA4(t, a4)]
           us == {ClampToA4(t, a4) : t \in ts}
<1>1. \A u \in us : \E t \in ts : f[t] = u
  OBVIOUS
<1>2. IsFiniteSet(us)
  <2> HIDE DEF f, us
  <2> QED BY <1>1, ImageFinite DEF TablesOK
<1>3. ASSUME NEW t \in ts
      PROVE "cells" \in DOMAIN ClampToA4(t, a4) /\ ClampToA4(t, a4).cells = t.cells
  <2>1. "cells" \in DOMAIN t
    BY DEF TablesOK
  <2>2. ClampToA4(t, a4) = t \/ \E b : ClampToA4(t, a4) = [t EXCEPT !.box = b]
    BY DEF ClampToA4
  <2> QED BY <2>1, <2>2
<1> QED BY <1>2, <1>3 DEF TablesOK

LEMMA SomeTablesOK ==
  ASSUME NEW ts, TablesOK(ts), NEW us \in SUBSET ts
  PROVE TablesOK(us)
BY FS_Subset DEF TablesOK

LEMMA BorderlessOK ==
  ASSUME NEW ws, Placed(ws), NEW numeric
  PROVE TablesOK(BorderlessTables(ws, numeric))
<1> DEFINE good == {rows \in Runs(ws) :
                      LET bands == SharedBands(rows, ws)
                      IN /\ Cardinality(rows) >= MinRows /\ Cardinality(bands) >= MinCols
                         /\ HasNumericColumn(rows, bands, ws, numeric)}
           table(rows) == FromRows(rows, SharedBands(rows, ws), ws)
           tables1 == {table(rows) : rows \in good}
           f == [rows \in good |-> table(rows)]
<1>1. BorderlessTables(ws, numeric) = tables1
  BY DEF BorderlessTables
<1>2. good \in SUBSET Runs(ws)
  OBVIOUS
<1>3. \A t \in tables1 : \E rows \in good : f[rows] = t
  OBVIOUS
<1>4. \A rows \in good : Cardinality(SharedBands(rows, ws)) >= 3
  BY DEF MinCols
<1>5. \A rows \in good : "cells" \in DOMAIN table(rows)
  BY DEF FromRows
<1> HIDE DEF good, f, tables1
<1>6. IsFiniteSet(tables1)
  BY <1>2, <1>3, RunsOK, FS_Subset, ImageFinite
<1>7. ASSUME NEW rows \in good  PROVE TableOK(table(rows).cells)
  <2>1. rows \in SUBSET {w.line : w \in ws}
    BY <1>2, RunsOK
  <2>2. SharedBands(rows, ws) \in SUBSET {WordBox(w).x1 : w \in {w \in ws : w.line \in rows}}
    BY DEF SharedBands
  <2>3. SharedBands(rows, ws) # {}
    <3>1. ~(0 >= 3)
      OBVIOUS
    <3> QED BY <1>4, <3>1, FS_EmptySet
  <2> QED BY <2>1, <2>2, <2>3, FromRowsOK
<1> QED BY <1>1, <1>5, <1>6, <1>7 DEF TablesOK, tables1

LEMMA RuledOK ==
  ASSUME NEW p, Placed(p.words)
  PROVE TablesOK(RuledTables(p))
<1> DEFINE inside == {w \in p.words : Overlaps(WordBox(w), Region(p.ink))}
           grid == Boundaries(p.ink, inside)
           t == Structure(grid, p.ink, inside)
           found == {Structure(g, p.ink, inside) : g \in {grid}} \ {NoTable}
<1>1. Placed(inside)
  BY SomePlaced
<1> HIDE DEF inside
<1>2. GridOK(grid)
  BY <1>1, BoundariesOK
<1>3. found \in SUBSET {t}
  OBVIOUS
<1>4. IsFiniteSet(found)
  <2> HIDE DEF found, t
  <2>1. IsFiniteSet({t})
    BY FS_Singleton
  <2> QED BY <1>3, <2>1, FS_Subset
<1>5. ASSUME t # NoTable  PROVE "cells" \in DOMAIN t /\ TableOK(t.cells)
  <2>1. TableOK(t.cells)
    BY <1>2, <1>5, StructureOK
  <2>2. "cells" \in DOMAIN t
    BY <1>5 DEF Structure
  <2> QED BY <2>1, <2>2
<1>6. TablesOK(found)
  BY <1>3, <1>4, <1>5 DEF TablesOK
<1>7. RuledTables(p) = {} \/ RuledTables(p) = {ClampToA4(u, p.a4) : u \in found}
  BY DEF RuledTables, inside
<1>8. TablesOK({})
  BY FS_EmptySet DEF TablesOK
<1> HIDE DEF found
<1> QED BY <1>6, <1>7, <1>8, ClampedOK

LEMMA UnruledOK ==
  ASSUME NEW p, Placed(p.words), NEW ruled
  PROVE TablesOK(UnruledTables(p, ruled))
<1> DEFINE claimed(t) == \E u \in ruled : Overlaps(t.box, u.box)
           rest == {w \in p.words : ~\E u \in ruled : CenterIn(WordBox(w), u.box)}
           plain == {t \in BorderlessTables(rest, p.numeric) : ~claimed(t)}
           clamped == {ClampToA4(t, p.a4) : t \in plain}
<1>1. Placed(rest)
  BY SomePlaced
<1>2. UnruledTables(p, ruled) = {t \in clamped : ~claimed(t)}
  BY DEF UnruledTables
<1> HIDE DEF rest
<1>3. TablesOK(BorderlessTables(rest, p.numeric))
  BY <1>1, BorderlessOK
<1>4. TablesOK(plain)
  BY <1>3, SomeTablesOK
<1> HIDE DEF plain
<1>5. TablesOK(clamped)
  BY <1>4, ClampedOK
<1> QED BY <1>2, <1>5, SomeTablesOK

-----------------------------------------------------------------------------
(* Boxes                                                                   *)

(* The hull reaches to the edges of its boxes, and no further.             *)
LEMMA HullReaches ==
  ASSUME NEW boxes, IsFiniteSet(boxes), boxes # {}, \A b \in boxes : InPage(b)
  PROVE LET h == Hull(boxes) IN
    /\ \A b \in boxes : h.x1 <= b.x1 /\ b.x2 <= h.x2 /\ h.y1 <= b.y1 /\ b.y2 <= h.y2
    /\ \E b \in boxes : h.x1 = b.x1
    /\ \E b \in boxes : h.x2 = b.x2
    /\ \E b \in boxes : h.y1 = b.y1
    /\ \E b \in boxes : h.y2 = b.y2
    /\ InPage(h)
<1> DEFINE h == Hull(boxes)
           X1 == {b.x1 : b \in boxes}
           X2 == {b.x2 : b \in boxes}
           Y1 == {b.y1 : b \in boxes}
           Y2 == {b.y2 : b \in boxes}
<1>1. h.x1 = Min(X1) /\ h.x2 = Max(X2) /\ h.y1 = Min(Y1) /\ h.y2 = Max(Y2)
  BY DEF Hull, Box
<1>2. Spot * Cols \in Int /\ Spot * Rows \in Int
  BY SpotsAssumption DEF Spot
<1>3. \A b \in boxes : /\ b.x1 \in Nat /\ b.x2 \in Nat /\ b.x1 < b.x2 /\ b.x2 <= Spot * Cols
                       /\ b.y1 \in Nat /\ b.y2 \in Nat /\ b.y1 < b.y2 /\ b.y2 <= Spot * Rows
  BY <1>2 DEF InPage
<1>4. Min(X1) \in X1 /\ \A y \in X1 : Min(X1) <= y
  <2> DEFINE f == [b \in boxes |-> b.x1]
  <2>1. \A y \in X1 : \E b \in boxes : f[b] = y
    OBVIOUS
  <2>2. X1 # {} /\ X1 \in SUBSET Int
    BY <1>3
  <2> HIDE DEF f, X1
  <2>3. IsFiniteSet(X1)
    BY <2>1, ImageFinite
  <2> QED BY <2>2, <2>3, Extremes
<1>5. Max(X2) \in X2 /\ \A y \in X2 : y <= Max(X2)
  <2> DEFINE f == [b \in boxes |-> b.x2]
  <2>1. \A y \in X2 : \E b \in boxes : f[b] = y
    OBVIOUS
  <2>2. X2 # {} /\ X2 \in SUBSET Int
    BY <1>3
  <2> HIDE DEF f, X2
  <2>3. IsFiniteSet(X2)
    BY <2>1, ImageFinite
  <2> QED BY <2>2, <2>3, Extremes
<1>6. Min(Y1) \in Y1 /\ \A y \in Y1 : Min(Y1) <= y
  <2> DEFINE f == [b \in boxes |-> b.y1]
  <2>1. \A y \in Y1 : \E b \in boxes : f[b] = y
    OBVIOUS
  <2>2. Y1 # {} /\ Y1 \in SUBSET Int
    BY <1>3
  <2> HIDE DEF f, Y1
  <2>3. IsFiniteSet(Y1)
    BY <2>1, ImageFinite
  <2> QED BY <2>2, <2>3, Extremes
<1>7. Max(Y2) \in Y2 /\ \A y \in Y2 : y <= Max(Y2)
  <2> DEFINE f == [b \in boxes |-> b.y2]
  <2>1. \A y \in Y2 : \E b \in boxes : f[b] = y
    OBVIOUS
  <2>2. Y2 # {} /\ Y2 \in SUBSET Int
    BY <1>3
  <2> HIDE DEF f, Y2
  <2>3. IsFiniteSet(Y2)
    BY <2>1, ImageFinite
  <2> QED BY <2>2, <2>3, Extremes
<1> HIDE DEF h
<1>8. \A b \in boxes : h.x1 <= b.x1 /\ b.x2 <= h.x2 /\ h.y1 <= b.y1 /\ b.y2 <= h.y2
  BY <1>1, <1>4, <1>5, <1>6, <1>7
<1>9. /\ \E b \in boxes : h.x1 = b.x1
      /\ \E b \in boxes : h.x2 = b.x2
      /\ \E b \in boxes : h.y1 = b.y1
      /\ \E b \in boxes : h.y2 = b.y2
  BY <1>1, <1>4, <1>5, <1>6, <1>7
<1>10. InPage(h)
  <2>1. h.x1 \in Nat /\ h.x2 \in Nat /\ h.x2 <= Spot * Cols /\ h.y1 \in Nat /\ h.y2 \in Nat /\ h.y2 <= Spot * Rows
    BY <1>3, <1>9
  <2>2. PICK b \in boxes : TRUE
    OBVIOUS
  <2>3. h.x1 < h.x2 /\ h.y1 < h.y2
    BY <1>3, <1>8, <2>1, <2>2
  <2> QED BY <1>2, <2>1, <2>3 DEF InPage
<1> QED BY <1>8, <1>9, <1>10 DEF h

(* The boxes of some words, and their hull.                                *)
LEMMA WordBoxesOK ==
  ASSUME NEW ws, Placed(ws)
  PROVE /\ IsFiniteSet({WordBox(w) : w \in ws})
        /\ \A b \in {WordBox(w) : w \in ws} : InPage(b)
        /\ ws # {} => {WordBox(w) : w \in ws} # {}
<1> DEFINE f == [w \in ws |-> WordBox(w)]
           T == {WordBox(w) : w \in ws}
<1>1. \A y \in T : \E w \in ws : f[w] = y
  OBVIOUS
<1>2. IsFiniteSet(ws)
  BY DEF Placed
<1>3. \A b \in T : InPage(b)
  BY WordInPage
<1>4. ws # {} => T # {}
  OBVIOUS
<1> HIDE DEF f, T
<1>5. IsFiniteSet(T)
  BY <1>1, <1>2, ImageFinite
<1> QED BY <1>3, <1>4, <1>5 DEF T

-----------------------------------------------------------------------------
(* Text blocks, pictures and table rows                                    *)

TextOK(b, ws) ==
  b.words \in SUBSET ws /\ b.words # {} /\ b.box = Hull({WordBox(w) : w \in b.words})

LEMMA TextBlocksOK ==
  ASSUME NEW ws, Placed(ws)
  PROVE /\ IsFiniteSet(TextBlocks(ws))
        /\ \A b \in TextBlocks(ws) : b.kind = "text" /\ TextOK(b, ws)
<1> DEFINE lines == {w.line : w \in ws}
           above(l) == {k \in lines : k < l}
           opens == {l \in lines : above(l) = {} \/ ~Continues(l, Max(above(l)), ws)}
           block(o) == {w \in ws : w.line >= o /\ \A p \in opens : ~(o < p /\ p <= w.line)}
           text(o) == [kind |-> "text", words |-> block(o), box |-> Hull({WordBox(w) : w \in block(o)})]
           bs == {text(o) : o \in opens}
           f == [o \in opens |-> text(o)]
<1>1. TextBlocks(ws) = bs
  BY DEF TextBlocks
<1>2. opens \in SUBSET lines /\ IsFiniteSet(lines)
  BY LinesFinite
<1>3. \A l \in lines : l \in Int
  BY DEF Placed
<1>4. \A b \in bs : \E o \in opens : f[o] = b
  OBVIOUS
<1> HIDE DEF opens
<1>5. IsFiniteSet(bs)
  <2> HIDE DEF bs, f, lines
  <2> QED BY <1>2, <1>4, FS_Subset, ImageFinite
<1>6. ASSUME NEW o \in opens  PROVE TextOK(text(o), ws)
  <2>1. PICK w \in ws : w.line = o
    BY <1>2
  <2>2. \A p \in opens : p \in Int
    BY <1>2, <1>3
  <2>3. w \in block(o)
    BY <2>1, <2>2
  <2>4. block(o) \in SUBSET ws
    OBVIOUS
  <2> HIDE DEF block
  <2> QED BY <2>3, <2>4 DEF TextOK
<1>7. \A b \in bs : b.kind = "text" /\ TextOK(b, ws)
  <2> SUFFICES ASSUME NEW o \in opens  PROVE text(o).kind = "text" /\ TextOK(text(o), ws)
    OBVIOUS
  <2>1. text(o).kind = "text"
    OBVIOUS
  <2> HIDE DEF text
  <2> QED BY <1>6, <2>1
<1> HIDE DEF bs
<1> QED BY <1>1, <1>5, <1>7

LEMMA RowsHoldCells ==
  ASSUME NEW cells, TableOK(cells)
  PROVE CellsIn(JsonRows(cells)) = cells
<1> DEFINE places == {c.row : c \in cells}
           starts == Increasing(places)
           inRow(r) == {c \in cells : c.row = r}
           rows == JsonRows(cells)
<1>1. places \in SUBSET Int /\ IsFiniteSet(places)
  <2> DEFINE f == [c \in cells |-> c.row]
  <2>1. \A y \in places : \E c \in cells : f[c] = y
    OBVIOUS
  <2>2. places \in SUBSET Int
    BY DEF TableOK, CellOK
  <2>3. IsFiniteSet(cells)
    BY DEF TableOK
  <2> HIDE DEF f, places
  <2>4. IsFiniteSet(places)
    BY ONLY <2>1, <2>3, ImageFinite
  <2> QED BY <2>2, <2>4
<1>2. /\ \A i \in DOMAIN starts : starts[i] \in places
      /\ \A r \in places : \E i \in DOMAIN starts : starts[i] = r
  <2> HIDE DEF places
  <2> QED BY <1>1, Sorted
<1>3. rows = [i \in DOMAIN starts |-> InOrder(inRow(starts[i]), ReadBefore)]
  BY DEF JsonRows
<1> HIDE DEF starts, rows
<1>4. \A r \in Int : Range(InOrder(inRow(r), ReadBefore)) = inRow(r)
  <2> SUFFICES ASSUME NEW r \in Int  PROVE Range(InOrder(inRow(r), ReadBefore)) = inRow(r)
    OBVIOUS
  <2>1. Keyed(inRow(r))
    <3>1. IsFiniteSet(inRow(r))
      BY FS_Subset DEF TableOK
    <3> QED BY <3>1 DEF Keyed, TableOK, CellOK
  <2> DEFINE s == InOrder(inRow(r), ReadBefore)
  <2>2. (\A i \in DOMAIN s : s[i] \in inRow(r)) /\ \A c \in inRow(r) : \E i \in DOMAIN s : s[i] = c
    <3> HIDE DEF inRow
    <3> QED BY <2>1, ReadInOrder
  <2> HIDE DEF s, inRow
  <2>3. Range(s) = inRow(r)
    BY <2>2 DEF Range
  <2> QED BY <2>3 DEF s
<1>5. \A i \in DOMAIN starts : Range(rows[i]) = inRow(starts[i])
  BY <1>1, <1>2, <1>3, <1>4
<1>6. DOMAIN rows = DOMAIN starts
  BY <1>3
<1>7. \A c \in cells : \E i \in DOMAIN starts : c \in inRow(starts[i])
  BY <1>2
<1> QED BY <1>5, <1>6, <1>7 DEF CellsIn, rows

(* Pictures of a page, told apart by size and place.                       *)
PicturesOK(S) ==
  /\ IsFiniteSet(S) /\ S \subseteq [x1 : Nat, y1 : Nat, x2 : Nat, y2 : Nat]
  /\ \A g \in S : InPage(g)
BySize(S) == {p \in S \X S : LargerFirst(p[1], p[2])}

LEMMA SameHeight ==
  ASSUME NEW w \in Nat, w > 0, NEW a \in Nat, NEW b \in Nat, w * a = w * b
  PROVE a = b
OBVIOUS

LEMMA LargerFirstOrder ==
  ASSUME NEW S, PicturesOK(S)
  PROVE Ordered(S, BySize(S))
<1>1. IsFiniteSet(S)
  BY DEF PicturesOK
<1>2. \A g \in S : /\ g.x1 \in Nat /\ g.x2 \in Nat /\ g.x1 < g.x2 /\ g.y1 \in Nat /\ g.y2 \in Nat /\ g.y1 < g.y2
                   /\ g = [x1 |-> g.x1, y1 |-> g.y1, x2 |-> g.x2, y2 |-> g.y2]
  <2> SUFFICES ASSUME NEW g \in S
               PROVE /\ g.x1 \in Nat /\ g.x2 \in Nat /\ g.x1 < g.x2 /\ g.y1 \in Nat /\ g.y2 \in Nat /\ g.y1 < g.y2
                     /\ g = [x1 |-> g.x1, y1 |-> g.y1, x2 |-> g.x2, y2 |-> g.y2]
    OBVIOUS
  <2>1. g \in [x1 : Nat, y1 : Nat, x2 : Nat, y2 : Nat] /\ InPage(g)
    BY DEF PicturesOK
  <2>2. g.x1 < g.x2 /\ g.y1 < g.y2
    BY <2>1, SpotsAssumption DEF InPage, Spot
  <2> QED BY <2>1, <2>2
<1>3. \A g \in S : Area(g) = (g.x2 - g.x1) * (g.y2 - g.y1) /\ Area(g) \in Nat
  <2> SUFFICES ASSUME NEW g \in S
               PROVE Area(g) = (g.x2 - g.x1) * (g.y2 - g.y1) /\ Area(g) \in Nat
    OBVIOUS
  <2> DEFINE w == g.x2 - g.x1
             h == g.y2 - g.y1
  <2>1. w \in Nat /\ h \in Nat /\ w >= 1 /\ h >= 1
    BY <1>2
  <2>2. Area(g) = Larger(1, w * h)
    BY DEF Area
  <2> HIDE DEF w, h
  <2>3. w * h >= 1 /\ w * h \in Nat
    BY <2>1
  <2>4. Area(g) = w * h
    BY <2>2, <2>3 DEF Larger
  <2> QED BY <2>3, <2>4 DEF w, h
<1>4. \A g, h \in S : g # h => LargerFirst(g, h) \/ LargerFirst(h, g)
  <2> SUFFICES ASSUME NEW g \in S, NEW h \in S, ~LargerFirst(g, h), ~LargerFirst(h, g)
               PROVE g = h
    OBVIOUS
  <2>1. Area(g) = Area(h) /\ g.x1 = h.x1 /\ g.x2 = h.x2 /\ g.y1 = h.y1
    <3>1. /\ Area(g) \in Int /\ Area(h) \in Int /\ g.x1 \in Int /\ h.x1 \in Int
          /\ g.x2 \in Int /\ h.x2 \in Int /\ g.y1 \in Int /\ h.y1 \in Int
      BY <1>2, <1>3
    <3> QED BY <3>1 DEF LargerFirst
  <2>2. (g.x2 - g.x1) * (g.y2 - g.y1) = (g.x2 - g.x1) * (h.y2 - g.y1)
    BY <1>3, <2>1
  <2>3. g.x2 - g.x1 \in Nat /\ g.x2 - g.x1 > 0 /\ g.y2 - g.y1 \in Nat /\ h.y2 - g.y1 \in Nat
    BY <1>2, <2>1
  <2>4. g.y2 - g.y1 = h.y2 - g.y1
    BY <2>2, <2>3, SameHeight
  <2>5. g.y2 = h.y2
    BY <1>2, <2>4
  <2> QED BY <1>2, <2>1, <2>5
<1>5. \A g \in S : ~LargerFirst(g, g)
  BY <1>2, <1>3 DEF LargerFirst
<1>6. ASSUME NEW x \in S, NEW y \in S, NEW z \in S, LargerFirst(x, y), LargerFirst(y, z)
      PROVE LargerFirst(x, z)
  <2>1. /\ Area(x) \in Int /\ Area(y) \in Int /\ Area(z) \in Int
        /\ x.x1 \in Int /\ y.x1 \in Int /\ z.x1 \in Int /\ x.x2 \in Int /\ y.x2 \in Int /\ z.x2 \in Int
        /\ x.y1 \in Int /\ y.y1 \in Int /\ z.y1 \in Int
    BY <1>2, <1>3
  <2> QED BY <1>6, <2>1 DEF LargerFirst
<1> QED BY <1>1, <1>4, <1>5, <1>6 DEF Ordered, BySize

LEMMA LargerFirstList ==
  ASSUME NEW S, PicturesOK(S)
  PROVE LET s == InOrder(S, LargerFirst) IN
    Cardinality(S) \in Nat /\ Len(s) = Cardinality(S) /\ \A i \in 1 .. Cardinality(S) : s[i] \in S
<1>1. Enumerated(InOrder(S, LargerFirst), S, BySize(S))
  <2> DEFINE s == InOrder(S, LargerFirst)
  <2>1. \A x \in S : {y \in S : LargerFirst(y, x)} = Before(S, BySize(S), x)
    BY DEF Before, BySize
  <2>2. DOMAIN s = 1 .. Cardinality(S)
    BY DEF InOrder
  <2>3. ASSUME NEW i \in 1 .. Cardinality(S), NEW w \in S, Cardinality(Before(S, BySize(S), w)) = i - 1
        PROVE s[i] \in S /\ Cardinality(Before(S, BySize(S), s[i])) = i - 1
    <3>1. s[i] = CHOOSE x \in S : Cardinality({y \in S : LargerFirst(y, x)}) = i - 1
      BY DEF InOrder
    <3>2. Cardinality({y \in S : LargerFirst(y, w)}) = i - 1
      BY <2>1, <2>3
    <3>3. s[i] \in S /\ Cardinality({y \in S : LargerFirst(y, s[i])}) = i - 1
      <4> HIDE DEF s
      <4> QED BY <3>1, <3>2
    <3> QED BY <2>1, <3>3
  <2> QED BY <2>2, <2>3 DEF Enumerated
<1>2. Cardinality(S) \in Nat /\ Len(InOrder(S, LargerFirst)) = Cardinality(S)
  BY FS_CardinalityType DEF PicturesOK, InOrder
<1>3. PICK s : s = InOrder(S, LargerFirst)
  OBVIOUS
<1>4. Enumerated(s, S, BySize(S))
  BY <1>1, <1>3
<1>5. DOMAIN s = 1 .. Cardinality(S) /\ \A i \in DOMAIN s : s[i] \in S
  BY <1>4, LargerFirstOrder, Enumerates
<1> QED BY ONLY <1>2, <1>3, <1>5

(* The pictures that count among the first n.                              *)
Keeps(f, found, N) ==
  f = [n \in 0 .. N |-> IF n = 0 THEN {} ELSE WithPicture(f[n - 1], found[n])]

LEMMA KeptDefined ==
  ASSUME NEW found, NEW N \in Nat
  PROVE \E f : Keeps(f, found, N)
<1> DEFINE P == {m \in Nat : \E f : Keeps(f, found, m)}
<1>1. 0 \in P
  <2> DEFINE f == [n \in 0 .. 0 |-> {}]
  <2>1. Keeps(f, found, 0)
    BY DEF Keeps
  <2> HIDE DEF f
  <2> QED BY <2>1
<1>2. ASSUME NEW m \in 0 .. N - 1, m \in P  PROVE m + 1 \in P
  <2>1. PICK f : Keeps(f, found, m)
    BY <1>2
  <2> DEFINE g == [n \in 0 .. m + 1 |-> IF n = m + 1 THEN WithPicture(f[m], found[m + 1]) ELSE f[n]]
  <2>2. ASSUME NEW n \in 0 .. m + 1
        PROVE g[n] = IF n = 0 THEN {} ELSE WithPicture(g[n - 1], found[n])
    <3>1. CASE n = m + 1
      BY <3>1
    <3>2. CASE n # m + 1
      <4>1. n \in 0 .. m /\ (n # 0 => n - 1 \in 0 .. m /\ n - 1 \in 0 .. m + 1 /\ n - 1 # m + 1)
        BY <3>2
      <4>2. f[n] = IF n = 0 THEN {} ELSE WithPicture(f[n - 1], found[n])
        BY <2>1, <4>1 DEF Keeps
      <4> QED BY <3>2, <4>1, <4>2
    <3> QED BY <3>1, <3>2
  <2>3. Keeps(g, found, m + 1)
    BY <2>2 DEF Keeps
  <2> HIDE DEF g
  <2> QED BY <2>3
<1>3. N \in 0 .. N
  OBVIOUS
<1> HIDE DEF P
<1>4. N \in P
  BY <1>1, <1>2, <1>3, UpTo
<1> QED BY <1>4 DEF P

(* The graphics of a page are among its pictures.                          *)
LEMMA GraphicsOK ==
  ASSUME NEW p, PicturesOK(p.pictures), NEW excluded
  PROVE GraphicRegions(p, excluded) \in SUBSET p.pictures
<1> DEFINE wordsIn(g) == {w \in p.words : CenterIn(WordBox(w), g)}
           pageArea == Spot * Rows * Spot * Cols
           region(g) == /\ 1000 * Area(g) >= 2 * pageArea /\ 100 * Area(g) <= 35 * pageArea
                        /\ ~\E e \in excluded : 2 * Shared(g, e) > Area(g)
                        /\ 100 * 36 * 36 * Cardinality(wordsIn(g)) <= 35 * Area(g)
           R == {g \in p.pictures : region(g)}
           S == NoExcessStamps(R)
           found == InOrder(S, LargerFirst)
           N == Len(found)
           kept == CHOOSE f : Keeps(f, found, N)
<1>1. S \in SUBSET p.pictures
  <2>1. R \in SUBSET p.pictures
    OBVIOUS
  <2> HIDE DEF R
  <2> QED BY <2>1 DEF NoExcessStamps
<1>2. PicturesOK(S)
  <2> HIDE DEF S
  <2> QED BY <1>1, FS_Subset DEF PicturesOK
<1>3. GraphicRegions(p, excluded) = kept[N]
  BY DEF GraphicRegions, Keeps
<1> HIDE DEF S
<1>4. N \in Nat /\ \A i \in 1 .. N : found[i] \in S
  BY <1>2, LargerFirstList
<1> HIDE DEF found, N
<1>5. Keeps(kept, found, N)
  <2>1. \E f : Keeps(f, found, N)
    BY <1>4, KeptDefined
  <2> QED BY <2>1
<1> HIDE DEF kept
<1>6. kept[N] \in SUBSET S
  <2> DEFINE P == {n \in Nat : kept[n] \in SUBSET S}
  <2>1. 0 \in P
    BY <1>4, <1>5 DEF Keeps
  <2>2. ASSUME NEW n \in 0 .. N - 1, n \in P  PROVE n + 1 \in P
    <3>1. n + 1 \in 0 .. N /\ n + 1 # 0 /\ (n + 1) - 1 = n /\ n + 1 \in 1 .. N
      BY <1>4
    <3>2. kept[n + 1] = WithPicture(kept[n], found[n + 1])
      BY <1>5, <3>1 DEF Keeps
    <3>3. kept[n] \in SUBSET S /\ found[n + 1] \in S
      BY <1>4, <2>2, <3>1
    <3> QED BY <3>1, <3>2, <3>3 DEF WithPicture
  <2>3. N \in 0 .. N
    BY <1>4
  <2> HIDE DEF P
  <2>4. N \in P
    BY <1>4, <2>1, <2>2, <2>3, UpTo
  <2> QED BY <2>4 DEF P
<1> QED BY <1>1, <1>3, <1>6

-----------------------------------------------------------------------------
(* Blocks                                                                  *)

PageOK(p) == Placed(p.words) /\ PicturesOK(p.pictures) /\ p.wordRows \in BOOLEAN

BlockOK(b, p) ==
  /\ b.kind \in {"text", "table", "picture"}
  /\ b.kind = "text" => TextOK(b, p.words)
  /\ b.kind = "table" => /\ DOMAIN b = {"kind", "box", "rows"}
                         /\ TableOK(CellsIn(b.rows)) /\ Len(b.rows) \in Nat
  /\ b.kind = "picture" => InPage(b.box)
BlocksOK(bs, p) == IsFiniteSet(bs) /\ \A b \in bs : BlockOK(b, p)

LEMMA RowsCounted ==
  ASSUME NEW cells
  PROVE IsFiniteSet(cells) => Len(JsonRows(cells)) \in Nat
<1> SUFFICES ASSUME IsFiniteSet(cells)  PROVE Len(JsonRows(cells)) \in Nat
  OBVIOUS
<1> DEFINE places == {c.row : c \in cells}
           f == [c \in cells |-> c.row]
<1>1. \A y \in places : \E c \in cells : f[c] = y
  OBVIOUS
<1>2. IsFiniteSet(places)
  <2> HIDE DEF f, places
  <2> QED BY <1>1, ImageFinite
<1>3. DOMAIN JsonRows(cells) = DOMAIN Increasing(places)
  BY DEF JsonRows
<1> HIDE DEF places
<1>4. Cardinality(places) \in Nat /\ DOMAIN Increasing(places) = 1 .. Cardinality(places)
  BY <1>2, FS_CardinalityType DEF Increasing, InOrder
<1>5. Len(JsonRows(cells)) = Cardinality(places)
  BY <1>3, <1>4
<1> QED BY <1>4, <1>5

LEMMA LayoutOK ==
  ASSUME NEW p, PageOK(p), NEW ts, TablesOK(ts)
  PROVE BlocksOK(ToJson(Layout(p, ts)), p)
<1> DEFINE free == FreeWords(p, ts)
           text == TextBlocks(free)
           pictures == GraphicRegions(p, {t.box : t \in ts} \cup {b.box : b \in text})
           shown == {b \in text : ~\E g \in pictures : OverlapAtLeast(b.box, g, 60)}
           tabled == {[kind |-> "table", box |-> t.box, table |-> t] : t \in ts}
           pictured == {[kind |-> "picture", box |-> g] : g \in pictures}
           json(b) == IF b.kind = "table" THEN [kind |-> "table", box |-> b.box, rows |-> JsonRows(b.table.cells)]
                      ELSE b
           bs == ToJson(Layout(p, ts))
<1>1. Layout(p, ts) = shown \cup tabled \cup pictured
  BY DEF Layout
<1>2. Placed(free) /\ free \in SUBSET p.words
  BY SomePlaced DEF PageOK, FreeWords
<1> HIDE DEF free
<1>3. IsFiniteSet(text) /\ \A b \in text : b.kind = "text" /\ TextOK(b, free)
  BY <1>2, TextBlocksOK
<1> HIDE DEF text
<1>4. pictures \in SUBSET p.pictures
  BY GraphicsOK DEF PageOK
<1> HIDE DEF pictures
<1>5. IsFiniteSet(pictures) /\ \A g \in pictures : InPage(g)
  BY <1>4, FS_Subset DEF PageOK, PicturesOK
<1>6. IsFiniteSet(shown)
  <2>1. shown \in SUBSET text
    OBVIOUS
  <2> HIDE DEF shown
  <2> QED BY <1>3, <2>1, FS_Subset
<1>7. IsFiniteSet(tabled)
  <2> DEFINE f == [t \in ts |-> [kind |-> "table", box |-> t.box, table |-> t]]
  <2>1. \A b \in tabled : \E t \in ts : f[t] = b
    OBVIOUS
  <2>2. IsFiniteSet(ts)
    BY DEF TablesOK
  <2> HIDE DEF f, tabled
  <2> QED BY ONLY <2>1, <2>2, ImageFinite
<1>8. IsFiniteSet(pictured)
  <2> DEFINE f == [g \in pictures |-> [kind |-> "picture", box |-> g]]
  <2>1. \A b \in pictured : \E g \in pictures : f[g] = b
    OBVIOUS
  <2> HIDE DEF f, pictured
  <2> QED BY ONLY <1>5, <2>1, ImageFinite
<1>9. IsFiniteSet(shown \cup tabled \cup pictured)
  <2> HIDE DEF shown, tabled, pictured
  <2>1. IsFiniteSet(shown \cup tabled)
    BY <1>6, <1>7, FS_Union
  <2> QED BY <1>8, <2>1, FS_Union
<1>10. bs = {json(b) : b \in shown \cup tabled \cup pictured}
  BY <1>1 DEF ToJson
<1>11. IsFiniteSet(bs)
  <2> DEFINE all == shown \cup tabled \cup pictured
             f == [b \in all |-> json(b)]
  <2>1. \A c \in bs : \E b \in all : f[b] = c
    BY <1>10
  <2> HIDE DEF f, bs, shown, tabled, pictured
  <2> QED BY ONLY <1>9, <2>1, ImageFinite
<1>12. ASSUME NEW b \in shown  PROVE BlockOK(json(b), p)
  <2>1. b.kind = "text" /\ TextOK(b, free)
    BY <1>3
  <2>2. json(b) = b
    BY <2>1
  <2>3. TextOK(b, p.words)
    BY <1>2, <2>1 DEF TextOK
  <2> HIDE DEF json
  <2> QED BY <2>1, <2>2, <2>3 DEF BlockOK
<1>13. ASSUME NEW b \in tabled  PROVE BlockOK(json(b), p)
  <2>1. PICK t \in ts : b = [kind |-> "table", box |-> t.box, table |-> t]
    OBVIOUS
  <2>2. json(b) = [kind |-> "table", box |-> t.box, rows |-> JsonRows(t.cells)]
    BY <2>1
  <2>3. TableOK(t.cells)
    BY DEF TablesOK
  <2>4. TableOK(CellsIn(JsonRows(t.cells))) /\ Len(JsonRows(t.cells)) \in Nat
    <3>1. CellsIn(JsonRows(t.cells)) = t.cells
      BY <2>3, RowsHoldCells
    <3>2. IsFiniteSet(t.cells)
      BY <2>3 DEF TableOK
    <3> QED BY <2>3, <3>1, <3>2, RowsCounted
  <2>5. /\ json(b).kind = "table" /\ json(b).rows = JsonRows(t.cells)
        /\ DOMAIN json(b) = {"kind", "box", "rows"}
    BY <2>2
  <2> HIDE DEF json
  <2> QED BY <2>4, <2>5 DEF BlockOK
<1>14. ASSUME NEW b \in pictured  PROVE BlockOK(json(b), p)
  <2>1. PICK g \in pictures : b = [kind |-> "picture", box |-> g]
    OBVIOUS
  <2>2. json(b).kind = "picture" /\ json(b).box = g
    BY <2>1
  <2> HIDE DEF json
  <2> QED BY <1>5, <2>2 DEF BlockOK
<1>15. \A c \in bs : BlockOK(c, p)
  <2> SUFFICES ASSUME NEW c \in bs  PROVE BlockOK(c, p)
    OBVIOUS
  <2>1. PICK b \in shown \cup tabled \cup pictured : c = json(b)
    BY <1>10
  <2> HIDE DEF json, shown, tabled, pictured
  <2> QED BY <1>12, <1>13, <1>14, <2>1
<1> QED BY <1>11, <1>15 DEF BlocksOK

(* The cell that takes the area of some cells is one of theirs, grown.     *)
LEMMA MergedOK ==
  ASSUME NEW cells, TableOK(cells), cells # {}
  PROVE /\ CellOK(Merged(cells))
        /\ \E c \in cells : c.first = Merged(cells).first
        /\ Merged(cells).words = UNION {c.words : c \in cells}
<1> DEFINE s == InOrder(cells, ReadBefore)
           R0 == {c.row : c \in cells}
           R1 == {c.row + c.rowspan : c \in cells}
           C0 == {c.column : c \in cells}
           C1 == {c.column + c.colspan : c \in cells}
           m == Merged(cells)
<1>1. IsFiniteSet(cells) /\ \A c \in cells : CellOK(c)
  BY DEF TableOK
<1>2. PICK a \in cells : a = s[1]
  <2>1. Keyed(cells)
    BY DEF Keyed, TableOK, CellOK
  <2>2. Cardinality(cells) \in Nat /\ DOMAIN s = 1 .. Cardinality(cells) /\ \A i \in DOMAIN s : s[i] \in cells
    BY <2>1, ReadInOrder
  <2>3. Cardinality(cells) # 0
    BY <1>1, FS_EmptySet
  <2> HIDE DEF s
  <2> QED BY <2>2, <2>3
<1>3. /\ m = [a EXCEPT !.row = Min(R0), !.column = Min(C0), !.rowspan = Max(R1) - Min(R0),
                       !.colspan = Max(C1) - Min(C0), !.words = UNION {c.words : c \in cells}]
  BY <1>2 DEF Merged
<1>4. Min(R0) \in R0 /\ \A y \in R0 : Min(R0) <= y
  <2> DEFINE f == [c \in cells |-> c.row]
  <2>1. \A y \in R0 : \E c \in cells : f[c] = y
    OBVIOUS
  <2>2. R0 # {} /\ R0 \in SUBSET Int
    BY <1>1 DEF CellOK
  <2> HIDE DEF f, R0
  <2>3. IsFiniteSet(R0)
    BY ONLY <1>1, <2>1, ImageFinite
  <2> QED BY <2>2, <2>3, Extremes
<1>5. Max(R1) \in R1 /\ \A y \in R1 : y <= Max(R1)
  <2> DEFINE f == [c \in cells |-> c.row + c.rowspan]
  <2>1. \A y \in R1 : \E c \in cells : f[c] = y
    OBVIOUS
  <2>2. R1 # {} /\ R1 \in SUBSET Int
    BY <1>1 DEF CellOK
  <2> HIDE DEF f, R1
  <2>3. IsFiniteSet(R1)
    BY ONLY <1>1, <2>1, ImageFinite
  <2> QED BY <2>2, <2>3, Extremes
<1>6. Min(C0) \in C0 /\ \A y \in C0 : Min(C0) <= y
  <2> DEFINE f == [c \in cells |-> c.column]
  <2>1. \A y \in C0 : \E c \in cells : f[c] = y
    OBVIOUS
  <2>2. C0 # {} /\ C0 \in SUBSET Int
    BY <1>1 DEF CellOK
  <2> HIDE DEF f, C0
  <2>3. IsFiniteSet(C0)
    BY ONLY <1>1, <2>1, ImageFinite
  <2> QED BY <2>2, <2>3, Extremes
<1>7. Max(C1) \in C1 /\ \A y \in C1 : y <= Max(C1)
  <2> DEFINE f == [c \in cells |-> c.column + c.colspan]
  <2>1. \A y \in C1 : \E c \in cells : f[c] = y
    OBVIOUS
  <2>2. C1 # {} /\ C1 \in SUBSET Int
    BY <1>1 DEF CellOK
  <2> HIDE DEF f, C1
  <2>3. IsFiniteSet(C1)
    BY ONLY <1>1, <2>1, ImageFinite
  <2> QED BY <2>2, <2>3, Extremes
<1>8. Min(R0) \in Nat /\ Max(R1) - Min(R0) \in Nat \ {0}
  <2>1. a.row \in Nat /\ a.rowspan \in Nat \ {0} /\ \A c \in cells : c.row \in Nat /\ c.rowspan \in Nat
    BY <1>1 DEF CellOK
  <2>2. Min(R0) \in Nat /\ Max(R1) \in Nat
    BY <1>4, <1>5, <2>1
  <2>3. Min(R0) <= a.row /\ a.row + a.rowspan <= Max(R1)
    BY <1>4, <1>5
  <2> HIDE DEF R0, R1
  <2> QED BY <2>1, <2>2, <2>3
<1>9. Min(C0) \in Nat /\ Max(C1) - Min(C0) \in Nat \ {0}
  <2>1. a.column \in Nat /\ a.colspan \in Nat \ {0} /\ \A c \in cells : c.column \in Nat /\ c.colspan \in Nat
    BY <1>1 DEF CellOK
  <2>2. Min(C0) \in Nat /\ Max(C1) \in Nat
    BY <1>6, <1>7, <2>1
  <2>3. Min(C0) <= a.column /\ a.column + a.colspan <= Max(C1)
    BY <1>6, <1>7
  <2> HIDE DEF C0, C1
  <2> QED BY <2>1, <2>2, <2>3
<1>10. {"row", "column", "rowspan", "colspan", "words", "first", "box"} = DOMAIN a /\ DOMAIN m = DOMAIN a
  BY <1>1, <1>3 DEF CellOK
<1>11. CellOK(a) /\ m.first = a.first /\ m.box = a.box
  BY <1>1, <1>3, <1>10
<1>12. /\ m.row = Min(R0) /\ m.column = Min(C0) /\ m.rowspan = Max(R1) - Min(R0)
       /\ m.colspan = Max(C1) - Min(C0)
  BY <1>3, <1>10
<1>13. m.words = UNION {c.words : c \in cells}
  BY <1>3, <1>10
<1> HIDE DEF R0, R1, C0, C1, s, m
<1> QED BY <1>8, <1>9, <1>10, <1>11, <1>12, <1>13 DEF CellOK, m

(* Merging two rows leaves a table whose cells are told apart.             *)
LEMMA MergeKeepsTable ==
  ASSUME NEW cells, TableOK(cells), NEW chosen \in SUBSET cells, chosen # {}
  PROVE TableOK((cells \ chosen) \cup {Merged(chosen)})
<1> DEFINE m == Merged(chosen)
           rest == cells \ chosen
<1>1. IsFiniteSet(chosen) /\ IsFiniteSet(rest)
  BY FS_Subset DEF TableOK
<1>2. TableOK(chosen)
  BY <1>1 DEF TableOK
<1>3. PICK a \in chosen : a.first = m.first
  BY <1>2, MergedOK
<1>4. CellOK(m)
  BY <1>2, MergedOK
<1> HIDE DEF m
<1>5. IsFiniteSet(rest \cup {m})
  <2> HIDE DEF rest
  <2> QED BY <1>1, FS_AddElement
<1>6. \A c \in rest \cup {m} : CellOK(c)
  BY <1>4 DEF TableOK
<1>7. ASSUME NEW c \in rest \cup {m}, NEW d \in rest \cup {m}, c.first = d.first  PROVE c = d
  <2>1. \A e \in rest : e.first # m.first
    BY <1>3 DEF TableOK
  <2>2. \A e, f \in rest : e.first = f.first => e = f
    BY DEF TableOK
  <2> HIDE DEF rest
  <2> QED BY <1>7, <2>1, <2>2
<1> HIDE DEF rest
<1> QED BY <1>5, <1>6, <1>7 DEF TableOK, m, rest

LEMMA MergeRowsOK ==
  ASSUME NEW p, BlocksOK(blocks, p), NEW b \in blocks, b.kind = "table", NEW r, MergeRows(b, r)
  PROVE BlocksOK(blocks', p)
<1> DEFINE cells == CellsIn(b.rows)
           chosen == {c \in cells : c.row \in {r, r + 1}}
           all == (cells \ chosen) \cup {Merged(chosen)}
           new == [b EXCEPT !.rows = JsonRows(all)]
<1>1. Cardinality(chosen) > 1 /\ blocks' = (blocks \ {b}) \cup {new}
  BY DEF MergeRows
<1>2. DOMAIN b = {"kind", "box", "rows"} /\ TableOK(cells)
  BY DEF BlocksOK, BlockOK
<1>3. chosen \in SUBSET cells /\ chosen # {}
  <2>1. ~(0 > 1)
    OBVIOUS
  <2> QED BY <1>1, <2>1, FS_EmptySet
<1> HIDE DEF chosen, cells
<1>4. TableOK(all)
  BY <1>2, <1>3, MergeKeepsTable
<1> HIDE DEF all
<1>5. CellsIn(JsonRows(all)) = all /\ Len(JsonRows(all)) \in Nat
  BY <1>4, RowsHoldCells, RowsCounted DEF TableOK
<1>6. DOMAIN new = {"kind", "box", "rows"} /\ new.kind = "table" /\ new.rows = JsonRows(all)
  BY <1>2
<1> HIDE DEF new
<1>7. BlockOK(new, p)
  BY <1>4, <1>5, <1>6 DEF BlockOK
<1>8. IsFiniteSet(blocks \ {b}) /\ \A c \in blocks \ {b} : BlockOK(c, p)
  BY FS_Subset DEF BlocksOK
<1>9. IsFiniteSet((blocks \ {b}) \cup {new})
  BY <1>8, FS_AddElement
<1> QED BY <1>1, <1>7, <1>8, <1>9 DEF BlocksOK

-----------------------------------------------------------------------------
(* What the exports hold of a table                                        *)

(* Cells that share no spot, each in a row of the table.                   *)
Exact(rows) ==
  /\ TableOK(CellsIn(rows)) /\ Len(rows) \in Nat
  /\ Disjoint(CellsIn(rows))
  /\ \A c \in CellsIn(rows) : c.row < Len(rows)

Held(D) == [x \in {Place(c) : c \in D} |-> (CHOOSE c \in D : x = Place(c)).words]
ApartPlaces(D) == \A c, d \in D : Place(c) = Place(d) => c = d

LEMMA HeldGrows ==
  ASSUME NEW D, NEW e, e \notin D, ApartPlaces(D \cup {e})
  PROVE /\ Put(Held(D), Place(e), e.words) = Held(D \cup {e})
        /\ Place(e) \notin DOMAIN Held(D)
<1> DEFINE E == D \cup {e}
           f == Put(Held(D), Place(e), e.words)
           g == Held(E)
<1>1. \A c \in D : Place(c) # Place(e)
  BY DEF ApartPlaces
<1>2. DOMAIN f = DOMAIN g /\ DOMAIN g = {Place(c) : c \in E} /\ DOMAIN Held(D) = {Place(c) : c \in D}
  BY DEF Put, Held
<1>3. \A c \in E : (CHOOSE k \in E : Place(c) = Place(k)) = c
  BY DEF ApartPlaces
<1>4. \A c \in D : (CHOOSE k \in D : Place(c) = Place(k)) = c
  BY DEF ApartPlaces
<1>5. \A c \in E : g[Place(c)] = c.words
  BY <1>3 DEF Held
<1>6. \A c \in D : Held(D)[Place(c)] = c.words
  BY <1>4 DEF Held
<1>7. \A c \in E : f[Place(c)] = c.words
  <2> SUFFICES ASSUME NEW c \in E  PROVE f[Place(c)] = c.words
    OBVIOUS
  <2>1. CASE c = e
    BY <2>1 DEF Put
  <2>2. CASE c \in D
    <3>1. f[Place(c)] = Held(D)[Place(c)]
      BY <1>1, <1>2, <2>2 DEF Put
    <3> QED BY <1>6, <2>2, <3>1
  <2> QED BY <2>1, <2>2
<1>8. f = [x \in DOMAIN g |-> f[x]] /\ g = [x \in DOMAIN g |-> g[x]]
  <2>1. f = [x \in DOMAIN f |-> f[x]]
    BY DEF Put
  <2>2. g = [x \in DOMAIN g |-> g[x]]
    BY DEF Held
  <2> QED BY <1>2, <2>1, <2>2
<1>9. Place(e) \notin DOMAIN Held(D)
  BY <1>1, <1>2
<1> HIDE DEF f, g
<1>10. \A x \in DOMAIN g : f[x] = g[x]
  <2> SUFFICES ASSUME NEW x \in DOMAIN g  PROVE f[x] = g[x]
    OBVIOUS
  <2>1. PICK c \in E : x = Place(c)
    BY <1>2
  <2> QED BY <1>5, <1>7, <2>1
<1>11. f = g
  BY ONLY <1>8, <1>10
<1> QED BY <1>9, <1>11 DEF f, g

(* A span is part of the spots of its cell, and the cell's place is in it. *)
LEMMA SpanOK ==
  ASSUME NEW rows, Exact(rows), NEW c \in CellsIn(rows)
  PROVE Span(c, rows) \in SUBSET SpotsOf(c) /\ Place(c) \in Span(c, rows) /\ Place(c) \in SpotsOf(c)
<1> DEFINE cells == CellsIn(rows)
           ends == {d.column + d.colspan : d \in cells}
<1>1. /\ c.row \in Nat /\ c.column \in Nat /\ c.rowspan \in Nat \ {0} /\ c.colspan \in Nat \ {0}
      /\ Len(rows) \in Nat /\ c.row < Len(rows)
  BY DEF Exact, TableOK, CellOK
<1>2. ends \in SUBSET Int /\ ends # {}
  BY DEF Exact, TableOK, CellOK
<1>3. IsFiniteSet(ends)
  <2> DEFINE f == [d \in cells |-> d.column + d.colspan]
  <2>1. \A y \in ends : \E d \in cells : f[d] = y
    OBVIOUS
  <2>2. IsFiniteSet(cells)
    BY DEF Exact, TableOK
  <2> HIDE DEF f, ends, cells
  <2> QED BY ONLY <2>1, <2>2, ImageFinite
<1>4. ColumnCount(rows) = Max(ends) /\ c.column + c.colspan \in ends
  BY DEF ColumnCount
<1> HIDE DEF ends
<1>5. ColumnCount(rows) \in Int /\ c.column + c.colspan <= ColumnCount(rows)
  <2>1. Max(ends) \in ends /\ \A y \in ends : y <= Max(ends)
    BY ONLY <1>2, <1>3, Extremes
  <2> QED BY <1>2, <1>4, <2>1
<1> DEFINE r1 == Smaller(c.row + c.rowspan, Len(rows)) - 1
           c1 == Smaller(c.column + c.colspan, ColumnCount(rows)) - 1
<1>6. r1 \in Int /\ c.row <= r1 /\ r1 <= c.row + c.rowspan - 1
  BY <1>1 DEF Smaller
<1>7. c1 \in Int /\ c.column <= c1 /\ c1 <= c.column + c.colspan - 1
  BY <1>1, <1>5 DEF Smaller
<1>8. Span(c, rows) = (c.row .. r1) \X (c.column .. c1)
  BY DEF Span
<1> HIDE DEF r1, c1
<1>9. Place(c) \in Span(c, rows)
  BY <1>1, <1>6, <1>7, <1>8 DEF Place
<1>10. c.row .. r1 \subseteq c.row .. c.row + c.rowspan - 1
  BY <1>1, <1>6
<1>11. c.column .. c1 \subseteq c.column .. c.column + c.colspan - 1
  BY <1>1, <1>7
<1>12. Span(c, rows) \in SUBSET SpotsOf(c)
  BY <1>8, <1>10, <1>11 DEF SpotsOf
<1> QED BY <1>9, <1>12

(* The cells in the order in which the exporters write them.               *)
LEMMA Writing ==
  ASSUME NEW rows, Exact(rows)
  PROVE LET L == CellsInReach(rows) IN
    /\ Len(L) \in Nat /\ CellsIn(rows) = {L[i] : i \in 1 .. Len(L)}
    /\ \A i, j \in 1 .. Len(L) : i < j => L[i] # L[j]
<1>1. {c \in CellsIn(rows) : c.row < Len(rows)} = CellsIn(rows)
  BY DEF Exact
<1>2. CellsInReach(rows) = InOrder(CellsIn(rows), ReadBefore)
  BY <1>1 DEF CellsInReach
<1>3. Keyed(CellsIn(rows))
  BY DEF Exact, TableOK, CellOK, Keyed
<1>4. PICK L : L = CellsInReach(rows)
  OBVIOUS
<1>5. /\ Cardinality(CellsIn(rows)) \in Nat /\ DOMAIN L = 1 .. Cardinality(CellsIn(rows))
      /\ Len(L) = Cardinality(CellsIn(rows))
      /\ \A i \in DOMAIN L : L[i] \in CellsIn(rows)
      /\ \A x \in CellsIn(rows) : \E i \in DOMAIN L : L[i] = x
      /\ \A i, j \in DOMAIN L : i < j => L[i] # L[j]
  BY <1>2, <1>3, <1>4, ReadInOrder
<1> QED BY ONLY <1>4, <1>5

(* The places of cells that share no spot.                                 *)
LEMMA PlacesApart ==
  ASSUME NEW rows, Exact(rows), NEW c \in CellsIn(rows), NEW d \in CellsIn(rows), c # d
  PROVE Place(c) \notin SpotsOf(d) /\ Place(c) # Place(d) /\ SpotsOf(c) \cap SpotsOf(d) = {}
<1>1. Place(c) \in SpotsOf(c) /\ Place(d) \in SpotsOf(d)
  BY SpanOK
<1>2. SpotsOf(c) \cap SpotsOf(d) = {}
  BY DEF Exact, Disjoint
<1> QED BY <1>1, <1>2

(* The sheet after each cell written.                                      *)
Sheets(f, cells, rows, N) ==
  f = [n \in 0 .. N |->
         IF n = 0 THEN [text |-> <<>>, covered |-> {}, merged |-> {}, failed |-> FALSE]
         ELSE SheetCell(f[n - 1], cells[n], rows)]

LEMMA SheetsDefined ==
  ASSUME NEW cells, NEW rows, NEW N \in Nat
  PROVE \E f : Sheets(f, cells, rows, N)
<1> DEFINE P == {m \in Nat : \E f : Sheets(f, cells, rows, m)}
<1>1. 0 \in P
  <2> DEFINE f == [n \in 0 .. 0 |-> [text |-> <<>>, covered |-> {}, merged |-> {}, failed |-> FALSE]]
  <2>1. Sheets(f, cells, rows, 0)
    BY DEF Sheets
  <2> HIDE DEF f
  <2> QED BY <2>1
<1>2. ASSUME NEW m \in 0 .. N - 1, m \in P  PROVE m + 1 \in P
  <2>1. PICK f : Sheets(f, cells, rows, m)
    BY <1>2
  <2> DEFINE g == [n \in 0 .. m + 1 |-> IF n = m + 1 THEN SheetCell(f[m], cells[m + 1], rows) ELSE f[n]]
  <2>2. ASSUME NEW n \in 0 .. m + 1
        PROVE g[n] = IF n = 0 THEN [text |-> <<>>, covered |-> {}, merged |-> {}, failed |-> FALSE] ELSE SheetCell(g[n - 1], cells[n], rows)
    <3>1. CASE n = m + 1
      BY <3>1
    <3>2. CASE n # m + 1
      <4>1. n \in 0 .. m /\ (n # 0 => n - 1 \in 0 .. m /\ n - 1 \in 0 .. m + 1 /\ n - 1 # m + 1)
        BY <3>2
      <4>2. f[n] = IF n = 0 THEN [text |-> <<>>, covered |-> {}, merged |-> {}, failed |-> FALSE] ELSE SheetCell(f[n - 1], cells[n], rows)
        BY <2>1, <4>1 DEF Sheets
      <4> QED BY <3>2, <4>1, <4>2
    <3> QED BY <3>1, <3>2
  <2>3. Sheets(g, cells, rows, m + 1)
    BY <2>2 DEF Sheets
  <2> HIDE DEF g
  <2> QED BY <2>3
<1>3. N \in 0 .. N
  OBVIOUS
<1> HIDE DEF P
<1>4. N \in P
  BY <1>1, <1>2, <1>3, UpTo
<1> QED BY <1>4 DEF P

(* The sheet holds the cells written so far, and only they cover a spot.   *)
SheetIs(s, D) ==
  \E covered, merged :
    /\ s = [text |-> Held(D), covered |-> covered, merged |-> merged, failed |-> FALSE]
    /\ \A x \in covered : \E c \in D : x \in SpotsOf(c)
    /\ \A x \in merged : \E c \in D : x = Place(c)

LEMMA SheetCellOK ==
  ASSUME NEW rows, Exact(rows), NEW D \in SUBSET CellsIn(rows), NEW e \in CellsIn(rows), e \notin D,
         NEW s, SheetIs(s, D)
  PROVE SheetIs(SheetCell(s, e, rows), D \cup {e})
<1> DEFINE at == Place(e)
           area == Span(e, rows) \ {at}
           put == Put(Held(D), at, e.words)
           E == D \cup {e}
<1>1. PICK covered, merged :
        /\ s = [text |-> Held(D), covered |-> covered, merged |-> merged, failed |-> FALSE]
        /\ \A x \in covered : \E c \in D : x \in SpotsOf(c)
        /\ \A x \in merged : \E c \in D : x = Place(c)
  BY DEF SheetIs
<1>2. at \notin covered /\ at \notin merged
  BY <1>1, PlacesApart
<1>3. area \in SUBSET SpotsOf(e) /\ at \notin area
  BY SpanOK
<1>4. put = Held(E)
  <2>1. ApartPlaces(E)
    BY PlacesApart DEF ApartPlaces
  <2> QED BY <2>1, HeldGrows
<1>5. DOMAIN put \ area = DOMAIN put
  <2>1. DOMAIN put = {Place(c) : c \in E}
    BY <1>4 DEF Held
  <2>2. \A c \in E : Place(c) \notin area
    BY <1>3, PlacesApart
  <2> HIDE DEF put, area
  <2> QED BY <2>1, <2>2
<1>6. Restrict(put, DOMAIN put \ area) = put
  <2>1. put = [x \in DOMAIN put |-> put[x]]
    BY DEF Put
  <2> HIDE DEF put, area
  <2> QED BY <1>5, <2>1 DEF Restrict
<1> HIDE DEF put, area, at
<1>7. SheetCell(s, e, rows) = IF area = {} THEN [s EXCEPT !.text = put]
                              ELSE [s EXCEPT !.text = put, !.covered = @ \cup area, !.merged = @ \cup {at}]
  <2>1. ~s.failed /\ at \notin s.covered /\ at \notin s.merged /\ s.text = Held(D)
    BY <1>1, <1>2
  <2>2. SheetCell(s, e, rows) =
          IF s.failed \/ at \in s.covered THEN [s EXCEPT !.failed = TRUE]
          ELSE IF area = {} \/ at \in s.merged THEN [s EXCEPT !.text = Put(s.text, at, e.words)]
          ELSE [s EXCEPT !.text = Restrict(Put(s.text, at, e.words), DOMAIN Put(s.text, at, e.words) \ area),
                         !.covered = @ \cup area, !.merged = @ \cup {at}]
    BY DEF SheetCell, at, area
  <2>3. Put(s.text, at, e.words) = put
    BY <2>1 DEF put
  <2> QED BY <1>6, <2>1, <2>2, <2>3
<1>8. CASE area = {}
  <2>1. SheetCell(s, e, rows) = [text |-> Held(E), covered |-> covered, merged |-> merged, failed |-> FALSE]
    BY <1>1, <1>4, <1>7, <1>8
  <2> QED BY <1>1, <2>1 DEF SheetIs
<1>9. CASE area # {}
  <2>1. SheetCell(s, e, rows) = [text |-> Held(E), covered |-> covered \cup area,
                                 merged |-> merged \cup {at}, failed |-> FALSE]
    BY <1>1, <1>4, <1>7, <1>9
  <2>2. \A x \in covered \cup area : \E c \in E : x \in SpotsOf(c)
    BY <1>1, <1>3
  <2>3. \A x \in merged \cup {at} : \E c \in E : x = Place(c)
    BY <1>1 DEF at
  <2> QED BY ZenonT(60), <2>1, <2>2, <2>3 DEF SheetIs
<1> QED BY <1>8, <1>9

LEMMA SheetOK ==
  ASSUME NEW rows, Exact(rows)
  PROVE SheetIs(Sheet(rows), CellsIn(rows))
<1> DEFINE L == CellsInReach(rows)
           N == Len(L)
           sheet == CHOOSE f : Sheets(f, L, rows, N)
           first(n) == {L[i] : i \in 1 .. n}
<1>1. Sheet(rows) = sheet[N]
  BY DEF Sheet, Sheets
<1>2. N \in Nat /\ CellsIn(rows) = first(N) /\ \A i, j \in 1 .. N : i < j => L[i] # L[j]
  BY Writing
<1> HIDE DEF L, N
<1>3. Sheets(sheet, L, rows, N)
  <2>1. \E f : Sheets(f, L, rows, N)
    BY <1>2, SheetsDefined
  <2> QED BY <2>1
<1> HIDE DEF sheet
<1> DEFINE P == {n \in Nat : SheetIs(sheet[n], first(n))}
<1>4. 0 \in P
  <2>1. sheet[0] = [text |-> <<>>, covered |-> {}, merged |-> {}, failed |-> FALSE]
    BY <1>2, <1>3 DEF Sheets
  <2>2. first(0) = {}
    OBVIOUS
  <2>3. Held({}) = <<>>
    BY DEF Held
  <2>4. SheetIs(sheet[0], {})
    <3>1. PICK none : none = {}
      OBVIOUS
    <3>2. sheet[0] = [text |-> Held({}), covered |-> none, merged |-> none, failed |-> FALSE]
      BY <2>1, <2>3, <3>1
    <3>3. \A x : x \notin none
      BY <3>1
    <3> QED BY <3>2, <3>3 DEF SheetIs
  <2> QED BY <2>2, <2>4
<1>5. ASSUME NEW n \in 0 .. N - 1, n \in P  PROVE n + 1 \in P
  <2>1. n + 1 \in 0 .. N /\ n + 1 # 0 /\ (n + 1) - 1 = n /\ n + 1 \in 1 .. N /\ n \in Nat /\ n + 1 \in Nat
    BY <1>2
  <2>2. sheet[n + 1] = SheetCell(sheet[n], L[n + 1], rows)
    BY <1>3, <2>1 DEF Sheets
  <2>3. first(n) \in SUBSET CellsIn(rows) /\ L[n + 1] \in CellsIn(rows) /\ L[n + 1] \notin first(n)
    <3>1. \A i \in 1 .. n : i \in 1 .. N /\ i < n + 1
      BY <1>2, <2>1
    <3> QED BY <1>2, <2>1, <3>1
  <2>4. first(n + 1) = first(n) \cup {L[n + 1]}
    <3>1. 1 .. n + 1 = (1 .. n) \cup {n + 1}
      BY <2>1
    <3> QED BY <3>1
  <2>5. SheetIs(sheet[n], first(n))
    BY <1>5
  <2> HIDE DEF first
  <2>6. SheetIs(SheetCell(sheet[n], L[n + 1], rows), first(n) \cup {L[n + 1]})
    BY <2>3, <2>5, SheetCellOK
  <2> QED BY <2>1, <2>2, <2>4, <2>6
<1>6. N \in 0 .. N
  BY <1>2
<1> HIDE DEF P
<1>7. N \in P
  BY <1>2, <1>4, <1>5, <1>6, UpTo
<1> QED BY <1>1, <1>2, <1>7 DEF P

(* The Word table after each cell written.                                 *)
Documents(f, cells, rows, N) ==
  f = [n \in 0 .. N |->
         IF n = 0 THEN [text |-> <<>>, owner |-> <<>>, failed |-> FALSE]
         ELSE WordCell(f[n - 1], cells[n], rows)]

LEMMA DocumentsDefined ==
  ASSUME NEW cells, NEW rows, NEW N \in Nat
  PROVE \E f : Documents(f, cells, rows, N)
<1> DEFINE P == {m \in Nat : \E f : Documents(f, cells, rows, m)}
<1>1. 0 \in P
  <2> DEFINE f == [n \in 0 .. 0 |-> [text |-> <<>>, owner |-> <<>>, failed |-> FALSE]]
  <2>1. Documents(f, cells, rows, 0)
    BY DEF Documents
  <2> HIDE DEF f
  <2> QED BY <2>1
<1>2. ASSUME NEW m \in 0 .. N - 1, m \in P  PROVE m + 1 \in P
  <2>1. PICK f : Documents(f, cells, rows, m)
    BY <1>2
  <2> DEFINE g == [n \in 0 .. m + 1 |-> IF n = m + 1 THEN WordCell(f[m], cells[m + 1], rows) ELSE f[n]]
  <2>2. ASSUME NEW n \in 0 .. m + 1
        PROVE g[n] = IF n = 0 THEN [text |-> <<>>, owner |-> <<>>, failed |-> FALSE] ELSE WordCell(g[n - 1], cells[n], rows)
    <3>1. CASE n = m + 1
      BY <3>1
    <3>2. CASE n # m + 1
      <4>1. n \in 0 .. m /\ (n # 0 => n - 1 \in 0 .. m /\ n - 1 \in 0 .. m + 1 /\ n - 1 # m + 1)
        BY <3>2
      <4>2. f[n] = IF n = 0 THEN [text |-> <<>>, owner |-> <<>>, failed |-> FALSE] ELSE WordCell(f[n - 1], cells[n], rows)
        BY <2>1, <4>1 DEF Documents
      <4> QED BY <3>2, <4>1, <4>2
    <3> QED BY <3>1, <3>2
  <2>3. Documents(g, cells, rows, m + 1)
    BY <2>2 DEF Documents
  <2> HIDE DEF g
  <2> QED BY <2>3
<1>3. N \in 0 .. N
  OBVIOUS
<1> HIDE DEF P
<1>4. N \in P
  BY <1>1, <1>2, <1>3, UpTo
<1> QED BY <1>4 DEF P

(* The Word table holds the cells written so far, and a spot of a merged   *)
(* area belongs to the first one of its cell.                              *)
DocumentIs(d, D) ==
  \E owner :
    /\ d = [text |-> Held(D), owner |-> owner, failed |-> FALSE]
    /\ \A x \in DOMAIN owner : \E c \in D : x \in SpotsOf(c) /\ owner[x] = Place(c)

LEMMA WordCellOK ==
  ASSUME NEW rows, Exact(rows), NEW D \in SUBSET CellsIn(rows), NEW e \in CellsIn(rows), e \notin D,
         NEW d, DocumentIs(d, D)
  PROVE DocumentIs(WordCell(d, e, rows), D \cup {e})
<1> DEFINE at == Place(e)
           area == Span(e, rows)
           owner == IF at \in DOMAIN d.owner THEN d.owner[at] ELSE at
           put == Put(d.text, owner, e.words)
           cut == \E p \in DOMAIN d.owner : (p \in area) # (d.owner[p] \in area)
           held == UNION {put[p] : p \in area \cap DOMAIN put}
           grown == [p \in DOMAIN d.owner \cup area |-> IF p \in area THEN at ELSE d.owner[p]]
           E == D \cup {e}
<1>0. PICK owners :
        /\ d = [text |-> Held(D), owner |-> owners, failed |-> FALSE]
        /\ \A x \in DOMAIN owners : \E c \in D : x \in SpotsOf(c) /\ owners[x] = Place(c)
  BY DEF DocumentIs
<1>1. /\ d.text = Held(D) /\ d.failed = FALSE /\ d.owner = owners
      /\ \A x \in DOMAIN d.owner : \E c \in D : x \in SpotsOf(c) /\ d.owner[x] = Place(c)
  BY <1>0
<1>2. area \in SUBSET SpotsOf(e) /\ at \in area
  BY SpanOK
<1>3. \A c \in D : Place(c) \notin area /\ SpotsOf(c) \cap area = {}
  BY <1>2, PlacesApart
<1>4. at \notin DOMAIN d.owner
  BY <1>1, <1>2, <1>3
<1>5. ~cut
  BY <1>1, <1>3
<1>6. /\ put = Put(Held(D), at, e.words) /\ put = Held(E) /\ at \notin DOMAIN Held(D)
  <2>1. ApartPlaces(E)
    BY PlacesApart DEF ApartPlaces
  <2>2. owner = at /\ d.text = Held(D)
    BY <1>1, <1>4
  <2>3. put = Put(Held(D), at, e.words)
    <3> HIDE DEF owner
    <3> QED BY <2>2
  <2> HIDE DEF put
  <2> QED BY <2>1, <2>3, HeldGrows
<1> HIDE DEF put
<1>7. DOMAIN put = DOMAIN Held(D) \cup {at} /\ DOMAIN Held(D) = {Place(c) : c \in D} /\ put[at] = e.words
  BY <1>6 DEF Put, Held
<1>8. area \cap DOMAIN put = {at}
  BY <1>2, <1>3, <1>7
<1>9. held = e.words
  <2> HIDE DEF put, area, at
  <2> QED BY <1>7, <1>8
<1>10. Restrict(put, DOMAIN put \ area) = Held(D)
  <2>1. DOMAIN put \ area = DOMAIN Held(D)
    BY <1>3, <1>6, <1>7, <1>2
  <2>2. \A x \in DOMAIN Held(D) : put[x] = Held(D)[x]
    BY <1>6 DEF Put
  <2>3. Held(D) = [x \in DOMAIN Held(D) |-> Held(D)[x]]
    BY DEF Held
  <2> HIDE DEF put, area
  <2> QED BY <2>1, <2>2, <2>3 DEF Restrict
<1>11. Put(Restrict(put, DOMAIN put \ area), at, held) = Held(E)
  BY <1>6, <1>9, <1>10
<1>12. WordCell(d, e, rows) =
         IF d.failed THEN d
         ELSE IF Cardinality(area) = 1 THEN [d EXCEPT !.text = put]
         ELSE IF cut THEN [d EXCEPT !.text = put, !.failed = TRUE]
         ELSE [d EXCEPT !.text = Put(Restrict(put, DOMAIN put \ area), at, held),
                        !.owner = grown]
  BY DEF WordCell, put
<1> HIDE DEF cut, held, grown, area, at, owner
<1>13. CASE Cardinality(area) = 1
  <2>1. WordCell(d, e, rows) = [d EXCEPT !.text = put]
    BY <1>1, <1>12, <1>13
  <2>2. WordCell(d, e, rows) = [text |-> Held(E), owner |-> owners, failed |-> FALSE]
    BY <1>0, <1>6, <2>1
  <2> QED BY <1>0, <2>2 DEF DocumentIs
<1>14. CASE Cardinality(area) # 1
  <2>1. WordCell(d, e, rows) = [text |-> Held(E), owner |-> grown, failed |-> FALSE]
    <3>1. WordCell(d, e, rows) = [d EXCEPT !.text = Held(E), !.owner = grown]
      BY <1>1, <1>5, <1>11, <1>12, <1>14
    <3> QED BY <1>0, <3>1
  <2>2. ASSUME NEW x \in DOMAIN grown  PROVE \E c \in E : x \in SpotsOf(c) /\ grown[x] = Place(c)
    <3>1. CASE x \in area
      BY <1>2, <3>1 DEF grown, at
    <3>2. CASE x \notin area
      BY <1>1, <2>2, <3>2 DEF grown
    <3> QED BY <3>1, <3>2
  <2> QED BY <2>1, <2>2 DEF DocumentIs
<1> QED BY <1>13, <1>14

LEMMA DocumentOK ==
  ASSUME NEW rows, Exact(rows)
  PROVE DocumentIs(WordTable(rows), CellsIn(rows))
<1> DEFINE L == CellsInReach(rows)
           N == Len(L)
           document == CHOOSE f : Documents(f, L, rows, N)
           first(n) == {L[i] : i \in 1 .. n}
<1>1. WordTable(rows) = document[N]
  BY DEF WordTable, Documents
<1>2. N \in Nat /\ CellsIn(rows) = first(N) /\ \A i, j \in 1 .. N : i < j => L[i] # L[j]
  BY Writing
<1> HIDE DEF L, N
<1>3. Documents(document, L, rows, N)
  <2>1. \E f : Documents(f, L, rows, N)
    BY <1>2, DocumentsDefined
  <2> QED BY <2>1
<1> HIDE DEF document
<1> DEFINE P == {n \in Nat : DocumentIs(document[n], first(n))}
<1>4. 0 \in P
  <2>1. document[0] = [text |-> <<>>, owner |-> <<>>, failed |-> FALSE]
    BY <1>2, <1>3 DEF Documents
  <2>2. first(0) = {}
    OBVIOUS
  <2>3. Held({}) = <<>>
    BY DEF Held
  <2>4. DocumentIs(document[0], {})
    <3>1. PICK none : none = <<>>
      OBVIOUS
    <3>2. document[0] = [text |-> Held({}), owner |-> none, failed |-> FALSE]
      BY <2>1, <2>3, <3>1
    <3>3. \A x : x \notin DOMAIN none
      BY <3>1
    <3> QED BY <3>2, <3>3 DEF DocumentIs
  <2> QED BY <2>2, <2>4
<1>5. ASSUME NEW n \in 0 .. N - 1, n \in P  PROVE n + 1 \in P
  <2>1. n + 1 \in 0 .. N /\ n + 1 # 0 /\ (n + 1) - 1 = n /\ n + 1 \in 1 .. N /\ n \in Nat /\ n + 1 \in Nat
    BY <1>2
  <2>2. document[n + 1] = WordCell(document[n], L[n + 1], rows)
    BY <1>3, <2>1 DEF Documents
  <2>3. first(n) \in SUBSET CellsIn(rows) /\ L[n + 1] \in CellsIn(rows) /\ L[n + 1] \notin first(n)
    <3>1. \A i \in 1 .. n : i \in 1 .. N /\ i < n + 1
      BY <1>2, <2>1
    <3> QED BY <1>2, <2>1, <3>1
  <2>4. first(n + 1) = first(n) \cup {L[n + 1]}
    <3>1. 1 .. n + 1 = (1 .. n) \cup {n + 1}
      BY <2>1
    <3> QED BY <3>1
  <2>5. DocumentIs(document[n], first(n))
    BY <1>5
  <2> HIDE DEF first
  <2>6. DocumentIs(WordCell(document[n], L[n + 1], rows), first(n) \cup {L[n + 1]})
    BY <2>3, <2>5, WordCellOK
  <2> QED BY <2>1, <2>2, <2>4, <2>6
<1>6. N \in 0 .. N
  BY <1>2
<1> HIDE DEF P
<1>7. N \in P
  BY <1>2, <1>4, <1>5, <1>6, UpTo
<1> QED BY <1>1, <1>2, <1>7 DEF P

-----------------------------------------------------------------------------
(* The page of the searchable PDF                                          *)

(* A box that lies within another one.                                     *)
WithinBox(b, k) == k.x1 <= b.x1 /\ b.x2 <= k.x2 /\ k.y1 <= b.y1 /\ b.y2 <= k.y2

LEMMA SharedWithin ==
  ASSUME NEW b, InPage(b), NEW k, WithinBox(b, k),
         k.x1 \in Int, k.x2 \in Int, k.y1 \in Int, k.y2 \in Int
  PROVE Shared(b, k) > 0
<1>1. /\ b.x1 \in Nat /\ b.x2 \in Nat /\ b.x1 < b.x2 /\ b.y1 \in Nat /\ b.y2 \in Nat /\ b.y1 < b.y2
  BY SpotsAssumption DEF InPage, Spot
<1> DEFINE w == Larger(0, Smaller(b.x2, k.x2) - Larger(b.x1, k.x1))
           h == Larger(0, Smaller(b.y2, k.y2) - Larger(b.y1, k.y1))
<1>2. w = b.x2 - b.x1 /\ w \in Nat /\ w >= 1
  BY <1>1 DEF Larger, Smaller, WithinBox
<1>3. h = b.y2 - b.y1 /\ h \in Nat /\ h >= 1
  BY <1>1 DEF Larger, Smaller, WithinBox
<1>4. Shared(b, k) = w * h
  BY DEF Shared
<1> HIDE DEF w, h
<1>5. w * h >= 1 /\ w * h \in Nat
  BY <1>2, <1>3
<1> QED BY <1>4, <1>5

(* The boxes of a page's content are finitely many boxes in it.            *)
LEMMA ContentOK ==
  ASSUME NEW p, PageOK(p), NEW bs, BlocksOK(bs, p)
  PROVE /\ IsFiniteSet(ContentBoxes(p, bs))
        /\ \A b \in ContentBoxes(p, bs) : InPage(b)
<1> DEFINE words == {WordBox(w) : w \in p.words}
           texts == {b \in bs : b.kind = "text"}
           tabled == {b \in bs : b.kind = "table"}
           pictured == {b \in bs : b.kind = "picture"}
           cells == UNION {CellsIn(b.rows) : b \in tabled}
           boxes == ContentBoxes(p, bs)
           allBoxes == words \cup {b.box : b \in texts} \cup {c.box : c \in cells} \cup {b.box : b \in pictured}
<1>1. IsFiniteSet(bs) /\ \A b \in bs : BlockOK(b, p)
  BY DEF BlocksOK
<1>2. IsFiniteSet(words) /\ \A b \in words : InPage(b)
  BY WordBoxesOK DEF PageOK
<1>3. \A b \in texts : InPage(b.box)
  <2> SUFFICES ASSUME NEW b \in texts  PROVE InPage(b.box)
    OBVIOUS
  <2>1. TextOK(b, p.words)
    BY <1>1 DEF BlockOK
  <2>2. PICK vs : vs = b.words
    OBVIOUS
  <2>3. vs \in SUBSET p.words /\ vs # {} /\ b.box = Hull({WordBox(w) : w \in vs})
    BY <2>1, <2>2 DEF TextOK
  <2>4. Placed(vs)
    BY <2>3, SomePlaced DEF PageOK
  <2>5. PICK hs : hs = {WordBox(w) : w \in vs}
    OBVIOUS
  <2>6. IsFiniteSet(hs) /\ hs # {} /\ \A h \in hs : InPage(h)
    BY <2>3, <2>4, <2>5, WordBoxesOK
  <2> QED BY <2>3, <2>5, <2>6, HullReaches
<1>4. IsFiniteSet(texts) /\ IsFiniteSet(tabled) /\ IsFiniteSet(pictured)
  <2>1. texts \in SUBSET bs /\ tabled \in SUBSET bs /\ pictured \in SUBSET bs
    OBVIOUS
  <2> HIDE DEF texts, tabled, pictured
  <2> QED BY <1>1, <2>1, FS_Subset
<1>5. \A b \in tabled : IsFiniteSet(CellsIn(b.rows)) /\ \A c \in CellsIn(b.rows) : CellOK(c)
  BY <1>1 DEF BlockOK, TableOK
<1>6. IsFiniteSet(cells) /\ \A c \in cells : InPage(c.box)
  <2> DEFINE f == [b \in tabled |-> CellsIn(b.rows)]
             parts == {CellsIn(b.rows) : b \in tabled}
  <2>1. \A y \in parts : \E b \in tabled : f[b] = y
    OBVIOUS
  <2>2. \A y \in parts : IsFiniteSet(y)
    BY <1>5
  <2>3. \A c \in cells : InPage(c.box)
    BY <1>5 DEF CellOK
  <2> HIDE DEF f, parts
  <2>4. IsFiniteSet(parts)
    BY ONLY <1>4, <2>1, ImageFinite
  <2>5. IsFiniteSet(UNION parts)
    BY <2>2, <2>4, FS_UNION
  <2> QED BY <2>3, <2>5 DEF parts
<1>7. \A b \in pictured : InPage(b.box)
  BY <1>1 DEF BlockOK
<1>8. IsFiniteSet({b.box : b \in texts})
  <2> DEFINE f == [b \in texts |-> b.box]
             T == {b.box : b \in texts}
  <2>1. \A y \in T : \E b \in texts : f[b] = y
    OBVIOUS
  <2> HIDE DEF f, T, texts
  <2>2. IsFiniteSet(T)
    BY ONLY <1>4, <2>1, ImageFinite
  <2> QED BY <2>2 DEF T
<1>9. IsFiniteSet({c.box : c \in cells})
  <2> DEFINE f == [c \in cells |-> c.box]
             T == {c.box : c \in cells}
  <2>1. \A y \in T : \E c \in cells : f[c] = y
    OBVIOUS
  <2> HIDE DEF f, T, cells
  <2>2. IsFiniteSet(T)
    BY ONLY <1>6, <2>1, ImageFinite
  <2> QED BY <2>2 DEF T
<1>10. IsFiniteSet({b.box : b \in pictured})
  <2> DEFINE f == [b \in pictured |-> b.box]
             T == {b.box : b \in pictured}
  <2>1. \A y \in T : \E b \in pictured : f[b] = y
    OBVIOUS
  <2> HIDE DEF f, T, pictured
  <2>2. IsFiniteSet(T)
    BY ONLY <1>4, <2>1, ImageFinite
  <2> QED BY <2>2 DEF T
<1>11. boxes \in SUBSET allBoxes
  <2>1. \A l \in LayerWords(p, bs) : l.box \in words \cup {b.box : b \in texts} \cup {c.box : c \in cells}
    BY DEF LayerWords
  <2> QED BY <2>1 DEF ContentBoxes
<1>12. \A b \in allBoxes : InPage(b)
  BY <1>2, <1>3, <1>6, <1>7
<1> DEFINE T1 == {b.box : b \in texts}
           T2 == {c.box : c \in cells}
           T3 == {b.box : b \in pictured}
<1>13. IsFiniteSet(words \cup T1 \cup T2 \cup T3)
  <2> HIDE DEF T1, T2, T3, words
  <2>0. IsFiniteSet(T1) /\ IsFiniteSet(T2) /\ IsFiniteSet(T3)
    BY <1>8, <1>9, <1>10 DEF T1, T2, T3
  <2>1. IsFiniteSet(words \cup T1)
    BY <1>2, <2>0, FS_Union
  <2>2. IsFiniteSet(words \cup T1 \cup T2)
    BY <2>0, <2>1, FS_Union
  <2> QED BY <2>0, <2>2, FS_Union
<1> HIDE DEF boxes, words, texts, cells, pictured
<1> QED BY <1>11, <1>12, <1>13, FS_Subset DEF boxes

(* The crop shows all content.                                             *)
LEMMA CropHolds ==
  ASSUME NEW p, PageOK(p), NEW bs, BlocksOK(bs, p)
  PROVE LET k == Crop(p, bs) IN
    /\ k.x1 \in Int /\ k.x2 \in Int /\ k.y1 \in Int /\ k.y2 \in Int
    /\ \A b \in ContentBoxes(p, bs) : WithinBox(b, k)
<1> DEFINE full == Box(0, 0, Spot * Cols, Spot * Rows)
           boxes == ContentBoxes(p, bs)
           h == Hull(boxes)
           cropped == Box(Larger(0, h.x1 - Margin), Larger(0, h.y1 - Margin),
                          Smaller(full.x2, h.x2 + Margin), Smaller(full.y2, h.y2 + Margin))
<1>1. Spot * Cols \in Nat /\ Spot * Rows \in Nat
  BY SpotsAssumption DEF Spot
<1>2. \A b : InPage(b) => /\ b.x1 \in Nat /\ b.x2 \in Nat /\ b.x2 <= Spot * Cols
                          /\ b.y1 \in Nat /\ b.y2 \in Nat /\ b.y2 <= Spot * Rows
  BY <1>1 DEF InPage
<1>3. /\ full.x1 \in Int /\ full.x2 \in Int /\ full.y1 \in Int /\ full.y2 \in Int
      /\ full.x1 = 0 /\ full.y1 = 0 /\ full.x2 = Spot * Cols /\ full.y2 = Spot * Rows
  BY <1>1 DEF Box
<1>5. Crop(p, bs) = full \/ (boxes # {} /\ Crop(p, bs) = cropped)
  BY DEF Crop
<1>6. IsFiniteSet(boxes) /\ \A b \in boxes : InPage(b)
  BY ContentOK
<1>7. \A b \in boxes : WithinBox(b, full)
  <2> HIDE DEF boxes, full
  <2> QED BY <1>2, <1>3, <1>6 DEF WithinBox
<1>8. ASSUME boxes # {}
      PROVE /\ cropped.x1 \in Int /\ cropped.x2 \in Int /\ cropped.y1 \in Int /\ cropped.y2 \in Int
            /\ \A b \in boxes : WithinBox(b, cropped)
  <2>1. InPage(h) /\ \A b \in boxes : h.x1 <= b.x1 /\ b.x2 <= h.x2 /\ h.y1 <= b.y1 /\ b.y2 <= h.y2
    <3> HIDE DEF boxes
    <3> QED BY <1>6, <1>8, HullReaches
  <2>2. /\ h.x1 \in Nat /\ h.x2 \in Nat /\ h.y1 \in Nat /\ h.y2 \in Nat
    BY <1>2, <2>1
  <2> HIDE DEF h, full
  <2>3. /\ cropped.x1 = Larger(0, h.x1 - 15) /\ cropped.y1 = Larger(0, h.y1 - 15)
        /\ cropped.x2 = Smaller(full.x2, h.x2 + 15) /\ cropped.y2 = Smaller(full.y2, h.y2 + 15)
    BY DEF Box, Margin
  <2> HIDE DEF cropped, boxes
  <2>4. cropped.x1 \in Int /\ cropped.x2 \in Int /\ cropped.y1 \in Int /\ cropped.y2 \in Int
    BY <1>3, <2>2, <2>3 DEF Larger, Smaller
  <2>5. ASSUME NEW b \in boxes  PROVE WithinBox(b, cropped)
    <3>1. /\ b.x1 \in Nat /\ b.x2 \in Nat /\ b.x2 <= full.x2
          /\ b.y1 \in Nat /\ b.y2 \in Nat /\ b.y2 <= full.y2
      BY <1>2, <1>3, <1>6
    <3>2. h.x1 <= b.x1 /\ b.x2 <= h.x2 /\ h.y1 <= b.y1 /\ b.y2 <= h.y2
      BY <2>1
    <3> QED BY <1>3, <2>2, <2>3, <3>1, <3>2 DEF Larger, Smaller, WithinBox
  <2> QED BY <2>4, <2>5
<1> HIDE DEF full, cropped, boxes, h
<1> QED BY <1>3, <1>5, <1>7, <1>8 DEF boxes

(* The files hold what their exporters make of the page and its blocks.    *)
Exported ==
  /\ exports.xlsx = [b \in TableBlocks |-> Sheet(b.rows)]
  /\ exports.docx = [b \in TableBlocks |-> WordTable(b.rows)]
  /\ exports.searchable = [crop |-> Crop(page, blocks), words |-> TextLayer(page, blocks)]

LEMMA TablesHeld ==
  ASSUME PageOK(page), BlocksOK(blocks, page), Exported, stage = "exported"
  PROVE ExportsHoldTables
<1> SUFFICES ASSUME NEW b \in TableBlocks, Disjoint(CellsOf(b)),
                    {c.row : c \in CellsOf(b)} = 0 .. Len(b.rows) - 1
             PROVE /\ exports.xlsx[b].text = Held(CellsOf(b)) /\ ~exports.xlsx[b].failed
                   /\ exports.docx[b].text = Held(CellsOf(b)) /\ ~exports.docx[b].failed
  BY DEF ExportsHoldTables, Held, Place
<1>1. b \in blocks /\ b.kind = "table" /\ BlockOK(b, page)
  BY DEF TableBlocks, BlocksOK
<1>2. Exact(b.rows)
  <2>1. TableOK(CellsIn(b.rows)) /\ Len(b.rows) \in Nat
    BY <1>1 DEF BlockOK
  <2>2. \A c \in CellsIn(b.rows) : c.row \in 0 .. Len(b.rows) - 1
    BY DEF CellsOf
  <2>3. \A c \in CellsIn(b.rows) : c.row < Len(b.rows)
    BY <2>1, <2>2
  <2> QED BY <2>1, <2>3 DEF Exact, CellsOf
<1>3. SheetIs(Sheet(b.rows), CellsOf(b)) /\ DocumentIs(WordTable(b.rows), CellsOf(b))
  BY <1>2, SheetOK, DocumentOK DEF CellsOf
<1>4. exports.xlsx[b] = Sheet(b.rows) /\ exports.docx[b] = WordTable(b.rows)
  BY DEF Exported
<1>5. Sheet(b.rows).text = Held(CellsOf(b)) /\ ~Sheet(b.rows).failed
  <2>1. PICK s : s = Sheet(b.rows)
    OBVIOUS
  <2>2. s.text = Held(CellsOf(b)) /\ ~s.failed
    BY <1>3, <2>1 DEF SheetIs
  <2> QED BY <2>1, <2>2
<1>6. WordTable(b.rows).text = Held(CellsOf(b)) /\ ~WordTable(b.rows).failed
  <2>1. PICK d : d = WordTable(b.rows)
    OBVIOUS
  <2>2. d.text = Held(CellsOf(b)) /\ ~d.failed
    BY <1>3, <2>1 DEF DocumentIs
  <2> QED BY <2>1, <2>2
<1> QED BY <1>4, <1>5, <1>6

-----------------------------------------------------------------------------
(* The specification                                                       *)

(* The inductive invariant: detected tables and the blocks of the page     *)
(* keep the shape the exporters rely on, and an export is one of the       *)
(* blocks as they are.                                                     *)
IInv ==
  /\ stage \in {"recognized", "tables", "built", "edited", "exported"}
  /\ PageOK(page)
  /\ TablesOK(tables)
  /\ BlocksOK(blocks, page)
  /\ stage = "exported" => Exported

LEMMA PagesOK ==
  ASSUME NEW p \in Pages
  PROVE PageOK(p)
BY PagesAssumption DEF PageOK, Placed, PicturesOK

LEMMA Initially == Init => IInv
<1> SUFFICES ASSUME Init  PROVE IInv
  OBVIOUS
<1>1. PageOK(page)
  BY PagesOK DEF Init
<1>2. tables = {} /\ blocks = {} /\ stage = "recognized"
  BY DEF Init, NotYet
<1> QED BY <1>1, <1>2, FS_EmptySet DEF IInv, TablesOK, BlocksOK

LEMMA Stepwise == IInv /\ [Next]_vars => IInv'
<1> SUFFICES ASSUME IInv, [Next]_vars  PROVE IInv'
  OBVIOUS
<1>1. CASE DetectTables
  <2>1. PICK ruled \in {RuledTables(page)} : tables' = ruled \cup UnruledTables(page, ruled)
    BY <1>1 DEF DetectTables
  <2>2. page' = page /\ blocks' = blocks /\ stage' = "tables"
    BY <1>1 DEF DetectTables
  <2>3. Placed(page.words)
    BY DEF IInv, PageOK
  <2>4. TablesOK(ruled) /\ TablesOK(UnruledTables(page, ruled))
    BY <2>3, RuledOK, UnruledOK
  <2>5. TablesOK(tables')
    BY <2>1, <2>4, FS_Union DEF TablesOK
  <2> QED BY <2>2, <2>5 DEF IInv
<1>2. CASE BuildPageJson
  <2>1. /\ page' = page /\ tables' = tables /\ stage' = "built"
        /\ blocks' = ToJson(Layout(page, tables))
    BY <1>2 DEF BuildPageJson
  <2>2. BlocksOK(blocks', page)
    BY <2>1, LayoutOK DEF IInv
  <2> QED BY <2>1, <2>2 DEF IInv
<1>3. CASE Export
  <2>1. page' = page /\ tables' = tables /\ blocks' = blocks /\ stage' = "exported"
    BY <1>3 DEF Export
  <2>2. exports' = [xlsx |-> [b \in {b \in blocks : b.kind = "table"} |-> Sheet(b.rows)],
                    docx |-> [b \in {b \in blocks : b.kind = "table"} |-> WordTable(b.rows)],
                    searchable |-> [crop |-> Crop(page, blocks), words |-> TextLayer(page, blocks)]]
    BY <1>3 DEF Export
  <2>3. /\ exports'.xlsx = [b \in TableBlocks |-> Sheet(b.rows)]
        /\ exports'.docx = [b \in TableBlocks |-> WordTable(b.rows)]
        /\ exports'.searchable = [crop |-> Crop(page, blocks), words |-> TextLayer(page, blocks)]
    BY <2>2 DEF TableBlocks
  <2>4. Exported'
    BY <2>1, <2>3 DEF Exported, TableBlocks
  <2> QED BY <2>1, <2>4 DEF IInv
<1>4. ASSUME NEW b \in {b \in blocks : b.kind = "table"}, NEW r \in 0 .. Rows, MergeRows(b, r)
      PROVE IInv'
  <2>1. page' = page /\ tables' = tables /\ stage' = "edited"
    BY <1>4 DEF MergeRows
  <2>2. BlocksOK(blocks', page)
    BY <1>4, MergeRowsOK DEF IInv
  <2> QED BY <2>1, <2>2 DEF IInv
<1>5. CASE UNCHANGED vars
  BY <1>5 DEF IInv, vars, Exported, TableBlocks
<1> QED BY <1>1, <1>2, <1>3, <1>4, <1>5 DEF Next

(* In every state the tables and blocks are ones the exporters can read:   *)
(* finitely many, their cells inside the page, spanning at least one row   *)
(* and column, and told apart by where the scan of the grid met them       *)
(* (layout/detector.py, reconstruction/document_json_builder.py).          *)
THEOREM PageShape == Spec => []IInv
<1>1. Init => IInv
  BY Initially
<1>2. IInv /\ [Next]_vars => IInv'
  BY Stepwise
<1> QED BY <1>1, <1>2, PTL DEF Spec

(* Tables and blocks keep their types, cells stay in the page whatever was *)
(* detected and merged (tables/opencv_engine.py, _merge_cells).            *)
THEOREM TypeCorrect == Spec => []TypeOK
<1>1. IInv => TypeOK
  <2> SUFFICES ASSUME IInv  PROVE TypeOK
    OBVIOUS
  <2>1. ASSUME NEW t \in tables, NEW c \in t.cells  PROVE CellOK(c)
    BY DEF IInv, TablesOK, TableOK
  <2>2. ASSUME NEW b \in TableBlocks, NEW c \in CellsOf(b)  PROVE CellOK(c)
    BY DEF IInv, BlocksOK, BlockOK, TableOK, TableBlocks, CellsOf
  <2>3. \A c \in UNION ({t.cells : t \in tables} \cup {CellsOf(b) : b \in TableBlocks}) : CellOK(c)
    BY <2>1, <2>2
  <2> QED BY <2>3 DEF TypeOK, IInv, TablesOK, BlocksOK, BlockOK, CellOK
<1> QED BY <1>1, PageShape, PTL

(* The Excel and the Word export of a table whose cells do not overlap     *)
(* hold the words of each cell at its place, whatever areas are merged     *)
(* (exporters/excel_exporter.py, exporters/docx_exporter.py).              *)
THEOREM TablesExported == Spec => []ExportsHoldTables
<1>1. IInv => ExportsHoldTables
  <2>1. stage # "exported" => ExportsHoldTables
    BY DEF ExportsHoldTables
  <2> QED BY <2>1, TablesHeld DEF IInv
<1> QED BY <1>1, PageShape, PTL

-----------------------------------------------------------------------------
(* The region of the ruling lines                                          *)

InkOK(ink) ==
  /\ ink.h \subseteq (0 .. Rows) \X (0 .. Cols - 1)
  /\ ink.v \subseteq (0 .. Cols) \X (0 .. Rows - 1)
  /\ ink.h \cup ink.v # {}

(* The box a segment of ink takes.                                         *)
HBox(s) == Box(Spot * s[2], Spot * s[1], Spot * s[2] + Spot, Spot * s[1])
VBox(s) == Box(Spot * s[1], Spot * s[2], Spot * s[1], Spot * s[2] + Spot)

(* The region reaches from spot to spot, with its slack.                   *)
RegionIs(ink, a, b, c, d) ==
  /\ Region(ink) = Box(Larger(0, Spot * a - 14), Larger(0, Spot * c - 14),
                       Smaller(Spot * Cols, Spot * b + 14), Smaller(Spot * Rows, Spot * d + 14))
  /\ \A s \in ink.h : c <= s[1] /\ s[1] <= d
  /\ \A s \in ink.v : a <= s[1] /\ s[1] <= b

LEMMA RegionGrid ==
  ASSUME NEW ink, InkOK(ink)
  PROVE \E a, b \in 0 .. Cols : \E c, d \in 0 .. Rows : RegionIs(ink, a, b, c, d)
<1> DEFINE hs == {HBox(s) : s \in ink.h}
           vs == {VBox(s) : s \in ink.v}
           B == hs \cup vs
           hull == Hull(B)
           X1 == {g.x1 : g \in B}
           X2 == {g.x2 : g \in B}
           Y1 == {g.y1 : g \in B}
           Y2 == {g.y2 : g \in B}
<1>1. Rows \in Nat /\ Cols \in Nat
  BY SpotsAssumption
<1>2. Region(ink) = Box(Larger(0, hull.x1 - 14), Larger(0, hull.y1 - 14),
                        Smaller(Spot * Cols, hull.x2 + 14), Smaller(Spot * Rows, hull.y2 + 14))
  BY DEF Region, HBox, VBox
<1>3. hull.x1 = Min(X1) /\ hull.x2 = Max(X2) /\ hull.y1 = Min(Y1) /\ hull.y2 = Max(Y2)
  BY DEF Hull, Box
<1>4. ASSUME NEW g \in B
      PROVE /\ \E k \in 0 .. Cols : g.x1 = Spot * k
            /\ \E k \in 0 .. Cols : g.x2 = Spot * k
            /\ \E k \in 0 .. Rows : g.y1 = Spot * k
            /\ \E k \in 0 .. Rows : g.y2 = Spot * k
  <2>1. CASE g \in hs
    <3>1. PICK s \in ink.h : g = HBox(s)
      BY <2>1
    <3>2. s[1] \in 0 .. Rows /\ s[2] \in 0 .. Cols /\ s[2] + 1 \in 0 .. Cols
      BY <1>1 DEF InkOK
    <3>3. /\ g.x1 = Spot * s[2] /\ g.x2 = Spot * (s[2] + 1)
          /\ g.y1 = Spot * s[1] /\ g.y2 = Spot * s[1]
      BY <3>1, <3>2 DEF HBox, Box, Spot
    <3> QED BY <3>2, <3>3
  <2>2. CASE g \in vs
    <3>1. PICK s \in ink.v : g = VBox(s)
      BY <2>2
    <3>2. s[1] \in 0 .. Cols /\ s[2] \in 0 .. Rows /\ s[2] + 1 \in 0 .. Rows
      BY <1>1 DEF InkOK
    <3>3. /\ g.x1 = Spot * s[1] /\ g.x2 = Spot * s[1]
          /\ g.y1 = Spot * s[2] /\ g.y2 = Spot * (s[2] + 1)
      BY <3>1, <3>2 DEF VBox, Box, Spot
    <3> QED BY <3>2, <3>3
  <2> QED BY <2>1, <2>2
<1>5. IsFiniteSet({Spot * k : k \in 0 .. Cols}) /\ IsFiniteSet({Spot * k : k \in 0 .. Rows})
  <2> DEFINE f == [k \in 0 .. Cols |-> Spot * k]
             e == [k \in 0 .. Rows |-> Spot * k]
             F == {Spot * k : k \in 0 .. Cols}
             E == {Spot * k : k \in 0 .. Rows}
             D == 0 .. Cols
             C == 0 .. Rows
  <2>1. /\ IsFiniteSet(D) /\ \A y \in F : \E k \in D : f[k] = y
        /\ IsFiniteSet(C) /\ \A y \in E : \E k \in C : e[k] = y
    BY <1>1, FS_Interval
  <2> HIDE DEF f, e, E, F, C, D
  <2>3. IsFiniteSet(F)
    BY ONLY <2>1, ImageFinite
  <2>4. IsFiniteSet(E)
    BY ONLY <2>1, ImageFinite
  <2> QED BY <2>3, <2>4 DEF E, F
<1>6. B # {}
  BY DEF InkOK
<1> HIDE DEF B
<1>7. /\ X1 \in SUBSET {Spot * k : k \in 0 .. Cols} /\ X1 # {}
      /\ X2 \in SUBSET {Spot * k : k \in 0 .. Cols} /\ X2 # {}
      /\ Y1 \in SUBSET {Spot * k : k \in 0 .. Rows} /\ Y1 # {}
      /\ Y2 \in SUBSET {Spot * k : k \in 0 .. Rows} /\ Y2 # {}
  BY <1>4, <1>6
<1>8. \A g \in B : g.x1 \in X1 /\ g.x2 \in X2 /\ g.y1 \in Y1 /\ g.y2 \in Y2
  OBVIOUS
<1> HIDE DEF X1, X2, Y1, Y2
<1>9. \A k \in Int : Spot * k \in Int
  BY DEF Spot
<1>10. /\ X1 \in SUBSET Int /\ X2 \in SUBSET Int /\ Y1 \in SUBSET Int /\ Y2 \in SUBSET Int
       /\ IsFiniteSet(X1) /\ IsFiniteSet(X2) /\ IsFiniteSet(Y1) /\ IsFiniteSet(Y2)
  BY <1>5, <1>7, <1>9, FS_Subset
<1>11. /\ Min(X1) \in X1 /\ \A y \in X1 : Min(X1) <= y
       /\ Max(X2) \in X2 /\ \A y \in X2 : y <= Max(X2)
       /\ Min(Y1) \in Y1 /\ \A y \in Y1 : Min(Y1) <= y
       /\ Max(Y2) \in Y2 /\ \A y \in Y2 : y <= Max(Y2)
  BY <1>7, <1>10, Extremes
<1>12. PICK a \in 0 .. Cols, b \in 0 .. Cols, c \in 0 .. Rows, d \in 0 .. Rows :
         Min(X1) = Spot * a /\ Max(X2) = Spot * b /\ Min(Y1) = Spot * c /\ Max(Y2) = Spot * d
  BY <1>7, <1>11
<1>13. ASSUME NEW s \in ink.h  PROVE c <= s[1] /\ s[1] <= d
  <2>1. HBox(s) \in B
    BY DEF B
  <2>2. HBox(s).y1 = Spot * s[1] /\ HBox(s).y2 = Spot * s[1] /\ s[1] \in Int
    BY DEF HBox, Box, InkOK
  <2>3. Spot * c <= Spot * s[1] /\ Spot * s[1] <= Spot * d
    BY <1>8, <1>11, <1>12, <2>1, <2>2
  <2> QED BY <2>2, <2>3 DEF Spot
<1>14. ASSUME NEW s \in ink.v  PROVE a <= s[1] /\ s[1] <= b
  <2>1. VBox(s) \in B
    BY DEF B
  <2>2. VBox(s).x1 = Spot * s[1] /\ VBox(s).x2 = Spot * s[1] /\ s[1] \in Int
    BY DEF VBox, Box, InkOK
  <2>3. Spot * a <= Spot * s[1] /\ Spot * s[1] <= Spot * b
    BY <1>8, <1>11, <1>12, <2>1, <2>2
  <2> QED BY <2>2, <2>3 DEF Spot
<1> HIDE DEF hull
<1>15. RegionIs(ink, a, b, c, d)
  BY <1>2, <1>3, <1>12, <1>13, <1>14 DEF RegionIs
<1> QED BY <1>15

(* A word that is centred in the region in one direction lies in it, and   *)
(* boundaries of both kinds do.                                            *)
LEMMA CentredLiesIn ==
  ASSUME NEW ink, InkOK(ink), NEW ws, Placed(ws), NEW w \in ws
  PROVE LET b == WordBox(w)  r == Region(ink) IN
    /\ CenterAcross(b, r) => r.x1 <= b.x1 /\ b.x2 <= r.x2
    /\ CenterDown(b, r) => r.y1 <= b.y1 /\ b.y2 <= r.y2
    /\ CenterIn(b, r) => Overlaps(b, r)
<1> DEFINE b == WordBox(w)
           r == Region(ink)
<1>1. Rows \in Nat /\ Cols \in Nat
  BY SpotsAssumption
<1>2. PICK k \in 0 .. Cols, l \in 0 .. Cols, m \in 0 .. Rows, n \in 0 .. Rows :
        RegionIs(ink, k, l, m, n)
  BY RegionGrid
<1>3. /\ r.x1 = Larger(0, 60 * k - 14) /\ r.x2 = Smaller(60 * Cols, 60 * l + 14)
      /\ r.y1 = Larger(0, 60 * m - 14) /\ r.y2 = Smaller(60 * Rows, 60 * n + 14)
  BY <1>2 DEF RegionIs, Box, Spot
<1> DEFINE i == w.line
           j == w.col
           s == w.shift
<1>4. i \in 0 .. Rows - 1 /\ j \in 0 .. Cols - 1 /\ s \in 0 .. 11
  BY DEF Placed
<1>5. /\ b.x1 = 60 * j + 12 + s /\ b.x2 = 60 * j + 48 + s
      /\ b.y1 = 60 * i + 12 /\ b.y2 = 60 * i + 48
  BY DEF WordBox, Box, Spot
<1> HIDE DEF b, r, i, j, s
<1>6. CenterAcross(b, r) => r.x1 <= b.x1 /\ b.x2 <= r.x2
  BY <1>1, <1>3, <1>4, <1>5 DEF CenterAcross, Larger, Smaller
<1>7. CenterDown(b, r) => r.y1 <= b.y1 /\ b.y2 <= r.y2
  BY <1>1, <1>3, <1>4, <1>5 DEF CenterDown, Larger, Smaller
<1>8. ASSUME CenterIn(b, r)  PROVE Overlaps(b, r)
  <2>1. r.x1 <= b.x1 /\ b.x2 <= r.x2 /\ r.y1 <= b.y1 /\ b.y2 <= r.y2
    BY <1>6, <1>7, <1>8 DEF CenterIn
  <2>2. r.x1 \in Int /\ r.x2 \in Int /\ r.y1 \in Int /\ r.y2 \in Int
    BY <1>1, <1>3 DEF Larger, Smaller
  <2>3. /\ Smaller(b.x2, r.x2) = b.x2 /\ Larger(b.x1, r.x1) = b.x1
        /\ Smaller(b.y2, r.y2) = b.y2 /\ Larger(b.y1, r.y1) = b.y1
    BY <1>4, <1>5, <2>1, <2>2 DEF Larger, Smaller
  <2>4. b.x2 - b.x1 = 36 /\ b.y2 - b.y1 = 36
    BY <1>4, <1>5
  <2>5. Shared(b, r) = 36 * 36 /\ Area(b) = 36 * 36
    BY <2>3, <2>4 DEF Shared, Area, Larger
  <2> QED BY <2>5 DEF Overlaps, OverlapAtLeast
<1> QED BY <1>6, <1>7, <1>8 DEF b, r

LEMMA InkFinite ==
  ASSUME NEW ink, InkOK(ink)
  PROVE IsFiniteSet(ink.h) /\ IsFiniteSet(ink.v)
<1>1. Rows \in Nat /\ Cols \in Nat
  BY SpotsAssumption
<1>2. /\ IsFiniteSet(0 .. Rows) /\ IsFiniteSet(0 .. Cols - 1)
      /\ IsFiniteSet(0 .. Cols) /\ IsFiniteSet(0 .. Rows - 1)
  BY <1>1, FS_Interval
<1>3. IsFiniteSet((0 .. Rows) \X (0 .. Cols - 1)) /\ IsFiniteSet((0 .. Cols) \X (0 .. Rows - 1))
  BY <1>2, FS_Product
<1> QED BY <1>3, FS_Subset DEF InkOK

(* Where a ruled boundary is, there is ink.                                *)
LEMMA RuledHasInk ==
  ASSUME NEW segments, IsFiniteSet(segments), NEW n \in Nat, NEW y \in Ruled(segments, n)
  PROVE \E k \in 0 .. n : y = Spot * k /\ \E s \in segments : s[1] = k
<1> DEFINE on(k) == {s \in segments : s[1] = k}
           length(k) == Cardinality(on(k))
           lengths == {length(k) : k \in 0 .. n}
           longest == Max(lengths)
<1>1. PICK k \in 0 .. n : y = Spot * k /\ 10 * length(k) > 4 * longest
  BY DEF Ruled
<1>2. \A j \in 0 .. n : length(j) \in Nat /\ (length(j) = 0 <=> on(j) = {})
  <2> SUFFICES ASSUME NEW j \in 0 .. n  PROVE length(j) \in Nat /\ (length(j) = 0 <=> on(j) = {})
    OBVIOUS
  <2>1. IsFiniteSet(on(j))
    BY FS_Subset
  <2> HIDE DEF on
  <2> QED BY <2>1, FS_CardinalityType, FS_EmptySet
<1>3. longest \in Nat
  <2> HIDE DEF length
  <2> DEFINE f == [j \in 0 .. n |-> length(j)]
             D == 0 .. n
  <2>1. IsFiniteSet(D) /\ \A x \in lengths : \E j \in D : f[j] = x
    <3>1. IsFiniteSet(D)
      BY FS_Interval
    <3> QED BY <3>1
  <2>2. lengths \in SUBSET Nat /\ lengths \in SUBSET Int /\ lengths # {}
    BY <1>2
  <2> HIDE DEF f, D, lengths
  <2>3. IsFiniteSet(lengths)
    BY ONLY <2>1, ImageFinite
  <2> QED BY <2>2, <2>3, Extremes
<1> HIDE DEF longest
<1>4. length(k) # 0
  BY <1>1, <1>3
<1>5. on(k) # {}
  BY <1>2, <1>4
<1> QED BY <1>1, <1>5

(* The grid of a region lies in it.                                        *)
LEMMA GridInRegion ==
  ASSUME NEW ink, InkOK(ink), NEW ws, Placed(ws)
  PROVE LET grid == Boundaries(ink, ws)  r == Region(ink) IN
    /\ r.x1 \in Nat /\ r.x2 \in Nat /\ r.y1 \in Nat /\ r.y2 \in Nat
    /\ \A i \in 1 .. Len(grid.y) : r.y1 <= grid.y[i] /\ grid.y[i] <= r.y2
    /\ \A i \in 1 .. Len(grid.x) : r.x1 <= grid.x[i] /\ grid.x[i] <= r.x2
<1> DEFINE r == Region(ink)
           down == {w \in ws : CenterDown(WordBox(w), r)}
           across == {w \in ws : CenterAcross(WordBox(w), r)}
           rows == Supplement(Ruled(ink.h, Rows), RowTextBounds(down))
           cols == Supplement(Ruled(ink.v, Cols), ColumnTextBounds(across))
           grid == Boundaries(ink, ws)
<1>1. Rows \in Nat /\ Cols \in Nat
  BY SpotsAssumption
<1>2. PICK k \in 0 .. Cols, l \in 0 .. Cols, m \in 0 .. Rows, n \in 0 .. Rows :
        RegionIs(ink, k, l, m, n)
  BY RegionGrid
<1>3. /\ r.x1 = Larger(0, 60 * k - 14) /\ r.x2 = Smaller(60 * Cols, 60 * l + 14)
      /\ r.y1 = Larger(0, 60 * m - 14) /\ r.y2 = Smaller(60 * Rows, 60 * n + 14)
  BY <1>2 DEF RegionIs, Box, Spot
<1>4. grid.y = Increasing(rows.bounds) /\ grid.x = Increasing(cols.bounds)
  BY DEF Boundaries
<1>5. Placed(down) /\ Placed(across)
  BY SomePlaced
<1>6. /\ \A w \in down : r.y1 <= WordBox(w).y1 /\ WordBox(w).y2 <= r.y2
      /\ \A w \in across : r.x1 <= WordBox(w).x1 /\ WordBox(w).x2 <= r.x2
  BY CentredLiesIn
<1> HIDE DEF r, down, across
<1>7. r.x1 \in Nat /\ r.x2 \in Nat /\ r.y1 \in Nat /\ r.y2 \in Nat
  BY <1>1, <1>3 DEF Larger, Smaller
<1>8. IsFiniteSet(ink.h) /\ IsFiniteSet(ink.v)
  BY InkFinite
<1>9. Between(Ruled(ink.h, Rows), r.y1, r.y2)
  <2>1. IsFiniteSet(Ruled(ink.h, Rows))
    BY <1>1, RuledWithin DEF Within, Between
  <2>2. ASSUME NEW y \in Ruled(ink.h, Rows)  PROVE y \in r.y1 .. r.y2
    <3>1. PICK j \in 0 .. Rows : y = 60 * j /\ \E s \in ink.h : s[1] = j
      BY <1>1, <1>8, RuledHasInk DEF Spot
    <3>2. m <= j /\ j <= n
      BY <1>2, <3>1 DEF RegionIs
    <3> QED BY <1>1, <1>3, <3>1, <3>2 DEF Larger, Smaller
  <2> QED BY <2>1, <2>2 DEF Between
<1>10. Between(Ruled(ink.v, Cols), r.x1, r.x2)
  <2>1. IsFiniteSet(Ruled(ink.v, Cols))
    BY <1>1, RuledWithin DEF Within, Between
  <2>2. ASSUME NEW y \in Ruled(ink.v, Cols)  PROVE y \in r.x1 .. r.x2
    <3>1. PICK j \in 0 .. Cols : y = 60 * j /\ \E s \in ink.v : s[1] = j
      BY <1>1, <1>8, RuledHasInk DEF Spot
    <3>2. k <= j /\ j <= l
      BY <1>2, <3>1 DEF RegionIs
    <3> QED BY <1>1, <1>3, <3>1, <3>2 DEF Larger, Smaller
  <2> QED BY <2>1, <2>2 DEF Between
<1>11. Between(rows.bounds, r.y1, r.y2)
  BY <1>5, <1>6, <1>7, <1>9, RowBoundsWithin, SupplementWithin
<1>12. Between(cols.bounds, r.x1, r.x2)
  BY <1>5, <1>6, <1>7, <1>10, ColumnBoundsWithin, SupplementWithin
<1> HIDE DEF rows, cols, grid
<1>13. ASSUME NEW S, NEW lo \in Nat, NEW hi \in Nat, Between(S, lo, hi)
       PROVE \A i \in 1 .. Len(Increasing(S)) : lo <= Increasing(S)[i] /\ Increasing(S)[i] <= hi
  <2>1. S \in SUBSET Int /\ IsFiniteSet(S) /\ \A x \in S : lo <= x /\ x <= hi
    BY <1>13 DEF Between
  <2> DEFINE s == Increasing(S)
  <2>2. DOMAIN s = 1 .. Len(s) /\ \A i \in DOMAIN s : s[i] \in S
    BY <2>1, Sorted
  <2> HIDE DEF s
  <2>3. \A i \in 1 .. Len(s) : lo <= s[i] /\ s[i] <= hi
    BY <2>1, <2>2
  <2> QED BY <2>3 DEF s
<1>14. \A i \in 1 .. Len(grid.y) : r.y1 <= grid.y[i] /\ grid.y[i] <= r.y2
  BY <1>4, <1>7, <1>11, <1>13
<1>15. \A i \in 1 .. Len(grid.x) : r.x1 <= grid.x[i] /\ grid.x[i] <= r.x2
  BY <1>4, <1>7, <1>12, <1>13
<1> QED BY <1>7, <1>14, <1>15 DEF r, grid

-----------------------------------------------------------------------------
(* Words and the cells of a ruled table                                    *)

(* A number between the first and the last of a list is between two        *)
(* neighbours.                                                             *)
LEMMA BetweenNeighbours ==
  ASSUME NEW n \in Nat, n >= 2, NEW s, \A i \in 1 .. n : s[i] \in Int,
         NEW v \in Int, 2 * s[1] <= v, v <= 2 * s[n]
  PROVE \E i \in 1 .. n - 1 : 2 * s[i] <= v /\ v <= 2 * s[i + 1]
<1> DEFINE T == {i \in 1 .. n - 1 : 2 * s[i] <= v}
           m == Max(T)
<1>1. 1 \in T /\ T \in SUBSET Int /\ T \in SUBSET (1 .. n - 1)
  OBVIOUS
<1>2. IsFiniteSet(T)
  <2>1. 1 \in Int /\ n - 1 \in Int
    OBVIOUS
  <2>2. IsFiniteSet(1 .. n - 1)
    BY <2>1, FS_Interval
  <2> HIDE DEF T
  <2> QED BY <1>1, <2>2, FS_Subset
<1>3. m \in T /\ \A i \in T : i <= m
  <2> HIDE DEF T
  <2> QED BY <1>1, <1>2, Extremes
<1> HIDE DEF m
<1>4. m \in 1 .. n - 1 /\ 2 * s[m] <= v
  BY <1>3
<1>5. m + 1 \notin T
  BY <1>3, <1>4
<1>6. v <= 2 * s[m + 1]
  <2>1. CASE m = n - 1
    BY <1>4, <2>1
  <2>2. CASE m # n - 1
    <3>1. m + 1 \in 1 .. n - 1 /\ m + 1 \in 1 .. n
      BY <1>4, <2>2
    <3>2. ~(2 * s[m + 1] <= v) /\ s[m + 1] \in Int
      BY <1>5, <3>1
    <3> QED BY <3>2
  <2> QED BY <2>1, <2>2
<1> QED BY <1>4, <1>6

(* The cell of a group reaches from its first row and column to its last.  *)
CellReaches(c, g, grid, r0, r1, c0, c1) ==
  /\ \A p \in g : r0 <= p[1] /\ p[1] <= r1 /\ c0 <= p[2] /\ p[2] <= c1
  /\ (\E p \in g : p[1] = r0) /\ (\E p \in g : p[1] = r1)
  /\ c.row = r0 - 1 /\ c.rowspan = r1 - r0 + 1
  /\ c.column = c0 - 1 /\ c.colspan = c1 - c0 + 1
  /\ c.box = Box(grid.x[c0], grid.y[r0], grid.x[c1 + 1], grid.y[r1 + 1])

LEMMA CellOfReaches ==
  ASSUME NEW grid, GridOK(grid), NEW g \in SUBSET BaseCells(grid), g # {}, NEW ws
  PROVE \E r0, r1 \in 1 .. Len(grid.y) - 1 : \E c0, c1 \in 1 .. Len(grid.x) - 1 :
          CellReaches(CellOf(g, grid, ws), g, grid, r0, r1, c0, c1)
<1> DEFINE m == Len(grid.y) - 1
           n == Len(grid.x) - 1
           T1 == {p[1] : p \in g}
           T2 == {p[2] : p \in g}
           r0 == Min(T1)
           r1 == Max(T1)
           c0 == Min(T2)
           c1 == Max(T2)
           c == CellOf(g, grid, ws)
<1>1. g \in SUBSET ((1 .. m) \X (1 .. n)) /\ m \in Int /\ n \in Int
  BY DEF BaseCells, GridOK
<1> HIDE DEF m, n
<1>2. /\ T1 \in SUBSET (1 .. m) /\ T1 # {} /\ T1 \in SUBSET Int
      /\ T2 \in SUBSET (1 .. n) /\ T2 # {} /\ T2 \in SUBSET Int
  BY <1>1
<1>3. /\ \A p \in g : p[1] \in T1 /\ p[2] \in T2
      /\ \A x \in T1 : \E p \in g : p[1] = x
  OBVIOUS
<1>4. /\ c.row = r0 - 1 /\ c.rowspan = r1 - r0 + 1 /\ c.column = c0 - 1 /\ c.colspan = c1 - c0 + 1
      /\ c.box = Box(grid.x[c0], grid.y[r0], grid.x[c1 + 1], grid.y[r1 + 1])
  BY DEF CellOf
<1> HIDE DEF T1, T2, c
<1>5. IsFiniteSet(T1) /\ IsFiniteSet(T2)
  <2>1. IsFiniteSet(1 .. m) /\ IsFiniteSet(1 .. n)
    BY <1>1, FS_Interval
  <2> QED BY <1>2, <2>1, FS_Subset
<1>6. /\ r0 \in T1 /\ r1 \in T1 /\ \A x \in T1 : r0 <= x /\ x <= r1
      /\ c0 \in T2 /\ c1 \in T2 /\ \A x \in T2 : c0 <= x /\ x <= c1
  BY <1>2, <1>5, Extremes
<1> HIDE DEF r0, r1, c0, c1
<1>7. CellReaches(c, g, grid, r0, r1, c0, c1)
  BY <1>3, <1>4, <1>6 DEF CellReaches
<1>8. r0 \in 1 .. m /\ r1 \in 1 .. m /\ c0 \in 1 .. n /\ c1 \in 1 .. n
  BY <1>2, <1>6
<1> QED BY <1>7, <1>8 DEF m, n, c

(* A cell that spans rows r0 to r1 and columns c0 to c1 of a grid.         *)
Spans(c, grid, r0, r1, c0, c1) ==
  /\ r0 <= r1 /\ c0 <= c1
  /\ c.row = r0 - 1 /\ c.rowspan = r1 - r0 + 1
  /\ c.column = c0 - 1 /\ c.colspan = c1 - c0 + 1
  /\ c.box = Box(grid.x[c0], grid.y[r0], grid.x[c1 + 1], grid.y[r1 + 1])

(* What is known of a ruled table: each of its cells spans a part of the   *)
(* grid and has the words centred there, and there is one over each base   *)
(* cell.                                                                   *)
OfGrid(t, grid, ws) ==
  /\ GridOK(grid) /\ Len(grid.y) >= 2 /\ Len(grid.x) >= 2
  /\ t.method = "opencv_lines"
  /\ t.box = Box(grid.x[1], grid.y[1], grid.x[Len(grid.x)], grid.y[Len(grid.y)])
  /\ \A c \in t.cells :
       /\ c.words = CellWords(ws, c.box)
       /\ \E r0, r1 \in 1 .. Len(grid.y) - 1 : \E c0, c1 \in 1 .. Len(grid.x) - 1 :
            Spans(c, grid, r0, r1, c0, c1)
  /\ \A i \in 1 .. Len(grid.y) - 1 : \A j \in 1 .. Len(grid.x) - 1 :
       \E c \in t.cells : \E r0, r1 \in 1 .. Len(grid.y) - 1 : \E c0, c1 \in 1 .. Len(grid.x) - 1 :
         Spans(c, grid, r0, r1, c0, c1) /\ r0 <= i /\ i <= r1 /\ c0 <= j /\ j <= c1

LEMMA StructureOfGrid ==
  ASSUME NEW grid, GridOK(grid), NEW ink, NEW ws, Structure(grid, ink, ws) # NoTable
  PROVE OfGrid(Structure(grid, ink, ws), grid, ws)
<1> DEFINE A == Unseparated(grid, ink)
           base == BaseCells(grid)
           groups == {United(p, A) : p \in base}
           cells == {CellOf(g, grid, ws) : g \in groups}
           t == Structure(grid, ink, ws)
           m == Len(grid.y) - 1
           n == Len(grid.x) - 1
<1>1. /\ IsFiniteSet(base) /\ A \in SUBSET (base \X base) /\ IsFiniteSet(A)
  BY UnseparatedOK
<1>2. /\ Len(grid.y) >= 2 /\ Len(grid.x) >= 2 /\ t.cells = cells /\ t.method = "opencv_lines"
      /\ t.box = TableBox(grid.x, grid.y, ink)
  <2>1. Len(grid.y) \in Nat /\ Len(grid.x) \in Nat
    BY DEF GridOK
  <2>2. /\ ~(Len(grid.y) < 2 \/ Len(grid.x) < 2) /\ t.cells = cells /\ t.method = "opencv_lines"
        /\ t.box = TableBox(grid.x, grid.y, ink)
    BY DEF Structure
  <2> QED BY <2>1, <2>2
<1> HIDE DEF A, base, t
<1>3. ASSUME NEW p \in base
      PROVE p \in United(p, A) /\ United(p, A) \in SUBSET base
  <2>1. Closed(base, A)
    BY <1>1 DEF Closed
  <2> QED BY <1>1, <2>1, UnitedCloses
<1>4. ASSUME NEW p \in base
      PROVE LET c == CellOf(United(p, A), grid, ws) IN
        /\ c.words = CellWords(ws, c.box)
        /\ \E r0, r1 \in 1 .. m : \E c0, c1 \in 1 .. n :
             Spans(c, grid, r0, r1, c0, c1) /\ r0 <= p[1] /\ p[1] <= r1 /\ c0 <= p[2] /\ p[2] <= c1
  <2> DEFINE g == United(p, A)
             c == CellOf(g, grid, ws)
  <2>1. g \in SUBSET BaseCells(grid) /\ g # {} /\ p \in g
    BY <1>3 DEF base
  <2>2. c.words = CellWords(ws, c.box)
    BY DEF CellOf
  <2> HIDE DEF g, m, n
  <2>3. PICK r0, r1 \in 1 .. Len(grid.y) - 1, c0, c1 \in 1 .. Len(grid.x) - 1 :
          CellReaches(c, g, grid, r0, r1, c0, c1)
    BY <2>1, CellOfReaches
  <2> HIDE DEF c
  <2>4. r0 <= p[1] /\ p[1] <= r1 /\ c0 <= p[2] /\ p[2] <= c1
    BY <2>1, <2>3 DEF CellReaches
  <2>5. p[1] \in Int /\ p[2] \in Int
    BY <2>1 DEF BaseCells
  <2>6. Spans(c, grid, r0, r1, c0, c1)
    <3>1. r0 <= r1 /\ c0 <= c1
      BY <2>4, <2>5
    <3> QED BY <2>3, <3>1 DEF CellReaches, Spans
  <2> QED BY <2>2, <2>3, <2>4, <2>6 DEF c, g, m, n
<1>5. ASSUME NEW c \in cells
      PROVE /\ c.words = CellWords(ws, c.box)
            /\ \E r0, r1 \in 1 .. m : \E c0, c1 \in 1 .. n : Spans(c, grid, r0, r1, c0, c1)
  <2>1. PICK p \in base : c = CellOf(United(p, A), grid, ws)
    OBVIOUS
  <2> QED BY <1>4, <2>1
<1>6. ASSUME NEW i \in 1 .. m, NEW j \in 1 .. n
      PROVE \E c \in cells : \E r0, r1 \in 1 .. m : \E c0, c1 \in 1 .. n :
              Spans(c, grid, r0, r1, c0, c1) /\ r0 <= i /\ i <= r1 /\ c0 <= j /\ j <= c1
  <2> DEFINE p == <<i, j>>
  <2>1. p \in base /\ p[1] = i /\ p[2] = j
    BY DEF base, BaseCells
  <2>2. CellOf(United(p, A), grid, ws) \in cells
    BY <2>1
  <2> HIDE DEF p, cells
  <2> QED BY <1>4, <2>1, <2>2
<1> HIDE DEF cells
<1> QED BY <1>2, <1>5, <1>6 DEF OfGrid, TableBox, m, n, t

(* Boundaries further down a grid are no less.                             *)
LEMMA GridRises ==
  ASSUME NEW n \in Nat, NEW s, \A i \in 1 .. n : s[i] \in Int, \A i, j \in 1 .. n : i < j => s[i] < s[j]
  PROVE \A i, j \in 1 .. n : i <= j => s[i] <= s[j]
<1> SUFFICES ASSUME NEW i \in 1 .. n, NEW j \in 1 .. n, i <= j  PROVE s[i] <= s[j]
  OBVIOUS
<1>1. i < j \/ i = j
  OBVIOUS
<1>2. s[i] \in Int /\ s[j] \in Int /\ (i < j => s[i] < s[j])
  OBVIOUS
<1> QED BY <1>1, <1>2

LEMMA GridNumbers ==
  ASSUME NEW grid, GridOK(grid)
  PROVE /\ Len(grid.y) \in Nat /\ Len(grid.x) \in Nat
        /\ \A i \in 1 .. Len(grid.y) : grid.y[i] \in Int
        /\ \A i \in 1 .. Len(grid.x) : grid.x[i] \in Int
        /\ \A i, j \in 1 .. Len(grid.y) : i <= j => grid.y[i] <= grid.y[j]
        /\ \A i, j \in 1 .. Len(grid.x) : i <= j => grid.x[i] <= grid.x[j]
<1>1. Rows \in Nat /\ Cols \in Nat /\ Spot = 60
  BY SpotsAssumption DEF Spot
<1>2. Len(grid.y) \in Nat /\ Len(grid.x) \in Nat
  BY DEF GridOK
<1>3. \A i \in 1 .. Len(grid.y) : grid.y[i] \in Int
  BY <1>1 DEF GridOK
<1>4. \A i \in 1 .. Len(grid.x) : grid.x[i] \in Int
  BY <1>1 DEF GridOK
<1>5. \A i, j \in 1 .. Len(grid.y) : i < j => grid.y[i] < grid.y[j]
  BY DEF GridOK
<1>6. \A i, j \in 1 .. Len(grid.x) : i < j => grid.x[i] < grid.x[j]
  BY DEF GridOK
<1>7. \A i, j \in 1 .. Len(grid.y) : i <= j => grid.y[i] <= grid.y[j]
  BY <1>2, <1>3, <1>5, GridRises
<1>8. \A i, j \in 1 .. Len(grid.x) : i <= j => grid.x[i] <= grid.x[j]
  BY <1>2, <1>4, <1>6, GridRises
<1> QED BY <1>2, <1>3, <1>4, <1>7, <1>8

(* A word centred in a ruled table is in one of its cells.                 *)
LEMMA GridTakesWord ==
  ASSUME NEW t, NEW grid, NEW ws, OfGrid(t, grid, ws), NEW w \in ws, WordBox(w).x1 + WordBox(w).x2 \in Int,
         WordBox(w).y1 + WordBox(w).y2 \in Int, CenterIn(WordBox(w), t.box)
  PROVE \E c \in t.cells : w \in c.words
<1> DEFINE b == WordBox(w)
           m == Len(grid.y)
           n == Len(grid.x)
           x == grid.x
           y == grid.y
           u == b.x1 + b.x2
           v == b.y1 + b.y2
<1>1. GridOK(grid) /\ m >= 2 /\ n >= 2
  BY DEF OfGrid
<1>2. /\ m \in Nat /\ n \in Nat
      /\ \A i \in 1 .. m : y[i] \in Int
      /\ \A i \in 1 .. n : x[i] \in Int
      /\ \A i, j \in 1 .. m : i <= j => y[i] <= y[j]
      /\ \A i, j \in 1 .. n : i <= j => x[i] <= x[j]
  BY <1>1, GridNumbers
<1>3. u \in Int /\ v \in Int /\ 2 * x[1] <= u /\ u <= 2 * x[n] /\ 2 * y[1] <= v /\ v <= 2 * y[m]
  BY DEF OfGrid, CenterIn, CenterAcross, CenterDown, Box
<1> HIDE DEF b, m, n, x, y, u, v
<1>4. PICK i \in 1 .. m - 1 : 2 * y[i] <= v /\ v <= 2 * y[i + 1]
  BY <1>1, <1>2, <1>3, BetweenNeighbours
<1>5. PICK j \in 1 .. n - 1 : 2 * x[j] <= u /\ u <= 2 * x[j + 1]
  BY <1>1, <1>2, <1>3, BetweenNeighbours
<1>6. PICK c \in t.cells : \E r0, r1 \in 1 .. m - 1 : \E c0, c1 \in 1 .. n - 1 :
        Spans(c, grid, r0, r1, c0, c1) /\ r0 <= i /\ i <= r1 /\ c0 <= j /\ j <= c1
  BY DEF OfGrid, m, n
<1>7. PICK r0, r1 \in 1 .. m - 1, c0, c1 \in 1 .. n - 1 :
        Spans(c, grid, r0, r1, c0, c1) /\ r0 <= i /\ i <= r1 /\ c0 <= j /\ j <= c1
  BY <1>6
<1>8. y[r0] <= y[i] /\ y[i + 1] <= y[r1 + 1] /\ x[c0] <= x[j] /\ x[j + 1] <= x[c1 + 1]
  <2>1. /\ r0 \in 1 .. m /\ i \in 1 .. m /\ i + 1 \in 1 .. m /\ r1 + 1 \in 1 .. m /\ i + 1 <= r1 + 1
        /\ c0 \in 1 .. n /\ j \in 1 .. n /\ j + 1 \in 1 .. n /\ c1 + 1 \in 1 .. n /\ j + 1 <= c1 + 1
    BY <1>2, <1>7
  <2> QED BY <1>2, <1>7, <2>1
<1>9. /\ y[r0] \in Int /\ y[i] \in Int /\ y[i + 1] \in Int /\ y[r1 + 1] \in Int
      /\ x[c0] \in Int /\ x[j] \in Int /\ x[j + 1] \in Int /\ x[c1 + 1] \in Int
  <2>1. /\ r0 \in 1 .. m /\ i \in 1 .. m /\ i + 1 \in 1 .. m /\ r1 + 1 \in 1 .. m
        /\ c0 \in 1 .. n /\ j \in 1 .. n /\ j + 1 \in 1 .. n /\ c1 + 1 \in 1 .. n
    BY <1>2
  <2> QED BY <1>2, <2>1
<1>10. 2 * y[r0] <= v /\ v <= 2 * y[r1 + 1] /\ 2 * x[c0] <= u /\ u <= 2 * x[c1 + 1]
  BY <1>3, <1>4, <1>5, <1>8, <1>9
<1>11. c.box = [x1 |-> x[c0], y1 |-> y[r0], x2 |-> x[c1 + 1], y2 |-> y[r1 + 1]]
  BY <1>7 DEF Spans, Box, x, y
<1>12. CenterIn(b, c.box)
  BY <1>10, <1>11 DEF CenterIn, CenterAcross, CenterDown, u, v
<1>13. c.words = CellWords(ws, c.box)
  BY DEF OfGrid
<1> QED BY <1>12, <1>13 DEF CellWords, b

(* The words of a ruled table's cells are centred in the table.            *)
LEMMA GridWordsInside ==
  ASSUME NEW t, NEW grid, NEW ws, OfGrid(t, grid, ws), NEW c \in t.cells, NEW w \in c.words,
         WordBox(w).x1 + WordBox(w).x2 \in Int, WordBox(w).y1 + WordBox(w).y2 \in Int
  PROVE w \in ws /\ CenterIn(WordBox(w), c.box) /\ CenterIn(WordBox(w), t.box)
<1> DEFINE b == WordBox(w)
           m == Len(grid.y)
           n == Len(grid.x)
           x == grid.x
           y == grid.y
<1>1. GridOK(grid) /\ m >= 2 /\ n >= 2
  BY DEF OfGrid
<1>2. /\ m \in Nat /\ n \in Nat
      /\ \A i \in 1 .. m : y[i] \in Int
      /\ \A i \in 1 .. n : x[i] \in Int
      /\ \A i, j \in 1 .. m : i <= j => y[i] <= y[j]
      /\ \A i, j \in 1 .. n : i <= j => x[i] <= x[j]
  BY <1>1, GridNumbers
<1>3. c.words = CellWords(ws, c.box)
  BY DEF OfGrid
<1>4. w \in ws /\ CenterIn(b, c.box)
  BY <1>3 DEF CellWords
<1>5. t.box = [x1 |-> x[1], y1 |-> y[1], x2 |-> x[n], y2 |-> y[m]]
  BY DEF OfGrid, Box
<1> HIDE DEF m, n, x, y
<1>6. PICK r0, r1 \in 1 .. m - 1, c0, c1 \in 1 .. n - 1 : Spans(c, grid, r0, r1, c0, c1)
  BY DEF OfGrid, m, n
<1>7. c.box = [x1 |-> x[c0], y1 |-> y[r0], x2 |-> x[c1 + 1], y2 |-> y[r1 + 1]]
  BY <1>6 DEF Spans, Box, x, y
<1>8. /\ 1 \in 1 .. m /\ m \in 1 .. m /\ r0 \in 1 .. m /\ r1 + 1 \in 1 .. m /\ 1 <= r0 /\ r1 + 1 <= m
      /\ 1 \in 1 .. n /\ n \in 1 .. n /\ c0 \in 1 .. n /\ c1 + 1 \in 1 .. n /\ 1 <= c0 /\ c1 + 1 <= n
  BY <1>1, <1>2
<1>9. y[1] <= y[r0] /\ y[r1 + 1] <= y[m] /\ x[1] <= x[c0] /\ x[c1 + 1] <= x[n]
  BY <1>2, <1>8
<1>10. /\ y[1] \in Int /\ y[r0] \in Int /\ y[r1 + 1] \in Int /\ y[m] \in Int
       /\ x[1] \in Int /\ x[c0] \in Int /\ x[c1 + 1] \in Int /\ x[n] \in Int
  BY <1>2, <1>8
<1>11. CenterIn(b, t.box)
  <2>1. /\ 2 * x[c0] <= b.x1 + b.x2 /\ b.x1 + b.x2 <= 2 * x[c1 + 1]
        /\ 2 * y[r0] <= b.y1 + b.y2 /\ b.y1 + b.y2 <= 2 * y[r1 + 1]
    BY <1>4, <1>7 DEF CenterIn, CenterAcross, CenterDown
  <2>2. /\ 2 * x[1] <= b.x1 + b.x2 /\ b.x1 + b.x2 <= 2 * x[n]
        /\ 2 * y[1] <= b.y1 + b.y2 /\ b.y1 + b.y2 <= 2 * y[m]
    <3> DEFINE u == b.x1 + b.x2
               v == b.y1 + b.y2
    <3>1. u \in Int /\ v \in Int
      OBVIOUS
    <3> HIDE DEF u, v
    <3>2. /\ 2 * x[1] <= u /\ u <= 2 * x[n] /\ 2 * y[1] <= v /\ v <= 2 * y[m]
      BY <1>9, <1>10, <2>1, <3>1 DEF u, v
    <3> QED BY <3>2 DEF u, v
  <2> QED BY <1>5, <2>2 DEF CenterIn, CenterAcross, CenterDown
<1> QED BY <1>4, <1>11 DEF b

(* A word whose middle is strictly between two boundaries is on the same   *)
(* side of every other one.                                                *)
LEMMA GridOrder ==
  ASSUME NEW n \in Nat, NEW s, \A i \in 1 .. n : s[i] \in Int, \A i, j \in 1 .. n : i <= j => s[i] <= s[j],
         NEW v \in Int, NEW i \in 1 .. n, NEW j \in 1 .. n, 2 * s[i] < v, v < 2 * s[j]
  PROVE i < j
<1>1. s[i] \in Int /\ s[j] \in Int
  OBVIOUS
<1>2. s[i] < s[j]
  BY <1>1
<1>3. ~(j <= i)
  BY <1>1, <1>2
<1> QED BY <1>3

(* A word that is in two cells which do not overlap is on an edge of one.  *)
LEMMA GridCellsApart ==
  ASSUME NEW t, NEW grid, NEW ws, OfGrid(t, grid, ws), Disjoint(t.cells),
         NEW c \in t.cells, NEW d \in t.cells, NEW w \in c.words \cap d.words,
         WordBox(w).x1 + WordBox(w).x2 \in Int, WordBox(w).y1 + WordBox(w).y2 \in Int,
         \A e \in {c, d} :
           /\ WordBox(w).x1 + WordBox(w).x2 \notin {2 * e.box.x1, 2 * e.box.x2}
           /\ WordBox(w).y1 + WordBox(w).y2 \notin {2 * e.box.y1, 2 * e.box.y2}
  PROVE c = d
<1> DEFINE b == WordBox(w)
           m == Len(grid.y)
           n == Len(grid.x)
           x == grid.x
           y == grid.y
           u == b.x1 + b.x2
           v == b.y1 + b.y2
<1>1. GridOK(grid) /\ m >= 2 /\ n >= 2
  BY DEF OfGrid
<1>2. /\ m \in Nat /\ n \in Nat
      /\ \A i \in 1 .. m : y[i] \in Int
      /\ \A i \in 1 .. n : x[i] \in Int
      /\ \A i, j \in 1 .. m : i <= j => y[i] <= y[j]
      /\ \A i, j \in 1 .. n : i <= j => x[i] <= x[j]
  BY <1>1, GridNumbers
<1>3. u \in Int /\ v \in Int /\ CenterIn(b, c.box) /\ CenterIn(b, d.box)
  BY GridWordsInside
<1>4. \A e \in {c, d} : /\ 2 * e.box.x1 <= u /\ u <= 2 * e.box.x2 /\ u # 2 * e.box.x1 /\ u # 2 * e.box.x2
                        /\ 2 * e.box.y1 <= v /\ v <= 2 * e.box.y2 /\ v # 2 * e.box.y1 /\ v # 2 * e.box.y2
  BY <1>3 DEF CenterIn, CenterAcross, CenterDown
<1>5. PICK r0, r1 \in 1 .. Len(grid.y) - 1, c0, c1 \in 1 .. Len(grid.x) - 1 : Spans(c, grid, r0, r1, c0, c1)
  BY DEF OfGrid
<1>6. PICK s0, s1 \in 1 .. Len(grid.y) - 1, d0, d1 \in 1 .. Len(grid.x) - 1 : Spans(d, grid, s0, s1, d0, d1)
  BY DEF OfGrid
<1> HIDE DEF m, n, x, y, u, v, b
<1>7. c.box = [x1 |-> x[c0], y1 |-> y[r0], x2 |-> x[c1 + 1], y2 |-> y[r1 + 1]]
  BY <1>5 DEF Spans, Box, x, y
<1>8. d.box = [x1 |-> x[d0], y1 |-> y[s0], x2 |-> x[d1 + 1], y2 |-> y[s1 + 1]]
  BY <1>6 DEF Spans, Box, x, y
<1>9. /\ r0 \in 1 .. m - 1 /\ r1 \in 1 .. m - 1 /\ c0 \in 1 .. n - 1 /\ c1 \in 1 .. n - 1
      /\ s0 \in 1 .. m - 1 /\ s1 \in 1 .. m - 1 /\ d0 \in 1 .. n - 1 /\ d1 \in 1 .. n - 1
  BY DEF m, n
<1>10. /\ r0 \in 1 .. m /\ r1 + 1 \in 1 .. m /\ c0 \in 1 .. n /\ c1 + 1 \in 1 .. n
       /\ s0 \in 1 .. m /\ s1 + 1 \in 1 .. m /\ d0 \in 1 .. n /\ d1 + 1 \in 1 .. n
  BY <1>2, <1>9
<1>11. /\ y[r0] \in Int /\ y[r1 + 1] \in Int /\ x[c0] \in Int /\ x[c1 + 1] \in Int
       /\ y[s0] \in Int /\ y[s1 + 1] \in Int /\ x[d0] \in Int /\ x[d1 + 1] \in Int
  BY <1>2, <1>10
<1>12. /\ 2 * y[r0] < v /\ v < 2 * y[r1 + 1] /\ 2 * x[c0] < u /\ u < 2 * x[c1 + 1]
       /\ 2 * y[s0] < v /\ v < 2 * y[s1 + 1] /\ 2 * x[d0] < u /\ u < 2 * x[d1 + 1]
  <2>1. /\ 2 * y[r0] <= v /\ v <= 2 * y[r1 + 1] /\ 2 * x[c0] <= u /\ u <= 2 * x[c1 + 1]
        /\ 2 * y[r0] # v /\ v # 2 * y[r1 + 1] /\ 2 * x[c0] # u /\ u # 2 * x[c1 + 1]
    BY SMTT(30), <1>4, <1>7
  <2>2. /\ 2 * y[s0] <= v /\ v <= 2 * y[s1 + 1] /\ 2 * x[d0] <= u /\ u <= 2 * x[d1 + 1]
        /\ 2 * y[s0] # v /\ v # 2 * y[s1 + 1] /\ 2 * x[d0] # u /\ u # 2 * x[d1 + 1]
    BY SMTT(30), <1>4, <1>8
  <2>3. \A a, q \in Int : (2 * a <= q /\ 2 * a # q => 2 * a < q) /\ (q <= 2 * a /\ q # 2 * a => q < 2 * a)
    BY SMTT(60)
  <2>4. 2 * y[r0] < v /\ v < 2 * y[r1 + 1] /\ 2 * x[c0] < u /\ u < 2 * x[c1 + 1]
    BY <1>3, <1>11, <2>1, <2>3
  <2>5. 2 * y[s0] < v /\ v < 2 * y[s1 + 1] /\ 2 * x[d0] < u /\ u < 2 * x[d1 + 1]
    BY <1>3, <1>11, <2>2, <2>3
  <2> QED BY <2>4, <2>5
<1>13. r0 < r1 + 1 /\ r0 < s1 + 1 /\ s0 < r1 + 1 /\ s0 < s1 + 1
  BY <1>2, <1>3, <1>10, <1>12, GridOrder
<1>14. c0 < c1 + 1 /\ c0 < d1 + 1 /\ d0 < c1 + 1 /\ d0 < d1 + 1
  BY <1>2, <1>3, <1>10, <1>12, GridOrder
<1> DEFINE i == Larger(r0, s0) - 1
           j == Larger(c0, d0) - 1
<1>15. i \in (r0 - 1) .. (r1 - 1) /\ i \in (s0 - 1) .. (s1 - 1)
  BY <1>9, <1>13 DEF Larger
<1>16. j \in (c0 - 1) .. (c1 - 1) /\ j \in (d0 - 1) .. (d1 - 1)
  BY <1>9, <1>14 DEF Larger
<1> HIDE DEF i, j
<1>17. <<i, j>> \in SpotsOf(c)
  <2>1. c.row .. c.row + c.rowspan - 1 = (r0 - 1) .. (r1 - 1) /\ c.column .. c.column + c.colspan - 1 = (c0 - 1) .. (c1 - 1)
    <3>1. c.row = r0 - 1 /\ c.rowspan = r1 - r0 + 1 /\ c.column = c0 - 1 /\ c.colspan = c1 - c0 + 1
      BY <1>5 DEF Spans
    <3> QED BY <1>9, <3>1
  <2> QED BY <1>15, <1>16, <2>1 DEF SpotsOf
<1>18. <<i, j>> \in SpotsOf(d)
  <2>1. d.row .. d.row + d.rowspan - 1 = (s0 - 1) .. (s1 - 1) /\ d.column .. d.column + d.colspan - 1 = (d0 - 1) .. (d1 - 1)
    <3>1. d.row = s0 - 1 /\ d.rowspan = s1 - s0 + 1 /\ d.column = d0 - 1 /\ d.colspan = d1 - d0 + 1
      BY <1>6 DEF Spans
    <3> QED BY <1>9, <3>1
  <2> QED BY <1>15, <1>16, <2>1 DEF SpotsOf
<1> QED BY <1>17, <1>18 DEF Disjoint

(* A page whose ruling lines lie in it.                                    *)
InkIn(ink) ==
  /\ ink.h \subseteq (0 .. Rows) \X (0 .. Cols - 1)
  /\ ink.v \subseteq (0 .. Cols) \X (0 .. Rows - 1)

(* Scaling a table to A4 leaves its cells where they are, and is done when *)
(* they reach beyond A4.                                                   *)
Scaled(t, a4) == CellsBox(t).x2 > a4[1] \/ CellsBox(t).y2 > a4[2]
Clamped(t, u, a4) ==
  /\ t.cells = u.cells /\ t.method = u.method
  /\ t.box = u.box \/ ~(u.box.x2 <= a4[1] /\ u.box.y2 <= a4[2])

LEMMA ClampKeeps ==
  ASSUME NEW u, DOMAIN u = {"method", "cells", "box"}, NEW a4
  PROVE Clamped(ClampToA4(u, a4), u, a4)
<1>1. CASE u.box.x2 <= a4[1] /\ u.box.y2 <= a4[2]
  BY <1>1 DEF ClampToA4, Clamped
<1>2. CASE ~(u.box.x2 <= a4[1] /\ u.box.y2 <= a4[2])
  <2>1. PICK b : ClampToA4(u, a4) = [u EXCEPT !.box = b]
    BY <1>2 DEF ClampToA4
  <2> QED BY <1>2, <2>1 DEF Clamped
<1> QED BY <1>1, <1>2

(* The box of a table's cells is the hull of them.                         *)
LEMMA CellsBoxReaches ==
  ASSUME NEW t, TableOK(t.cells), t.cells # {}
  PROVE LET h == CellsBox(t) IN
    /\ h.x1 \in Int /\ h.x2 \in Int /\ h.y1 \in Int /\ h.y2 \in Int
    /\ \A c \in t.cells : h.x1 <= c.box.x1 /\ c.box.x2 <= h.x2 /\ h.y1 <= c.box.y1 /\ c.box.y2 <= h.y2
    /\ \E c \in t.cells : h.x1 = c.box.x1
    /\ \E c \in t.cells : h.x2 = c.box.x2
    /\ \E c \in t.cells : h.y1 = c.box.y1
    /\ \E c \in t.cells : h.y2 = c.box.y2
<1> DEFINE boxes == {c.box : c \in t.cells}
           f == [c \in t.cells |-> c.box]
           h == CellsBox(t)
<1>1. h = Hull(boxes)
  BY DEF CellsBox
<1>2. boxes # {} /\ \A b \in boxes : InPage(b)
  BY DEF TableOK, CellOK
<1>3. IsFiniteSet(boxes)
  <2>1. \A b \in boxes : \E c \in t.cells : f[c] = b
    OBVIOUS
  <2> HIDE DEF f, boxes
  <2> QED BY <2>1, ImageFinite DEF TableOK
<1>4. \A b \in boxes : \E c \in t.cells : b = c.box
  OBVIOUS
<1>5. \A c \in t.cells : c.box \in boxes
  OBVIOUS
<1> HIDE DEF boxes, h
<1>6. /\ \A b \in boxes : h.x1 <= b.x1 /\ b.x2 <= h.x2 /\ h.y1 <= b.y1 /\ b.y2 <= h.y2
      /\ (\E b \in boxes : h.x1 = b.x1) /\ (\E b \in boxes : h.x2 = b.x2)
      /\ (\E b \in boxes : h.y1 = b.y1) /\ (\E b \in boxes : h.y2 = b.y2)
      /\ InPage(h)
  BY <1>1, <1>2, <1>3, HullReaches
<1>7. h.x1 \in Int /\ h.x2 \in Int /\ h.y1 \in Int /\ h.y2 \in Int
  <2>1. Spot * Cols \in Int /\ Spot * Rows \in Int
    BY SpotsAssumption DEF Spot
  <2>2. h.x1 \in Nat /\ h.y1 \in Nat /\ h.x2 \in h.x1 + 1 .. Spot * Cols /\ h.y2 \in h.y1 + 1 .. Spot * Rows
    BY <1>6 DEF InPage
  <2>3. \A a, k \in Int : a .. k \subseteq Int
    OBVIOUS
  <2>4. h.x1 + 1 \in Int /\ h.y1 + 1 \in Int
    BY <2>2
  <2> QED BY <2>1, <2>2, <2>3, <2>4
<1> QED BY <1>4, <1>5, <1>6, <1>7 DEF h

(* In a ruled table the cells cover the whole table and nothing else.      *)
LEMMA GridCellsBox ==
  ASSUME NEW t, NEW grid, NEW ws, OfGrid(t, grid, ws), TableOK(t.cells)
  PROVE /\ t.cells # {} /\ CellsBox(t).x2 \in Int /\ CellsBox(t).y2 \in Int
        /\ t.box.x2 <= CellsBox(t).x2 /\ t.box.y2 <= CellsBox(t).y2
        /\ t.box.x2 \in Int /\ t.box.y2 \in Int
        /\ \A b : b.x1 + b.x2 \in Int /\ b.y1 + b.y2 \in Int /\ CenterIn(b, CellsBox(t))
             => CenterIn(b, t.box)
<1> DEFINE m == Len(grid.y)
           n == Len(grid.x)
           x == grid.x
           y == grid.y
           h == CellsBox(t)
<1>1. GridOK(grid) /\ m >= 2 /\ n >= 2
  BY DEF OfGrid
<1>2. /\ m \in Nat /\ n \in Nat
      /\ \A i \in 1 .. m : y[i] \in Int
      /\ \A i \in 1 .. n : x[i] \in Int
      /\ \A i, j \in 1 .. m : i <= j => y[i] <= y[j]
      /\ \A i, j \in 1 .. n : i <= j => x[i] <= x[j]
  BY <1>1, GridNumbers
<1>3. t.box = [x1 |-> x[1], y1 |-> y[1], x2 |-> x[n], y2 |-> y[m]]
  BY DEF OfGrid, Box
<1> HIDE DEF m, n, x, y
<1>4. ASSUME NEW c \in t.cells
      PROVE \E r0, r1 \in 1 .. m - 1 : \E c0, c1 \in 1 .. n - 1 :
              c.box = [x1 |-> x[c0], y1 |-> y[r0], x2 |-> x[c1 + 1], y2 |-> y[r1 + 1]]
  <2>1. PICK r0, r1 \in 1 .. m - 1, c0, c1 \in 1 .. n - 1 : Spans(c, grid, r0, r1, c0, c1)
    BY DEF OfGrid, m, n
  <2> QED BY <2>1 DEF Spans, Box, x, y
<1>5. \E c \in t.cells : c.box.x2 = x[n] /\ c.box.y2 = y[m]
  <2>1. m - 1 \in 1 .. m - 1 /\ n - 1 \in 1 .. n - 1
    BY <1>1, <1>2
  <2>2. PICK c \in t.cells : \E r0, r1 \in 1 .. m - 1 : \E c0, c1 \in 1 .. n - 1 :
          Spans(c, grid, r0, r1, c0, c1) /\ r0 <= m - 1 /\ m - 1 <= r1 /\ c0 <= n - 1 /\ n - 1 <= c1
    BY <2>1 DEF OfGrid, m, n
  <2>3. PICK r0, r1 \in 1 .. m - 1, c0, c1 \in 1 .. n - 1 :
          Spans(c, grid, r0, r1, c0, c1) /\ m - 1 <= r1 /\ n - 1 <= c1
    BY <2>2
  <2>4. r1 + 1 = m /\ c1 + 1 = n
    BY <1>2, <2>3
  <2>5. c.box = [x1 |-> x[c0], y1 |-> y[r0], x2 |-> x[c1 + 1], y2 |-> y[r1 + 1]]
    BY <2>3 DEF Spans, Box, x, y
  <2> QED BY <2>4, <2>5
<1>6. t.cells # {}
  BY <1>5
<1>7. /\ h.x1 \in Int /\ h.x2 \in Int /\ h.y1 \in Int /\ h.y2 \in Int
      /\ \A c \in t.cells : h.x1 <= c.box.x1 /\ c.box.x2 <= h.x2 /\ h.y1 <= c.box.y1 /\ c.box.y2 <= h.y2
      /\ (\E c \in t.cells : h.x1 = c.box.x1) /\ (\E c \in t.cells : h.x2 = c.box.x2)
      /\ (\E c \in t.cells : h.y1 = c.box.y1) /\ (\E c \in t.cells : h.y2 = c.box.y2)
  BY <1>6, CellsBoxReaches
<1> HIDE DEF h
<1>8. x[n] <= h.x2 /\ y[m] <= h.y2
  BY <1>5, <1>7
<1>9. 1 \in 1 .. m /\ m \in 1 .. m /\ 1 \in 1 .. n /\ n \in 1 .. n
  BY <1>1, <1>2
<1>10. ASSUME NEW c \in t.cells
       PROVE y[1] <= c.box.y1 /\ c.box.y2 <= y[m] /\ x[1] <= c.box.x1 /\ c.box.x2 <= x[n]
  <2>1. PICK r0, r1 \in 1 .. m - 1, c0, c1 \in 1 .. n - 1 :
          c.box = [x1 |-> x[c0], y1 |-> y[r0], x2 |-> x[c1 + 1], y2 |-> y[r1 + 1]]
    BY <1>4
  <2>2. /\ r0 \in 1 .. m /\ r1 + 1 \in 1 .. m /\ 1 <= r0 /\ r1 + 1 <= m
        /\ c0 \in 1 .. n /\ c1 + 1 \in 1 .. n /\ 1 <= c0 /\ c1 + 1 <= n
    BY <1>2
  <2>3. y[1] <= y[r0] /\ y[r1 + 1] <= y[m] /\ x[1] <= x[c0] /\ x[c1 + 1] <= x[n]
    BY <1>2, <1>9, <2>2
  <2> QED BY <2>1, <2>3
<1>11. x[1] <= h.x1 /\ h.x2 <= x[n] /\ y[1] <= h.y1 /\ h.y2 <= y[m]
  BY <1>7, <1>10
<1>12. x[1] \in Int /\ x[n] \in Int /\ y[1] \in Int /\ y[m] \in Int
  BY <1>2, <1>9
<1>13. ASSUME NEW b, b.x1 + b.x2 \in Int, b.y1 + b.y2 \in Int, CenterIn(b, h)
       PROVE CenterIn(b, t.box)
  <2> DEFINE u == b.x1 + b.x2
             v == b.y1 + b.y2
  <2>1. u \in Int /\ v \in Int
    BY <1>13
  <2>2. 2 * h.x1 <= u /\ u <= 2 * h.x2 /\ 2 * h.y1 <= v /\ v <= 2 * h.y2
    BY <1>13 DEF CenterIn, CenterAcross, CenterDown
  <2> HIDE DEF u, v
  <2>3. 2 * x[1] <= u /\ u <= 2 * x[n] /\ 2 * y[1] <= v /\ v <= 2 * y[m]
    <3>1. \A a, k, z \in Int : (2 * k <= z /\ a <= k => 2 * a <= z) /\ (z <= 2 * k /\ k <= a => z <= 2 * a)
      OBVIOUS
    <3> QED BY <1>7, <1>11, <1>12, <2>1, <2>2, <3>1
  <2> QED BY <1>3, <2>3 DEF CenterIn, CenterAcross, CenterDown, u, v
<1> QED BY <1>3, <1>6, <1>7, <1>8, <1>12, <1>13 DEF h

(* The numbers of a word's box.                                            *)
LEMMA WordNumbers ==
  ASSUME NEW ws, Placed(ws), NEW w \in ws
  PROVE LET b == WordBox(w) IN
    /\ b.x1 = 60 * w.col + 12 + w.shift /\ b.x2 = 60 * w.col + 48 + w.shift
    /\ b.y1 = 60 * w.line + 12 /\ b.y2 = 60 * w.line + 48
    /\ b.x1 \in Nat /\ b.x2 \in Nat /\ b.y1 \in Nat /\ b.y2 \in Nat
    /\ b.x1 + b.x2 \in Int /\ b.y1 + b.y2 \in Int
<1>1. w.line \in Nat /\ w.col \in Nat /\ w.shift \in Nat
  BY SpotsAssumption DEF Placed
<1> DEFINE b == WordBox(w)
<1>2. /\ b.x1 = 60 * w.col + 12 + w.shift /\ b.x2 = 60 * w.col + 48 + w.shift
      /\ b.y1 = 60 * w.line + 12 /\ b.y2 = 60 * w.line + 48
  BY DEF WordBox, Box, Spot
<1> HIDE DEF b
<1>3. /\ b.x1 \in Nat /\ b.x2 \in Nat /\ b.y1 \in Nat /\ b.y2 \in Nat
      /\ b.x1 + b.x2 \in Int /\ b.y1 + b.y2 \in Int
  BY <1>1, <1>2
<1> QED BY <1>2, <1>3 DEF b

(* There is at most one ruled table, and before it was scaled it           *)
(* considered every word centred in it.                                    *)
LEMMA RuledIs ==
  ASSUME NEW p, PageOK(p), InkIn(p.ink), NEW t \in RuledTables(p)
  PROVE /\ RuledTables(p) = {t}
        /\ \E s, grid : \E ws \in SUBSET p.words :
             /\ OfGrid(s, grid, ws) /\ Clamped(t, s, p.a4)
             /\ \A w \in p.words : CenterIn(WordBox(w), s.box) => w \in ws
<1> DEFINE r == Region(p.ink)
           inside == {w \in p.words : Overlaps(WordBox(w), r)}
           grid == Boundaries(p.ink, inside)
           s == Structure(grid, p.ink, inside)
<1>1. InkOK(p.ink) /\ RuledTables(p) = {ClampToA4(u, p.a4) : u \in {s} \ {NoTable}}
  <2>1. p.ink.h \cup p.ink.v # {}
    BY DEF RuledTables
  <2>2. RuledTables(p) = {ClampToA4(u, p.a4) : u \in {Structure(g, p.ink, inside) : g \in {grid}} \ {NoTable}}
    BY <2>1 DEF RuledTables
  <2>3. {Structure(g, p.ink, inside) : g \in {grid}} = {s}
    OBVIOUS
  <2> QED BY <2>1, <2>2, <2>3 DEF InkOK, InkIn
<1>2. Placed(p.words) /\ Placed(inside)
  BY SomePlaced DEF PageOK
<1>3. inside \in SUBSET p.words
  OBVIOUS
<1>4. \A w \in p.words : CenterIn(WordBox(w), r) => w \in inside
  BY <1>1, <1>2, CentredLiesIn
<1>5. GridOK(grid)
  BY <1>2, BoundariesOK
<1>6. /\ r.x1 \in Nat /\ r.x2 \in Nat /\ r.y1 \in Nat /\ r.y2 \in Nat
      /\ \A i \in 1 .. Len(grid.y) : r.y1 <= grid.y[i] /\ grid.y[i] <= r.y2
      /\ \A i \in 1 .. Len(grid.x) : r.x1 <= grid.x[i] /\ grid.x[i] <= r.x2
  BY <1>1, <1>2, GridInRegion
<1> HIDE DEF inside, r, s
<1>7. s # NoTable /\ t = ClampToA4(s, p.a4) /\ RuledTables(p) = {t}
  BY <1>1
<1> HIDE DEF grid
<1>8. OfGrid(s, grid, inside)
  BY <1>5, <1>7, StructureOfGrid DEF s
<1> DEFINE m == Len(grid.y)
           n == Len(grid.x)
<1>9. /\ m \in Nat /\ n \in Nat /\ m >= 2 /\ n >= 2
      /\ s.box = [x1 |-> grid.x[1], y1 |-> grid.y[1], x2 |-> grid.x[n], y2 |-> grid.y[m]]
  BY <1>5, <1>8 DEF OfGrid, GridOK, Box
<1>10. 1 \in 1 .. m /\ m \in 1 .. m /\ 1 \in 1 .. n /\ n \in 1 .. n
  BY <1>9
<1>11. /\ grid.x[1] \in Int /\ grid.x[n] \in 0 .. Spot * Cols
       /\ grid.y[1] \in Int /\ grid.y[m] \in 0 .. Spot * Rows
  BY <1>5, <1>10, GridNumbers DEF GridOK
<1>12. Clamped(t, s, p.a4)
  <2>1. DOMAIN s = {"method", "cells", "box"}
    BY <1>7 DEF s, Structure
  <2> QED BY <1>7, <2>1, ClampKeeps
<1>13. ASSUME NEW w \in p.words, CenterIn(WordBox(w), s.box)  PROVE w \in inside
  <2> DEFINE b == WordBox(w)
             u == b.x1 + b.x2
             v == b.y1 + b.y2
  <2>1. u \in Int /\ v \in Int
    BY <1>2, WordNumbers
  <2>2. 2 * grid.x[1] <= u /\ u <= 2 * grid.x[n] /\ 2 * grid.y[1] <= v /\ v <= 2 * grid.y[m]
    BY <1>9, <1>13 DEF CenterIn, CenterAcross, CenterDown
  <2>3. r.x1 <= grid.x[1] /\ grid.x[n] <= r.x2 /\ r.y1 <= grid.y[1] /\ grid.y[m] <= r.y2
    BY <1>6, <1>10
  <2>4. grid.x[n] \in Int /\ grid.y[m] \in Int
    BY <1>11, SpotsAssumption DEF Spot
  <2> HIDE DEF u, v, m, n
  <2>5. 2 * r.x1 <= u /\ u <= 2 * r.x2 /\ 2 * r.y1 <= v /\ v <= 2 * r.y2
    <3>1. \A a, k, x \in Int : (2 * k <= x /\ a <= k => 2 * a <= x) /\ (x <= 2 * k /\ k <= a => x <= 2 * a)
      OBVIOUS
    <3>2. r.x1 \in Int /\ r.x2 \in Int /\ r.y1 \in Int /\ r.y2 \in Int
      BY <1>6
    <3> QED BY <1>11, <2>1, <2>2, <2>3, <2>4, <3>1, <3>2
  <2>6. CenterIn(b, r)
    BY <2>5 DEF CenterIn, CenterAcross, CenterDown, u, v
  <2> QED BY <1>4, <2>6
<1> QED BY <1>3, <1>7, <1>8, <1>12, <1>13

-----------------------------------------------------------------------------
(* Words and the cells of a table without rules                            *)

(* The words of a row from one band up to the next are in one cell only.   *)
LEMMA ColumnsApart ==
  ASSUME NEW n \in Nat, NEW left, \A i \in 1 .. n : left[i] \in Int,
         \A i, j \in 1 .. n : i < j => left[i] < left[j], NEW last \in Int,
         NEW x \in Int, NEW k \in 1 .. n, NEW l \in 1 .. n,
         left[l] - 5 <= x, x < (IF k = n THEN last ELSE left[k + 1]) - 5
  PROVE ~(k < l)
<1> SUFFICES ASSUME k < l  PROVE FALSE
  OBVIOUS
<1>1. k + 1 \in 1 .. n /\ k # n
  OBVIOUS
<1>2. left[k + 1] \in Int /\ left[l] \in Int
  BY <1>1
<1>3. left[k + 1] <= left[l]
  <2>1. k + 1 < l \/ k + 1 = l
    OBVIOUS
  <2> QED BY <1>1, <1>2, <2>1
<1>4. x < left[k + 1] - 5
  BY <1>1
<1> QED BY <1>2, <1>3, <1>4

(* A word that is not left of some band is in the cell of the last such   *)
(* band.                                                                   *)
LEMMA RowTakesWord ==
  ASSUME NEW n \in Nat, NEW left, \A i \in 1 .. n : left[i] \in Int,
         NEW x \in Int, NEW k \in 1 .. n, left[k] - 5 <= x
  PROVE \E l \in 1 .. n : left[l] - 5 <= x /\ (l # n => x < left[l + 1] - 5)
<1> DEFINE T == {i \in 1 .. n : left[i] - 5 <= x}
           m == Max(T)
<1>1. k \in T /\ T \in SUBSET Int /\ T \in SUBSET (1 .. n)
  OBVIOUS
<1>2. IsFiniteSet(T)
  <2>1. IsFiniteSet(1 .. n)
    BY FS_Interval
  <2> HIDE DEF T
  <2> QED BY <1>1, <2>1, FS_Subset
<1>3. m \in T /\ \A i \in T : i <= m
  <2> HIDE DEF T
  <2> QED BY <1>1, <1>2, Extremes
<1> HIDE DEF m
<1>4. m \in 1 .. n /\ left[m] - 5 <= x
  BY <1>3
<1>5. m + 1 \notin T
  BY <1>3, <1>4
<1>6. ASSUME m # n  PROVE x < left[m + 1] - 5
  <2>1. m + 1 \in 1 .. n
    BY <1>4, <1>6
  <2>2. ~(left[m + 1] - 5 <= x) /\ left[m + 1] \in Int
    BY <1>5, <2>1
  <2> QED BY <2>2
<1> QED BY <1>4, <1>6

(* A table recovered from text encloses the words of its rows, and no line *)
(* outside them.                                                           *)
LEMMA RowsTableBox ==
  ASSUME NEW ws, Placed(ws), NEW rows \in SUBSET {w.line : w \in ws}, rows # {}, NEW bands
  PROVE LET t == FromRows(rows, bands, ws) IN
    /\ t.method = "ocr_fallback" /\ InPage(t.box)
    /\ \A w \in ws : w.line \in rows => WordBox(w).x2 <= t.box.x2 /\ CenterIn(WordBox(w), t.box)
    /\ \A w \in ws : CenterIn(WordBox(w), t.box) => \E k, l \in rows : k <= w.line /\ w.line <= l
    /\ \E l \in rows : t.box.y2 = 60 * l + 48
<1> DEFINE all == {w \in ws : w.line \in rows}
           boxes == {WordBox(w) : w \in all}
           h == Hull(boxes)
           t == FromRows(rows, bands, ws)
<1>1. t.method = "ocr_fallback" /\ t.box = h
  BY DEF FromRows
<1>2. Placed(all) /\ all # {}
  BY SomePlaced
<1>3. /\ IsFiniteSet(boxes) /\ boxes # {} /\ \A b \in boxes : InPage(b)
  <2> HIDE DEF all
  <2> QED BY <1>2, WordBoxesOK
<1>4. \A w \in all : WordBox(w) \in boxes
  OBVIOUS
<1>5. \A b \in boxes : \E w \in all : b = WordBox(w)
  OBVIOUS
<1> HIDE DEF boxes
<1>6. /\ \A b \in boxes : h.x1 <= b.x1 /\ b.x2 <= h.x2 /\ h.y1 <= b.y1 /\ b.y2 <= h.y2
      /\ (\E b \in boxes : h.y1 = b.y1) /\ (\E b \in boxes : h.y2 = b.y2)
      /\ InPage(h)
  BY <1>3, HullReaches
<1> HIDE DEF h, t
<1>7. h.x1 \in Int /\ h.x2 \in Int /\ h.y1 \in Int /\ h.y2 \in Int
  <2>1. Spot * Cols \in Int /\ Spot * Rows \in Int
    BY SpotsAssumption DEF Spot
  <2>2. h.x1 \in Nat /\ h.y1 \in Nat /\ h.x2 \in h.x1 + 1 .. Spot * Cols /\ h.y2 \in h.y1 + 1 .. Spot * Rows
    BY <1>6 DEF InPage
  <2>3. \A a, k \in Int : a .. k \subseteq Int
    OBVIOUS
  <2>4. h.x1 + 1 \in Int /\ h.y1 + 1 \in Int
    BY <2>2
  <2> QED BY <2>1, <2>2, <2>3, <2>4
<1>8. ASSUME NEW w \in all  PROVE WordBox(w).x2 <= h.x2 /\ CenterIn(WordBox(w), h)
  <2> DEFINE b == WordBox(w)
  <2>1. h.x1 <= b.x1 /\ b.x2 <= h.x2 /\ h.y1 <= b.y1 /\ b.y2 <= h.y2
    BY <1>4, <1>6
  <2>2. /\ b.x1 \in Nat /\ b.x2 \in Nat /\ b.y1 \in Nat /\ b.y2 \in Nat
        /\ b.x1 = 60 * w.col + 12 + w.shift /\ b.x2 = 60 * w.col + 48 + w.shift
        /\ b.y1 = 60 * w.line + 12 /\ b.y2 = 60 * w.line + 48
    BY WordNumbers
  <2>3. w.col \in Nat /\ w.shift \in Nat /\ w.line \in Nat
    BY SpotsAssumption DEF Placed
  <2> HIDE DEF b
  <2>4. b.x1 <= b.x2 /\ b.y1 <= b.y2
    BY <2>2, <2>3
  <2>5. 2 * h.x1 <= b.x1 + b.x2 /\ b.x1 + b.x2 <= 2 * h.x2 /\ 2 * h.y1 <= b.y1 + b.y2 /\ b.y1 + b.y2 <= 2 * h.y2
    <3>1. \A a, k, x, y \in Int : x <= y /\ a <= x /\ y <= k => 2 * a <= x + y /\ x + y <= 2 * k
      OBVIOUS
    <3>2. b.x1 \in Int /\ b.x2 \in Int /\ b.y1 \in Int /\ b.y2 \in Int
      BY <2>2
    <3> QED BY <1>7, <2>1, <2>4, <3>1, <3>2
  <2> QED BY <2>1, <2>5 DEF CenterIn, CenterAcross, CenterDown, b
<1>9. ASSUME NEW w \in ws, CenterIn(WordBox(w), h)
      PROVE \E k, l \in rows : k <= w.line /\ w.line <= l
  <2>1. PICK f \in all, g \in all : h.y1 = WordBox(f).y1 /\ h.y2 = WordBox(g).y2
    BY <1>5, <1>6
  <2>2. f \in ws /\ g \in ws /\ f.line \in rows /\ g.line \in rows
    OBVIOUS
  <2>3. WordBox(f).y1 = 60 * f.line + 12 /\ WordBox(g).y2 = 60 * g.line + 48
    BY <2>2, WordNumbers
  <2>4. WordBox(w).y1 + WordBox(w).y2 = 120 * w.line + 60 /\ w.line \in Int /\ f.line \in Int /\ g.line \in Int
    <3>1. w.line \in Int /\ f.line \in Int /\ g.line \in Int
      BY <2>2, SpotsAssumption DEF Placed
    <3>2. WordBox(w).y1 = 60 * w.line + 12 /\ WordBox(w).y2 = 60 * w.line + 48
      BY WordNumbers
    <3> QED BY <3>1, <3>2
  <2>5. 2 * h.y1 <= WordBox(w).y1 + WordBox(w).y2 /\ WordBox(w).y1 + WordBox(w).y2 <= 2 * h.y2
    BY <1>9 DEF CenterIn, CenterDown
  <2>6. f.line <= w.line /\ w.line <= g.line
    BY <2>1, <2>3, <2>4, <2>5
  <2> QED BY <2>2, <2>6
<1>10. \A w \in ws : w.line \in rows => w \in all
  OBVIOUS
<1>11. \E l \in rows : h.y2 = 60 * l + 48
  <2>1. PICK g \in all : h.y2 = WordBox(g).y2
    BY <1>5, <1>6
  <2>2. g \in ws /\ g.line \in rows
    OBVIOUS
  <2>3. WordBox(g).y2 = 60 * g.line + 48
    BY <2>2, WordNumbers
  <2> QED BY <2>1, <2>2, <2>3
<1> HIDE DEF all
<1> QED BY <1>1, <1>6, <1>8, <1>9, <1>10, <1>11 DEF t

(* Each cell has words of one of the rows; no two cells share one; and a   *)
(* word of a row is in a cell unless it is left of them all.               *)
CellsHold(t, rows, ws) ==
  /\ \A c \in t.cells : \A w \in c.words : w \in ws /\ w.line \in rows
  /\ \A c, d \in t.cells : \A w \in ws : w \in c.words /\ w \in d.words => c = d
  /\ \A w \in ws : w.line \in rows /\ (\E c \in t.cells : ~(WordBox(w).x1 < c.box.x1 - 5))
       => \E c \in t.cells : w \in c.words

LEMMA RowsTableCells ==
  ASSUME NEW ws, Placed(ws), NEW rows \in SUBSET {w.line : w \in ws},
         NEW bands \in SUBSET {WordBox(w).x1 : w \in {w \in ws : w.line \in rows}}, bands # {}
  PROVE CellsHold(FromRows(rows, bands, ws), rows, ws)
<1> DEFINE line == Increasing(rows)
           left == Increasing(bands)
           all == {w \in ws : w.line \in rows}
           hull == Hull({WordBox(w) : w \in all})
           last == hull.x2 + 1
           n == Len(left)
           right(c) == IF c = Len(left) THEN hull.x2 + 1 ELSE left[c + 1]
           cell(r, c) ==
             [row |-> r - 1, column |-> c - 1, rowspan |-> 1, colspan |-> 1, first |-> <<r, c>>,
              box |-> Box(left[c], Spot * line[r] + 12, right(c), Spot * line[r] + 48),
              words |-> {w \in LineWords(line[r], ws) : left[c] - 5 <= WordBox(w).x1
                                                           /\ WordBox(w).x1 < right(c) - 5}]
           cells == {cell(r, c) : r \in DOMAIN line, c \in DOMAIN left}
           t == FromRows(rows, bands, ws)
<1>1. t.cells = cells
  BY DEF FromRows
<1>2. rows \subseteq 0 .. Rows - 1 /\ IsFiniteSet(rows) /\ rows # {}
  BY LinesFinite, FS_Subset
<1>3. rows \in SUBSET Int /\ bands \in SUBSET Int /\ IsFiniteSet(bands)
  <2>1. \A x \in 0 .. Rows - 1 : x \in Int
    OBVIOUS
  <2>2. \A x \in bands : x \in Int
    <3>1. \A x \in bands : \E w \in ws : x = WordBox(w).x1
      OBVIOUS
    <3>2. \A w \in ws : WordBox(w).x1 \in Int
      BY WordNumbers
    <3> QED BY <3>1, <3>2
  <2>3. IsFiniteSet(bands)
    <3> DEFINE f == [w \in ws |-> WordBox(w).x1]
    <3>1. \A x \in bands : \E w \in ws : f[w] = x
      OBVIOUS
    <3> HIDE DEF f
    <3> QED BY <3>1, ImageFinite DEF Placed
  <2> QED BY <1>2, <2>1, <2>2, <2>3
<1>4. /\ \A i \in DOMAIN line : line[i] \in rows
      /\ \A l \in rows : \E i \in DOMAIN line : line[i] = l
      /\ DOMAIN line \subseteq Int
      /\ \A i, j \in DOMAIN line : i < j => line[i] < line[j]
  <2>1. DOMAIN line = 1 .. Cardinality(rows) /\ Cardinality(rows) \in Nat
    BY <1>2, <1>3, Sorted
  <2>2. DOMAIN line \subseteq Int
    BY <2>1
  <2> QED BY <1>2, <1>3, <2>2, Sorted
<1>5. /\ n \in Nat /\ DOMAIN left = 1 .. n
      /\ \A i \in 1 .. n : left[i] \in Int
      /\ \A i, j \in 1 .. n : i < j => left[i] < left[j]
  <2>1. /\ Cardinality(bands) \in Nat /\ DOMAIN left = 1 .. Cardinality(bands) /\ n = Cardinality(bands)
        /\ \A i \in DOMAIN left : left[i] \in bands
        /\ \A i, j \in DOMAIN left : i < j => left[i] < left[j]
    BY <1>3, Sorted
  <2> QED BY <1>3, <2>1
<1>6. last \in Int /\ \A w \in ws : w.line \in rows => WordBox(w).x2 <= hull.x2 /\ hull.x2 \in Int
  <2>1. t.box = hull
    BY DEF FromRows
  <2> HIDE DEF hull, t
  <2>2. InPage(hull) /\ \A w \in ws : w.line \in rows => WordBox(w).x2 <= hull.x2
    BY <1>2, <2>1, RowsTableBox DEF t
  <2>3. hull.x2 \in Int
    <3>1. hull.x1 + 1 \in Int /\ Spot * Cols \in Int /\ hull.x2 \in hull.x1 + 1 .. Spot * Cols
      BY <2>2, SpotsAssumption DEF InPage, Spot
    <3>2. \A a, k \in Int : a .. k \subseteq Int
      OBVIOUS
    <3> QED BY <3>1, <3>2
  <2> QED BY <2>2, <2>3
<1> HIDE DEF hull, line, left, n
<1>7. ASSUME NEW r \in DOMAIN line, NEW k \in 1 .. n, NEW w \in cell(r, k).words
      PROVE /\ w \in ws /\ w.line = line[r] /\ w.line \in rows /\ left[k] - 5 <= WordBox(w).x1
            /\ WordBox(w).x1 < (IF k = n THEN last ELSE left[k + 1]) - 5
  <2>1. w \in LineWords(line[r], ws) /\ left[k] - 5 <= WordBox(w).x1 /\ WordBox(w).x1 < right(k) - 5
    OBVIOUS
  <2>2. w \in ws /\ w.line = line[r]
    BY <2>1 DEF LineWords
  <2> QED BY <1>4, <2>1, <2>2 DEF n
<1>8. ASSUME NEW c \in cells
      PROVE \E r \in DOMAIN line : \E k \in 1 .. n : c = cell(r, k)
  BY <1>5
<1>9. ASSUME NEW c \in cells, NEW w \in c.words  PROVE w \in ws /\ w.line \in rows
  <2>1. PICK r \in DOMAIN line, k \in 1 .. n : c = cell(r, k)
    BY <1>8
  <2> HIDE DEF cell
  <2> QED BY <1>7, <2>1
<1>10. ASSUME NEW c \in cells, NEW d \in cells, NEW w \in ws, w \in c.words, w \in d.words
       PROVE c = d
  <2>1. PICK r \in DOMAIN line, k \in 1 .. n : c = cell(r, k)
    BY <1>8
  <2>2. PICK q \in DOMAIN line, l \in 1 .. n : d = cell(q, l)
    BY <1>8
  <2> HIDE DEF cell, cells
  <2> DEFINE x == WordBox(w).x1
  <2>3. /\ w.line = line[r] /\ left[k] - 5 <= x /\ x < (IF k = n THEN last ELSE left[k + 1]) - 5
        /\ w.line = line[q] /\ left[l] - 5 <= x /\ x < (IF l = n THEN last ELSE left[l + 1]) - 5
    BY <1>7, <1>10, <2>1, <2>2
  <2>4. x \in Int
    BY WordNumbers
  <2> HIDE DEF x, last
  <2>5. ~(k < l) /\ ~(l < k)
    BY <1>5, <1>6, <2>3, <2>4, ColumnsApart
  <2>6. k = l
    BY <2>5
  <2>7. r = q
    <3>1. r \in Int /\ q \in Int /\ line[r] \in Int /\ line[q] \in Int
      BY <1>3, <1>4
    <3>2. line[r] = line[q]
      BY <2>3
    <3>3. (r < q => line[r] < line[q]) /\ (q < r => line[q] < line[r])
      BY <1>4
    <3>4. ~(r < q) /\ ~(q < r)
      BY <3>1, <3>2, <3>3
    <3> QED BY <3>1, <3>4
  <2> QED BY <2>1, <2>2, <2>6, <2>7
<1>11. ASSUME NEW w \in ws, w.line \in rows, NEW c \in cells, ~(WordBox(w).x1 < c.box.x1 - 5)
       PROVE \E d \in cells : w \in d.words
  <2> DEFINE x == WordBox(w).x1
  <2>1. PICK r0 \in DOMAIN line, k \in 1 .. n : c = cell(r0, k)
    BY <1>8
  <2>2. c.box.x1 = left[k]
    BY <2>1 DEF Box
  <2>3. x \in Int /\ x < last - 5 /\ left[k] - 5 <= x
    <3>1. /\ WordBox(w).x1 = 60 * w.col + 12 + w.shift /\ WordBox(w).x2 = 60 * w.col + 48 + w.shift
          /\ x \in Int /\ WordBox(w).x2 \in Int
      BY WordNumbers
    <3>2. WordBox(w).x2 <= hull.x2 /\ hull.x2 \in Int
      BY <1>6, <1>11
    <3>3. w.col \in Int /\ w.shift \in Int
      BY SMTT(60), SpotsAssumption DEF Placed
    <3>4. WordBox(w).x2 = x + 36
      BY SMTT(60), <3>1, <3>3
    <3>5. left[k] \in Int
      BY <1>5
    <3>6. x < last - 5
      BY <3>1, <3>2, <3>4
    <3> QED BY <1>11, <2>2, <3>1, <3>5, <3>6
  <2>4. PICK r \in DOMAIN line : line[r] = w.line
    BY <1>4, <1>11
  <2> HIDE DEF last, x, cell, cells
  <2>5. PICK l \in 1 .. n : left[l] - 5 <= x /\ (l # n => x < left[l + 1] - 5)
    BY <1>5, <2>3, RowTakesWord
  <2>6. w \in LineWords(line[r], ws)
    BY <2>4 DEF LineWords
  <2>7. x < right(l) - 5
    BY <2>3, <2>5 DEF last, n
  <2>8. w \in cell(r, l).words
    BY <2>5, <2>6, <2>7 DEF x, cell
  <2>9. cell(r, l) \in cells
    BY <1>5 DEF cells
  <2> QED BY <2>8, <2>9
<1> HIDE DEF cells
<1> QED BY <1>1, <1>9, <1>10, <1>11 DEF t, CellsHold

(* Its cells lie in the rows, and reach as far down and to the right as    *)
(* the table.                                                              *)
LEMMA RowsCellsBox ==
  ASSUME NEW ws, Placed(ws), NEW rows \in SUBSET {w.line : w \in ws}, rows # {},
         NEW bands \in SUBSET {WordBox(w).x1 : w \in {w \in ws : w.line \in rows}}, bands # {}
  PROVE LET t == FromRows(rows, bands, ws) IN
    /\ CellsBox(t).x2 \in Int /\ CellsBox(t).y2 \in Int
    /\ t.box.x2 \in Int /\ t.box.y2 \in Int
    /\ t.box.x2 <= CellsBox(t).x2 /\ t.box.y2 <= CellsBox(t).y2
    /\ \A w \in ws : CenterIn(WordBox(w), CellsBox(t)) => \E k, l \in rows : k <= w.line /\ w.line <= l
<1> DEFINE line == Increasing(rows)
           left == Increasing(bands)
           hull == Hull({WordBox(w) : w \in {w \in ws : w.line \in rows}})
           n == Len(left)
           right(c) == IF c = Len(left) THEN hull.x2 + 1 ELSE left[c + 1]
           cell(r, c) ==
             [row |-> r - 1, column |-> c - 1, rowspan |-> 1, colspan |-> 1, first |-> <<r, c>>,
              box |-> Box(left[c], Spot * line[r] + 12, right(c), Spot * line[r] + 48),
              words |-> {w \in LineWords(line[r], ws) : left[c] - 5 <= WordBox(w).x1
                                                           /\ WordBox(w).x1 < right(c) - 5}]
           cells == {cell(r, c) : r \in DOMAIN line, c \in DOMAIN left}
           t == FromRows(rows, bands, ws)
           h == CellsBox(t)
<1>1. t.cells = cells /\ t.box = hull
  BY DEF FromRows
<1>2. /\ rows \in SUBSET Int /\ IsFiniteSet(rows)
      /\ bands \in SUBSET Int /\ IsFiniteSet(bands)
  <2>1. rows \subseteq 0 .. Rows - 1 /\ IsFiniteSet(rows)
    BY LinesFinite, FS_Subset
  <2>2. \A x \in 0 .. Rows - 1 : x \in Int
    OBVIOUS
  <2>3. \A x \in bands : x \in Int
    <3>1. \A x \in bands : \E w \in ws : x = WordBox(w).x1
      OBVIOUS
    <3>2. \A w \in ws : WordBox(w).x1 \in Int
      BY WordNumbers
    <3> QED BY <3>1, <3>2
  <2>4. IsFiniteSet(bands)
    <3> DEFINE f == [w \in ws |-> WordBox(w).x1]
    <3>1. \A x \in bands : \E w \in ws : f[w] = x
      OBVIOUS
    <3> HIDE DEF f
    <3> QED BY <3>1, ImageFinite DEF Placed
  <2> QED BY <2>1, <2>2, <2>3, <2>4
<1>3. /\ \A i \in DOMAIN line : line[i] \in rows
      /\ \A l \in rows : \E i \in DOMAIN line : line[i] = l
  BY <1>2, Sorted
<1>4. n \in Nat /\ n > 0 /\ n \in DOMAIN left
  <2>1. Cardinality(bands) \in Nat /\ DOMAIN left = 1 .. Cardinality(bands) /\ n = Cardinality(bands)
    BY <1>2, Sorted
  <2>2. n # 0
    BY <1>2, <2>1, FS_EmptySet
  <2> HIDE DEF n
  <2> QED BY <2>1, <2>2
<1>5. TableOK(t.cells)
  BY FromRowsOK
<1>6. /\ hull.x2 \in Int /\ hull.y2 \in Int
      /\ \E l \in rows : hull.y2 = 60 * l + 48
  <2> HIDE DEF hull, t
  <2>1. InPage(hull) /\ \E l \in rows : hull.y2 = 60 * l + 48
    BY ZenonT(60), <1>1, RowsTableBox DEF t
  <2>2. hull.x2 \in Int
    <3>1. hull.x1 + 1 \in Int /\ Spot * Cols \in Int /\ hull.x2 \in hull.x1 + 1 .. Spot * Cols
      BY <2>1, SpotsAssumption DEF InPage, Spot
    <3>2. \A a, k \in Int : a .. k \subseteq Int
      OBVIOUS
    <3> QED BY <3>1, <3>2
  <2>3. hull.y2 \in Int
    BY <1>2, <2>1
  <2> QED BY <2>1, <2>2, <2>3
<1> HIDE DEF hull, line, left, n, t, h
<1>7. ASSUME NEW c \in cells
      PROVE \E l \in rows : c.box.y1 = 60 * l + 12 /\ c.box.y2 = 60 * l + 48
  <2>1. PICK r \in DOMAIN line, k \in DOMAIN left : c = cell(r, k)
    OBVIOUS
  <2>2. c.box.y1 = Spot * line[r] + 12 /\ c.box.y2 = Spot * line[r] + 48
    BY <2>1 DEF Box
  <2> QED BY <1>3, <2>2 DEF Spot
<1>8. ASSUME NEW l \in rows
      PROVE \E c \in cells : c.box.x2 = hull.x2 + 1 /\ c.box.y2 = 60 * l + 48
  <2>1. PICK r \in DOMAIN line : line[r] = l
    BY <1>3
  <2>2. cell(r, n) \in cells
    <3> HIDE DEF cell
    <3> QED BY <1>4
  <2>3. cell(r, n).box.x2 = hull.x2 + 1 /\ cell(r, n).box.y2 = Spot * l + 48
    BY <2>1 DEF Box, n
  <2> HIDE DEF cell, cells
  <2> QED BY <2>2, <2>3 DEF Spot
<1> HIDE DEF cells, cell
<1>9. cells # {}
  BY <1>8
<1>10. /\ h.x1 \in Int /\ h.x2 \in Int /\ h.y1 \in Int /\ h.y2 \in Int
       /\ \A c \in cells : c.box.x2 <= h.x2 /\ c.box.y2 <= h.y2
       /\ (\E c \in cells : h.y1 = c.box.y1) /\ (\E c \in cells : h.y2 = c.box.y2)
  BY <1>1, <1>5, <1>9, CellsBoxReaches DEF h
<1>11. hull.x2 <= h.x2 /\ hull.y2 <= h.y2
  <2>1. PICK l \in rows : hull.y2 = 60 * l + 48
    BY <1>6
  <2>2. PICK c \in cells : c.box.x2 = hull.x2 + 1 /\ c.box.y2 = 60 * l + 48
    BY <1>8
  <2> QED BY <1>6, <1>10, <2>1, <2>2
<1>12. ASSUME NEW w \in ws, CenterIn(WordBox(w), h)
       PROVE \E k, l \in rows : k <= w.line /\ w.line <= l
  <2>1. PICK k \in rows : h.y1 = 60 * k + 12
    BY <1>7, <1>10
  <2>2. PICK l \in rows : h.y2 = 60 * l + 48
    BY <1>7, <1>10
  <2>3. WordBox(w).y1 + WordBox(w).y2 = 120 * w.line + 60 /\ w.line \in Int /\ k \in Int /\ l \in Int
    <3>1. w.line \in Int /\ k \in Int /\ l \in Int
      BY <1>2, SpotsAssumption DEF Placed
    <3>2. WordBox(w).y1 = 60 * w.line + 12 /\ WordBox(w).y2 = 60 * w.line + 48
      BY WordNumbers
    <3> QED BY <3>1, <3>2
  <2>4. 2 * h.y1 <= WordBox(w).y1 + WordBox(w).y2 /\ WordBox(w).y1 + WordBox(w).y2 <= 2 * h.y2
    BY <1>12 DEF CenterIn, CenterDown
  <2>5. k <= w.line /\ w.line <= l
    BY <2>1, <2>2, <2>3, <2>4
  <2> QED BY <2>5
<1> QED BY <1>1, <1>6, <1>10, <1>11, <1>12 DEF t, h

(* Where the runs of rows begin: at the first row, and after the last one  *)
(* of a run that began earlier.                                            *)
Begins(f, e, N) == f = [i \in 1 .. N |-> i = 1 \/ \E k \in 1 .. i - 1 : f[k] /\ e[k] + 1 = i]

LEMMA BeginsDefined ==
  ASSUME NEW e, NEW N \in Nat
  PROVE \E f : Begins(f, e, N)
<1> DEFINE P == {m \in Nat : \E f : Begins(f, e, m)}
<1>1. 0 \in P
  <2> DEFINE f == [i \in 1 .. 0 |-> TRUE]
  <2>1. Begins(f, e, 0)
    <3>1. 1 .. 0 = {}
      OBVIOUS
    <3>2. f = [i \in 1 .. 0 |-> i = 1 \/ \E k \in 1 .. i - 1 : f[k] /\ e[k] + 1 = i]
      BY <3>1
    <3> QED BY <3>2 DEF Begins
  <2> HIDE DEF f
  <2> QED BY <2>1
<1>2. ASSUME NEW m \in 0 .. N - 1, m \in P  PROVE m + 1 \in P
  <2>1. PICK f : Begins(f, e, m)
    BY <1>2
  <2> DEFINE new == m + 1 = 1 \/ \E k \in 1 .. m : f[k] /\ e[k] + 1 = m + 1
             g == [i \in 1 .. m + 1 |-> IF i = m + 1 THEN new ELSE f[i]]
             next(h, i) == i = 1 \/ \E k \in 1 .. i - 1 : h[k] /\ e[k] + 1 = i
  <2>2. ASSUME NEW i \in 1 .. m + 1  PROVE g[i] = next(g, i)
    <3>1. \A k \in 1 .. i - 1 : k \in 1 .. m + 1 /\ k # m + 1
      OBVIOUS
    <3>2. \A k \in 1 .. i - 1 : g[k] = f[k]
      BY <3>1
    <3>3. next(g, i) = next(f, i)
      <4> HIDE DEF g
      <4> QED BY <3>2
    <3>4. CASE i = m + 1
      <4>1. g[i] = new /\ i - 1 = m
        BY <3>4
      <4>2. new = next(f, i)
        BY <3>4, <4>1
      <4> QED BY <3>3, <4>1, <4>2
    <3>5. CASE i # m + 1
      <4>1. g[i] = f[i] /\ i \in 1 .. m
        BY <3>5
      <4>2. f[i] = next(f, i)
        BY <2>1, <4>1 DEF Begins
      <4> QED BY <3>3, <4>1, <4>2
    <3> QED BY <3>4, <3>5
  <2>3. Begins(g, e, m + 1)
    <3>1. g = [i \in 1 .. m + 1 |-> g[i]]
      OBVIOUS
    <3>2. [i \in 1 .. m + 1 |-> g[i]] = [i \in 1 .. m + 1 |-> next(g, i)]
      <4> HIDE DEF g, next
      <4> QED BY <2>2
    <3> HIDE DEF g
    <3> QED BY <3>1, <3>2 DEF Begins
  <2> HIDE DEF g
  <2> QED BY <2>3
<1>3. N \in 0 .. N
  OBVIOUS
<1> HIDE DEF P
<1>4. N \in P
  BY <1>1, <1>2, <1>3, UpTo
<1> QED BY <1>4 DEF P

(* A run ends before the next one begins.                                  *)
LEMMA BeginsApart ==
  ASSUME NEW N \in Nat, NEW e, \A i \in 1 .. N : e[i] \in Int, NEW f, Begins(f, e, N),
         NEW i \in 1 .. N, NEW j \in 1 .. N, f[i], f[j], i < j
  PROVE e[i] < j
<1> DEFINE P == {m \in 0 .. N : \A k, l \in 1 .. m : f[k] /\ f[l] /\ k < l => e[k] < l}
<1>1. 0 \in P
  OBVIOUS
<1>2. ASSUME NEW m \in 0 .. N - 1, m \in P  PROVE m + 1 \in P
  <2>1. SUFFICES ASSUME NEW k \in 1 .. m + 1, NEW l \in 1 .. m + 1, f[k], f[l], k < l
                 PROVE e[k] < l
    OBVIOUS
  <2>2. \A a, b \in 1 .. m : f[a] /\ f[b] /\ a < b => e[a] < b
    BY <1>2
  <2> HIDE DEF P
  <2>3. CASE l <= m
    <3>1. k \in 1 .. m /\ l \in 1 .. m
      BY <2>1, <2>3
    <3> QED BY <2>1, <2>2, <3>1
  <2>4. CASE l = m + 1
    <3>1. l \in 1 .. N /\ l # 1 /\ k \in 1 .. m /\ m \in Int
      BY <2>1, <2>4
    <3>2. PICK a \in 1 .. l - 1 : f[a] /\ e[a] + 1 = l
      BY <2>1, <3>1 DEF Begins
    <3>3. a \in 1 .. m
      BY <2>4, <3>1, <3>2
    <3>4. e[a] \in Int /\ e[k] \in Int
      BY <3>1, <3>3
    <3>5. CASE k = a
      BY <3>1, <3>2, <3>4, <3>5
    <3>6. CASE k < a
      <4>1. e[k] < a
        BY <2>1, <2>2, <3>1, <3>2, <3>3, <3>6
      <4> QED BY <2>4, <3>1, <3>3, <3>4, <4>1
    <3>7. CASE a < k
      <4>1. e[a] < k
        BY <2>1, <2>2, <3>1, <3>2, <3>3, <3>7
      <4> QED BY <2>1, <3>1, <3>2, <3>4, <4>1
    <3> QED BY <3>1, <3>3, <3>5, <3>6, <3>7
  <2> QED BY <2>3, <2>4
<1>3. N \in 0 .. N
  OBVIOUS
<1> HIDE DEF P
<1>4. N \in P
  BY <1>1, <1>2, <1>3, UpTo
<1> QED BY <1>4 DEF P

(* A run holds every row between two of its own, and no two runs share a   *)
(* row.                                                                    *)
LEMMA RunsApart ==
  ASSUME NEW ws, Placed(ws), NEW rows \in Runs(ws), NEW others \in Runs(ws)
  PROVE /\ rows # {} /\ rows \in SUBSET TableRows(ws)
        /\ \A k, l \in rows : \A m \in TableRows(ws) : k <= m /\ m <= l => m \in rows
        /\ rows # others => rows \cap others = {}
<1> DEFINE S == TableRows(ws)
           order == Increasing(S)
           n == Len(order)
           part(i, j) == {order[k] : k \in i .. j}
           good(i) == {j \in i .. n : \A k \in i + 1 .. j :
                         Cardinality(SharedBands(part(i, k), ws)) >= MinCols}
           end(i) == Max(good(i))
           e == [i \in 1 .. n |-> end(i)]
           Starts(f) == f = [i \in 1 .. n |-> i = 1 \/ \E k \in 1 .. i - 1 : f[k] /\ end(k) + 1 = i]
           starts == CHOOSE f : Starts(f)
<1>1. S \in SUBSET Int /\ IsFiniteSet(S)
  <2>1. S \in SUBSET {w.line : w \in ws}
    BY DEF TableRows
  <2>2. {w.line : w \in ws} \subseteq 0 .. Rows - 1 /\ IsFiniteSet({w.line : w \in ws})
    BY LinesFinite
  <2>3. \A x \in 0 .. Rows - 1 : x \in Int
    OBVIOUS
  <2> HIDE DEF S
  <2> QED BY <2>1, <2>2, <2>3, FS_Subset
<1>2. Runs(ws) = {} \/ Runs(ws) = {part(i, end(i)) : i \in {i \in 1 .. n : starts[i]}}
  BY DEF Runs
<1> HIDE DEF S
<1>3. /\ n \in Nat /\ DOMAIN order = 1 .. n
      /\ \A k \in 1 .. n : order[k] \in S
      /\ \A x \in S : \E k \in 1 .. n : order[k] = x
      /\ \A k, l \in 1 .. n : k < l => order[k] < order[l]
  <2>1. /\ Cardinality(S) \in Nat /\ DOMAIN order = 1 .. Cardinality(S) /\ Len(order) = Cardinality(S)
        /\ \A i \in DOMAIN order : order[i] \in S
        /\ \A x \in S : \E i \in DOMAIN order : order[i] = x
        /\ \A i, j \in DOMAIN order : i < j => order[i] < order[j]
    BY <1>1, Sorted
  <2> QED BY <2>1
<1> HIDE DEF order, n
<1>4. ASSUME NEW i \in 1 .. n  PROVE end(i) \in i .. n
  <2>1. i \in good(i)
    BY <1>3
  <2>2. good(i) \in SUBSET (i .. n)
    OBVIOUS
  <2>3. IsFiniteSet(i .. n)
    BY <1>3, FS_Interval
  <2>4. good(i) \in SUBSET Int /\ IsFiniteSet(good(i)) /\ good(i) # {}
    <3>1. \A j \in i .. n : j \in Int
      OBVIOUS
    <3> HIDE DEF good
    <3> QED BY <2>1, <2>2, <2>3, <3>1, FS_Subset
  <2> HIDE DEF good
  <2> QED BY <2>2, <2>4, Extremes
<1> HIDE DEF end
<1>5. Begins(starts, e, n)
  <2>1. PICK f : Begins(f, e, n)
    BY <1>3, BeginsDefined
  <2>2. ASSUME NEW h  PROVE Starts(h) <=> Begins(h, e, n)
    <3>1. \A i \in 1 .. n : \A k \in 1 .. i - 1 : k \in 1 .. n
      BY <1>3
    <3>2. \A i \in 1 .. n : \A k \in 1 .. i - 1 : e[k] = end(k)
      BY <3>1
    <3> DEFINE A == [i \in 1 .. n |-> i = 1 \/ \E k \in 1 .. i - 1 : h[k] /\ end(k) + 1 = i]
               B == [i \in 1 .. n |-> i = 1 \/ \E k \in 1 .. i - 1 : h[k] /\ e[k] + 1 = i]
    <3>3. A = B
      <4> HIDE DEF e
      <4> QED BY <3>2
    <3> QED BY <3>3 DEF Begins
  <2>3. Starts(f)
    BY <2>1, <2>2
  <2>4. Starts(starts)
    <3> HIDE DEF Starts
    <3> QED BY <2>3
  <2> HIDE DEF starts, Starts
  <2> QED BY <2>2, <2>4
<1> HIDE DEF starts
<1>6. ASSUME NEW r \in Runs(ws)
      PROVE \E i \in 1 .. n : starts[i] /\ r = part(i, end(i))
  BY <1>2
<1>7. PICK i \in 1 .. n : starts[i] /\ rows = part(i, end(i))
  BY <1>6
<1>8. PICK j \in 1 .. n : starts[j] /\ others = part(j, end(j))
  BY <1>6
<1>9. end(i) \in i .. n /\ end(j) \in j .. n
  BY <1>4
<1>10. rows # {} /\ rows \in SUBSET S
  <2>1. i \in i .. end(i) /\ \A k \in i .. end(i) : k \in 1 .. n
    BY <1>3, <1>9
  <2> QED BY <1>3, <1>7, <2>1
<1>11. ASSUME NEW k \in rows, NEW l \in rows, NEW m \in S, k <= m, m <= l  PROVE m \in rows
  <2>1. PICK a \in i .. end(i), b \in i .. end(i) : k = order[a] /\ l = order[b]
    BY <1>7
  <2>2. PICK c \in 1 .. n : m = order[c]
    BY <1>3
  <2>3. a \in 1 .. n /\ b \in 1 .. n /\ order[a] \in Int /\ order[b] \in Int /\ order[c] \in Int
    <3>1. a \in 1 .. n /\ b \in 1 .. n
      BY <1>3, <1>9
    <3> QED BY <1>1, <1>3, <3>1
  <2>4. ~(c < a) /\ ~(b < c)
    <3>1. (c < a => order[c] < order[a]) /\ (b < c => order[b] < order[c])
      BY <1>3, <2>3
    <3> QED BY <1>11, <2>1, <2>2, <2>3, <3>1
  <2>5. c \in i .. end(i)
    BY <1>9, <2>3, <2>4
  <2> QED BY <1>7, <2>2, <2>5
<1>12. ASSUME rows # others, NEW m \in rows \cap others  PROVE FALSE
  <2>1. PICK a \in i .. end(i), b \in j .. end(j) : m = order[a] /\ m = order[b]
    BY <1>7, <1>8
  <2>2. a \in 1 .. n /\ b \in 1 .. n /\ order[a] \in Int
    <3>1. a \in 1 .. n /\ b \in 1 .. n
      BY <1>3, <1>9
    <3> QED BY <1>1, <1>3, <3>1
  <2>3. a = b
    <3>1. (a < b => order[a] < order[b]) /\ (b < a => order[b] < order[a])
      BY <1>3, <2>2
    <3> QED BY <2>1, <2>2, <3>1
  <2>4. i # j
    BY <1>7, <1>8, <1>12
  <2>5. \A k \in 1 .. n : e[k] \in Int /\ e[k] = end(k)
    BY <1>3, <1>4
  <2> HIDE DEF e
  <2>6. (i < j => e[i] < j) /\ (j < i => e[j] < i)
    BY <1>3, <1>5, <1>7, <1>8, <2>5, BeginsApart
  <2> QED BY <1>9, <2>2, <2>3, <2>4, <2>5, <2>6
<1> QED BY <1>10, <1>11, <1>12 DEF S

(* The words in no ruled table, and a table recovered from them.           *)
Rest(p, ruled) == {w \in p.words : ~\E u \in ruled : CenterIn(WordBox(w), u.box)}
FromRun(t, rows, ws) ==
  /\ rows \in Runs(ws) /\ SharedBands(rows, ws) # {}
  /\ t = FromRows(rows, SharedBands(rows, ws), ws)

LEMMA UnruledIs ==
  ASSUME NEW p, PageOK(p), NEW ruled, NEW t \in UnruledTables(p, ruled)
  PROVE \E u, rows : FromRun(u, rows, Rest(p, ruled)) /\ t = ClampToA4(u, p.a4) /\ Clamped(t, u, p.a4)
<1> DEFINE rest == Rest(p, ruled)
<1>1. PICK u \in BorderlessTables(rest, p.numeric) : t = ClampToA4(u, p.a4)
  BY DEF UnruledTables, Rest
<1>2. PICK rows \in Runs(rest) :
        /\ u = FromRows(rows, SharedBands(rows, rest), rest)
        /\ Cardinality(SharedBands(rows, rest)) >= MinCols
  BY DEF BorderlessTables
<1>3. SharedBands(rows, rest) # {}
  <2>1. ~(0 >= 3)
    OBVIOUS
  <2> QED BY <1>2, <2>1, FS_EmptySet DEF MinCols
<1>4. Clamped(t, u, p.a4)
  <2>1. DOMAIN u = {"method", "cells", "box"}
    BY <1>2 DEF FromRows
  <2> QED BY <1>1, <2>1, ClampKeeps
<1> QED BY <1>1, <1>2, <1>3, <1>4 DEF FromRun

(* Its cells have words of its rows, one cell each; a word of its place,   *)
(* or of the place its cells cover, is in a cell unless its line is too    *)
(* short for a row or it is left of all the cells.                         *)
LEMMA RunTable ==
  ASSUME NEW ws, Placed(ws), NEW t, NEW rows, FromRun(t, rows, ws)
  PROVE /\ t.method = "ocr_fallback"
        /\ \A c \in t.cells : \A w \in c.words :
             w \in ws /\ w.line \in rows /\ CenterIn(WordBox(w), t.box)
        /\ \A c, d \in t.cells : \A w \in ws : w \in c.words /\ w \in d.words => c = d
        /\ \A w \in ws : CenterIn(WordBox(w), t.box) \/ CenterIn(WordBox(w), CellsBox(t)) =>
             \/ Cardinality(LineWords(w.line, ws)) < MinCols
             \/ \A c \in t.cells : WordBox(w).x1 < c.box.x1 - 5
             \/ \E c \in t.cells : w \in c.words
        /\ CellsBox(t).x2 \in Int /\ CellsBox(t).y2 \in Int /\ t.box.x2 \in Int /\ t.box.y2 \in Int
        /\ t.box.x2 <= CellsBox(t).x2 /\ t.box.y2 <= CellsBox(t).y2
<1> DEFINE bands == SharedBands(rows, ws)
<1>1. rows \in Runs(ws) /\ bands # {} /\ t = FromRows(rows, bands, ws)
  BY DEF FromRun
<1>2. /\ rows # {} /\ rows \in SUBSET TableRows(ws)
      /\ \A k, l \in rows : \A m \in TableRows(ws) : k <= m /\ m <= l => m \in rows
  BY <1>1, RunsApart
<1>3. rows \in SUBSET {w.line : w \in ws}
  BY <1>2 DEF TableRows
<1>4. bands \in SUBSET {WordBox(w).x1 : w \in {w \in ws : w.line \in rows}}
  BY DEF SharedBands
<1> HIDE DEF bands
<1>5. /\ t.method = "ocr_fallback"
      /\ \A w \in ws : w.line \in rows => CenterIn(WordBox(w), t.box)
      /\ \A w \in ws : CenterIn(WordBox(w), t.box) => \E k, l \in rows : k <= w.line /\ w.line <= l
  BY <1>1, <1>2, <1>3, RowsTableBox
<1>6. CellsHold(t, rows, ws)
  BY <1>1, <1>3, <1>4, RowsTableCells
<1>8. /\ CellsBox(t).x2 \in Int /\ CellsBox(t).y2 \in Int /\ t.box.x2 \in Int /\ t.box.y2 \in Int
      /\ t.box.x2 <= CellsBox(t).x2 /\ t.box.y2 <= CellsBox(t).y2
      /\ \A w \in ws : CenterIn(WordBox(w), CellsBox(t)) => \E k, l \in rows : k <= w.line /\ w.line <= l
  BY <1>1, <1>2, <1>3, <1>4, RowsCellsBox
<1>7. ASSUME NEW w \in ws, CenterIn(WordBox(w), t.box) \/ CenterIn(WordBox(w), CellsBox(t)), ~(Cardinality(LineWords(w.line, ws)) < MinCols)
      PROVE w.line \in rows
  <2>1. LineWords(w.line, ws) \in SUBSET ws
    BY DEF LineWords
  <2>2. Cardinality(LineWords(w.line, ws)) \in Nat
    BY <2>1, FS_Subset, FS_CardinalityType DEF Placed
  <2>3. Cardinality(LineWords(w.line, ws)) >= MinCols
    BY <1>7, <2>2 DEF MinCols
  <2>4. w.line \in TableRows(ws)
    BY <2>3 DEF TableRows
  <2> QED BY <1>2, <1>5, <1>7, <1>8, <2>4
<1> QED BY <1>5, <1>6, <1>7, <1>8 DEF CellsHold

-----------------------------------------------------------------------------
(* Words of a page                                                         *)

(* Every word is in one block of text.                                     *)
LEMMA TextTakesWord ==
  ASSUME NEW ws, Placed(ws), NEW w \in ws
  PROVE \E b \in TextBlocks(ws) : /\ w \in b.words
                                  /\ \A c \in TextBlocks(ws) : w \in c.words => c = b
<1> DEFINE lines == {v.line : v \in ws}
           above(l) == {k \in lines : k < l}
           opens == {l \in lines : above(l) = {} \/ ~Continues(l, Max(above(l)), ws)}
           block(o) == {v \in ws : v.line >= o /\ \A q \in opens : ~(o < q /\ q <= v.line)}
           text(o) == [kind |-> "text", words |-> block(o), box |-> Hull({WordBox(v) : v \in block(o)})]
           upTo == {o \in opens : o <= w.line}
           m == Max(upTo)
<1>1. TextBlocks(ws) = {text(o) : o \in opens}
  BY DEF TextBlocks
<1>2. lines \in SUBSET Int /\ IsFiniteSet(lines) /\ lines # {} /\ w.line \in lines
  <2>1. lines \subseteq 0 .. Rows - 1 /\ IsFiniteSet(lines)
    BY LinesFinite
  <2>2. \A x \in 0 .. Rows - 1 : x \in Int
    OBVIOUS
  <2> QED BY <2>1, <2>2
<1>3. \A v \in ws : v.line \in lines
  OBVIOUS
<1> HIDE DEF lines
<1>4. Min(lines) \in lines /\ \A y \in lines : Min(lines) <= y
  BY <1>2, Extremes
<1>5. Min(lines) \in upTo
  <2>1. Min(lines) \in Int /\ \A y \in lines : y \in Int
    BY <1>2, <1>4
  <2>2. \A y \in lines : ~(y < Min(lines))
    BY <1>4, <2>1
  <2>3. above(Min(lines)) = {}
    BY <2>2
  <2> QED BY <1>2, <1>4, <2>3
<1>6. opens \in SUBSET lines /\ upTo \in SUBSET lines /\ upTo \in SUBSET opens
  OBVIOUS
<1>7. m \in upTo /\ \A o \in upTo : o <= m
  <2> HIDE DEF upTo
  <2>1. upTo \in SUBSET Int /\ IsFiniteSet(upTo) /\ upTo # {}
    BY <1>2, <1>5, <1>6, FS_Subset
  <2> QED BY <2>1, Extremes
<1> HIDE DEF m, opens
<1>8. m \in opens /\ m <= w.line /\ m \in Int /\ w.line \in Int /\ \A o \in opens : o \in Int
  BY <1>2, <1>6, <1>7
<1>9. w \in block(m)
  <2>1. \A q \in opens : ~(m < q /\ q <= w.line)
    BY <1>7, <1>8
  <2> QED BY <1>8, <2>1
<1>10. ASSUME NEW o \in opens, w \in block(o)  PROVE o = m
  <2>1. o <= w.line /\ o \in Int
    BY <1>8, <1>10
  <2>2. o <= m
    BY <1>7, <2>1
  <2>3. ~(o < m /\ m <= w.line)
    BY <1>8, <1>10
  <2> QED BY <1>8, <2>1, <2>2, <2>3
<1>11. \A o : text(o).words = block(o)
  OBVIOUS
<1> HIDE DEF text, block
<1> QED BY <1>1, <1>8, <1>9, <1>10, <1>11

(* The JSON of a page has a block for each table, and one for each text,   *)
(* unless a picture stands for it.                                         *)
ShowsTable(b, t) == b.kind = "table" /\ b.box = t.box /\ CellsIn(b.rows) = t.cells
HiddenBy(b, g) == g.kind = "picture" /\ OverlapAtLeast(b.box, g.box, 60)
LEMMA JsonShows ==
  ASSUME NEW p, PageOK(p), NEW ts, TablesOK(ts)
  PROVE LET bs == ToJson(Layout(p, ts))  text == TextBlocks(FreeWords(p, ts)) IN
    /\ \A b \in bs : b.kind = "table" => \E t \in ts : ShowsTable(b, t)
    /\ \A t \in ts : \E b \in bs : ShowsTable(b, t)
    /\ \A b \in bs : b.kind = "text" => b \in text
    /\ \A b \in text : b.kind = "text" /\ (b \in bs \/ \E g \in bs : HiddenBy(b, g))
<1> DEFINE free == FreeWords(p, ts)
           text == TextBlocks(free)
           pictures == GraphicRegions(p, {t.box : t \in ts} \cup {b.box : b \in text})
           shown == {b \in text : ~\E g \in pictures : OverlapAtLeast(b.box, g, 60)}
           tableOf(t) == [kind |-> "table", box |-> t.box, table |-> t]
           pictureOf(g) == [kind |-> "picture", box |-> g]
           tabled == {tableOf(t) : t \in ts}
           pictured == {pictureOf(g) : g \in pictures}
           json(b) == IF b.kind = "table" THEN [kind |-> "table", box |-> b.box, rows |-> JsonRows(b.table.cells)]
                      ELSE b
           bs == ToJson(Layout(p, ts))
<1>1. bs = {json(b) : b \in shown \cup tabled \cup pictured}
  BY DEF Layout, ToJson
<1>2. Placed(free)
  BY SomePlaced DEF PageOK, FreeWords
<1> HIDE DEF free
<1>3. \A b \in text : b.kind = "text"
  BY <1>2, TextBlocksOK
<1> HIDE DEF text, pictures, bs
<1>4. \A b \in shown : json(b) = b /\ b \in text /\ b.kind = "text"
  BY <1>3
<1>5. ASSUME NEW t \in ts  PROVE ShowsTable(json(tableOf(t)), t)
  <2>1. json(tableOf(t)) = [kind |-> "table", box |-> t.box, rows |-> JsonRows(t.cells)]
    OBVIOUS
  <2>2. CellsIn(JsonRows(t.cells)) = t.cells
    BY RowsHoldCells DEF TablesOK
  <2> HIDE DEF json, tableOf
  <2> QED BY <2>1, <2>2 DEF ShowsTable
<1>6. \A g \in pictures : json(pictureOf(g)).kind = "picture" /\ json(pictureOf(g)).box = g
  OBVIOUS
<1> HIDE DEF json, tableOf, pictureOf
<1>7. ASSUME NEW b \in bs
      PROVE \/ b \in text /\ b.kind = "text"
            \/ \E t \in ts : ShowsTable(b, t)
            \/ b.kind = "picture"
  <2>1. PICK a \in shown \cup tabled \cup pictured : b = json(a)
    BY <1>1
  <2>2. CASE a \in shown
    BY <1>4, <2>1, <2>2
  <2>3. CASE a \in tabled
    BY <1>5, <2>1, <2>3
  <2>4. CASE a \in pictured
    BY <1>6, <2>1, <2>4
  <2> QED BY <2>1, <2>2, <2>3, <2>4
<1>8. ASSUME NEW b \in bs, b.kind = "table"  PROVE \E t \in ts : ShowsTable(b, t)
  BY <1>7, <1>8
<1>9. ASSUME NEW b \in bs, b.kind = "text"  PROVE b \in text
  BY <1>7, <1>9 DEF ShowsTable
<1>10. ASSUME NEW t \in ts  PROVE \E b \in bs : ShowsTable(b, t)
  <2>1. json(tableOf(t)) \in bs
    BY <1>1
  <2> QED BY <1>5, <2>1
<1>11. ASSUME NEW b \in text  PROVE b \in bs \/ \E g \in bs : HiddenBy(b, g)
  <2>1. CASE b \in shown
    <3>1. json(b) \in bs
      BY <1>1, <2>1
    <3> QED BY <1>4, <2>1, <3>1
  <2>2. CASE b \notin shown
    <3>1. PICK g \in pictures : OverlapAtLeast(b.box, g, 60)
      BY <2>2
    <3>2. json(pictureOf(g)) \in bs
      BY <1>1
    <3> QED BY <1>6, <3>1, <3>2 DEF HiddenBy
  <2> QED BY <2>1, <2>2
<1> QED BY <1>3, <1>8, <1>9, <1>10, <1>11 DEF text, free, bs

OnEdge(w, c) ==
  \/ WordBox(w).x1 + WordBox(w).x2 \in {2 * c.box.x1, 2 * c.box.x2}
  \/ WordBox(w).y1 + WordBox(w).y2 \in {2 * c.box.y1, 2 * c.box.y2}

(* What the tables of a page do with its words: one that is centred in a   *)
(* table and, should the table have been scaled, in the place of its       *)
(* cells, is in a cell; and a word of a cell is centred in the table,      *)
(* unless the table was scaled.                                            *)
Drawn(p) == PageOK(p) /\ InkIn(p.ink) /\ p.a4 \in Nat \X Nat
LEMMA ScaledBeyond ==
  ASSUME NEW t, NEW u, NEW a4 \in Nat \X Nat, Clamped(t, u, a4),
         CellsBox(u).x2 \in Int, CellsBox(u).y2 \in Int, u.box.x2 \in Int, u.box.y2 \in Int,
         u.box.x2 <= CellsBox(u).x2, u.box.y2 <= CellsBox(u).y2
  PROVE CellsBox(t) = CellsBox(u) /\ (t.box = u.box \/ Scaled(t, a4))
<1>1. CellsBox(t) = CellsBox(u)
  BY DEF Clamped, CellsBox
<1> DEFINE a == a4[1]
           b == a4[2]
           x == CellsBox(u).x2
           y == CellsBox(u).y2
<1>2. a \in Int /\ b \in Int /\ x \in Int /\ y \in Int
  OBVIOUS
<1>3. Scaled(t, a4) <=> x > a \/ y > b
  BY <1>1 DEF Scaled
<1>4. t.box = u.box \/ ~(u.box.x2 <= a /\ u.box.y2 <= b)
  BY DEF Clamped
<1>5. u.box.x2 <= x /\ u.box.y2 <= y
  OBVIOUS
<1> HIDE DEF a, b, x, y
<1> QED BY <1>1, <1>2, <1>3, <1>4, <1>5

LEMMA TablesTakeWords ==
  ASSUME NEW p, Drawn(p), NEW w \in p.words
  PROVE LET ruled == RuledTables(p)  unruled == UnruledTables(p, ruled)  rest == Rest(p, ruled)
            placed(t) == CenterIn(WordBox(w), t.box)
                           /\ (Scaled(t, p.a4) => CenterIn(WordBox(w), CellsBox(t))) IN
    /\ \A t \in ruled : /\ t.method = "opencv_lines"
                        /\ placed(t) => \E c \in t.cells : w \in c.words
    /\ \A t \in unruled : /\ t.method = "ocr_fallback"
                          /\ w \in rest /\ placed(t) =>
                               \/ Cardinality(LineWords(w.line, rest)) < MinCols
                               \/ \A c \in t.cells : WordBox(w).x1 < c.box.x1 - 5
                               \/ \E c \in t.cells : w \in c.words
    /\ \A t \in ruled \cup unruled : \A c \in t.cells :
         w \in c.words => Scaled(t, p.a4) \/ CenterIn(WordBox(w), t.box)
    /\ \A t \in unruled : \A c \in t.cells : w \in c.words => w \in rest
<1> DEFINE ruled == RuledTables(p)
           unruled == UnruledTables(p, ruled)
           rest == Rest(p, ruled)
           placed(t) == CenterIn(WordBox(w), t.box)
                          /\ (Scaled(t, p.a4) => CenterIn(WordBox(w), CellsBox(t)))
<1>1. Placed(p.words) /\ Placed(rest) /\ PageOK(p) /\ InkIn(p.ink) /\ p.a4 \in Nat \X Nat
  BY SomePlaced DEF Drawn, PageOK, Rest
<1>2. WordBox(w).x1 + WordBox(w).x2 \in Int /\ WordBox(w).y1 + WordBox(w).y2 \in Int
  BY <1>1, WordNumbers
<1>3. ASSUME NEW t \in ruled
      PROVE /\ t.method = "opencv_lines"
            /\ placed(t) => \E c \in t.cells : w \in c.words
            /\ \A c \in t.cells : w \in c.words => Scaled(t, p.a4) \/ CenterIn(WordBox(w), t.box)
  <2>1. PICK s, grid, ws :
          /\ ws \in SUBSET p.words /\ OfGrid(s, grid, ws) /\ Clamped(t, s, p.a4)
          /\ \A v \in p.words : CenterIn(WordBox(v), s.box) => v \in ws
    BY <1>1, RuledIs
  <2>2. t.method = "opencv_lines" /\ t.cells = s.cells
    BY <2>1 DEF OfGrid, Clamped
  <2>3. TableOK(s.cells)
    BY <1>1, <2>2, RuledOK DEF TablesOK
  <2>4. CellsBox(t) = CellsBox(s) /\ (t.box = s.box \/ Scaled(t, p.a4))
    BY <1>1, <2>1, <2>3, GridCellsBox, ScaledBeyond
  <2>5. placed(t) => CenterIn(WordBox(w), s.box)
    <3>1. CenterIn(WordBox(w), CellsBox(s)) => CenterIn(WordBox(w), s.box)
      BY <1>2, <2>1, <2>3, GridCellsBox
    <3> QED BY <2>4, <3>1
  <2>6. placed(t) => \E c \in t.cells : w \in c.words
    BY <1>2, <2>1, <2>2, <2>5, GridTakesWord
  <2>7. \A c \in t.cells : w \in c.words => CenterIn(WordBox(w), s.box)
    BY <1>2, <2>1, <2>2, GridWordsInside
  <2> QED BY <2>2, <2>4, <2>6, <2>7
<1>4. ASSUME NEW t \in unruled
      PROVE /\ t.method = "ocr_fallback"
            /\ w \in rest /\ placed(t) =>
                 \/ Cardinality(LineWords(w.line, rest)) < MinCols
                 \/ \A c \in t.cells : WordBox(w).x1 < c.box.x1 - 5
                 \/ \E c \in t.cells : w \in c.words
            /\ \A c \in t.cells : w \in c.words =>
                 (Scaled(t, p.a4) \/ CenterIn(WordBox(w), t.box)) /\ w \in rest
  <2>1. PICK u, rows : FromRun(u, rows, rest) /\ Clamped(t, u, p.a4)
    BY <1>1, UnruledIs
  <2>2. t.method = u.method /\ t.cells = u.cells
    BY <2>1 DEF Clamped
  <2> HIDE DEF rest
  <2>3. CellsBox(t) = CellsBox(u) /\ (t.box = u.box \/ Scaled(t, p.a4))
    BY <1>1, <2>1, RunTable, ScaledBeyond
  <2>4. placed(t) => CenterIn(WordBox(w), u.box) \/ CenterIn(WordBox(w), CellsBox(u))
    BY <2>3
  <2> HIDE DEF placed
  <2>5. /\ u.method = "ocr_fallback"
        /\ \A c \in u.cells : w \in c.words => CenterIn(WordBox(w), u.box) /\ w \in rest
        /\ w \in rest /\ placed(t) =>
             \/ Cardinality(LineWords(w.line, rest)) < MinCols
             \/ \A c \in u.cells : WordBox(w).x1 < c.box.x1 - 5
             \/ \E c \in u.cells : w \in c.words
    BY <1>1, <2>1, <2>4, RunTable
  <2> QED BY <2>2, <2>3, <2>5
<1> HIDE DEF ruled, unruled, rest, placed
<1> QED BY <1>3, <1>4 DEF ruled, unruled, rest, placed

(* And no word is in two of their cells, unless they overlap, it is on an  *)
(* edge, or its table was scaled away from it.                             *)
LEMMA TablesShareNoWord ==
  ASSUME NEW p, Drawn(p), NEW ts, ts = RuledTables(p) \cup UnruledTables(p, RuledTables(p)),
         NEW w \in p.words, NEW t \in ts, NEW u \in ts, Disjoint(t.cells),
         NEW c \in t.cells, NEW d \in u.cells, w \in c.words, w \in d.words, ~OnEdge(w, c), ~OnEdge(w, d),
         \A v \in {t, u} : Scaled(v, p.a4) => CenterIn(WordBox(w), v.box)
  PROVE t = u /\ c = d
<1> DEFINE ruled == RuledTables(p)
           unruled == UnruledTables(p, ruled)
           rest == Rest(p, ruled)
<1>1. Placed(p.words) /\ Placed(rest) /\ PageOK(p) /\ InkIn(p.ink)
  BY SomePlaced DEF Drawn, PageOK, Rest
<1>2. WordBox(w).x1 + WordBox(w).x2 \in Int /\ WordBox(w).y1 + WordBox(w).y2 \in Int
  BY <1>1, WordNumbers
<1>3. CenterIn(WordBox(w), t.box) /\ CenterIn(WordBox(w), u.box)
  BY TablesTakeWords
<1>4. /\ t \in unruled => w \in rest
      /\ u \in unruled => w \in rest
  BY TablesTakeWords
<1>5. \A v \in ruled : CenterIn(WordBox(w), v.box) => w \notin rest
  BY DEF Rest
<1>6. t \in ruled \cup unruled /\ u \in ruled \cup unruled
  OBVIOUS
<1>7. CASE t \in ruled /\ u \in ruled
  <2>1. PICK s, grid, ws : OfGrid(s, grid, ws) /\ t.cells = s.cells
    BY <1>1, <1>7, RuledIs DEF Clamped
  <2>2. ruled = {t}
    BY <1>1, <1>7, RuledIs
  <2>3. t = u
    BY <1>7, <2>2
  <2>4. \A e \in {c, d} :
           /\ WordBox(w).x1 + WordBox(w).x2 \notin {2 * e.box.x1, 2 * e.box.x2}
           /\ WordBox(w).y1 + WordBox(w).y2 \notin {2 * e.box.y1, 2 * e.box.y2}
    BY DEF OnEdge
  <2>5. w \in c.words \cap d.words /\ c \in s.cells /\ d \in s.cells /\ Disjoint(s.cells)
    BY <2>1, <2>3
  <2>6. c = d
    BY <1>2, <2>1, <2>4, <2>5, GridCellsApart
  <2> QED BY <2>3, <2>6
<1>8. CASE t \in unruled /\ u \in unruled
  <2>1. PICK s, rows : FromRun(s, rows, rest) /\ t = ClampToA4(s, p.a4) /\ Clamped(t, s, p.a4)
    BY <1>1, <1>8, UnruledIs
  <2>2. PICK r, others : FromRun(r, others, rest) /\ u = ClampToA4(r, p.a4) /\ Clamped(u, r, p.a4)
    BY <1>1, <1>8, UnruledIs
  <2>3. w \in rest
    BY <1>4, <1>8
  <2>9. t.cells = s.cells /\ u.cells = r.cells
    BY <2>1, <2>2 DEF Clamped
  <2> HIDE DEF rest
  <2>4. w.line \in rows /\ w.line \in others
    BY <1>1, <2>1, <2>2, <2>9, RunTable
  <2>5. rows \in Runs(rest) /\ others \in Runs(rest)
    BY <2>1, <2>2 DEF FromRun
  <2>6. rows = others
    BY <1>1, <2>4, <2>5, RunsApart
  <2>7. t = u
    BY <2>1, <2>2, <2>6 DEF FromRun
  <2>8. c = d
    BY <1>1, <2>1, <2>3, <2>7, <2>9, RunTable
  <2> QED BY <2>7, <2>8
<1>9. ~(t \in ruled /\ u \in unruled) /\ ~(t \in unruled /\ u \in ruled)
  BY <1>3, <1>4, <1>5
<1> HIDE DEF ruled, unruled
<1> QED BY <1>6, <1>7, <1>8, <1>9

-----------------------------------------------------------------------------
(* Every word once                                                         *)

(* A page's tables are the detected ones, and until it is edited its       *)
(* blocks are their JSON.                                                  *)
Built ==
  /\ page \in Pages
  /\ IF stage = "recognized" THEN tables = {}
     ELSE tables = RuledTables(page) \cup UnruledTables(page, RuledTables(page))
  /\ stage = "built" => blocks = ToJson(Layout(page, tables))

LEMMA BuiltHolds == Spec => []Built
<1>1. Init => Built
  BY DEF Init, Built, NotYet
<1>2. Built /\ [Next]_vars => Built'
  <2> SUFFICES ASSUME Built, [Next]_vars  PROVE Built'
    OBVIOUS
  <2>1. CASE DetectTables
    BY <2>1 DEF DetectTables, Built
  <2>2. CASE BuildPageJson
    BY <2>2 DEF BuildPageJson, Built
  <2>3. CASE Export
    BY <2>3 DEF Export, Built
  <2>4. ASSUME NEW b \in blocks, NEW r, MergeRows(b, r)  PROVE Built'
    BY <2>4 DEF MergeRows, Built
  <2>5. CASE UNCHANGED vars
    BY <2>5 DEF vars, Built
  <2> QED BY <2>1, <2>2, <2>3, <2>4, <2>5 DEF Next
<1> QED BY <1>1, <1>2, PTL DEF Spec

(* A set whose elements are all equal has at most one.                     *)
LEMMA AtMostOne ==
  ASSUME NEW S, \A x, y \in S : x = y
  PROVE Cardinality(S) \in Nat /\ Cardinality(S) <= 1 /\ (S = {} => Cardinality(S) = 0)
<1>1. CASE S = {}
  <2>1. Cardinality(S) = 0
    BY <1>1, FS_EmptySet
  <2> QED BY <2>1
<1>2. CASE S # {}
  <2>1. PICK x \in S : S = {x}
    BY <1>2
  <2>2. Cardinality(S) = 1
    BY <2>1, FS_Singleton
  <2> QED BY <1>2, <2>2
<1> QED BY <1>1, <1>2

(* The cells of the page's JSON that have a word.                          *)
LEMMA CellsWithWord ==
  ASSUME NEW w
  PROVE /\ \A b \in TableBlocks : \A c \in CellsOf(b) : w \in c.words => <<b.box, c>> \in CellsWith(w)
        /\ \A x \in CellsWith(w) :
             \E b \in TableBlocks : \E c \in CellsOf(b) : w \in c.words /\ x = <<b.box, c>>
<1> DEFINE with(b) == {<<b.box, c>> : c \in {c \in CellsOf(b) : w \in c.words}}
<1>1. CellsWith(w) = UNION {with(b) : b \in TableBlocks}
  BY DEF CellsWith
<1>2. \A b : \A c \in CellsOf(b) : w \in c.words => <<b.box, c>> \in with(b)
  OBVIOUS
<1>3. \A b : \A x \in with(b) : \E c \in CellsOf(b) : w \in c.words /\ x = <<b.box, c>>
  OBVIOUS
<1> HIDE DEF with
<1> QED BY <1>1, <1>2, <1>3

(* Each word is shown, or among those the code is known to give up.        *)
LEMMA WordShown ==
  ASSUME Drawn(page), TablesOK(tables), NEW w \in page.words,
         tables = RuledTables(page) \cup UnruledTables(page, RuledTables(page)),
         blocks = ToJson(Layout(page, tables))
  PROVE \/ CellsWith(w) # {} \/ TextOf(w) # {} \/ Pictured(w)
        \/ ShortLine(w) \/ TextOfPicture(w) \/ Stranded(w)
<1> DEFINE ruled == RuledTables(page)
           unruled == UnruledTables(page, ruled)
           rest == Rest(page, ruled)
           text == TextBlocks(FreeWords(page, tables))
           placed(t) == CenterIn(WordBox(w), t.box)
                          /\ (Scaled(t, page.a4) => CenterIn(WordBox(w), CellsBox(t)))
<1>1. PageOK(page) /\ Placed(page.words)
  BY DEF Drawn, PageOK
<1>2. /\ \A t \in tables : \E b \in blocks : ShowsTable(b, t)
      /\ \A b \in text : b.kind = "text" /\ (b \in blocks \/ \E g \in blocks : HiddenBy(b, g))
  BY <1>1, JsonShows
<1>3. ASSUME NEW t \in tables, NEW c \in t.cells, w \in c.words  PROVE CellsWith(w) # {}
  <2>1. PICK b \in blocks : ShowsTable(b, t)
    BY <1>2
  <2>2. b \in TableBlocks /\ c \in CellsOf(b)
    BY <2>1 DEF ShowsTable, TableBlocks, CellsOf
  <2>3. <<b.box, c>> \in CellsWith(w)
    BY <1>3, <2>2, CellsWithWord
  <2> QED BY <2>3
<1>4. /\ \A t \in ruled : /\ t.method = "opencv_lines"
                          /\ placed(t) => \E c \in t.cells : w \in c.words
      /\ \A t \in unruled : /\ t.method = "ocr_fallback"
                            /\ w \in rest /\ placed(t) =>
                                 \/ Cardinality(LineWords(w.line, rest)) < MinCols
                                 \/ \A c \in t.cells : WordBox(w).x1 < c.box.x1 - 5
                                 \/ \E c \in t.cells : w \in c.words
  BY TablesTakeWords
<1>12. ASSUME NEW t \in tables, CenterIn(WordBox(w), t.box), ~Stranded(w)  PROVE placed(t)
  BY <1>12 DEF Stranded, Oversized, Scaled
<1> SUFFICES ASSUME ~Stranded(w)
             PROVE CellsWith(w) # {} \/ TextOf(w) # {} \/ Pictured(w) \/ ShortLine(w) \/ TextOfPicture(w)
  OBVIOUS
<1> HIDE DEF placed
<1>5. \A v \in page.words : v \in rest <=> ~InRuled(v)
  <2>1. \A v \in page.words : \A t \in tables : t.method = "opencv_lines" <=> t \in ruled
    <3>1. \A t \in tables : t \in ruled \/ t \in unruled
      OBVIOUS
    <3>2. \A t \in unruled : t.method # "opencv_lines"
      BY <1>4
    <3> HIDE DEF ruled, unruled
    <3> QED BY <1>4, <3>1, <3>2
  <2>2. ruled \subseteq tables
    OBVIOUS
  <2> HIDE DEF ruled
  <2> QED BY <2>1, <2>2 DEF InRuled, Rest
<1>6. rest = {v \in page.words : ~InRuled(v)}
  <2>1. rest \in SUBSET page.words
    BY DEF Rest
  <2> HIDE DEF rest
  <2> QED BY <1>5, <2>1
<1>7. CASE \E t \in ruled : CenterIn(WordBox(w), t.box)
  <2>1. PICK t \in ruled : CenterIn(WordBox(w), t.box)
    BY <1>7
  <2>2. t \in tables
    OBVIOUS
  <2> QED BY <1>3, <1>4, <1>12, <2>1, <2>2
<1>8. CASE w \in rest /\ \E t \in unruled : CenterIn(WordBox(w), t.box)
  <2>1. PICK t \in unruled : CenterIn(WordBox(w), t.box)
    BY <1>8
  <2>2. t \in tables /\ t.method = "ocr_fallback"
    BY <1>4, <2>1
  <2>3. CASE \E c \in t.cells : w \in c.words
    BY <1>3, <2>2, <2>3
  <2>4. CASE \/ Cardinality(LineWords(w.line, rest)) < MinCols
             \/ \A c \in t.cells : WordBox(w).x1 < c.box.x1 - 5
    BY <1>6, <2>1, <2>2, <2>4 DEF ShortLine
  <2>5. placed(t)
    BY <1>12, <2>1, <2>2
  <2> HIDE DEF rest, unruled
  <2> QED BY <1>4, <1>8, <2>1, <2>3, <2>4, <2>5
<1>9. CASE w \in FreeWords(page, tables)
  <2>1. Placed(FreeWords(page, tables))
    BY <1>1, SomePlaced DEF FreeWords
  <2>2. PICK b \in text : w \in b.words
    BY <1>9, <2>1, TextTakesWord
  <2>3. CASE b \in blocks
    <3>1. b \in TextOf(w)
      BY <1>2, <2>2, <2>3 DEF TextOf
    <3> QED BY <3>1
  <2>4. CASE \E g \in blocks : HiddenBy(b, g)
    BY <2>2, <2>4 DEF HiddenBy, TextOfPicture
  <2> QED BY <1>2, <2>3, <2>4
<1>10. w \in rest \/ \E t \in ruled : CenterIn(WordBox(w), t.box)
  BY DEF Rest
<1>11. w \in FreeWords(page, tables) \/ \E t \in ruled \cup unruled : CenterIn(WordBox(w), t.box)
  BY DEF FreeWords
<1> HIDE DEF rest, ruled, unruled
<1> QED BY <1>7, <1>8, <1>9, <1>10, <1>11

(* And it is shown once.                                                   *)
LEMMA WordShownOnce ==
  ASSUME Drawn(page), TablesOK(tables), NEW w \in page.words,
         tables = RuledTables(page) \cup UnruledTables(page, RuledTables(page)),
         blocks = ToJson(Layout(page, tables)),
         \A b \in TableBlocks : Disjoint(CellsOf(b)), ~OnAnEdge(w), ~Outgrown(w)
  PROVE Cardinality(CellsWith(w)) + Cardinality(TextOf(w)) <= 1
<1> DEFINE free == FreeWords(page, tables)
           text == TextBlocks(free)
<1>1. PageOK(page) /\ Placed(free)
  BY SomePlaced DEF Drawn, PageOK, FreeWords
<1>9. ASSUME NEW t \in tables, NEW c \in t.cells, w \in c.words, Scaled(t, page.a4)
      PROVE CenterIn(WordBox(w), t.box)
  BY <1>9 DEF Outgrown, Oversized, Scaled
<1>2. /\ \A b \in blocks : b.kind = "table" => \E t \in tables : ShowsTable(b, t)
      /\ \A b \in blocks : b.kind = "text" => b \in text
  BY <1>1, JsonShows
<1>3. ASSUME NEW x \in CellsWith(w)
      PROVE \E t \in tables : \E c \in t.cells :
              Disjoint(t.cells) /\ w \in c.words /\ ~OnEdge(w, c) /\ x = <<t.box, c>>
  <2>5. PICK b \in TableBlocks : \E c \in CellsOf(b) : w \in c.words /\ x = <<b.box, c>>
    BY CellsWithWord
  <2>1. PICK c \in CellsOf(b) : w \in c.words /\ x = <<b.box, c>>
    BY <2>5
  <2>2. PICK t \in tables : ShowsTable(b, t)
    BY <1>2, <2>1 DEF TableBlocks
  <2>3. t.cells = CellsOf(b) /\ t.box = b.box
    BY <2>2 DEF ShowsTable, CellsOf
  <2>4. ~OnEdge(w, c)
    BY <2>1 DEF OnAnEdge, OnEdge
  <2> QED BY <2>1, <2>3, <2>4
<1>4. ASSUME NEW x \in CellsWith(w), NEW y \in CellsWith(w)  PROVE x = y
  <2>4. PICK t \in tables : \E c \in t.cells :
          Disjoint(t.cells) /\ w \in c.words /\ ~OnEdge(w, c) /\ x = <<t.box, c>>
    BY <1>3
  <2>1. PICK c \in t.cells :
          Disjoint(t.cells) /\ w \in c.words /\ ~OnEdge(w, c) /\ x = <<t.box, c>>
    BY <2>4
  <2>5. PICK u \in tables : \E d \in u.cells : w \in d.words /\ ~OnEdge(w, d) /\ y = <<u.box, d>>
    BY <1>3
  <2>2. PICK d \in u.cells : w \in d.words /\ ~OnEdge(w, d) /\ y = <<u.box, d>>
    BY <2>5
  <2>3. t = u /\ c = d
    <3>1. \A v \in {t, u} : Scaled(v, page.a4) => CenterIn(WordBox(w), v.box)
      BY <1>9, <2>1, <2>2
    <3> QED BY <2>1, <2>2, <3>1, TablesShareNoWord
  <2> QED BY <2>1, <2>2, <2>3
<1>5. ASSUME NEW b \in TextOf(w)  PROVE b \in text /\ w \in b.words
  BY <1>2 DEF TextOf
<1>6. ASSUME NEW a \in TextOf(w), NEW b \in TextOf(w)  PROVE a = b
  <2>1. w \in free
    BY <1>1, <1>5, TextBlocksOK DEF TextOK
  <2> HIDE DEF free
  <2> QED BY <1>1, <1>5, <2>1, TextTakesWord
<1>7. CellsWith(w) = {} \/ TextOf(w) = {}
  <2> SUFFICES ASSUME NEW x \in CellsWith(w), NEW b \in TextOf(w)  PROVE FALSE
    OBVIOUS
  <2>4. PICK t \in tables : \E c \in t.cells : w \in c.words
    BY <1>3
  <2>1. PICK c \in t.cells : w \in c.words
    BY <2>4
  <2>2. CenterIn(WordBox(w), t.box)
    BY <1>9, <2>1, TablesTakeWords
  <2>3. w \in free
    BY <1>1, <1>5, TextBlocksOK DEF TextOK
  <2> QED BY <2>2, <2>3 DEF FreeWords
<1>8. /\ Cardinality(CellsWith(w)) \in Nat /\ Cardinality(CellsWith(w)) <= 1
      /\ Cardinality(TextOf(w)) \in Nat /\ Cardinality(TextOf(w)) <= 1
      /\ CellsWith(w) = {} => Cardinality(CellsWith(w)) = 0
      /\ TextOf(w) = {} => Cardinality(TextOf(w)) = 0
  BY <1>4, <1>6, AtMostOne
<1> QED BY <1>7, <1>8

(* EachWordOnce: every word is shown, in a cell or as text, or is among    *)
(* those the code is known to give up or to strand by scaling its table;   *)
(* and only a word whose cells overlap, on an edge, or in a table scaled   *)
(* away from it is shown twice (tables/opencv_engine.py, tables/engine.py, *)
(* layout/detector.py).                                                    *)
THEOREM WordsOnce == Spec => []EachWordOnce
<1>1. IInv /\ Built => EachWordOnce
  <2> SUFFICES ASSUME IInv, Built, stage = "built", NEW w \in page.words
               PROVE /\ \/ CellsWith(w) # {} \/ TextOf(w) # {} \/ Pictured(w)
                        \/ ShortLine(w) \/ TextOfPicture(w) \/ Stranded(w)
                     /\ (\A b \in TableBlocks : Disjoint(CellsOf(b))) /\ ~OnAnEdge(w) /\ ~Outgrown(w)
                          => Cardinality(CellsWith(w)) + Cardinality(TextOf(w)) <= 1
    BY DEF EachWordOnce
  <2>1. Drawn(page)
    BY PagesAssumption DEF IInv, Built, Drawn, InkIn
  <2>2. /\ TablesOK(tables)
        /\ tables = RuledTables(page) \cup UnruledTables(page, RuledTables(page))
        /\ blocks = ToJson(Layout(page, tables))
    BY DEF IInv, Built
  <2> QED BY <2>1, <2>2, WordShown, WordShownOnce
<1> QED BY <1>1, PageShape, BuiltHolds, PTL

-----------------------------------------------------------------------------
(* The page of the searchable PDF                                          *)

(* The words of a table's cells are words of the page.                     *)
LEMMA DetectedWords ==
  ASSUME NEW p, PageOK(p), InkIn(p.ink),
         NEW t \in RuledTables(p) \cup UnruledTables(p, RuledTables(p)), NEW c \in t.cells
  PROVE c.words \in SUBSET p.words
<1> DEFINE ruled == RuledTables(p)
           rest == Rest(p, ruled)
<1>1. CASE t \in ruled
  <2>1. PICK s, grid : \E ws \in SUBSET p.words : OfGrid(s, grid, ws) /\ Clamped(t, s, p.a4)
    BY <1>1, RuledIs
  <2>2. PICK ws \in SUBSET p.words : OfGrid(s, grid, ws) /\ Clamped(t, s, p.a4)
    BY <2>1
  <2>3. c.words = CellWords(ws, c.box)
    BY <2>2 DEF OfGrid, Clamped
  <2> QED BY <2>3 DEF CellWords
<1>2. CASE t \in UnruledTables(p, ruled)
  <2>1. PICK u, rows : FromRun(u, rows, rest) /\ Clamped(t, u, p.a4)
    BY <1>2, UnruledIs
  <2>2. Placed(rest) /\ rest \in SUBSET p.words
    BY SomePlaced DEF PageOK, Rest
  <2>3. c \in u.cells
    BY <2>1 DEF Clamped
  <2> HIDE DEF rest
  <2> QED BY <2>1, <2>2, <2>3, RunTable
<1> HIDE DEF ruled
<1> QED BY <1>1, <1>2 DEF ruled

(* And so are those of the JSON's cells, whatever the editor merges.       *)
WordsKnown == \A b \in TableBlocks : \A c \in CellsOf(b) : c.words \in SUBSET page.words

LEMMA WordsKnownHolds == Spec => []WordsKnown
<1>1. Init => WordsKnown
  BY DEF Init, WordsKnown, TableBlocks, NotYet
<1>2. IInv /\ Built /\ WordsKnown /\ [Next]_vars => WordsKnown'
  <2> SUFFICES ASSUME IInv, Built, WordsKnown, [Next]_vars  PROVE WordsKnown'
    OBVIOUS
  <2>1. CASE DetectTables
    BY <2>1 DEF DetectTables, WordsKnown, TableBlocks, CellsOf
  <2>2. CASE BuildPageJson
    <3>1. /\ page' = page /\ blocks' = ToJson(Layout(page, tables))
          /\ tables = RuledTables(page) \cup UnruledTables(page, RuledTables(page))
      BY <2>2 DEF BuildPageJson, Built
    <3>2. PageOK(page) /\ TablesOK(tables) /\ InkIn(page.ink)
      BY PagesAssumption DEF IInv, Built, InkIn
    <3>3. \A b \in blocks' : b.kind = "table" => \E t \in tables : ShowsTable(b, t)
      BY <3>1, <3>2, JsonShows
    <3>4. ASSUME NEW b \in blocks', b.kind = "table", NEW c \in CellsIn(b.rows)
          PROVE c.words \in SUBSET page.words
      <4>1. PICK t \in tables : c \in t.cells
        BY <3>3, <3>4 DEF ShowsTable
      <4> QED BY <3>1, <3>2, <4>1, DetectedWords
    <3> QED BY <3>1, <3>4 DEF WordsKnown, TableBlocks, CellsOf
  <2>3. CASE Export
    BY <2>3 DEF Export, WordsKnown, TableBlocks, CellsOf
  <2>4. ASSUME NEW b \in {b \in blocks : b.kind = "table"}, NEW r \in 0 .. Rows, MergeRows(b, r)
        PROVE WordsKnown'
    <3> DEFINE cells == CellsIn(b.rows)
               chosen == {c \in cells : c.row \in {r, r + 1}}
               all == (cells \ chosen) \cup {Merged(chosen)}
               new == [b EXCEPT !.rows = JsonRows(all)]
    <3>1. Cardinality(chosen) > 1 /\ blocks' = (blocks \ {b}) \cup {new} /\ page' = page
      BY <2>4 DEF MergeRows
    <3>2. DOMAIN b = {"kind", "box", "rows"} /\ TableOK(cells) /\ \A c \in cells : c.words \in SUBSET page.words
      BY DEF IInv, BlocksOK, BlockOK, WordsKnown, TableBlocks, CellsOf
    <3>3. chosen \in SUBSET cells /\ chosen # {}
      <4>1. ~(0 > 1)
        OBVIOUS
      <4> QED BY <3>1, <4>1, FS_EmptySet
    <3> HIDE DEF chosen, cells
    <3>4. TableOK(all) /\ TableOK(chosen)
      BY <3>2, <3>3, MergeKeepsTable, FS_Subset DEF TableOK
    <3>5. Merged(chosen).words \in SUBSET page.words
      <4>1. Merged(chosen).words = UNION {c.words : c \in chosen}
        BY <3>3, <3>4, MergedOK
      <4> QED BY <3>2, <3>3, <4>1
    <3>6. \A c \in all : c.words \in SUBSET page.words
      BY <3>2, <3>5
    <3> HIDE DEF all
    <3>7. CellsIn(new.rows) = all
      BY <3>2, <3>4, RowsHoldCells
    <3> HIDE DEF new
    <3>8. \A a \in blocks' : a \in blocks \/ a = new
      BY <3>1
    <3> QED BY <3>1, <3>6, <3>7, <3>8 DEF WordsKnown, TableBlocks, CellsOf
  <2>5. CASE UNCHANGED vars
    BY <2>5 DEF vars, WordsKnown, TableBlocks, CellsOf
  <2> QED BY <2>1, <2>2, <2>3, <2>4, <2>5 DEF Next
<1> QED BY <1>1, <1>2, PageShape, BuiltHolds, PTL DEF Spec

LEMMA PageHeld ==
  ASSUME PageOK(page), BlocksOK(blocks, page), WordsKnown, Exported, stage = "exported"
  PROVE SearchableHoldsPage
<1> DEFINE k == Crop(page, blocks)
           boxes == ContentBoxes(page, blocks)
           layer == LayerWords(page, blocks)
<1>1. exports.searchable.crop = k /\ exports.searchable.words = TextLayer(page, blocks)
  BY DEF Exported
<1>2. /\ k.x1 \in Int /\ k.x2 \in Int /\ k.y1 \in Int /\ k.y2 \in Int
      /\ \A b \in boxes : WithinBox(b, k)
  BY CropHolds
<1>3. \A b \in boxes : InPage(b)
  BY ContentOK
<1>4. \A l \in layer : l.box \in boxes
  BY DEF ContentBoxes
<1> HIDE DEF k, boxes
<1>5. ASSUME NEW b \in blocks, b.kind # "table"  PROVE WithinBox(b.box, k)
  <2>0. BlockOK(b, page)
    BY DEF BlocksOK
  <2>1. CASE b.kind = "picture"
    <3>1. b.box \in boxes
      BY <2>1 DEF boxes, ContentBoxes
    <3> QED BY <1>2, <3>1
  <2>2. CASE b.kind = "text"
    <3>1. PICK vs : vs = b.words
      OBVIOUS
    <3>2. vs \in SUBSET page.words /\ vs # {} /\ b.box = Hull({WordBox(w) : w \in vs})
      BY <2>0, <2>2, <3>1 DEF BlockOK, TextOK
    <3>3. CASE page.wordRows
      <4>1. ASSUME NEW w \in vs  PROVE WordBox(w) \in boxes
        <5>1. [word |-> w, box |-> WordBox(w)] \in layer
          BY <3>2, <3>3 DEF LayerWords
        <5>2. [word |-> w, box |-> WordBox(w)].box = WordBox(w)
          OBVIOUS
        <5> QED BY <1>4, <5>1, <5>2
      <4>2. PICK hs : hs = {WordBox(w) : w \in vs}
        OBVIOUS
      <4>3. Placed(vs)
        BY <3>2, SomePlaced DEF PageOK
      <4>4. IsFiniteSet(hs) /\ hs # {} /\ \A g \in hs : InPage(g) /\ g \in boxes
        BY <3>2, <4>1, <4>2, <4>3, WordBoxesOK
      <4>5. /\ \E g \in hs : b.box.x1 = g.x1
            /\ \E g \in hs : b.box.x2 = g.x2
            /\ \E g \in hs : b.box.y1 = g.y1
            /\ \E g \in hs : b.box.y2 = g.y2
        BY <3>2, <4>2, <4>4, HullReaches
      <4> QED BY <1>2, <4>4, <4>5 DEF WithinBox
    <3>4. CASE ~page.wordRows
      <4>1. PICK w \in vs : TRUE
        BY <3>2
      <4>2. [word |-> w, box |-> b.box] \in layer
        BY <2>2, <3>1, <3>4 DEF LayerWords
      <4>3. [word |-> w, box |-> b.box].box = b.box
        OBVIOUS
      <4> QED BY <1>2, <1>4, <4>2, <4>3
    <3> QED BY <3>3, <3>4 DEF PageOK
  <2> QED BY <1>5, <2>0, <2>1, <2>2 DEF BlockOK
<1>6. ASSUME NEW w \in page.words, CellsWith(w) # {} \/ TextOf(w) # {}
      PROVE w \in TextLayer(page, blocks)
  <2>1. PICK l \in layer : l.word = w
    <3>1. CASE page.wordRows
      <4>1. [word |-> w, box |-> WordBox(w)] \in layer
        BY <3>1 DEF LayerWords
      <4> QED BY <4>1
    <3>2. CASE ~page.wordRows /\ TextOf(w) # {}
      <4>1. PICK b \in blocks : b.kind = "text" /\ w \in b.words
        BY <3>2 DEF TextOf
      <4>2. [word |-> w, box |-> b.box] \in layer
        BY <3>2, <4>1 DEF LayerWords
      <4> QED BY <4>2
    <3>3. CASE ~page.wordRows /\ CellsWith(w) # {}
      <4>1. PICK b \in TableBlocks : \E c \in CellsIn(b.rows) : w \in c.words
        BY <3>3 DEF CellsWith, CellsOf
      <4>2. PICK c \in CellsIn(b.rows) : w \in c.words
        BY <4>1
      <4>3. b \in blocks /\ b.kind = "table"
        BY DEF TableBlocks
      <4>4. [word |-> w, box |-> c.box] \in layer
        BY <3>3, <4>2, <4>3 DEF LayerWords
      <4> QED BY <4>4
    <3> QED BY <1>6, <3>1, <3>2, <3>3 DEF PageOK
  <2>2. InPage(l.box) /\ WithinBox(l.box, k)
    BY <1>2, <1>3, <1>4
  <2>3. Shared(l.box, k) > 0
    BY <1>2, <2>2, SharedWithin
  <2> QED BY <2>1, <2>3 DEF TextLayer, k
<1>7. ASSUME NEW b \in TableBlocks, NEW c \in CellsOf(b), NEW w \in c.words
      PROVE WithinBox(IF page.wordRows THEN WordBox(w) ELSE c.box, k)
  <2>1. CASE page.wordRows
    <3>1. w \in page.words
      BY DEF WordsKnown
    <3>2. [word |-> w, box |-> WordBox(w)] \in layer
      BY <2>1, <3>1 DEF LayerWords
    <3>3. [word |-> w, box |-> WordBox(w)].box = WordBox(w)
      OBVIOUS
    <3>4. WordBox(w) \in boxes
      BY <1>4, <3>2, <3>3
    <3> QED BY <1>2, <2>1, <3>4
  <2>2. CASE ~page.wordRows
    <3>1. b \in blocks /\ b.kind = "table" /\ c \in CellsIn(b.rows)
      BY DEF TableBlocks, CellsOf
    <3>2. [word |-> w, box |-> c.box] \in layer
      BY <2>2, <3>1 DEF LayerWords
    <3>3. [word |-> w, box |-> c.box].box = c.box
      OBVIOUS
    <3>4. c.box \in boxes
      BY <1>4, <3>2, <3>3
    <3> QED BY <1>2, <2>2, <3>4
  <2> QED BY <2>1, <2>2 DEF PageOK
<1> QED BY <1>1, <1>5, <1>6, <1>7 DEF SearchableHoldsPage, WithinBox

(* The cropped page of the searchable PDF shows every text and picture     *)
(* that was kept and every word of a table's cells, and every word of its  *)
(* texts and tables can be found in it, with or without recognised word    *)
(* rows (utils/page_normalize.py, reconstruction/searchable_pdf.py).       *)
THEOREM SearchableComplete == Spec => []SearchableHoldsPage
<1>1. IInv /\ WordsKnown => SearchableHoldsPage
  <2>1. stage # "exported" => SearchableHoldsPage
    BY DEF SearchableHoldsPage
  <2> QED BY <2>1, PageHeld DEF IInv
<1> QED BY <1>1, PageShape, WordsKnownHolds, PTL

-----------------------------------------------------------------------------
(* Boundaries between lines that nothing rules                             *)

(* The middle of the gap between two lines.                                *)
Mid(p) == (Spot * p[1] + 48 + Spot * p[2] + 12) \div 2
Apart(p) == p[2] - p[1]

(* Three or more lines, no two neighbours a quarter further apart than two *)
(* others.                                                                 *)
Even(lines) ==
  /\ lines \in SUBSET Nat /\ IsFiniteSet(lines) /\ Cardinality(lines) > 2
  /\ \A p, q \in Neighbours(lines) : 4 * Apart(p) <= 5 * Apart(q)

(* Nothing but a frame around them is ruled.                               *)
Framed(ruled, lines) ==
  /\ IsFiniteSet(ruled) /\ Cardinality(ruled) <= 2
  /\ \A y \in ruled : \E k \in Nat : y = Spot * k /\ (k <= Min(lines) \/ k > Max(lines))
TextOfLines(lines) ==
  {Spot * Min(lines) + 12, Spot * Max(lines) + 48} \cup {Mid(p) : p \in Neighbours(lines)}

(* Below a line there is a next one, with none in between.                 *)
LEMMA LineBelow ==
  ASSUME NEW S \in SUBSET Int, IsFiniteSet(S), NEW a \in S, NEW b \in S, a < b
  PROVE \E p \in Neighbours(S) : p[1] = a /\ a < p[2] /\ p[2] <= b
<1> DEFINE T == {y \in S : y > a}
           n == Next1(S, a)
<1>1. T \in SUBSET Int /\ T \in SUBSET S /\ b \in T
  OBVIOUS
<1>2. IsFiniteSet(T)
  BY <1>1, FS_Subset
<1>3. Min(T) \in T /\ Min(T) <= b
  <2> HIDE DEF T
  <2> QED BY <1>1, <1>2, Extremes
<1>4. n = Min(T)
  BY DEF Next1
<1>5. a \in S \ {Max(S)}
  <2>1. b <= Max(S)
    BY Extremes
  <2>2. Max(S) \in Int
    BY Extremes
  <2> QED BY <2>1, <2>2
<1> DEFINE p == <<a, n>>
<1>6. p \in Neighbours(S)
  BY <1>5 DEF Neighbours
<1>7. p[1] = a /\ p[2] = n
  OBVIOUS
<1> HIDE DEF p, n
<1> QED BY <1>3, <1>4, <1>6, <1>7

(* Of two gaps one is above the other.                                     *)
LEMMA GapsApart ==
  ASSUME NEW S \in SUBSET Int, IsFiniteSet(S), NEW p \in Neighbours(S)
  PROVE /\ \A y \in S : y <= p[1] \/ p[2] <= y
        /\ \A q \in Neighbours(S) : p = q \/ p[2] <= q[1] \/ q[2] <= p[1]
<1>1. \A q \in Neighbours(S) : q[1] \in S /\ q[2] \in S /\ q[1] < q[2] /\ q = <<q[1], q[2]>>
  BY NextIn
<1>2. ASSUME NEW q \in Neighbours(S), NEW y \in S, y > q[1]  PROVE q[2] <= y
  <2> DEFINE T == {z \in S : z > q[1]}
  <2>1. q[2] = Min(T)
    <3>1. PICK x \in S \ {Max(S)} : q = <<x, Next1(S, x)>>
      BY DEF Neighbours
    <3>2. q[1] = x /\ q[2] = Next1(S, x)
      BY <3>1
    <3> QED BY <3>2 DEF Next1
  <2>2. T \in SUBSET Int /\ T \in SUBSET S /\ y \in T
    BY <1>2
  <2>3. IsFiniteSet(T)
    BY <2>2, FS_Subset
  <2> HIDE DEF T
  <2> QED BY <2>1, <2>2, <2>3, Extremes
<1>3. ASSUME NEW q \in Neighbours(S), p[1] = q[1]  PROVE p = q
  BY <1>1, <1>3 DEF Neighbours
<1>4. \A y \in S : y <= p[1] \/ p[2] <= y
  BY <1>1, <1>2
<1>5. ASSUME NEW q \in Neighbours(S), p # q  PROVE p[2] <= q[1] \/ q[2] <= p[1]
  <2>1. p[1] \in Int /\ q[1] \in Int /\ p[1] # q[1]
    BY <1>1, <1>3, <1>5
  <2> QED BY <1>1, <1>2, <2>1
<1> QED BY <1>4, <1>5

(* Three elements in a row, and a fourth.                                  *)
LEMMA AtLeast ==
  ASSUME NEW S \in SUBSET Int, IsFiniteSet(S)
  PROVE /\ Cardinality(S) \in Nat
        /\ \A a, b, c \in S : a < b /\ b < c => Cardinality(S) >= 3
        /\ \A a, b, c, d \in S : a < b /\ b < c /\ c < d => Cardinality(S) >= 4
<1>1. \A T : IsFiniteSet(T) => Cardinality(T) \in Nat /\ (T # {} => Cardinality(T) # 0)
  BY FS_CardinalityType, FS_EmptySet
<1>2. \A T, x : IsFiniteSet(T) /\ x \in T
        => IsFiniteSet(T \ {x}) /\ Cardinality(T \ {x}) = Cardinality(T) - 1
  BY FS_RemoveElement
<1>3. ASSUME NEW a \in S, NEW b \in S, NEW c \in S, a < b, b < c
      PROVE LET U == ((S \ {a}) \ {b}) \ {c} IN
              IsFiniteSet(U) /\ Cardinality(U) = Cardinality(S) - 3 /\ Cardinality(U) \in Nat
  <2> DEFINE T == S \ {a}
             V == T \ {b}
             U == V \ {c}
  <2>1. a \in Int /\ b \in Int /\ c \in Int
    OBVIOUS
  <2>2. b \in T /\ c \in V
    BY <1>3, <2>1
  <2>3. IsFiniteSet(T) /\ Cardinality(T) = Cardinality(S) - 1
    BY <1>2
  <2> HIDE DEF T
  <2>4. IsFiniteSet(V) /\ Cardinality(V) = Cardinality(T) - 1
    BY <1>2, <2>2, <2>3
  <2> HIDE DEF V
  <2>5. IsFiniteSet(U) /\ Cardinality(U) = Cardinality(V) - 1
    BY <1>2, <2>2, <2>4
  <2> HIDE DEF U
  <2>6. Cardinality(S) \in Nat /\ Cardinality(U) \in Nat
    BY <1>1, <2>5
  <2> QED BY <2>3, <2>4, <2>5, <2>6 DEF U, V, T
<1>4. ASSUME NEW a \in S, NEW b \in S, NEW c \in S, a < b, b < c  PROVE Cardinality(S) >= 3
  <2> DEFINE U == ((S \ {a}) \ {b}) \ {c}
  <2>1. IsFiniteSet(U) /\ Cardinality(U) = Cardinality(S) - 3 /\ Cardinality(U) \in Nat
    BY <1>3, <1>4
  <2> HIDE DEF U
  <2>2. Cardinality(S) \in Nat
    BY <1>1
  <2> QED BY <2>1, <2>2
<1>5. ASSUME NEW a \in S, NEW b \in S, NEW c \in S, NEW d \in S, a < b, b < c, c < d
      PROVE Cardinality(S) >= 4
  <2> DEFINE U == ((S \ {a}) \ {b}) \ {c}
  <2>1. IsFiniteSet(U) /\ Cardinality(U) = Cardinality(S) - 3 /\ Cardinality(U) \in Nat
    BY <1>3, <1>5
  <2>2. d \in U
    <3>1. a \in Int /\ b \in Int /\ c \in Int /\ d \in Int
      OBVIOUS
    <3> QED BY <1>5, <3>1
  <2> HIDE DEF U
  <2>3. Cardinality(U) # 0 /\ Cardinality(S) \in Nat
    BY <1>1, <2>1, <2>2
  <2> QED BY <2>1, <2>3
<1> QED BY <1>1, <1>4, <1>5

(* Among three lines or more there are two gaps, one below the other.      *)
LEMMA TwoGaps ==
  ASSUME NEW S \in SUBSET Int, IsFiniteSet(S), Cardinality(S) > 2
  PROVE \E p, q \in Neighbours(S) : p[1] = Min(S) /\ p[2] = q[1]
<1> DEFINE T == S \ {Min(S)}
           U == T \ {Max(S)}
<1>1. S # {} /\ Cardinality(S) \in Nat
  BY FS_EmptySet, FS_CardinalityType
<1>2. /\ Min(S) \in S /\ Max(S) \in S /\ \A y \in S : Min(S) <= y /\ y <= Max(S)
  BY <1>1, Extremes
<1>3. IsFiniteSet(T) /\ Cardinality(T) = Cardinality(S) - 1
  BY <1>2, FS_RemoveElement
<1>4. IsFiniteSet(U) /\ Cardinality(U) \in {Cardinality(T), Cardinality(T) - 1}
  <2> HIDE DEF T
  <2> QED BY <1>3, FS_RemoveElement
<1>5. U # {}
  <2>1. Cardinality(U) # 0
    BY <1>1, <1>3, <1>4
  <2> HIDE DEF U
  <2> QED BY <2>1, FS_EmptySet
<1>6. PICK e \in U : TRUE
  BY <1>5
<1>7. e \in S /\ Min(S) \in Int /\ Max(S) \in Int /\ e \in Int /\ Min(S) < e /\ e < Max(S)
  <2>1. e \in S /\ e # Min(S) /\ e # Max(S)
    BY <1>6
  <2>2. Min(S) \in Int /\ Max(S) \in Int /\ e \in Int
    BY <1>2, <2>1
  <2> QED BY <1>2, <2>1, <2>2
<1>8. PICK p \in Neighbours(S) : p[1] = Min(S) /\ p[2] <= e
  BY <1>2, <1>7, LineBelow
<1>9. p[2] \in S /\ p[2] \in Int /\ p[2] < Max(S)
  <2>1. p[2] \in S
    BY NextIn
  <2>2. p[2] \in Int
    BY <2>1
  <2> QED BY <1>7, <1>8, <2>1, <2>2
<1>10. PICK q \in Neighbours(S) : q[1] = p[2]
  <2> DEFINE m == p[2]
  <2>1. m \in S /\ m < Max(S)
    BY <1>9
  <2> HIDE DEF m
  <2>2. \E q \in Neighbours(S) : q[1] = m
    BY <1>2, <2>1, LineBelow
  <2> QED BY <2>2 DEF m
<1> QED BY <1>8, <1>10

(* What is known of the middles of gaps and of the ends of the text.       *)
LEMMA MidNumbers ==
  ASSUME NEW lines, Even(lines)
  PROVE /\ Min(lines) \in Nat /\ Max(lines) \in Nat
        /\ \A y \in lines : y \in Nat /\ Min(lines) <= y /\ y <= Max(lines)
        /\ \A p \in Neighbours(lines) :
             /\ p[1] \in lines /\ p[2] \in lines /\ p[1] < p[2]
             /\ Mid(p) = 30 * p[1] + 30 * p[2] + 30 /\ Mid(p) \in Nat
             /\ Apart(p) \in Nat /\ Apart(p) >= 1
<1>1. lines \in SUBSET Int /\ lines \in SUBSET Nat /\ IsFiniteSet(lines) /\ lines # {}
  BY FS_EmptySet DEF Even
<1>2. /\ Min(lines) \in lines /\ Max(lines) \in lines
      /\ \A y \in lines : Min(lines) <= y /\ y <= Max(lines)
  BY <1>1, Extremes
<1>3. ASSUME NEW p \in Neighbours(lines)
      PROVE /\ p[1] \in lines /\ p[2] \in lines /\ p[1] < p[2]
            /\ Mid(p) = 30 * p[1] + 30 * p[2] + 30 /\ Mid(p) \in Nat
            /\ Apart(p) \in Nat /\ Apart(p) >= 1
  <2>1. p[1] \in lines /\ p[2] \in lines /\ p[1] < p[2]
    BY <1>1, NextIn
  <2>2. p[1] \in Nat /\ p[2] \in Nat
    BY <1>1, <2>1
  <2>3. \A a, b \in Nat : (60 * a + 48 + 60 * b + 12) \div 2 = 30 * a + 30 * b + 30
    OBVIOUS
  <2>4. Mid(p) = 30 * p[1] + 30 * p[2] + 30
    BY <2>2, <2>3 DEF Mid, Spot
  <2> QED BY <2>1, <2>2, <2>4 DEF Apart
<1> QED BY <1>1, <1>2, <1>3

(* The middle of a gap is further from all other boundaries than half the  *)
(* distance of the lines around it.                                        *)
LEMMA MidsAway ==
  ASSUME NEW lines, Even(lines), NEW ruled, Framed(ruled, lines), NEW p \in Neighbours(lines),
         NEW y \in ruled \cup TextOfLines(lines), y # Mid(p)
  PROVE y \in Nat /\ Distance(y, Mid(p)) > 30 * Apart(p)
<1>1. /\ Min(lines) \in Nat /\ Max(lines) \in Nat
      /\ \A l \in lines : l \in Nat /\ Min(lines) <= l /\ l <= Max(lines)
      /\ \A q \in Neighbours(lines) :
           /\ q[1] \in lines /\ q[2] \in lines /\ q[1] < q[2]
           /\ Mid(q) = 30 * q[1] + 30 * q[2] + 30
  BY MidNumbers
<1> DEFINE a == p[1]
           b == p[2]
           lo == Min(lines)
           hi == Max(lines)
           m == Mid(p)
<1>2. /\ a \in Nat /\ b \in Nat /\ lo \in Nat /\ hi \in Nat /\ lo <= a /\ a < b /\ b <= hi
      /\ m = 30 * a + 30 * b + 30 /\ Apart(p) = b - a
  BY <1>1 DEF Apart
<1>3. y \in ruled \/ y = 60 * lo + 12 \/ y = 60 * hi + 48 \/ \E q \in Neighbours(lines) : y = Mid(q)
  BY DEF TextOfLines, Spot
<1>4. CASE y \in ruled
  <2>1. PICK k \in Nat : y = 60 * k /\ (k <= lo \/ k > hi)
    BY <1>4 DEF Framed, Spot
  <2> HIDE DEF a, b, lo, hi, m
  <2> QED BY <1>2, <2>1 DEF Distance, m
<1>5. CASE \E q \in Neighbours(lines) : y = Mid(q)
  <2>1. PICK q \in Neighbours(lines) : y = Mid(q)
    BY <1>5
  <2> DEFINE c == q[1]
             d == q[2]
  <2>2. c \in Nat /\ d \in Nat /\ c < d /\ y = 30 * c + 30 * d + 30
    BY <1>1, <2>1
  <2>3. b <= c \/ d <= a
    <3>1. p # q
      BY <2>1
    <3>2. lines \in SUBSET Int /\ IsFiniteSet(lines)
      BY DEF Even
    <3> QED BY <3>1, <3>2, GapsApart
  <2> HIDE DEF a, b, c, d, lo, hi, m
  <2>4. Distance(y, m) > 30 * Apart(p)
    BY <1>2, <2>2, <2>3 DEF Distance
  <2> QED BY <2>2, <2>4 DEF m
<1>6. CASE y = 60 * lo + 12 \/ y = 60 * hi + 48
  <2> HIDE DEF a, b, lo, hi, m
  <2> QED BY <1>2, <1>6 DEF Distance, m
<1> QED BY <1>3, <1>4, <1>5, <1>6

(* From every boundary of the text but the last it is at most as far to    *)
(* the next as two lines are apart.                                        *)
LEMMA TextSteps ==
  ASSUME NEW lines, Even(lines), NEW x \in TextOfLines(lines), x # Spot * Max(lines) + 48
  PROVE \E p \in Neighbours(lines) : \E y \in TextOfLines(lines) : x < y /\ y - x <= 60 * Apart(p)
<1> DEFINE lo == Min(lines)
           hi == Max(lines)
<1>1. /\ lo \in Nat /\ hi \in Nat
      /\ \A l \in lines : l \in Nat /\ lo <= l /\ l <= hi
      /\ \A q \in Neighbours(lines) :
           /\ q[1] \in lines /\ q[2] \in lines /\ q[1] < q[2]
           /\ Mid(q) = 30 * q[1] + 30 * q[2] + 30
  BY MidNumbers
<1>2. lines \in SUBSET Int /\ IsFiniteSet(lines) /\ Cardinality(lines) > 2
  BY DEF Even
<1>3. /\ \A q \in Neighbours(lines) : Mid(q) \in TextOfLines(lines)
      /\ 60 * hi + 48 \in TextOfLines(lines)
  BY DEF TextOfLines, Spot
<1>4. x = 60 * lo + 12 \/ \E q \in Neighbours(lines) : x = Mid(q)
  BY DEF TextOfLines, Spot
<1> HIDE DEF lo, hi
<1>5. CASE x = 60 * lo + 12
  <2>1. PICK p \in Neighbours(lines) : p[1] = lo
    BY <1>2, TwoGaps DEF lo
  <2>2. p[1] \in Nat /\ p[2] \in Nat /\ p[1] < p[2] /\ Mid(p) = 30 * p[1] + 30 * p[2] + 30
    BY <1>1
  <2>3. x < Mid(p) /\ Mid(p) - x <= 60 * Apart(p)
    <3> DEFINE a == p[1]
               b == p[2]
               m == Mid(p)
    <3>1. a \in Nat /\ b \in Nat /\ a < b /\ m = 30 * a + 30 * b + 30 /\ Apart(p) = b - a /\ x = 60 * a + 12
      BY <1>5, <2>1, <2>2 DEF Apart
    <3> HIDE DEF a, b, m
    <3>2. x < m /\ m - x <= 60 * Apart(p)
      BY <3>1
    <3> QED BY <3>2 DEF m
  <2> QED BY <1>3, <2>3
<1>6. CASE \E q \in Neighbours(lines) : x = Mid(q)
  <2>1. PICK p \in Neighbours(lines) : x = Mid(p)
    BY <1>6
  <2> DEFINE a == p[1]
             b == p[2]
  <2>2. a \in Nat /\ b \in Nat /\ b \in lines /\ a < b /\ x = 30 * a + 30 * b + 30 /\ Apart(p) = b - a /\ b <= hi
    BY <1>1, <2>1 DEF Apart
  <2> HIDE DEF a, b
  <2>3. CASE b = hi
    <3> DEFINE z == 60 * hi + 48
    <3>1. x < z /\ z - x <= 60 * Apart(p) /\ z \in TextOfLines(lines)
      BY <1>3, <2>2, <2>3
    <3> HIDE DEF z
    <3> QED BY <3>1
  <2>4. CASE b # hi
    <3>1. hi \in lines
      BY <1>2, FS_EmptySet, Extremes DEF hi
    <3>2. PICK q \in Neighbours(lines) : q[1] = b
      <4>1. b < hi
        BY <1>1, <2>2, <2>4
      <4> QED BY <1>2, <2>2, <3>1, <4>1, LineBelow
    <3> DEFINE c == q[2]
               m == Mid(q)
    <3>3. c \in Nat /\ b < c /\ m = 30 * b + 30 * c + 30 /\ Apart(q) = c - b /\ m \in TextOfLines(lines)
      BY <1>1, <1>3, <3>2 DEF Apart
    <3> HIDE DEF c, m
    <3>4. /\ x < m
          /\ m - x <= 60 * Apart(p) \/ m - x <= 60 * Apart(q)
      BY <2>2, <3>3
    <3> QED BY <3>3, <3>4
  <2> QED BY <2>3, <2>4
<1> QED BY <1>4, <1>5, <1>6

(* A frame has at most two boundaries besides those of the text; the text  *)
(* has at least four.                                                      *)
LEMMA BoundsFinite ==
  ASSUME NEW lines, Even(lines), NEW ruled, Framed(ruled, lines)
  PROVE LET text == TextOfLines(lines)  all == ruled \cup text IN
    /\ IsFiniteSet(text) /\ IsFiniteSet(all) /\ all \in SUBSET Nat /\ all # {}
    /\ \A x \in text : x <= Spot * Max(lines) + 48
    /\ Spot * Max(lines) + 48 \in text
    /\ Cardinality(text \ {Spot * Max(lines) + 48}) >= 3 /\ Cardinality(text) >= 4
<1> DEFINE text == TextOfLines(lines)
           mids == {Mid(p) : p \in Neighbours(lines)}
           ends == {Spot * Min(lines) + 12, Spot * Max(lines) + 48}
           f == [p \in Neighbours(lines) |-> Mid(p)]
           lo == Min(lines)
           hi == Max(lines)
           first == Spot * lo + 12
           last == Spot * hi + 48
<1>1. /\ lo \in Nat /\ hi \in Nat
      /\ \A l \in lines : l \in Nat /\ lo <= l /\ l <= hi
      /\ \A q \in Neighbours(lines) :
           /\ q[1] \in lines /\ q[2] \in lines /\ q[1] < q[2]
           /\ Mid(q) = 30 * q[1] + 30 * q[2] + 30 /\ Mid(q) \in Nat
  BY MidNumbers
<1>2. lines \in SUBSET Int /\ IsFiniteSet(lines) /\ Cardinality(lines) > 2
  BY DEF Even
<1>3. text = ends \cup mids
  BY DEF TextOfLines
<1>4. IsFiniteSet(mids)
  <2>1. \A y \in mids : \E p \in Neighbours(lines) : f[p] = y
    OBVIOUS
  <2>2. IsFiniteSet(Neighbours(lines))
    BY <1>2, NeighboursFinite
  <2> HIDE DEF mids, f
  <2> QED BY <2>1, <2>2, ImageFinite
<1>5. IsFiniteSet(ends)
  <2>1. ends = {Spot * Min(lines) + 12} \cup {Spot * Max(lines) + 48}
    OBVIOUS
  <2> HIDE DEF ends
  <2> QED BY <2>1, FS_Singleton, FS_AddElement
<1>6. IsFiniteSet(text)
  <2> HIDE DEF ends, mids, text
  <2> QED BY <1>3, <1>4, <1>5, FS_Union
<1>7. first \in Nat /\ last \in Nat /\ first <= last /\ first \in text /\ last \in text
  <2>1. lo <= hi
    <3>1. hi \in lines
      BY <1>2, FS_EmptySet, Extremes
    <3> QED BY <1>1, <3>1
  <2> HIDE DEF lo, hi
  <2>2. first \in Nat /\ last \in Nat /\ first <= last
    BY <1>1, <2>1 DEF Spot
  <2> QED BY <1>3, <2>2 DEF lo, hi
<1>8. \A q \in Neighbours(lines) : first < Mid(q) /\ Mid(q) < last
  <2> SUFFICES ASSUME NEW q \in Neighbours(lines)  PROVE first < Mid(q) /\ Mid(q) < last
    OBVIOUS
  <2> DEFINE a == q[1]
             b == q[2]
             m == Mid(q)
  <2>1. a \in Nat /\ b \in Nat /\ lo <= a /\ a < b /\ b <= hi /\ m = 30 * a + 30 * b + 30
    BY <1>1
  <2> HIDE DEF a, b, m, lo, hi
  <2>2. first < m /\ m < last
    BY <1>1, <2>1 DEF Spot
  <2> QED BY <2>2 DEF m
<1> HIDE DEF first, last
<1>9. text \in SUBSET Nat /\ \A x \in text : x <= last
  <2>1. \A x \in text : x = first \/ x = last \/ \E q \in Neighbours(lines) : x = Mid(q)
    BY <1>3 DEF first, last
  <2> HIDE DEF text, lo, hi
  <2> QED BY <1>1, <1>7, <1>8, <2>1
<1>10. PICK p, q \in Neighbours(lines) : p[2] = q[1]
  BY <1>2, TwoGaps
<1>11. Mid(p) \in text /\ Mid(q) \in text /\ Mid(p) < Mid(q)
  <2>1. Mid(p) \in text /\ Mid(q) \in text
    BY <1>3
  <2> DEFINE a == p[1]
             b == p[2]
             c == q[2]
             m == Mid(p)
             n == Mid(q)
  <2>2. a \in Nat /\ b \in Nat /\ c \in Nat /\ a < b /\ b < c /\ m = 30 * a + 30 * b + 30 /\ n = 30 * b + 30 * c + 30
    BY <1>1, <1>10
  <2> HIDE DEF a, b, c, m, n
  <2>3. m < n
    BY <2>2
  <2> QED BY <2>1, <2>3 DEF m, n
<1>12. first < Mid(p) /\ Mid(q) < last
  BY <1>8
<1> HIDE DEF text, lo, hi
<1>13. Cardinality(text) >= 4
  <2>1. text \in SUBSET Int
    BY <1>9
  <2> QED BY <1>6, <1>7, <1>11, <1>12, <2>1, AtLeast
<1>14. Cardinality(text \ {last}) = Cardinality(text) - 1 /\ Cardinality(text) \in Nat
  BY <1>6, <1>7, FS_RemoveElement, FS_CardinalityType
<1>15. IsFiniteSet(ruled \cup text) /\ ruled \cup text \in SUBSET Nat
  <2>1. IsFiniteSet(ruled \cup text)
    BY <1>6, FS_Union DEF Framed
  <2>2. ruled \subseteq Nat
    BY DEF Framed, Spot
  <2> QED BY <1>9, <2>1, <2>2
<1> QED BY <1>6, <1>7, <1>9, <1>13, <1>14, <1>15 DEF text, last, hi

(* Half of the boundaries are those of the text, so that the typical gap   *)
(* is no larger than the distance of two lines.                            *)
LEMMA TypicalGapBound ==
  ASSUME NEW lines, Even(lines), NEW ruled, Framed(ruled, lines)
  PROVE LET gap == TypicalGap(ruled \cup TextOfLines(lines)) IN
          gap \in Int /\ \E p \in Neighbours(lines) : gap <= 60 * Apart(p)
<1> DEFINE text == TextOfLines(lines)
           all == ruled \cup text
           last == Spot * Max(lines) + 48
           top == Max(all)
           starts == all \ {top}
           gap(x) == Next1(all, x) - x
           gaps == {gap(x) : x \in starts}
           upTo(h) == {x \in starts : gap(x) <= h}
           most == {h \in gaps : 2 * Cardinality(upTo(h)) > Cardinality(starts)}
           X == text \ {last}
           G == {gap(x) : x \in X}
           g == Max(G)
<1>1. /\ IsFiniteSet(text) /\ IsFiniteSet(all) /\ all \in SUBSET Nat /\ all # {}
      /\ \A x \in text : x <= last
      /\ last \in text /\ Cardinality(X) >= 3
  BY BoundsFinite
<1>2. all \in SUBSET Int
  BY <1>1
<1>3. top \in all /\ \A y \in all : y <= top
  <2> HIDE DEF all
  <2> QED BY <1>1, <1>2, Extremes
<1>4. ASSUME NEW x \in all, NEW y \in all, x < y
      PROVE Next1(all, x) \in all /\ x < Next1(all, x) /\ Next1(all, x) <= y
  <2> HIDE DEF all
  <2> DEFINE T == {z \in all : z > x}
  <2>1. T \in SUBSET Int /\ T \in SUBSET all /\ y \in T
    BY <1>2, <1>4
  <2>2. IsFiniteSet(T)
    BY <1>1, <2>1, FS_Subset
  <2>3. Next1(all, x) = Min(T)
    BY DEF Next1
  <2>4. Min(T) \in T /\ Min(T) <= y
    <3> HIDE DEF T
    <3> QED BY <2>1, <2>2, Extremes
  <2> QED BY <2>3, <2>4
<1>5. ASSUME NEW x \in starts  PROVE x \in Int /\ x < top /\ gap(x) \in Int
  <2> HIDE DEF all, top
  <2>1. x \in all /\ x # top
    OBVIOUS
  <2>2. x \in Int /\ top \in Int
    BY <1>2, <1>3, <2>1
  <2>3. x < top
    BY <1>3, <2>1, <2>2
  <2>4. Next1(all, x) \in Int
    BY <1>2, <1>3, <1>4, <2>1, <2>3
  <2> QED BY <2>2, <2>3, <2>4
<1>6. ASSUME NEW x \in X
      PROVE x \in starts /\ \E p \in Neighbours(lines) : gap(x) <= 60 * Apart(p)
  <2>1. x \in text /\ x # last
    OBVIOUS
  <2>2. PICK p \in Neighbours(lines), y \in text : x < y /\ y - x <= 60 * Apart(p)
    BY <2>1, TextSteps
  <2>3. x \in all /\ y \in all
    BY <2>1
  <2> HIDE DEF all, top
  <2>4. x \in Int /\ y \in Int /\ top \in Int /\ y <= top
    BY <1>2, <1>3, <2>3
  <2>5. x # top
    BY <2>2, <2>4
  <2>6. Next1(all, x) \in Int /\ Next1(all, x) <= y
    BY <1>2, <1>4, <2>2, <2>3
  <2>7. Apart(p) \in Int
    BY MidNumbers
  <2>8. gap(x) <= 60 * Apart(p)
    <3> DEFINE n == Next1(all, x)
               k == Apart(p)
    <3>1. n \in Int /\ n <= y /\ k \in Int /\ y - x <= 60 * k
      BY <2>2, <2>6, <2>7
    <3> HIDE DEF n, k
    <3>2. n - x <= 60 * k
      BY <2>4, <3>1
    <3> QED BY <3>2 DEF n, k
  <2> QED BY <2>3, <2>5, <2>8
<1>7. IsFiniteSet(starts) /\ IsFiniteSet(X) /\ X \in SUBSET starts
  <2>1. IsFiniteSet(starts)
    <3> HIDE DEF all, top
    <3> QED BY <1>1, FS_RemoveElement
  <2>2. IsFiniteSet(X)
    <3> HIDE DEF text, last
    <3> QED BY <1>1, FS_RemoveElement
  <2> HIDE DEF starts, X
  <2> QED BY <1>6, <2>1, <2>2
<1>8. Cardinality(starts \ X) <= 2
  <2> DEFINE other == (ruled \cup {last}) \ {top}
  <2>1. top \in ruled \cup {last}
    <3>1. CASE top \in text
      <4>1. top <= last /\ last <= top /\ top \in Int /\ last \in Int
        BY <1>1, <1>2, <1>3, <3>1
      <4> QED BY <4>1
    <3>2. CASE top \in ruled
      BY <3>2
    <3> QED BY <1>3, <3>1, <3>2
  <2>2. starts \ X \in SUBSET other
    OBVIOUS
  <2>3. IsFiniteSet(ruled) /\ Cardinality(ruled) <= 2 /\ Cardinality(ruled) \in Nat
    BY FS_CardinalityType DEF Framed
  <2> HIDE DEF last, top, X, starts
  <2> DEFINE U == ruled \cup {last}
  <2>4. IsFiniteSet(U) /\ Cardinality(U) <= 3 /\ Cardinality(U) \in Nat
    <3>1. IsFiniteSet(U) /\ Cardinality(U) \in {Cardinality(ruled), Cardinality(ruled) + 1}
      BY <2>3, FS_AddElement
    <3> HIDE DEF U
    <3> QED BY <2>3, <3>1
  <2> HIDE DEF U
  <2>5. IsFiniteSet(U \ {top}) /\ Cardinality(U \ {top}) = Cardinality(U) - 1
    BY <2>1, <2>4, FS_RemoveElement DEF U
  <2>6. other = U \ {top}
    BY DEF U
  <2> HIDE DEF other
  <2>7. Cardinality(starts \ X) <= Cardinality(other) /\ Cardinality(other) <= 2
    BY <2>2, <2>4, <2>5, <2>6, FS_Subset
  <2>8. Cardinality(starts \ X) \in Nat /\ Cardinality(other) \in Nat
    BY <1>7, <2>5, <2>6, FS_Difference, FS_CardinalityType
  <2> QED BY <2>7, <2>8
<1> HIDE DEF all, text, last, top, starts, X
<1>9. Cardinality(starts) <= Cardinality(X) + 2 /\ Cardinality(starts) \in Nat /\ Cardinality(X) \in Nat
  <2>1. starts \cap X = X
    BY <1>7
  <2>2. Cardinality(starts \ X) = Cardinality(starts) - Cardinality(X)
    BY <1>7, <2>1, FS_Difference
  <2>3. Cardinality(starts) \in Nat /\ Cardinality(X) \in Nat /\ Cardinality(starts \ X) \in Nat
    BY <1>7, FS_CardinalityType, FS_Difference
  <2> QED BY <1>8, <2>2, <2>3
<1> HIDE DEF gap
<1>10. \A D \in SUBSET starts : IsFiniteSet({gap(x) : x \in D}) /\ {gap(x) : x \in D} \in SUBSET Int
  <2> SUFFICES ASSUME NEW D \in SUBSET starts
               PROVE IsFiniteSet({gap(x) : x \in D}) /\ {gap(x) : x \in D} \in SUBSET Int
    OBVIOUS
  <2> DEFINE f == [x \in D |-> gap(x)]
             S == {gap(x) : x \in D}
  <2>1. \A h \in S : \E x \in D : f[x] = h
    OBVIOUS
  <2>2. S \in SUBSET Int
    BY <1>5
  <2>3. IsFiniteSet(D)
    BY <1>7, FS_Subset
  <2> HIDE DEF S, f
  <2>4. IsFiniteSet(S)
    BY <2>1, <2>3, ImageFinite
  <2> QED BY <2>2, <2>4 DEF S
<1>11. g \in G /\ \A h \in G : h <= g
  <2>1. G \in SUBSET Int /\ IsFiniteSet(G)
    BY <1>7, <1>10
  <2>2. X # {}
    BY <1>1, FS_EmptySet
  <2>3. G # {}
    BY <2>2
  <2> HIDE DEF G
  <2> QED BY <2>1, <2>3, Extremes
<1>12. PICK x \in X : g = gap(x)
  BY <1>11
<1>13. PICK p \in Neighbours(lines) : g <= 60 * Apart(p)
  BY <1>6, <1>12
<1>14. g \in most
  <2>1. X \in SUBSET upTo(g)
    BY <1>7, <1>11
  <2>2. IsFiniteSet(upTo(g))
    BY <1>7, FS_Subset
  <2> HIDE DEF upTo, g, G
  <2>3. Cardinality(X) <= Cardinality(upTo(g)) /\ Cardinality(upTo(g)) \in Nat
    BY <2>1, <2>2, FS_Subset, FS_CardinalityType
  <2>4. 2 * Cardinality(upTo(g)) > Cardinality(starts)
    BY <1>1, <1>9, <2>3
  <2>5. g \in gaps
    BY <1>7, <1>12
  <2> QED BY <2>4, <2>5
<1>15. Min(most) \in Int /\ Min(most) <= g
  <2>1. most \in SUBSET gaps /\ gaps \in SUBSET Int /\ IsFiniteSet(gaps)
    BY <1>10
  <2> HIDE DEF gaps, most
  <2>2. IsFiniteSet(most)
    BY <2>1, FS_Subset
  <2>3. most \in SUBSET Int /\ most # {}
    BY <1>14, <2>1
  <2> HIDE DEF g
  <2>4. Min(most) \in most /\ Min(most) <= g
    BY <1>14, <2>2, <2>3, Extremes
  <2> QED BY <2>3, <2>4
<1>16. TypicalGap(all) = Min(most)
  BY DEF TypicalGap, most, upTo, gaps, gap, starts, top
<1>17. Min(most) <= 60 * Apart(p)
  <2>1. g \in Int
    BY <1>7, <1>10, <1>11
  <2>2. Apart(p) \in Int
    BY MidNumbers
  <2> DEFINE k == Apart(p)
             n == Min(most)
  <2>3. k \in Int /\ n \in Int /\ n <= g /\ g <= 60 * k
    BY <1>13, <1>15, <2>2
  <2> HIDE DEF k, n, g
  <2>4. n <= 60 * k
    BY <2>1, <2>3
  <2> QED BY <2>4 DEF k, n
<1> HIDE DEF most
<1> QED BY <1>15, <1>16, <1>17 DEF all, text

(* A position with no other as near as the gap is a boundary as it is.     *)
LEMMA AloneStays ==
  ASSUME NEW S \in SUBSET Nat, IsFiniteSet(S), NEW gap \in Nat, NEW m \in S,
         \A y \in S : y = m \/ Distance(y, m) > gap
  PROVE m \in ClusterPositions(S, gap)
<1> DEFINE starts == {p \in S : \A q \in S : ~(q < p /\ p - q <= gap)}
           cluster(p) == {q \in S : q >= p /\ \A s \in starts : ~(p < s /\ s <= q)}
           mean(c) == (2 * SumSet(c) + Cardinality(c)) \div (2 * Cardinality(c))
           T == {q \in S : q > m}
<1>1. \A y \in S : y \in Nat
  OBVIOUS
<1>2. \A y \in S : y < m => m - y > gap
  BY <1>1 DEF Distance
<1>3. \A y \in S : y > m => y - m > gap
  BY <1>1 DEF Distance
<1>4. m \in starts
  BY <1>1, <1>2
<1>9. T \in SUBSET Int /\ T \in SUBSET S /\ IsFiniteSet(T)
  <2>1. T \in SUBSET S
    OBVIOUS
  <2>2. S \in SUBSET Int
    BY <1>1
  <2> HIDE DEF T
  <2> QED BY <2>1, <2>2, FS_Subset
<1>5. ASSUME NEW q \in T  PROVE \E s \in starts : m < s /\ s <= q
  <2>3. Min(T) \in T /\ \A y \in T : Min(T) <= y
    <3> HIDE DEF T
    <3> QED BY <1>5, <1>9, Extremes
  <2> DEFINE s == Min(T)
  <2>4. s \in S /\ s > m /\ s - m > gap /\ s <= q
    BY <1>3, <2>3
  <2>5. \A r \in S : r > m => s <= r
    BY <2>3
  <2> HIDE DEF s
  <2>6. ASSUME NEW r \in S, r < s  PROVE s - r > gap
    <3>1. r <= m
      BY <1>1, <2>4, <2>5, <2>6
    <3> QED BY <1>1, <2>4, <3>1
  <2>7. s \in starts
    <3>1. \A r \in S : ~(r < s /\ s - r <= gap)
      BY <1>1, <2>4, <2>6
    <3> QED BY <2>4, <3>1
  <2> QED BY <2>4, <2>7
<1>6. cluster(m) = {m}
  <2>1. m \in cluster(m)
    <3>1. \A s \in starts : ~(m < s /\ s <= m)
      BY <1>1
    <3> HIDE DEF starts
    <3> QED BY <1>1, <3>1
  <2>2. ASSUME NEW q \in cluster(m)  PROVE q = m
    <3>1. q \in S /\ q >= m /\ \A s \in starts : ~(m < s /\ s <= q)
      OBVIOUS
    <3> HIDE DEF starts, cluster
    <3>2. q \notin T
      BY <1>5, <3>1
    <3> QED BY <1>1, <3>1, <3>2
  <2> HIDE DEF cluster
  <2> QED BY <2>1, <2>2
<1>7. mean({m}) = m
  <2>1. {m} \in SUBSET (m .. m) /\ {m} # {} /\ m \in Nat
    BY <1>1
  <2>3. IsFiniteSet({m})
    BY FS_Singleton
  <2>2. mean({m}) \in m .. m
    BY <2>1, <2>3, MeanBetween
  <2> HIDE DEF mean
  <2> QED BY <1>1, <2>2
<1>8. ClusterPositions(S, gap) = {mean(cluster(p)) : p \in starts}
  BY DEF ClusterPositions
<1> HIDE DEF starts, cluster, mean
<1> QED BY <1>4, <1>6, <1>7, <1>8

(* The middle between two lines separates rows by itself.                  *)
LEMMA MidsForced ==
  ASSUME NEW lines, Even(lines), NEW ruled, Framed(ruled, lines), NEW p \in Neighbours(lines)
  PROVE LET rows == Supplement(ruled, TextOfLines(lines)) IN
          Mid(p) \in rows.bounds /\ Mid(p) \in rows.forced
<1> DEFINE text == TextOfLines(lines)
           all == ruled \cup text
           gap == MergeGap(all)
           final == ClusterPositions(all, gap)
           m == Mid(p)
<1>1. /\ IsFiniteSet(text) /\ IsFiniteSet(all) /\ all \in SUBSET Nat /\ Cardinality(text) >= 4
  BY BoundsFinite
<1>2. /\ m \in Nat /\ Apart(p) \in Nat /\ Apart(p) >= 1
      /\ \A q \in Neighbours(lines) : Apart(q) \in Nat
  BY MidNumbers
<1>3. m \in all
  BY DEF TextOfLines
<1>4. gap \in Nat /\ gap <= 30 * Apart(p)
  <2> DEFINE typical == TypicalGap(all)
             k == Apart(p)
  <2>1. PICK q \in Neighbours(lines) : typical \in Int /\ typical <= 60 * Apart(q)
    BY TypicalGapBound
  <2> DEFINE j == Apart(q)
  <2>2. 4 * j <= 5 * k
    BY DEF Even
  <2>3. j \in Nat /\ k \in Nat /\ k >= 1 /\ typical \in Int /\ typical <= 60 * j
    BY <1>2, <2>1
  <2> HIDE DEF j, k, typical
  <2>4. (4 * typical) \div 10 \in Int /\ (4 * typical) \div 10 <= 30 * k
    BY <2>2, <2>3
  <2>5. Larger(8, (4 * typical) \div 10) \in Nat /\ Larger(8, (4 * typical) \div 10) <= 30 * k
    BY <2>3, <2>4 DEF Larger
  <2> QED BY <2>5 DEF MergeGap, typical, k
<1>5. ASSUME NEW y \in all, y # m  PROVE Distance(y, m) > gap /\ Distance(m, y) > gap
  <2>1. y \in Nat /\ Distance(y, m) > 30 * Apart(p)
    BY <1>5, MidsAway
  <2> DEFINE k == Apart(p)
  <2>2. y \in Nat /\ Distance(y, m) > 30 * k /\ k \in Nat /\ gap \in Nat /\ gap <= 30 * k /\ m \in Nat
    BY <1>2, <1>4, <2>1
  <2> HIDE DEF k, gap, m
  <2> QED BY <2>2 DEF Distance
<1> HIDE DEF gap
<1>6. m \in final
  <2> HIDE DEF all, m
  <2> QED BY <1>1, <1>3, <1>4, <1>5, AloneStays
<1>7. m \notin ruled
  <2> SUFFICES ASSUME m \in ruled  PROVE FALSE
    OBVIOUS
  <2> DEFINE a == p[1]
             b == p[2]
             lo == Min(lines)
             hi == Max(lines)
  <2>1. PICK k \in Nat : m = 60 * k /\ (k <= lo \/ k > hi)
    BY DEF Framed, Spot
  <2>2. a \in Nat /\ b \in Nat /\ a < b /\ m = 30 * a + 30 * b + 30 /\ lo \in Nat /\ hi \in Nat /\ lo <= a /\ b <= hi
    BY MidNumbers
  <2> HIDE DEF a, b, lo, hi, m
  <2> QED BY <2>1, <2>2
<1>8. \A l \in ruled : Distance(m, l) > gap
  <2> HIDE DEF m
  <2> QED BY <1>5, <1>7
<1>9. ~(Bands(text) <= Bands(ruled) + 1)
  <2>1. Cardinality(ruled) \in Nat /\ Cardinality(ruled) <= 2 /\ Cardinality(text) \in Nat
    BY <1>1, FS_CardinalityType DEF Framed
  <2> HIDE DEF text
  <2> QED BY <1>1, <2>1 DEF Bands, Larger
<1>10. Supplement(ruled, text) =
         [bounds |-> final, forced |-> {b \in final : \A l \in ruled : Distance(b, l) > gap}]
  BY <1>9 DEF Supplement, gap
<1> HIDE DEF final
<1> QED BY <1>6, <1>8, <1>10

(* A word that counts for the ruled region is centred in its height: a     *)
(* line above or below touches its slack only.                             *)
LEMMA InsideCentred ==
  ASSUME NEW ink, InkOK(ink), NEW ws, Placed(ws), NEW w \in ws, Overlaps(WordBox(w), Region(ink))
  PROVE CenterDown(WordBox(w), Region(ink))
<1> DEFINE b == WordBox(w)
           r == Region(ink)
           i == w.line
           across == Larger(0, Smaller(b.x2, r.x2) - Larger(b.x1, r.x1))
           down == Larger(0, Smaller(b.y2, r.y2) - Larger(b.y1, r.y1))
<1>1. Rows \in Nat /\ Cols \in Nat
  BY SpotsAssumption
<1>2. PICK k, l \in 0 .. Cols, m, n \in 0 .. Rows : RegionIs(ink, k, l, m, n)
  BY RegionGrid
<1>3. /\ r.x1 = Larger(0, 60 * k - 14) /\ r.x2 = Smaller(60 * Cols, 60 * l + 14)
      /\ r.y1 = Larger(0, 60 * m - 14) /\ r.y2 = Smaller(60 * Rows, 60 * n + 14)
  BY <1>2 DEF RegionIs, Box, Spot
<1>4. /\ b.y1 = 60 * i + 12 /\ b.y2 = 60 * i + 48 /\ b.x1 \in Nat /\ b.x2 \in Nat /\ i \in 0 .. Rows - 1
      /\ b.x2 - b.x1 = 36
  <2>1. /\ b.x1 = 60 * w.col + 12 + w.shift /\ b.x2 = 60 * w.col + 48 + w.shift
        /\ b.y1 = 60 * w.line + 12 /\ b.y2 = 60 * w.line + 48 /\ b.x1 \in Nat /\ b.x2 \in Nat
    BY WordNumbers
  <2>2. w.col \in Int /\ w.shift \in Int /\ i \in 0 .. Rows - 1
    BY <1>1 DEF Placed
  <2> QED BY <2>1, <2>2
<1>5. 100 * (across * down) >= 30 * 1296
  <2>1. Area(b) = 1296
    <3>1. b.y2 - b.y1 = 36
      BY <1>1, <1>4
    <3> HIDE DEF b
    <3> QED BY <1>4, <3>1 DEF Area, Larger
  <2>2. Shared(b, r) = across * down
    BY DEF Shared
  <2> HIDE DEF across, down, b, r
  <2> QED BY <2>1, <2>2 DEF Overlaps, OverlapAtLeast, b, r
<1> HIDE DEF b, r, i
<1>6. across \in 0 .. 36
  BY <1>1, <1>3, <1>4 DEF Larger, Smaller
<1>7. down \notin {0, 1, 2}
  <2> HIDE DEF down
  <2>1. down # 0
    BY <1>5, <1>6
  <2>2. down # 1
    BY <1>5, <1>6
  <2>3. down # 2
    BY <1>5, <1>6
  <2> QED BY <2>1, <2>2, <2>3
<1>8. ~(i < m) /\ ~(i >= n)
  BY <1>1, <1>3, <1>4, <1>7 DEF Larger, Smaller
<1>9. 2 * r.y1 <= b.y1 + b.y2 /\ b.y1 + b.y2 <= 2 * r.y2
  BY <1>1, <1>3, <1>4, <1>8 DEF Larger, Smaller
<1> QED BY <1>9 DEF CenterDown, b, r

(* With ink along two boundaries at most, and none between the lines, no   *)
(* more than a frame is ruled.                                             *)
LEMMA RuledFrames ==
  ASSUME NEW ink, InkOK(ink), NEW lines, Cardinality({s[1] : s \in ink.h}) <= 2,
         \A s \in ink.h : s[1] <= Min(lines) \/ s[1] > Max(lines)
  PROVE Framed(Ruled(ink.h, Rows), lines)
<1> DEFINE K == {s[1] : s \in ink.h}
           U == {Spot * k : k \in K}
           first == [s \in ink.h |-> s[1]]
           f == [k \in K |-> Spot * k]
           ruled == Ruled(ink.h, Rows)
<1>1. Rows \in Nat /\ IsFiniteSet(ink.h)
  BY SpotsAssumption, InkFinite
<1>2. IsFiniteSet(K)
  <2>1. \A k \in K : \E s \in ink.h : first[s] = k
    OBVIOUS
  <2> HIDE DEF K, first
  <2> QED BY <1>1, <2>1, ImageFinite
<1>3. f \in Surjection(K, U)
  <2> HIDE DEF K
  <2> QED BY DEF Surjection
<1>4. IsFiniteSet(U) /\ Cardinality(U) <= Cardinality(K)
  <2> HIDE DEF K, U, f
  <2> QED BY <1>2, <1>3, FS_Surjection
<1>5. \A y \in ruled : \E k \in 0 .. Rows : y = Spot * k /\ \E s \in ink.h : s[1] = k
  BY <1>1, RuledHasInk
<1>6. ruled \in SUBSET U
  BY <1>5
<1>7. IsFiniteSet(ruled) /\ Cardinality(ruled) <= Cardinality(U)
  <2> HIDE DEF U, ruled
  <2> QED BY <1>4, <1>6, FS_Subset
<1>8. Cardinality(ruled) \in Nat /\ Cardinality(U) \in Nat /\ Cardinality(K) \in Nat /\ Cardinality(K) <= 2
  BY <1>2, <1>4, <1>7, FS_CardinalityType
<1>9. \A y \in ruled : \E k \in Nat : y = Spot * k /\ (k <= Min(lines) \/ k > Max(lines))
  BY <1>1, <1>5
<1> HIDE DEF K, U, ruled
<1>10. Cardinality(ruled) <= 2
  BY <1>4, <1>7, <1>8
<1> QED BY <1>7, <1>9, <1>10 DEF Framed, ruled

(* No cell reaches over a boundary that separates by itself.               *)
LEMMA ForcedSeparates ==
  ASSUME NEW grid, GridOK(grid), NEW ink, NEW ws, Structure(grid, ink, ws) # NoTable,
         NEW i \in 1 .. Len(grid.y), grid.y[i] \in grid.forcedY,
         NEW c \in Structure(grid, ink, ws).cells
  PROVE c.box.y2 <= grid.y[i] \/ grid.y[i] <= c.box.y1
<1> DEFINE A == Unseparated(grid, ink)
           base == BaseCells(grid)
           K == {q \in base : q[1] < i}
           L == {q \in base : ~(q[1] < i)}
<1>1. /\ IsFiniteSet(base) /\ A \in SUBSET (base \X base) /\ IsFiniteSet(A)
  BY UnseparatedOK
<1>2. PICK p \in base : c = CellOf(United(p, A), grid, ws)
  BY DEF Structure
<1>3. ASSUME NEW e \in A
      PROVE /\ e[1] \in base /\ e[2] \in base /\ e[1][1] \in Int /\ e[2][1] \in Int
            /\ e[2][1] = e[1][1] \/ (e[2][1] = e[1][1] + 1 /\ e[2][1] # i)
  <2>1. e \in base \X base
    BY <1>1
  <2>2. \/ e[2] = <<e[1][1], e[1][2] + 1>>
        \/ e[2] = <<e[1][1] + 1, e[1][2]>> /\ grid.y[e[2][1]] \notin grid.forcedY
    BY DEF Unseparated
  <2>3. e[1] \in base /\ e[2] \in base
    BY <2>1
  <2>4. e[1][1] \in Int /\ e[2][1] \in Int
    BY <2>3 DEF BaseCells
  <2>5. e[2][1] = e[1][1] \/ (e[2][1] = e[1][1] + 1 /\ grid.y[e[2][1]] \notin grid.forcedY)
    BY <2>2
  <2> QED BY <2>3, <2>4, <2>5
<1>4. Closed(K, A) /\ Closed(L, A)
  <2>1. i \in Int
    OBVIOUS
  <2>2. ASSUME NEW e \in A  PROVE e[1][1] < i <=> e[2][1] < i
    BY <1>3, <2>1
  <2> HIDE DEF A, base
  <2> QED BY <1>3, <2>2 DEF Closed
<1> DEFINE g == United(p, A)
<1>5. p \in g /\ g \in SUBSET base /\ (g \in SUBSET K \/ g \in SUBSET L)
  <2>1. Closed(base, A)
    BY <1>1 DEF Closed
  <2>2. p \in g /\ \A M : p \in M /\ Closed(M, A) => g \subseteq M
    BY <1>1, UnitedCloses
  <2>3. p \in K \/ p \in L
    OBVIOUS
  <2> HIDE DEF g, K, L, A, base
  <2> QED BY <1>2, <1>4, <2>1, <2>2, <2>3
<1>6. PICK r0, r1 \in 1 .. Len(grid.y) - 1, c0, c1 \in 1 .. Len(grid.x) - 1 :
        CellReaches(c, g, grid, r0, r1, c0, c1)
  BY <1>2, <1>5, CellOfReaches
<1>7. c.box.y1 = grid.y[r0] /\ c.box.y2 = grid.y[r1 + 1]
  BY <1>6 DEF CellReaches, Box
<1>8. (\E q \in g : q[1] = r0) /\ (\E q \in g : q[1] = r1)
  BY <1>6 DEF CellReaches
<1>9. /\ Len(grid.y) \in Nat
      /\ \A j, k \in 1 .. Len(grid.y) : j <= k => grid.y[j] <= grid.y[k]
  BY GridNumbers
<1> HIDE DEF g, base, A
<1>10. CASE g \in SUBSET K
  <2>1. r1 < i
    BY <1>8, <1>10
  <2>2. r1 + 1 \in 1 .. Len(grid.y) /\ r1 + 1 <= i
    BY <1>9, <2>1
  <2> QED BY <1>7, <1>9, <2>2
<1>11. CASE g \in SUBSET L
  <2>1. ~(r0 < i)
    BY <1>8, <1>11
  <2>2. r0 \in 1 .. Len(grid.y) /\ i <= r0
    BY <1>9, <2>1
  <2> QED BY <1>7, <1>9, <2>2
<1> QED BY <1>5, <1>10, <1>11

(* Words of different lines are in different cells: the middle of a gap    *)
(* between them separates.                                                 *)
LEMMA LinesApart ==
  ASSUME NEW ink, InkOK(ink), NEW ws, Placed(ws), \A w \in ws : Overlaps(WordBox(w), Region(ink)),
         Cardinality({w.line : w \in ws}) > 2,
         \A p, q \in Neighbours({w.line : w \in ws}) : 4 * Apart(p) <= 5 * Apart(q),
         Framed(Ruled(ink.h, Rows), {w.line : w \in ws}),
         Structure(Boundaries(ink, ws), ink, ws) # NoTable,
         NEW c \in Structure(Boundaries(ink, ws), ink, ws).cells,
         NEW v \in c.words, NEW w \in c.words
  PROVE ~(v.line < w.line)
<1> DEFINE lines == {u.line : u \in ws}
           ruled == Ruled(ink.h, Rows)
           rows == Supplement(ruled, TextOfLines(lines))
           grid == Boundaries(ink, ws)
<1>1. Rows \in Nat /\ lines \subseteq 0 .. Rows - 1 /\ IsFiniteSet(lines)
  BY LinesFinite, SpotsAssumption
<1>2. Even(lines) /\ lines \in SUBSET Int
  <2>1. lines \in SUBSET Nat /\ lines \in SUBSET Int
    BY <1>1
  <2> QED BY <1>1, <2>1 DEF Even
<1>3. RowTextBounds(ws) = TextOfLines(lines)
  <2>1. ~(Cardinality(lines) < 2)
    <3>1. Cardinality(lines) \in Nat /\ Cardinality(lines) > 2
      BY <1>1, FS_CardinalityType
    <3> HIDE DEF lines
    <3> QED BY <3>1
  <2> QED BY <2>1 DEF RowTextBounds, TextOfLines, Mid
<1>4. {u \in ws : CenterDown(WordBox(u), Region(ink))} = ws
  BY InsideCentred
<1>5. grid.y = Increasing(rows.bounds) /\ grid.forcedY = rows.forced
  BY <1>3, <1>4 DEF Boundaries
<1>6. rows.bounds \in SUBSET Int /\ IsFiniteSet(rows.bounds)
  <2> DEFINE hi == Spot * Rows
  <2>1. hi \in Nat /\ 0 \in Nat
    BY <1>1 DEF Spot
  <2>2. Between(ruled, 0, hi)
    BY <1>1, RuledWithin DEF Within
  <2>3. Between(RowTextBounds(ws), 0, hi)
    <3>1. \A u \in ws : 0 <= WordBox(u).y1 /\ WordBox(u).y2 <= hi
      BY <1>1, WordNumbers DEF Placed, Spot
    <3> HIDE DEF hi
    <3> QED BY <2>1, <3>1, RowBoundsWithin
  <2> HIDE DEF hi, ruled, lines
  <2>4. Between(rows.bounds, 0, hi)
    BY <1>3, <2>1, <2>2, <2>3, SupplementWithin
  <2> HIDE DEF rows
  <2>5. rows.bounds \in SUBSET (0 .. hi) /\ IsFiniteSet(rows.bounds)
    BY <2>4 DEF Between
  <2> QED BY <2>1, <2>5
<1> SUFFICES ASSUME v.line < w.line  PROVE FALSE
  OBVIOUS
<1>7. GridOK(grid)
  BY BoundariesOK
<1>8. /\ v \in ws /\ w \in ws /\ CenterDown(WordBox(v), c.box) /\ CenterDown(WordBox(w), c.box)
      /\ \E r0, r1 \in 1 .. Len(grid.y) - 1 : c.box.y1 = grid.y[r0] /\ c.box.y2 = grid.y[r1 + 1]
  <2> HIDE DEF grid
  <2>1. OfGrid(Structure(grid, ink, ws), grid, ws)
    BY <1>7, StructureOfGrid DEF grid
  <2>2. c \in Structure(grid, ink, ws).cells
    BY DEF grid
  <2>3. /\ c.words = CellWords(ws, c.box)
        /\ \E r0, r1 \in 1 .. Len(grid.y) - 1 : \E c0, c1 \in 1 .. Len(grid.x) - 1 :
             Spans(c, grid, r0, r1, c0, c1)
    BY <2>1, <2>2 DEF OfGrid
  <2> QED BY <2>3 DEF CellWords, CenterIn, Spans, Box
<1>9. v.line \in lines /\ w.line \in lines
  BY <1>8
<1>10. PICK p \in Neighbours(lines) : p[1] = v.line /\ p[2] <= w.line
  <2> HIDE DEF lines
  <2> QED BY <1>1, <1>2, <1>9, LineBelow
<1>11. Mid(p) \in rows.bounds /\ Mid(p) \in rows.forced
  <2> HIDE DEF lines, ruled
  <2> QED BY <1>2, MidsForced DEF lines, ruled
<1>12. PICK i \in 1 .. Len(grid.y) : grid.y[i] = Mid(p)
  <2> DEFINE S == rows.bounds
             m == Mid(p)
  <2>1. S \in SUBSET Int /\ IsFiniteSet(S) /\ m \in S
    BY <1>6, <1>11
  <2> HIDE DEF S, m, grid
  <2>2. Len(Increasing(S)) = Cardinality(S) /\ \E i \in 1 .. Cardinality(S) : Increasing(S)[i] = m
    BY <2>1, Sorted
  <2>3. grid.y = Increasing(S)
    BY <1>5 DEF S
  <2> QED BY <2>2, <2>3 DEF m
<1>13. c.box.y2 <= Mid(p) \/ Mid(p) <= c.box.y1
  <2>1. grid.y[i] \in grid.forcedY
    BY <1>5, <1>11, <1>12
  <2>2. c.box.y2 <= grid.y[i] \/ grid.y[i] <= c.box.y1
    <3>1. Structure(grid, ink, ws) # NoTable /\ c \in Structure(grid, ink, ws).cells
      OBVIOUS
    <3> HIDE DEF grid
    <3> QED BY <1>7, <2>1, <3>1, ForcedSeparates
  <2> QED BY <1>12, <2>2
<1>14. c.box.y1 \in Int /\ c.box.y2 \in Int
  <2> HIDE DEF grid
  <2>1. PICK r0, r1 \in 1 .. Len(grid.y) - 1 : c.box.y1 = grid.y[r0] /\ c.box.y2 = grid.y[r1 + 1]
    BY <1>8
  <2>2. Len(grid.y) \in Nat /\ \A j \in 1 .. Len(grid.y) : grid.y[j] \in Int
    BY <1>7, GridNumbers
  <2> QED BY <2>1, <2>2
<1>15. /\ WordBox(v).y1 + WordBox(v).y2 = 120 * v.line + 60
       /\ WordBox(w).y1 + WordBox(w).y2 = 120 * w.line + 60
       /\ v.line \in Nat /\ w.line \in Nat
  <2>1. ASSUME NEW u \in ws
        PROVE u.line \in Nat /\ WordBox(u).y1 + WordBox(u).y2 = 120 * u.line + 60
    <3> DEFINE k == u.line
    <3>1. k \in Nat
      BY <1>1 DEF Placed
    <3>2. WordBox(u).y1 = 60 * k + 12 /\ WordBox(u).y2 = 60 * k + 48
      BY WordNumbers
    <3> HIDE DEF k
    <3>3. WordBox(u).y1 + WordBox(u).y2 = 120 * k + 60
      BY <3>1, <3>2
    <3> QED BY <3>1, <3>3 DEF k
  <2> QED BY <1>8, <2>1
<1> DEFINE a == v.line
           b == w.line
           n == p[2]
           m == Mid(p)
           top == c.box.y1
           bottom == c.box.y2
<1>16. m = 30 * a + 30 * n + 30 /\ n \in Nat /\ a < n /\ n <= b
  BY <1>2, <1>10, MidNumbers
<1>17. /\ 2 * top <= 120 * a + 60 /\ 120 * a + 60 <= 2 * bottom
       /\ 2 * top <= 120 * b + 60 /\ 120 * b + 60 <= 2 * bottom
  BY <1>8, <1>15 DEF CenterDown
<1>18. top \in Int /\ bottom \in Int /\ a \in Nat /\ b \in Nat /\ (bottom <= m \/ m <= top)
  BY <1>13, <1>14, <1>15
<1> HIDE DEF a, b, n, m, top, bottom
<1> QED BY <1>16, <1>17, <1>18

(* What kind a table is does not depend on its being scaled.               *)
LEMMA MethodsOf ==
  ASSUME NEW p
  PROVE /\ \A t \in UnruledTables(p, RuledTables(p)) : t.method = "ocr_fallback"
        /\ \A t \in RuledTables(p) :
             LET inside == {w \in p.words : Overlaps(WordBox(w), Region(p.ink))}
                 found == Structure(Boundaries(p.ink, inside), p.ink, inside)
             IN /\ p.ink.h \cup p.ink.v # {} /\ found # NoTable /\ t.cells = found.cells
<1> DEFINE ruled == RuledTables(p)
           rest == {w \in p.words : ~\E u \in ruled : CenterIn(WordBox(w), u.box)}
           inside == {w \in p.words : Overlaps(WordBox(w), Region(p.ink))}
           grid == Boundaries(p.ink, inside)
           found == Structure(grid, p.ink, inside)
<1>1. ASSUME NEW t \in UnruledTables(p, ruled)  PROVE t.method = "ocr_fallback"
  <2>1. PICK u \in BorderlessTables(rest, p.numeric) : t = ClampToA4(u, p.a4)
    BY DEF UnruledTables
  <2> HIDE DEF rest, ruled
  <2>2. PICK rows \in Runs(rest) : u = FromRows(rows, SharedBands(rows, rest), rest)
    BY DEF BorderlessTables
  <2>3. DOMAIN u = {"method", "box", "cells"} /\ u.method = "ocr_fallback"
    BY <2>2 DEF FromRows
  <2> HIDE DEF found, grid, inside
  <2> QED BY <2>1, <2>3 DEF ClampToA4
<1>2. ASSUME NEW t \in ruled
      PROVE p.ink.h \cup p.ink.v # {} /\ found # NoTable /\ t.cells = found.cells
  <2>1. p.ink.h \cup p.ink.v # {}
    BY DEF RuledTables
  <2>2. ruled = {ClampToA4(u, p.a4) : u \in {Structure(g, p.ink, inside) : g \in {grid}} \ {NoTable}}
    BY <2>1 DEF RuledTables
  <2>3. {Structure(g, p.ink, inside) : g \in {grid}} = {found}
    OBVIOUS
  <2> HIDE DEF ruled, inside
  <2>4. found # NoTable /\ t = ClampToA4(found, p.a4)
    BY <2>2, <2>3
  <2>5. DOMAIN found = {"method", "cells", "box"}
    BY <2>4 DEF Structure
  <2> HIDE DEF found, grid
  <2>6. t.cells = found.cells
    BY <2>4, <2>5 DEF ClampToA4
  <2> QED BY <2>1, <2>4, <2>6
<1> HIDE DEF found, grid, inside, ruled
<1> QED BY <1>1, <1>2 DEF found, grid, inside, ruled

(* UnruledRowsStayApart: where only the columns and perhaps a frame are    *)
(* ruled, values of three or more lines of roughly even distances are in   *)
(* cells of their own (tables/opencv_engine.py, _supplement_sparse_axis).  *)
THEOREM RowsStayApart == Spec => []UnruledRowsStayApart
<1>1. IInv /\ Built => UnruledRowsStayApart
  <2> DEFINE inside == {w \in page.words : Overlaps(WordBox(w), Region(page.ink))}
             lines == {w.line : w \in inside}
  <2> SUFFICES ASSUME IInv, Built, NEW t \in tables, t.method = "opencv_lines", Cardinality(lines) > 2,
                      Cardinality({s[1] : s \in page.ink.h}) <= 2,
                      \A s \in page.ink.h : s[1] <= Min(lines) \/ s[1] > Max(lines),
                      \A p, q \in Neighbours(lines) : 4 * Apart(p) <= 5 * Apart(q),
                      NEW c \in t.cells
               PROVE Cardinality({w.line : w \in c.words}) <= 1
    BY DEF UnruledRowsStayApart, Apart
  <2>1. t \in RuledTables(page) /\ page \in Pages
    BY MethodsOf DEF Built
  <2> DEFINE found == Structure(Boundaries(page.ink, inside), page.ink, inside)
  <2>2. page.ink.h \cup page.ink.v # {} /\ found # NoTable /\ c \in found.cells
    BY <2>1, MethodsOf
  <2>3. InkOK(page.ink) /\ Placed(inside)
    <3>1. InkIn(page.ink)
      BY <2>1, PagesAssumption DEF InkIn
    <3>2. Placed(inside)
      BY SomePlaced DEF IInv, PageOK
    <3> HIDE DEF inside
    <3> QED BY <2>2, <3>1, <3>2 DEF InkOK, InkIn
  <2>4. Framed(Ruled(page.ink.h, Rows), lines)
    BY <2>3, RuledFrames
  <2>5. \A w \in inside : Overlaps(WordBox(w), Region(page.ink))
    OBVIOUS
  <2>6. \A w \in c.words : w \in inside /\ w.line \in Int
    <3> DEFINE grid == Boundaries(page.ink, inside)
    <3>1. GridOK(grid)
      BY <2>3, BoundariesOK
    <3>2. OfGrid(found, grid, inside)
      <4> HIDE DEF inside
      <4> QED BY <2>2, <3>1, StructureOfGrid
    <3> HIDE DEF grid, found
    <3>3. c.words = CellWords(inside, c.box)
      BY <2>2, <3>2 DEF OfGrid
    <3>4. Rows \in Nat
      BY SpotsAssumption
    <3> HIDE DEF inside
    <3> QED BY <2>3, <3>3, <3>4 DEF CellWords, Placed
  <2> HIDE DEF inside
  <2>7. \A v, w \in c.words : ~(v.line < w.line)
    BY <2>2, <2>3, <2>4, <2>5, LinesApart
  <2> DEFINE held == {w.line : w \in c.words}
  <2>8. \A x, y \in held : x = y
    BY <2>6, <2>7
  <2> HIDE DEF held
  <2>9. Cardinality(held) <= 1
    BY <2>8, AtMostOne
  <2> QED BY <2>9 DEF held
<1> QED BY <1>1, PageShape, BuiltHolds, PTL
=============================================================================
