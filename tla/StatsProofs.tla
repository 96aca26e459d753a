------------------------------ MODULE StatsProofs ------------------------------
(***************************************************************************)
(* Proofs about src/stats.c, for any samples, any capacities and any order *)
(* of calls (module Stats): the array is never overrun, the sorted flag is *)
(* never wrong, the figures of a summary are in order, and every answer is *)
(* the one that counting in a bag gives (module SampleBag).  The argument  *)
(* has three parts: every sequence of naturals can be sorted, a percentile *)
(* of a sorted sequence grows with its fraction, and the place of a sample *)
(* in the sorted sequence says how many samples are not above it.          *)
(***************************************************************************)
EXTENDS Stats, FiniteSetTheorems, SequenceTheorems, WellFoundedInduction, TLAPS

\* A set of naturals that is not empty has a least element.
LEMMA LeastElement ==
  ASSUME NEW S \in SUBSET Nat, S # {}
  PROVE  \E n \in S : \A m \in S : n <= m
<1>1. PICK n \in S : \A m \in S : <<m, n>> \notin OpToRel(<, Nat)
  BY NatLessThanWellFounded, WFMin
<1>2. \A m \in S : ~ (m < n)
  BY <1>1 DEF OpToRel
<1> QED BY <1>2

\* The places of a sequence that hold one of some samples.
At(s, V) == {i \in 1..Len(s) : s[i] \in V}

LEMMA AtFinite ==
  ASSUME NEW s, Len(s) \in Nat, NEW V
  PROVE  IsFiniteSet(At(s, V)) /\ Cardinality(At(s, V)) \in 0..Len(s)
<1>1. IsFiniteSet(1..Len(s)) /\ Cardinality(1..Len(s)) = Len(s)
  <2>1. /\ IsFiniteSet(1..Len(s))
        /\ Cardinality(1..Len(s)) = IF 1 > Len(s) THEN 0 ELSE Len(s) - 1 + 1
    BY FS_Interval
  <2> QED BY <2>1
<1>2. At(s, V) \in SUBSET (1..Len(s))
  BY DEF At
<1>3. IsFiniteSet(At(s, V)) /\ Cardinality(At(s, V)) <= Len(s)
  BY <1>1, <1>2, FS_Subset
<1>4. Cardinality(At(s, V)) \in Nat
  BY <1>3, FS_CardinalityType
<1> QED BY <1>3, <1>4

\* Functions on 1..n are the sequences of length n.
LEMMA FunctionIsSeq ==
  ASSUME NEW S, NEW n \in Nat, NEW s \in [1..n -> S]
  PROVE  s \in Seq(S) /\ Len(s) = n
  OBVIOUS

\* One more sample at the end of a sequence.
LEMMA AtAppend ==
  ASSUME NEW n \in Nat, NEW s, NEW r, Len(s) = n, Len(r) = n + 1,
         \A i \in 1..n : r[i] = s[i], NEW V
  PROVE  Cardinality(At(r, V)) = Cardinality(At(s, V)) + IF r[n + 1] \in V THEN 1 ELSE 0
<1>1. IsFiniteSet(At(s, V)) /\ n + 1 \notin At(s, V)
  <2>1. IsFiniteSet(At(s, V))
    BY AtFinite
  <2>2. n + 1 \notin At(s, V)
    BY DEF At
  <2> QED BY <2>1, <2>2
<1>2. CASE r[n + 1] \in V
  <2>1. At(r, V) = At(s, V) \cup {n + 1}
    BY <1>2 DEF At
  <2>2. Cardinality(At(s, V) \cup {n + 1})
          = IF n + 1 \in At(s, V) THEN Cardinality(At(s, V)) ELSE Cardinality(At(s, V)) + 1
    BY <1>1, FS_AddElement
  <2> QED BY <2>1, <2>2, <1>1, <1>2
<1>3. CASE r[n + 1] \notin V
  <2>1. At(r, V) = At(s, V)
    BY <1>3 DEF At
  <2>2. Cardinality(At(s, V)) \in Nat
    BY AtFinite
  <2> QED BY <2>1, <2>2, <1>3
<1> QED BY <1>2, <1>3

\* A sample put at the place k of a sequence moves the later ones on.
Inserted(s, k, x) ==
    [i \in 1..Len(s) + 1 |-> IF i < k THEN s[i] ELSE IF i = k THEN x ELSE s[i - 1]]

LEMMA AtInserted ==
  ASSUME NEW n \in Nat, NEW s, Len(s) = n, NEW k \in 1..n + 1, NEW x, NEW V
  PROVE  Cardinality(At(Inserted(s, k, x), V))
           = Cardinality(At(s, V)) + IF x \in V THEN 1 ELSE 0
<1> DEFINE t == Inserted(s, k, x)
           A == At(s, V)
           B == At(t, V) \ {k}
           g == [i \in A |-> IF i < k THEN i ELSE i + 1]
<1>1. /\ Len(t) = n + 1
      /\ \A i \in 1..n + 1 : t[i] = IF i < k THEN s[i] ELSE IF i = k THEN x ELSE s[i - 1]
  BY DEF Inserted
<1>2. IsFiniteSet(A) /\ Cardinality(A) \in Nat
  BY AtFinite
<1> HIDE DEF t
<1>3. g \in Bijection(A, B)
  <2>1. \A i \in A : i \in 1..n /\ s[i] \in V
    BY DEF At
  <2>2. \A i \in A : (IF i < k THEN i ELSE i + 1) \in B
    BY <1>1, <2>1 DEF At
  <2>3. g \in Injection(A, B)
    BY <2>1, <2>2 DEF Injection, IsInjective
  <2>4. ASSUME NEW j \in B PROVE \E i \in A : g[i] = j
    <3>1. j \in 1..n + 1 /\ t[j] \in V /\ j # k
      BY <1>1 DEF At
    <3>2. CASE j < k
      <4>1. j \in A /\ g[j] = j
        BY <1>1, <3>1, <3>2 DEF At
      <4> QED BY <4>1
    <3>3. CASE k < j
      <4>1. j - 1 \in A /\ g[j - 1] = j
        BY <1>1, <3>1, <3>3 DEF At
      <4> QED BY <4>1
    <3> QED BY <3>1, <3>2, <3>3
  <2> QED BY <2>3, <2>4 DEF Bijection, Surjection, Injection
<1>4. IsFiniteSet(B) /\ Cardinality(B) = Cardinality(A)
  BY <1>2, <1>3, FS_Bijection DEF ExistsBijection
<1>5. CASE x \in V
  <2>1. At(t, V) = B \cup {k} /\ k \notin B
    BY <1>1, <1>5 DEF At
  <2>2. Cardinality(B \cup {k}) = IF k \in B THEN Cardinality(B) ELSE Cardinality(B) + 1
    BY <1>4, FS_AddElement
  <2> QED BY <2>1, <2>2, <1>4, <1>5 DEF t
<1>6. CASE x \notin V
  <2>1. At(t, V) = B
    BY <1>1, <1>6 DEF At
  <2> QED BY <2>1, <1>2, <1>4, <1>6, SMTT(30) DEF t
<1> QED BY <1>5, <1>6

\* t holds the samples of s in ascending order.
IsSortingOf(s, t) ==
    /\ t \in [1..Len(s) -> ToSet(s)]
    /\ IsAscending(t)
    /\ \A v \in ToSet(s) : Count(t, v) = Count(s, v)

LEMMA CountIsAt ==
  ASSUME NEW s, NEW v
  PROVE  Count(s, v) = Cardinality(At(s, {v}))
<1>1. {i \in 1..Len(s) : s[i] = v} = At(s, {v})
  BY DEF At
<1> QED BY <1>1 DEF Count

\* A sorting has as many of every sample, also of those that are not there.
LEMMA SortingCounts ==
  ASSUME NEW s, NEW t, Len(s) \in Nat, IsSortingOf(s, t), NEW v
  PROVE  Count(t, v) = Count(s, v)
<1>1. CASE v \in ToSet(s)
  BY <1>1 DEF IsSortingOf
<1>2. CASE v \notin ToSet(s)
  <2>1. Len(t) = Len(s)
    BY FunctionIsSeq DEF IsSortingOf
  <2>2. At(s, {v}) = {} /\ At(t, {v}) = {}
    BY <1>2, <2>1 DEF At, ToSet, IsSortingOf
  <2> QED BY <2>2, CountIsAt
<1> QED BY <1>1, <1>2

\* Putting the next sample before the first that is greater keeps the order.
LEMMA InsertionStep ==
  ASSUME NEW n \in Nat, NEW s \in [1..n + 1 -> Nat], NEW t,
         IsSortingOf([i \in 1..n |-> s[i]], t)
  PROVE  \E u : IsSortingOf(s, u)
<1> DEFINE f == [i \in 1..n |-> s[i]]
           x == s[n + 1]
           Later == {i \in 1..n + 1 : i = n + 1 \/ x < t[i]}
<1>1. f \in [1..n -> Nat] /\ Len(f) = n /\ Len(s) = n + 1
  BY FunctionIsSeq
<1>2. ToSet(f) \subseteq ToSet(s) /\ x \in ToSet(s) /\ ToSet(s) \subseteq Nat
  BY <1>1 DEF ToSet
<1>3. t \in [1..n -> ToSet(f)] /\ Len(t) = n
  BY <1>1, FunctionIsSeq DEF IsSortingOf
<1>4. PICK k \in Later : \A m \in Later : k <= m
  <2>1. Later \in SUBSET Nat /\ n + 1 \in Later
    OBVIOUS
  <2> QED BY <2>1, LeastElement
<1> DEFINE u == Inserted(t, k, x)
<1>5. /\ k \in 1..n + 1
      /\ k # n + 1 => x < t[k]
      /\ \A i \in 1..k - 1 : t[i] <= x
  <2>1. k \in 1..n + 1 /\ (k = n + 1 \/ x < t[k])
    BY <1>4
  <2>2. x \in Nat /\ \A i \in 1..n : t[i] \in Nat
    BY <1>2, <1>3
  <2>3. ASSUME NEW i \in 1..k - 1 PROVE t[i] <= x
    <3>1. i \in 1..n /\ i < k
      BY <2>1
    <3>2. i \notin Later
      BY <1>4, <2>1, <3>1
    <3> QED BY <2>2, <3>1, <3>2
  <2> QED BY <2>1, <2>3
<1>6. /\ Len(u) = n + 1
      /\ u \in [1..n + 1 -> ToSet(s)]
      /\ \A i \in 1..n + 1 : u[i] = IF i < k THEN t[i] ELSE IF i = k THEN x ELSE t[i - 1]
  <2>1. ASSUME NEW i \in 1..n + 1
        PROVE  (IF i < k THEN t[i] ELSE IF i = k THEN x ELSE t[i - 1]) \in ToSet(s)
    <3>1. i < k => i \in 1..n
      BY <1>5
    <3>2. ~ (i < k) /\ i # k => i - 1 \in 1..n
      BY <1>5
    <3> QED BY <3>1, <3>2, <1>2, <1>3
  <2>2. u = [i \in 1..n + 1 |-> IF i < k THEN t[i] ELSE IF i = k THEN x ELSE t[i - 1]]
    BY <1>3 DEF Inserted
  <2>3. u \in [1..n + 1 -> ToSet(s)]
    BY <2>1, <2>2
  <2> HIDE DEF u
  <2> QED BY <2>2, <2>3, FunctionIsSeq
<1> HIDE DEF u, x, f
<1>7. IsAscending(u)
  <2>1. \A i \in 1..n - 1 : t[i] <= t[i + 1]
    BY <1>3 DEF IsSortingOf, IsAscending, f
  <2>2. \A i \in 1..n : t[i] \in Nat
    BY <1>2, <1>3
  <2>3. x \in Nat
    BY <1>2
  <2>4. ASSUME NEW i \in 1..n PROVE u[i] <= u[i + 1]
    <3>1. CASE i + 1 < k
      <4>1. u[i] = t[i] /\ u[i + 1] = t[i + 1] /\ i \in 1..n - 1
        BY <3>1, <1>5, <1>6
      <4> QED BY <4>1, <2>1
    <3>2. CASE i + 1 = k
      <4>1. u[i] = t[i] /\ u[i + 1] = x /\ i \in 1..k - 1
        BY <3>2, <1>5, <1>6
      <4> QED BY <4>1, <1>5
    <3>3. CASE i = k
      <4>1. u[i] = x /\ u[i + 1] = t[i] /\ k # n + 1
        BY <3>3, <1>5, <1>6
      <4> QED BY <4>1, <3>3, <1>5, <2>2, <2>3
    <3>4. CASE k < i
      <4>1. u[i] = t[i - 1] /\ u[i + 1] = t[i] /\ i - 1 \in 1..n - 1
        BY <3>4, <1>5, <1>6, SMTT(30)
      <4> QED BY <4>1, <2>1
    <3> QED BY <3>1, <3>2, <3>3, <3>4, <1>5
  <2> QED BY <2>4, <1>6 DEF IsAscending
<1>8. ASSUME NEW v PROVE Count(u, v) = Count(s, v)
  <2>1. Cardinality(At(u, {v})) = Cardinality(At(t, {v})) + IF x \in {v} THEN 1 ELSE 0
    BY <1>3, <1>5, AtInserted DEF u
  <2>2. Cardinality(At(s, {v})) = Cardinality(At(f, {v})) + IF x \in {v} THEN 1 ELSE 0
    <3>1. \A i \in 1..n : s[i] = f[i]
      BY DEF f
    <3> QED BY <3>1, <1>1, AtAppend DEF x
  <2>3. Count(t, v) = Count(f, v)
    BY <1>1, SortingCounts DEF f
  <2> QED BY <2>1, <2>2, <2>3, CountIsAt
<1> QED BY <1>1, <1>6, <1>7, <1>8 DEF IsSortingOf

\* Every sequence of numbers has a sorting.
LEMMA SortingExists ==
  ASSUME NEW s \in Seq(Nat)
  PROVE  \E t : IsSortingOf(s, t)
<1> DEFINE Bad == {n \in Nat : \E r \in [1..n -> Nat] : ~ \E t : IsSortingOf(r, t)}
<1>1. Bad = {}
  <2> SUFFICES ASSUME Bad # {} PROVE FALSE
    OBVIOUS
  <2>1. PICK n \in Bad : \A m \in Bad : n <= m
    BY LeastElement
  <2>2. PICK r \in [1..n -> Nat] : ~ \E t : IsSortingOf(r, t)
    BY <2>1
  <2>3. CASE n = 0
    <3>1. Len(r) = 0 /\ r \in [1..0 -> ToSet(r)]
      BY <2>3, FunctionIsSeq
    <3>2. IsSortingOf(r, r)
      BY <3>1 DEF IsSortingOf, IsAscending
    <3> QED BY <3>2, <2>2
  <2>4. CASE n # 0
    <3>1. PICK m \in Nat : n = m + 1
      <4>1. n \in Nat
        BY <2>1
      <4>2. n - 1 \in Nat /\ n = (n - 1) + 1
        BY <4>1, <2>4
      <4> QED BY <4>2
    <3>2. m \notin Bad
      <4> HIDE DEF Bad
      <4> QED BY <2>1, <3>1
    <3>3. [i \in 1..m |-> r[i]] \in [1..m -> Nat]
      BY <3>1
    <3>4. PICK t : IsSortingOf([i \in 1..m |-> r[i]], t)
      BY <3>2, <3>3
    <3>5. \E u : IsSortingOf(r, u)
      BY <3>1, <3>4, InsertionStep
    <3> QED BY <3>5, <2>2
  <2> QED BY <2>3, <2>4
<1>2. s \in [1..Len(s) -> Nat] /\ Len(s) \in Nat
  OBVIOUS
<1> QED BY <1>1, <1>2

\* What qsort leaves is ascending, of the same length and with the same samples.
LEMMA AscendingSorts ==
  ASSUME NEW s \in Seq(Nat)
  PROVE  IsSortingOf(s, Ascending(s))
<1>1. PICK t : IsSortingOf(s, t)
  BY SortingExists
<1> QED BY <1>1 DEF IsSortingOf, Ascending

-----------------------------------------------------------------------------
(* Quotients, and the place a percentile is found at. *)

LEMMA DivMod ==
  ASSUME NEW a \in Nat, NEW d \in Nat \ {0}
  PROVE  /\ a \div d \in Nat
         /\ a % d \in 0..d - 1
         /\ a = d * (a \div d) + (a % d)
<1>1. a \div d \in Nat
  OBVIOUS
<1>2. a % d \in 0..d - 1
  OBVIOUS
<1>3. a = d * (a \div d) + (a % d)
  OBVIOUS
<1> QED BY <1>1, <1>2, <1>3

LEMMA DivOf ==
  ASSUME NEW d \in Nat \ {0}, NEW q \in Nat, NEW r \in 0..d - 1
  PROVE  (d * q + r) \div d = q /\ (d * q + r) % d = r
  OBVIOUS

\* A smaller fraction has a smaller integral part.
LEMMA DivMonotone ==
  ASSUME NEW a \in Nat, NEW b \in Nat \ {0}, NEW c \in Nat, NEW d \in Nat \ {0},
         a * d <= c * b
  PROVE  a \div b <= c \div d
<1> DEFINE q == a \div b
<1>1. q \in Nat /\ b * q <= a
  OBVIOUS
<1> HIDE DEF q
<1>2. (b * q) * d <= a * d
  BY <1>1
<1>3. b * (d * q) = (b * q) * d
  BY <1>1
<1>4. b * (d * q) <= b * c
  BY <1>1, <1>2, <1>3
<1>5. d * q <= c
  BY <1>1, <1>4
<1> QED BY <1>1, <1>5 DEF q

\* A proper part of a height is not more than the height.
LEMMA PartOf ==
  ASSUME NEW h \in Nat, NEW d \in Nat \ {0}, NEW r \in 0..d - 1
  PROVE  (r * h) \div d \in 0..h
<1>1. r * h \in Nat /\ r * h <= d * h
  OBVIOUS
<1>2. (r * h) \div d \in Nat
  BY <1>1
<1>3. (r * h) \div d <= h
  BY <1>1
<1> QED BY <1>2, <1>3

IsFraction(f) == f[1] \in Nat /\ f[2] \in Nat \ {0} /\ f[1] <= f[2]

\* The sample below the place of a percentile among n, and the part of the way to
\* the next one, in units of the denominator.
Below(f, n) == (f[1] * (n - 1)) \div f[2]
Rest(f, n) == (f[1] * (n - 1)) % f[2]

\* The place is within the samples, and so is the next one when it is needed.
LEMMA PlaceInside ==
  ASSUME NEW f, IsFraction(f), NEW n \in Nat \ {0}
  PROVE  /\ Below(f, n) \in 0..n - 1
         /\ Rest(f, n) \in 0..f[2] - 1
         /\ Rest(f, n) # 0 => Below(f, n) + 1 <= n - 1
         /\ f[1] * (n - 1) = f[2] * Below(f, n) + Rest(f, n)
<1> DEFINE p == f[1] * (n - 1)
<1>1. PICK a \in Nat, d \in Nat \ {0}, m \in Nat : a = f[1] /\ d = f[2] /\ m = n - 1
  BY DEF IsFraction
<1>2. p \in Nat /\ a <= d /\ p = a * m
  BY <1>1 DEF IsFraction
<1>3. p <= d * m
  BY <1>2
<1> HIDE DEF p
<1>4. PICK q \in Nat, r \in 0..d - 1 : q = p \div d /\ r = p % d /\ p = d * q + r
  BY <1>2, DivMod
<1>5. d * q <= d * m
  BY <1>2, <1>3, <1>4
<1>6. q <= m
  BY <1>5
<1>7. r # 0 => d * q < d * m
  BY <1>2, <1>3, <1>4
<1>8. r # 0 => q < m
  BY <1>7
<1> QED BY <1>1, <1>4, <1>6, <1>8 DEF Below, Rest, p

\* The ends are percentiles like the others.
LEMMA PercentileIs ==
  ASSUME NEW f, IsFraction(f), NEW s, Len(s) \in Nat \ {0}
  PROVE  LET lo == s[Below(f, Len(s)) + 1]
             hi == s[Below(f, Len(s)) + 2]
         IN  PercentileOf(s, f) = IF Rest(f, Len(s)) = 0
                                    THEN lo
                                    ELSE lo + (Rest(f, Len(s)) * (hi - lo)) \div f[2]
<1>1. PICK n \in Nat \ {0} : n = Len(s)
  OBVIOUS
<1>2. PICK a \in Nat, d \in Nat \ {0} : a = f[1] /\ d = f[2] /\ a <= d
  BY DEF IsFraction
<1>3. CASE a = 0
  <2>1. a * (n - 1) = 0 /\ 0 \div d = 0 /\ 0 % d = 0
    BY <1>3
  <2> QED BY <1>1, <1>2, <1>3, <2>1 DEF PercentileOf, Smallest, Below, Rest
<1>4. CASE a # 0 /\ a = d
  <2>0. PICK m \in Nat : m = n - 1
    OBVIOUS
  <2>1. a * m = d * m + 0
    BY <1>4
  <2>2. (d * m + 0) \div d = m /\ (d * m + 0) % d = 0
    <3>1. 0 \in 0..d - 1
      OBVIOUS
    <3> QED BY <3>1, DivOf
  <2>3. Below(f, n) = n - 1 /\ Rest(f, n) = 0
    BY <1>2, <2>0, <2>1, <2>2 DEF Below, Rest
  <2>4. PercentileOf(s, f) = s[n]
    BY <1>1, <1>2, <1>4 DEF PercentileOf, Largest
  <2> QED BY <1>1, <2>3, <2>4
<1>5. CASE a # 0 /\ a # d
  BY <1>1, <1>2, <1>5 DEF PercentileOf, Between, Below, Rest
<1> QED BY <1>3, <1>4, <1>5

-----------------------------------------------------------------------------
(* Percentiles of an ascending array. *)

LEMMA AscendingPairs ==
  ASSUME NEW n \in Nat, NEW s \in [1..n -> Nat], IsAscending(s),
         NEW i \in 1..n, NEW j \in i..n
  PROVE  s[i] <= s[j]
<1> DEFINE Bad == {k \in i..n : ~ (s[i] <= s[k])}
<1>1. Bad = {}
  <2> SUFFICES ASSUME Bad # {} PROVE FALSE
    OBVIOUS
  <2>1. PICK k \in Bad : \A m \in Bad : k <= m
    <3>1. Bad \in SUBSET Nat
      OBVIOUS
    <3> QED BY <3>1, LeastElement
  <2>2. k \in i..n /\ k # i /\ ~ (s[i] <= s[k])
    OBVIOUS
  <2>3. k - 1 \in i..n /\ k - 1 \notin Bad
    BY <2>1, <2>2
  <2>4. s[i] <= s[k - 1]
    BY <2>3
  <2>5. s[k - 1] <= s[k]
    <3>1. k - 1 \in 1..n - 1 /\ Len(s) = n
      BY <2>2
    <3>2. s[k - 1] <= s[(k - 1) + 1]
      BY <3>1 DEF IsAscending
    <3> QED BY <3>2, <2>2
  <2> QED BY <2>2, <2>3, <2>4, <2>5
<1> QED BY <1>1

\* A percentile lies between the two samples around its place.
LEMMA PercentileBetween ==
  ASSUME NEW n \in Nat \ {0}, NEW s \in [1..n -> Nat], IsAscending(s),
         NEW f, IsFraction(f)
  PROVE  /\ PercentileOf(s, f) \in Nat
         /\ s[Below(f, n) + 1] <= PercentileOf(s, f)
         /\ Rest(f, n) = 0 => PercentileOf(s, f) = s[Below(f, n) + 1]
         /\ Rest(f, n) # 0 => PercentileOf(s, f) <= s[Below(f, n) + 2]
<1>1. PICK q \in 0..n - 1, d \in Nat \ {0} : q = Below(f, n) /\ d = f[2]
  BY PlaceInside DEF IsFraction
<1>2. PICK r \in 0..d - 1 : r = Rest(f, n) /\ (r # 0 => q + 1 <= n - 1)
  BY <1>1, PlaceInside
<1>3. Len(s) = n
  OBVIOUS
<1>4. PICK lo \in Nat : lo = s[q + 1]
  BY <1>1
<1>5. CASE r = 0
  <2>1. PercentileOf(s, f) = lo
    BY <1>1, <1>2, <1>3, <1>4, <1>5, PercentileIs
  <2> QED BY <2>1, <1>1, <1>2, <1>4, <1>5
<1>6. CASE r # 0
  <2>1. PICK hi \in Nat : hi = s[q + 2] /\ lo <= hi
    <3>0. q \in Nat /\ q + 1 <= n - 1
      BY <1>1, <1>2, <1>6
    <3>1. q + 1 \in 1..n /\ q + 2 \in (q + 1)..n
      BY <3>0
    <3>2. s[q + 1] <= s[q + 2] /\ s[q + 2] \in Nat
      BY <3>1, AscendingPairs, SMTT(30)
    <3> QED BY <3>2, <1>4
  <2>2. PercentileOf(s, f) = lo + (r * (hi - lo)) \div d
    BY <1>1, <1>2, <1>3, <1>4, <1>6, <2>1, PercentileIs
  <2>3. PICK h \in Nat : h = hi - lo
    BY <2>1
  <2>4. PICK part \in 0..h : part = (r * h) \div d
    BY PartOf
  <2>5. PercentileOf(s, f) \in Nat /\ lo <= PercentileOf(s, f) /\ PercentileOf(s, f) <= hi
    <3>1. PercentileOf(s, f) = lo + part
      BY <2>2, <2>3, <2>4
    <3> QED BY <3>1, <2>1, <2>3
  <2> QED BY <2>1, <2>5, <1>1, <1>2, <1>4, <1>6
<1> QED BY <1>5, <1>6

\* A greater percentile is not a smaller sample.
LEMMA PercentileMonotone ==
  ASSUME NEW n \in Nat \ {0}, NEW s \in [1..n -> Nat], IsAscending(s),
         NEW f, IsFraction(f), NEW g, IsFraction(g), f[1] * g[2] <= g[1] * f[2]
  PROVE  PercentileOf(s, f) <= PercentileOf(s, g)
<1>1. PICK a \in Nat, b \in Nat \ {0}, c \in Nat, d \in Nat \ {0}, m \in Nat :
        a = f[1] /\ b = f[2] /\ c = g[1] /\ d = g[2] /\ m = n - 1
  BY SMTT(30) DEF IsFraction
<1>2. PICK p \in 0..m, r \in 0..b - 1 :
        /\ p = Below(f, n) /\ r = Rest(f, n) /\ (r # 0 => p + 1 <= m)
        /\ a * m = b * p + r
  BY <1>1, PlaceInside, ZenonT(30)
<1>3. PICK q \in 0..m, t \in 0..d - 1 :
        /\ q = Below(g, n) /\ t = Rest(g, n) /\ (t # 0 => q + 1 <= m)
        /\ c * m = d * q + t
  BY <1>1, PlaceInside, ZenonT(30)
<1>4. (a * m) * d <= (c * m) * b
  <2>1. (a * d) * m <= (c * b) * m
    <3>1. PICK x \in Nat, y \in Nat : x = a * d /\ y = c * b
      OBVIOUS
    <3>2. x <= y
      BY <1>1, <3>1
    <3>3. x * m <= y * m
      BY <3>2
    <3> QED BY <3>1, <3>3
  <2>2. (a * d) * m = (a * m) * d /\ (c * b) * m = (c * m) * b
    OBVIOUS
  <2> QED BY <2>1, <2>2
<1>5. p <= q
  <2>1. a * m \in Nat /\ c * m \in Nat
    OBVIOUS
  <2>2. (a * m) \div b <= (c * m) \div d
    BY <1>4, <2>1, DivMonotone
  <2> QED BY <2>2, <1>1, <1>2, <1>3 DEF Below
<1>6. /\ PercentileOf(s, f) \in Nat /\ PercentileOf(s, g) \in Nat
      /\ s[q + 1] <= PercentileOf(s, g)
      /\ r = 0 => PercentileOf(s, f) = s[p + 1]
      /\ r # 0 => PercentileOf(s, f) <= s[p + 2]
  BY <1>2, <1>3, PercentileBetween
<1>7. s[p + 1] \in Nat /\ s[q + 1] \in Nat /\ s[p + 1] <= s[q + 1]
  <2>1. p + 1 \in 1..n /\ q + 1 \in (p + 1)..n
    <3>1. p \in Nat /\ q \in Nat /\ p <= q /\ q <= n - 1
      BY <1>1, <1>5
    <3> QED BY <3>1
  <2> QED BY <2>1, AscendingPairs, SMTT(30)
<1>8. CASE r = 0
  BY <1>6, <1>7, <1>8
<1>9. CASE r # 0 /\ p < q
  <2>1. p + 2 \in 1..n /\ q + 1 \in (p + 2)..n
    <3>1. p \in Nat /\ q \in Nat /\ p < q /\ q <= n - 1
      BY <1>1, <1>9
    <3> QED BY <3>1
  <2>2. s[p + 2] \in Nat /\ s[p + 2] <= s[q + 1]
    BY <2>1, AscendingPairs
  <2> QED BY <2>2, <1>6, <1>7, <1>9
<1>10. CASE r # 0 /\ p = q
  <2>1. r * d <= t * b
    <3>1. (b * p + r) * d <= (d * q + t) * b
      BY <1>2, <1>3, <1>4
    <3>2. (b * p + r) * d = (b * p) * d + r * d /\ (d * q + t) * b = (d * q) * b + t * b
      OBVIOUS
    <3>3. (b * p) * d = (d * q) * b
      BY <1>10
    <3>4. (b * p) * d \in Nat /\ r * d \in Nat /\ t * b \in Nat
      OBVIOUS
    <3> QED BY <3>1, <3>2, <3>3, <3>4
  <2>2. t # 0
    <3>1. r * d > 0
      BY <1>10
    <3> QED BY <3>1, <2>1
  <2>3. PICK lo \in Nat, hi \in Nat : lo = s[p + 1] /\ hi = s[p + 2] /\ lo <= hi
    <3>1. p + 1 \in 1..n /\ p + 2 \in (p + 1)..n
      BY <1>1, <1>2, <1>10
    <3>2. s[p + 1] <= s[p + 2] /\ s[p + 1] \in Nat /\ s[p + 2] \in Nat
      BY <3>1, AscendingPairs
    <3> QED BY <3>2
  <2>4. PICK h \in Nat : h = hi - lo
    BY <2>3
  <2>5. /\ PercentileOf(s, f) = lo + (r * h) \div b
        /\ PercentileOf(s, g) = lo + (t * h) \div d
    <3>1. Len(s) = n
      OBVIOUS
    <3> QED BY <3>1, <1>1, <1>2, <1>3, <1>10, <2>2, <2>3, <2>4, PercentileIs
  <2>6. (r * h) * d <= (t * h) * b
    <3>1. (r * d) * h <= (t * b) * h
      BY <2>1
    <3>2. (r * d) * h = (r * h) * d /\ (t * b) * h = (t * h) * b
      OBVIOUS
    <3> QED BY <3>1, <3>2
  <2>7. (r * h) \div b <= (t * h) \div d
    <3>1. r * h \in Nat /\ t * h \in Nat
      OBVIOUS
    <3> QED BY <3>1, <2>6, DivMonotone
  <2>8. (r * h) \div b \in Nat /\ (t * h) \div d \in Nat
    BY PartOf
  <2> QED BY <2>5, <2>7, <2>8
<1> QED BY <1>5, <1>8, <1>9, <1>10

-----------------------------------------------------------------------------
(* The array as it is sorted. *)

LEMMA SamplesAre ==
  ASSUME NEW s \in Seq(Values)
  PROVE  /\ Len(s) \in Nat /\ (s # <<>> => Len(s) # 0)
         /\ s \in [1..Len(s) -> Values] /\ s \in [1..Len(s) -> Nat]
         /\ s \in Seq(Nat)
<1>1. Len(s) \in Nat /\ s \in [1..Len(s) -> Values]
  OBVIOUS
<1>2. s # <<>> => Len(s) # 0
  OBVIOUS
<1>3. \A i \in 1..Len(s) : s[i] \in Nat
  BY <1>1, ValuesAssumption
<1>4. s \in [1..Len(s) -> Nat]
  BY <1>1, <1>3
<1>5. s \in Seq(Nat)
  BY <1>1, <1>4, FunctionIsSeq
<1> QED BY <1>1, <1>2, <1>4, <1>5

LEMMA AscendingIs ==
  ASSUME NEW s \in Seq(Values)
  PROVE  /\ Ascending(s) \in [1..Len(s) -> Values]
         /\ Ascending(s) \in Seq(Values) /\ Len(Ascending(s)) = Len(s)
         /\ IsAscending(Ascending(s))
         /\ \A v : Count(Ascending(s), v) = Count(s, v)
<1>1. s \in Seq(Nat) /\ Len(s) \in Nat /\ s \in [1..Len(s) -> Values]
  BY SamplesAre
<1>2. IsSortingOf(s, Ascending(s))
  BY <1>1, AscendingSorts
<1>3. Ascending(s) \in [1..Len(s) -> Values]
  BY <1>1, <1>2 DEF IsSortingOf, ToSet
<1>4. Ascending(s) \in Seq(Values) /\ Len(Ascending(s)) = Len(s)
  BY <1>1, <1>3, FunctionIsSeq
<1>5. \A v : Count(Ascending(s), v) = Count(s, v)
  BY <1>1, <1>2, SortingCounts
<1> QED BY <1>2, <1>3, <1>4, <1>5 DEF IsSortingOf

\* What the flag says is what the array is.
LEMMA InOrderIs ==
  ASSUME values \in Seq(Values), FlagIsTrue
  PROVE  /\ InOrder \in [1..Len(values) -> Values]
         /\ InOrder \in Seq(Values) /\ Len(InOrder) = Len(values)
         /\ IsAscending(InOrder)
         /\ \A v : Count(InOrder, v) = Count(values, v)
<1>1. CASE sorted
  <2>1. InOrder = values
    BY <1>1 DEF InOrder
  <2>2. values \in [1..Len(values) -> Values]
    OBVIOUS
  <2> QED BY <1>1, <2>1, <2>2 DEF FlagIsTrue
<1>2. CASE ~ sorted
  <2>1. InOrder = Ascending(values)
    BY <1>2 DEF InOrder
  <2> QED BY <2>1, AscendingIs
<1> QED BY <1>1, <1>2

\* The median is the percentile 1/2.
LEMMA MedianIs ==
  ASSUME NEW s \in Seq(Values), s # <<>>
  PROVE  Median(s) = PercentileOf(Ascending(s), <<1, 2>>)
<1> DEFINE f == <<1, 2>>
<1>1. PICK n \in Nat \ {0} : n = Len(s)
  OBVIOUS
<1>2. PICK t \in [1..n -> Nat] : t = Ascending(s) /\ Len(t) = n
  BY <1>1, AscendingIs, ValuesAssumption
<1>3. f[1] = 1 /\ f[2] = 2 /\ IsFraction(f)
  BY DEF IsFraction
<1>4. Below(f, n) = (n - 1) \div 2 /\ Rest(f, n) = (n - 1) % 2
  BY <1>3 DEF Below, Rest
<1> HIDE DEF f
<1>5. CASE n % 2 = 0
  <2>1. PICK k \in Nat \ {0} : n = 2 * k
    <3>1. n = 2 * (n \div 2) /\ n \div 2 \in Nat \ {0}
      BY <1>5
    <3> QED BY <3>1
  <2>2. n \div 2 = k /\ Below(f, n) = k - 1 /\ Rest(f, n) = 1
    BY <1>4, <2>1
  <2>3. PICK lo \in Nat, hi \in Nat : lo = t[k] /\ hi = t[k + 1]
    BY <2>1
  <2>4. Median(s) = (lo + hi) \div 2
    BY <1>1, <1>2, <1>5, <2>2, <2>3 DEF Median
  <2>5. PercentileOf(t, f) = lo + (1 * (hi - lo)) \div 2
    <3>1. (k - 1) + 1 = k /\ (k - 1) + 2 = k + 1
      OBVIOUS
    <3>2. PercentileOf(t, f)
            = IF Rest(f, n) = 0
                THEN t[Below(f, n) + 1]
                ELSE t[Below(f, n) + 1]
                     + (Rest(f, n) * (t[Below(f, n) + 2] - t[Below(f, n) + 1])) \div f[2]
      BY <1>2, <1>3, PercentileIs
    <3>3. t[Below(f, n) + 1] = lo /\ t[Below(f, n) + 2] = hi
      BY <2>2, <2>3, <3>1
    <3> QED BY <1>3, <2>2, <3>2, <3>3
  <2>6. (lo + hi) \div 2 = lo + (1 * (hi - lo)) \div 2
    OBVIOUS
  <2> QED BY <1>2, <2>4, <2>5, <2>6 DEF f
<1>6. CASE n % 2 # 0
  <2>1. PICK k \in Nat : n = 2 * k + 1
    <3>1. n = 2 * (n \div 2) + 1 /\ n \div 2 \in Nat
      BY <1>6
    <3> QED BY <3>1
  <2>2. n \div 2 = k /\ Below(f, n) = k /\ Rest(f, n) = 0
    BY <1>4, <2>1
  <2>3. Median(s) = t[k + 1]
    BY <1>1, <1>2, <1>6, <2>2 DEF Median
  <2>4. PercentileOf(t, f) = t[k + 1]
    BY <1>2, <1>3, <2>2, PercentileIs
  <2> QED BY <1>2, <2>3, <2>4 DEF f
<1> QED BY <1>5, <1>6

\* Every percentile of an array that is not empty is a number.
LEMMA PercentileType ==
  ASSUME NEW t \in Seq(Values), t # <<>>, IsAscending(t), NEW f, IsFraction(f)
  PROVE  PercentileOf(t, f) \in Nat
<1>1. Len(t) \in Nat \ {0} /\ t \in [1..Len(t) -> Nat]
  BY SamplesAre
<1> QED BY <1>1, PercentileBetween

LEMMA MedianType ==
  ASSUME NEW s \in Seq(Values), s # <<>>
  PROVE  Median(s) \in Nat
<1>1. Ascending(s) # <<>>
  BY AscendingIs
<1>2. IsFraction(<<1, 2>>)
  BY DEF IsFraction
<1> QED BY <1>1, <1>2, AscendingIs, MedianIs, PercentileType

\* The figures of a result.
Figures(t) ==
    <<Smallest(t)>> \o [k \in 1..4 |-> PercentileOf(t, Quantiles[k])] \o <<Largest(t)>>

LEMMA FiguresOrdered ==
  ASSUME NEW t \in Seq(Values), t # <<>>, IsAscending(t)
  PROVE  Figures(t) \in [1..6 -> Nat] /\ IsAscending(Figures(t))
<1> DEFINE Q(k) == PercentileOf(t, Quantiles[k])
<1>1. PICK n \in Nat \ {0} : n = Len(t) /\ t \in [1..n -> Nat]
  BY SamplesAre
<1>2. /\ Quantiles[1] = <<1, 2>> /\ Quantiles[2] = <<95, 100>>
      /\ Quantiles[3] = <<99, 100>> /\ Quantiles[4] = <<999, 1000>>
  BY DEF Quantiles
<1>3. \A k \in 1..4 : IsFraction(Quantiles[k])
  <2>1. \A k \in 1..4 : k = 1 \/ k = 2 \/ k = 3 \/ k = 4
    OBVIOUS
  <2> QED BY <1>2, <2>1 DEF IsFraction
<1>4. PICK a \in Nat, b \in Nat, c \in Nat, d \in Nat :
        a = Q(1) /\ b = Q(2) /\ c = Q(3) /\ d = Q(4)
  <2>1. \A k \in 1..4 : Q(k) \in Nat
    BY <1>3, PercentileType
  <2> QED BY <2>1
<1>5. a <= b /\ b <= c /\ c <= d
  <2>1. ASSUME NEW k \in 1..3 PROVE Q(k) <= Q(k + 1)
    <3>1. Quantiles[k][1] * Quantiles[k + 1][2] <= Quantiles[k + 1][1] * Quantiles[k][2]
      <4>1. CASE k = 1
        BY <1>2, <4>1
      <4>2. CASE k = 2
        BY <1>2, <4>2
      <4>3. CASE k = 3
        BY <1>2, <4>3
      <4> QED BY <4>1, <4>2, <4>3
    <3>2. IsFraction(Quantiles[k]) /\ IsFraction(Quantiles[k + 1])
      BY <1>3
    <3> QED BY <1>1, <3>1, <3>2, PercentileMonotone
  <2>2. Q(1) <= Q(1 + 1) /\ Q(2) <= Q(2 + 1) /\ Q(3) <= Q(3 + 1)
    BY <2>1
  <2> QED BY <1>4, <2>2
<1>8. PICK lo \in Nat : lo = Smallest(t) /\ lo <= a
  <2>1. Below(Quantiles[1], n) + 1 \in 1..n
    BY <1>1, <1>3, PlaceInside
  <2>2. t[1] \in Nat /\ t[1] <= t[Below(Quantiles[1], n) + 1]
    BY <1>1, <2>1, AscendingPairs
  <2>3. t[Below(Quantiles[1], n) + 1] <= Q(1) /\ t[Below(Quantiles[1], n) + 1] \in Nat
    BY <1>1, <1>3, <2>1, PercentileBetween, SMTT(30)
  <2> QED BY <1>4, <2>2, <2>3 DEF Smallest
<1>9. PICK hi \in Nat : hi = Largest(t) /\ d <= hi
  <2>1. /\ t[n] \in Nat
        /\ \A i \in 1..n : t[i] <= t[n]
    BY <1>1, AscendingPairs
  <2>2. /\ Below(Quantiles[4], n) + 1 \in 1..n
        /\ Rest(Quantiles[4], n) # 0 => Below(Quantiles[4], n) + 2 \in 1..n
    <3>1. PICK q \in 0..n - 1 :
            q = Below(Quantiles[4], n) /\ (Rest(Quantiles[4], n) # 0 => q + 1 <= n - 1)
      <4>1. IsFraction(Quantiles[4])
        BY <1>3
      <4> QED BY <1>1, <4>1, PlaceInside
    <3>2. q + 1 \in 1..n /\ (q + 1 <= n - 1 => q + 2 \in 1..n)
      OBVIOUS
    <3> QED BY <3>1, <3>2
  <2>3. /\ Rest(Quantiles[4], n) = 0 => Q(4) = t[Below(Quantiles[4], n) + 1]
        /\ Rest(Quantiles[4], n) # 0 => Q(4) <= t[Below(Quantiles[4], n) + 2]
    BY <1>1, <1>3, PercentileBetween, SMTT(30)
  <2>4. d <= t[n]
    <3>1. CASE Rest(Quantiles[4], n) = 0
      BY <1>4, <2>1, <2>2, <2>3, <3>1
    <3>2. CASE Rest(Quantiles[4], n) # 0
      <4>1. t[Below(Quantiles[4], n) + 2] <= t[n] /\ t[Below(Quantiles[4], n) + 2] \in Nat
        BY <1>1, <2>1, <2>2, <3>2
      <4> QED BY <1>4, <2>1, <2>3, <3>2, <4>1
    <3> QED BY <3>1, <3>2
  <2> QED BY <1>1, <2>1, <2>4 DEF Largest
<1>10. PICK four \in Seq(Nat) :
         /\ four = [k \in 1..4 |-> Q(k)] /\ Len(four) = 4
         /\ four[1] = a /\ four[2] = b /\ four[3] = c /\ four[4] = d
  <2>1. [k \in 1..4 |-> Q(k)] \in [1..4 -> Nat]
    BY <1>3, PercentileType
  <2>2. [k \in 1..4 |-> Q(k)] \in Seq(Nat) /\ Len([k \in 1..4 |-> Q(k)]) = 4
    BY <2>1, FunctionIsSeq
  <2> HIDE DEF Q
  <2>3. \A f : f = [k \in 1..4 |-> Q(k)] => /\ f[1] = Q(1) /\ f[2] = Q(2)
                                         /\ f[3] = Q(3) /\ f[4] = Q(4)
    OBVIOUS
  <2> QED BY <1>4, <2>2, <2>3
<1>11. PICK five \in Seq(Nat) :
         /\ five = <<lo>> \o four /\ Len(five) = 5
         /\ five[1] = lo /\ \A i \in 2..5 : five[i] = four[i - 1]
  <2>1. <<lo>> \in Seq(Nat) /\ Len(<<lo>>) = 1 /\ <<lo>>[1] = lo
    OBVIOUS
  <2>2. /\ <<lo>> \o four \in Seq(Nat)
        /\ Len(<<lo>> \o four) = Len(<<lo>>) + Len(four)
        /\ \A i \in 1..Len(<<lo>>) + Len(four) :
             (<<lo>> \o four)[i] = IF i <= Len(<<lo>>) THEN <<lo>>[i] ELSE four[i - Len(<<lo>>)]
    BY <1>10, <2>1, ConcatProperties
  <2>3. \A f : f = <<lo>> \o four =>
          /\ f \in Seq(Nat) /\ Len(f) = 5 /\ f[1] = lo
          /\ \A i \in 2..5 : f[i] = four[i - 1]
    BY <1>10, <2>1, <2>2
  <2> QED BY <2>3
<1>12. PICK six \in Seq(Nat) :
         /\ six = five \o <<hi>> /\ Len(six) = 6
         /\ six[6] = hi /\ \A i \in 1..5 : six[i] = five[i]
  <2>1. <<hi>> \in Seq(Nat) /\ Len(<<hi>>) = 1 /\ <<hi>>[1] = hi
    OBVIOUS
  <2>2. /\ five \o <<hi>> \in Seq(Nat)
        /\ Len(five \o <<hi>>) = Len(five) + Len(<<hi>>)
        /\ \A i \in 1..Len(five) + Len(<<hi>>) :
             (five \o <<hi>>)[i] = IF i <= Len(five) THEN five[i] ELSE <<hi>>[i - Len(five)]
    BY <1>11, <2>1, ConcatProperties
  <2>3. \A f : f = five \o <<hi>> =>
          /\ f \in Seq(Nat) /\ Len(f) = 6 /\ f[6] = hi
          /\ \A i \in 1..5 : f[i] = five[i]
    BY <1>11, <2>1, <2>2
  <2> QED BY <2>3
<1>13. Figures(t) = six
  BY <1>8, <1>9, <1>10, <1>11, <1>12 DEF Figures
<1>14. six \in [1..6 -> Nat]
  <2>1. six \in [1..Len(six) -> Nat]
    OBVIOUS
  <2> QED BY <2>1, <1>12
<1>15. IsAscending(six)
  <2>1. /\ six[1] = lo /\ six[2] = a /\ six[3] = b /\ six[4] = c /\ six[5] = d
        /\ six[6] = hi
    BY <1>10, <1>11, <1>12
  <2>2. \A i \in 1..5 : i = 1 \/ i = 2 \/ i = 3 \/ i = 4 \/ i = 5
    OBVIOUS
  <2>3. ASSUME NEW i \in 1..5 PROVE six[i] <= six[i + 1]
    <3>1. /\ six[1] <= six[1 + 1] /\ six[2] <= six[2 + 1] /\ six[3] <= six[3 + 1]
          /\ six[4] <= six[4 + 1] /\ six[5] <= six[5 + 1]
      <4>1. 1 + 1 = 2 /\ 2 + 1 = 3 /\ 3 + 1 = 4 /\ 4 + 1 = 5 /\ 5 + 1 = 6
        OBVIOUS
      <4>2. lo <= a /\ a <= b /\ b <= c /\ c <= d /\ d <= hi
        BY <1>5, <1>8, <1>9
      <4> QED BY <2>1, <4>1, <4>2, Zenon
    <3> QED BY <2>2, <3>1
  <2>4. Len(six) - 1 = 5
    BY <1>12
  <2> QED BY <2>3, <2>4 DEF IsAscending
<1> QED BY <1>13, <1>14, <1>15

-----------------------------------------------------------------------------
(* The invariants. *)

IInv == TypeOK /\ FlagIsTrue /\ SummaryOrdered

LEMMA NoSamples == <<>> \in Seq(Values) /\ Len(<<>>) = 0 /\ IsAscending(<<>>)
<1>1. Len(<<>>) = 0 /\ <<>> \in Seq(Values)
  OBVIOUS
<1>2. 1..Len(<<>>) - 1 = {}
  BY <1>1
<1> QED BY <1>1, <1>2 DEF IsAscending

LEMMA InitIInv == Init => IInv
<1> SUFFICES ASSUME Init PROVE IInv
  OBVIOUS
<1>1. values = <<>> /\ capacity \in Nat /\ sorted = FALSE /\ answer = Unknown /\ summary = <<>>
  BY CapacityAssumption DEF Init
<1>2. Len(values) <= capacity
  BY <1>1, NoSamples
<1> QED BY <1>1, <1>2, NoSamples DEF IInv, TypeOK, FlagIsTrue, SummaryOrdered

\* What a step that sorts leaves of the array.
LEMMA SortIInv ==
  ASSUME IInv, Sort
  PROVE  /\ values' \in Seq(Values) /\ capacity' \in Nat /\ Len(values') <= capacity'
         /\ sorted' \in BOOLEAN /\ FlagIsTrue'
         /\ values' # <<>> /\ IsAscending(InOrder) /\ InOrder \in Seq(Values)
         /\ InOrder # <<>>
<1>1. /\ values \in Seq(Values) /\ FlagIsTrue /\ values # <<>>
      /\ values' = InOrder /\ sorted' = TRUE /\ capacity' = capacity
  BY DEF IInv, TypeOK, Sort
<1>2. InOrder \in Seq(Values) /\ Len(InOrder) = Len(values) /\ IsAscending(InOrder)
  BY <1>1, InOrderIs
<1>3. InOrder # <<>>
  <2>1. Len(values) # 0
    BY <1>1, SamplesAre
  <2> QED BY <1>2, <2>1
<1>4. capacity \in Nat /\ Len(values) <= capacity
  BY DEF IInv, TypeOK
<1>5. FlagIsTrue'
  BY <1>1, <1>2 DEF FlagIsTrue
<1> QED BY <1>1, <1>2, <1>3, <1>4, <1>5

LEMMA NextIInv == IInv /\ [Next]_vars => IInv'
<1> SUFFICES ASSUME IInv, [Next]_vars PROVE IInv'
  OBVIOUS
<1>1. CASE Renew
  <2>1. /\ values' = <<>> /\ capacity' \in Nat /\ sorted' = FALSE
        /\ answer' = answer /\ summary' = summary
    BY <1>1, CapacityAssumption DEF Renew
  <2>2. Len(values') <= capacity'
    BY <2>1, NoSamples
  <2> QED BY <2>1, <2>2, NoSamples DEF IInv, TypeOK, FlagIsTrue, SummaryOrdered
<1>2. ASSUME NEW v \in Values, Add(v) PROVE IInv'
  <2>1. CASE UNCHANGED vars
    BY <2>1 DEF vars, IInv, TypeOK, FlagIsTrue, SummaryOrdered, IsAscending
  <2>2. CASE Store(v)
    <3>1. values \in Seq(Values) /\ capacity \in Nat /\ Len(values) <= capacity
      BY DEF IInv, TypeOK
    <3>2. /\ values' = Append(values, v) /\ sorted' = FALSE
          /\ answer' = answer /\ summary' = summary
      BY <2>2 DEF Store
    <3>3. values' \in Seq(Values) /\ Len(values') = Len(values) + 1
      BY <3>1, <3>2
    <3>4. capacity' \in Nat /\ Len(values) + 1 <= capacity'
      <4>1. CASE ~ Full /\ capacity' = capacity
        BY <4>1, <3>1 DEF Full
      <4>2. CASE capacity' = Grown
        <5>1. CASE capacity = 0
          BY <5>1, <4>2, <3>1, CapacityAssumption DEF Grown
        <5>2. CASE capacity # 0
          BY <5>2, <4>2, <3>1 DEF Grown
        <5> QED BY <5>1, <5>2
      <4>3. CASE Full /\ UNCHANGED vars
        <5>1. Len(values') = Len(values)
          BY <4>3 DEF vars
        <5> QED BY <5>1, <3>1, <3>3
      <4> QED BY <1>2, <4>1, <4>2, <4>3 DEF Add
    <3>5. values' \in Seq(Values) /\ Len(values') <= capacity'
      BY <3>3, <3>4
    <3> QED BY <3>2, <3>4, <3>5 DEF IInv, TypeOK, FlagIsTrue, SummaryOrdered
  <2> QED BY <1>2, <2>1, <2>2 DEF Add
<1>3. CASE Sort /\ UNCHANGED <<answer, summary>>
  BY <1>3, SortIInv DEF IInv, TypeOK, SummaryOrdered
<1>4. ASSUME NEW f \in Fractions, Percentile(f) PROVE IInv'
  <2>1. CASE values = <<>>
    BY <1>4, <2>1 DEF Percentile, IInv, TypeOK, FlagIsTrue, SummaryOrdered, IsAscending
  <2>2. CASE values # <<>>
    <3>1. Sort /\ answer' = PercentileOf(InOrder, f) /\ summary' = summary
      BY <1>4, <2>2 DEF Percentile
    <3>2. IsFraction(f)
      BY FractionsAssumption DEF IsFraction
    <3>3. PercentileOf(InOrder, f) \in Nat
      BY <3>1, <3>2, SortIInv, PercentileType
    <3> QED BY <3>1, <3>3, SortIInv DEF IInv, TypeOK, SummaryOrdered
  <2> QED BY <2>1, <2>2
<1>5. ASSUME NEW end, Extreme(end), end = Smallest(InOrder) \/ end = Largest(InOrder)
      PROVE  IInv'
  <2>1. CASE values = <<>>
    BY <1>5, <2>1 DEF Extreme, IInv, TypeOK, FlagIsTrue, SummaryOrdered, IsAscending
  <2>2. CASE values # <<>>
    <3>1. Sort /\ answer' = end /\ summary' = summary
      BY <1>5, <2>2 DEF Extreme
    <3>2. InOrder \in Seq(Values) /\ InOrder # <<>>
      BY <3>1, SortIInv
    <3>3. InOrder \in [1..Len(InOrder) -> Nat] /\ Len(InOrder) \in Nat \ {0}
      BY <3>2, SamplesAre
    <3>4. end \in Nat
      BY <1>5, <3>3 DEF Smallest, Largest
    <3> QED BY <3>1, <3>4, SortIInv DEF IInv, TypeOK, SummaryOrdered
  <2> QED BY <2>1, <2>2
<1>6. CASE Calculate
  <2>1. Sort /\ summary' = Figures(InOrder) /\ answer' = answer
    BY <1>6 DEF Calculate, Figures
  <2>2. Figures(InOrder) \in [1..6 -> Nat] /\ IsAscending(Figures(InOrder))
    BY <2>1, SortIInv, FiguresOrdered
  <2> QED BY <2>1, <2>2, SortIInv DEF IInv, TypeOK, SummaryOrdered
<1>7. CASE AskMedian
  <2>1. /\ values' = values /\ capacity' = capacity /\ sorted' = sorted
        /\ summary' = summary
    BY <1>7 DEF AskMedian
  <2>2. answer' \in Nat \cup {Unknown}
    <3>1. values \in Seq(Values) /\ answer \in Nat \cup {Unknown}
      BY DEF IInv, TypeOK
    <3>2. values # <<>> => Median(values) \in Nat
      BY <3>1, MedianType
    <3> QED BY <1>7, <3>1, <3>2 DEF AskMedian
  <2> QED BY <2>1, <2>2 DEF IInv, TypeOK, FlagIsTrue, SummaryOrdered, IsAscending
<1>8. CASE UNCHANGED vars
  BY <1>8 DEF vars, IInv, TypeOK, FlagIsTrue, SummaryOrdered, IsAscending
<1> QED BY <1>1, <1>2, <1>3, <1>4, <1>5, <1>6, <1>7, <1>8 DEF Next

LEMMA Invariance == Spec => []IInv
  BY InitIInv, NextIInv, PTL DEF Spec

\* gb_stats_add never writes beyond the array, whatever it was made for and however
\* often it could not grow, and no answer is ever taken from outside of it.
THEOREM TypeCorrect == Spec => []TypeOK
<1>1. IInv => TypeOK
  BY DEF IInv
<1> QED BY <1>1, Invariance, PTL

\* The functions that trust stats->sorted and do not sort again find the array in
\* order.
THEOREM FlagHolds == Spec => []FlagIsTrue
<1>1. IInv => FlagIsTrue
  BY DEF IInv
<1> QED BY <1>1, Invariance, PTL

\* In every result of gb_stats_calculate, for any samples (exact numbers): the minimum, the four
\* interpolated percentiles and the maximum are in order.
THEOREM FiguresInOrder == Spec => []SummaryOrdered
<1>1. IInv => SummaryOrdered
  BY DEF IInv
<1> QED BY <1>1, Invariance, PTL

-----------------------------------------------------------------------------
(* The array implements the bag of its samples. *)

BagOf(s) == [v \in Values |-> Count(s, v)]
Pairs(b, V) == UNION {{v} \X (1..b[v]) : v \in V}

LEMMA CountType ==
  ASSUME NEW s, Len(s) \in Nat, NEW v
  PROVE  Count(s, v) \in Nat
<1>1. Cardinality(At(s, {v})) \in 0..Len(s)
  BY AtFinite
<1>2. Cardinality(At(s, {v})) \in Nat
  BY <1>1
<1> QED BY <1>2, CountIsAt

LEMMA CountAppend ==
  ASSUME NEW n \in Nat, NEW s, NEW r, Len(s) = n, Len(r) = n + 1,
         \A i \in 1..n : r[i] = s[i], NEW v
  PROVE  Count(r, v) = Count(s, v) + IF v = r[n + 1] THEN 1 ELSE 0
<1>1. Cardinality(At(r, {v})) = Cardinality(At(s, {v})) + IF r[n + 1] \in {v} THEN 1 ELSE 0
  BY AtAppend
<1> QED BY <1>1, CountIsAt

\* A bag has as many samples of some values as the array has places with them.
LEMMA PairsAppend ==
  ASSUME NEW n \in Nat, NEW s \in [1..n -> Values], NEW r \in [1..n + 1 -> Values],
         \A i \in 1..n : r[i] = s[i], NEW V \in SUBSET Values,
         IsFiniteSet(Pairs(BagOf(s), V)),
         Cardinality(Pairs(BagOf(s), V)) = Cardinality(At(s, V))
  PROVE  /\ IsFiniteSet(Pairs(BagOf(r), V))
         /\ Cardinality(Pairs(BagOf(r), V)) = Cardinality(At(r, V))
<1>1. Len(s) = n /\ Len(r) = n + 1
  BY FunctionIsSeq
<1>2. PICK x \in Values : x = r[n + 1]
  OBVIOUS
<1>3. Cardinality(At(r, V)) = Cardinality(At(s, V)) + IF x \in V THEN 1 ELSE 0
  BY <1>1, <1>2, AtAppend
<1>4. \A v \in Values : /\ BagOf(s)[v] \in Nat
                       /\ BagOf(r)[v] = BagOf(s)[v] + IF v = x THEN 1 ELSE 0
  BY <1>1, <1>2, CountType, CountAppend DEF BagOf
<1>5. PICK b, c : b = BagOf(s) /\ c = BagOf(r)
  OBVIOUS
<1>6. \A v \in Values : b[v] \in Nat /\ c[v] = b[v] + IF v = x THEN 1 ELSE 0
  BY <1>4, <1>5
<1>7. \A B, p : p \in Pairs(B, V) <=> \E v \in V : \E i \in 1..B[v] : p = <<v, i>>
  BY DEF Pairs
<1>8. CASE x \in V
  <2>1. Pairs(c, V) = Pairs(b, V) \cup {<<x, b[x] + 1>>}
    <3>1. ASSUME NEW p \in Pairs(c, V) PROVE p \in Pairs(b, V) \cup {<<x, b[x] + 1>>}
      <4>0. PICK v \in V : \E i \in 1..c[v] : p = <<v, i>>
        BY <1>7
      <4>1. PICK i \in 1..c[v] : p = <<v, i>>
        BY <4>0
      <4>2. CASE i \in 1..b[v]
        BY <1>7, <4>1, <4>2
      <4>3. CASE i \notin 1..b[v]
        <5>1. v = x /\ i = b[x] + 1
          BY <1>6, <4>1, <4>3
        <5> QED BY <5>1, <4>1
      <4> QED BY <4>2, <4>3
    <3>2. ASSUME NEW p \in Pairs(b, V) PROVE p \in Pairs(c, V)
      <4>0. PICK v \in V : \E i \in 1..b[v] : p = <<v, i>>
        BY <1>7
      <4>1. PICK i \in 1..b[v] : p = <<v, i>>
        BY <4>0
      <4>2. i \in 1..c[v]
        BY <1>6, <4>1
      <4> QED BY <1>7, <4>1, <4>2
    <3>3. <<x, b[x] + 1>> \in Pairs(c, V)
      <4>1. b[x] + 1 \in 1..c[x]
        BY <1>6
      <4> QED BY <1>7, <1>8, <4>1
    <3> QED BY <3>1, <3>2, <3>3
  <2>2. <<x, b[x] + 1>> \notin Pairs(b, V)
    <3> SUFFICES ASSUME <<x, b[x] + 1>> \in Pairs(b, V) PROVE FALSE
      OBVIOUS
    <3>1. PICK v \in V : \E i \in 1..b[v] : <<x, b[x] + 1>> = <<v, i>>
      BY <1>7
    <3>2. b[x] \in Nat /\ b[x] + 1 \in 1..b[x]
      BY <1>6, <3>1
    <3> QED BY <3>2
  <2>3. PICK P : P = Pairs(b, V) /\ IsFiniteSet(P) /\ Cardinality(P) = Cardinality(At(s, V))
    BY <1>5
  <2>4. /\ IsFiniteSet(P \cup {<<x, b[x] + 1>>})
        /\ Cardinality(P \cup {<<x, b[x] + 1>>})
             = IF <<x, b[x] + 1>> \in P THEN Cardinality(P) ELSE Cardinality(P) + 1
    BY <2>3, FS_AddElement
  <2> QED BY <1>3, <1>5, <1>8, <2>1, <2>2, <2>3, <2>4
<1>9. CASE x \notin V
  <2>1. \A v \in V : c[v] = b[v]
    BY <1>6, <1>9
  <2>2. Pairs(c, V) = Pairs(b, V)
    BY <2>1 DEF Pairs
  <2>3. Cardinality(At(r, V)) = Cardinality(At(s, V))
    <3>1. Cardinality(At(s, V)) \in Nat
      BY <1>1, AtFinite
    <3> QED BY <3>1, <1>3, <1>9
  <2> QED BY <1>5, <2>2, <2>3
<1> QED BY <1>8, <1>9

LEMMA PairsCount ==
  ASSUME NEW s \in Seq(Values), NEW V \in SUBSET Values
  PROVE  Bag!Total(BagOf(s), V) = Cardinality(At(s, V))
<1> DEFINE Good(r) == /\ IsFiniteSet(Pairs(BagOf(r), V))
                      /\ Cardinality(Pairs(BagOf(r), V)) = Cardinality(At(r, V))
           Bad == {n \in Nat : \E r \in [1..n -> Values] : ~ Good(r)}
<1>1. Bad = {}
  <2> SUFFICES ASSUME Bad # {} PROVE FALSE
    OBVIOUS
  <2>1. PICK n \in Bad : \A m \in Bad : n <= m
    BY LeastElement
  <2>2. PICK r \in [1..n -> Values] : ~ Good(r)
    BY <2>1
  <2>3. CASE n = 0
    <3>1. Len(r) = 0
      BY <2>3, FunctionIsSeq
    <3>2. At(r, V) = {}
      BY <3>1 DEF At
    <3>3. \A v : {i \in 1..Len(r) : r[i] = v} = {}
      BY <3>1
    <3>4. \A v \in V : BagOf(r)[v] = 0
      BY <3>3, FS_EmptySet DEF BagOf, Count
    <3>5. Pairs(BagOf(r), V) = {}
      BY <3>4 DEF Pairs
    <3> QED BY <2>2, <3>2, <3>5, FS_EmptySet
  <2>4. CASE n # 0
    <3>1. PICK m \in Nat : n = m + 1
      <4>1. n \in Nat
        BY <2>1
      <4>2. n - 1 \in Nat /\ n = (n - 1) + 1
        BY <4>1, <2>4
      <4> QED BY <4>2
    <3>2. m \notin Bad
      <4> HIDE DEF Bad
      <4> QED BY <2>1, <3>1
    <3>3. PICK f \in [1..m -> Values] : \A i \in 1..m : r[i] = f[i]
      <4>1. [i \in 1..m |-> r[i]] \in [1..m -> Values]
        BY <3>1
      <4> QED BY <4>1
    <3>4. Good(f)
      BY <3>2, <3>3
    <3>5. Good(r)
      <4>1. r \in [1..m + 1 -> Values]
        BY <3>1
      <4> QED BY <3>3, <3>4, <4>1, PairsAppend
    <3> QED BY <2>2, <3>5
  <2> QED BY <2>3, <2>4
<1>2. s \in [1..Len(s) -> Values] /\ Len(s) \in Nat
  OBVIOUS
<1>3. Good(s)
  BY <1>1, <1>2
<1>4. PICK b : b = BagOf(s)
  OBVIOUS
<1>5. Bag!Total(b, V) = Cardinality(Pairs(b, V))
  BY DEF Bag!Total, Pairs, Bag!Cardinality, Cardinality
<1> QED BY <1>3, <1>4, <1>5

LEMMA BagSize ==
  ASSUME NEW s \in Seq(Values)
  PROVE  Bag!Size(BagOf(s)) = Len(s)
<1>1. At(s, Values) = 1..Len(s)
  BY DEF At
<1>2. Len(s) \in Nat
  OBVIOUS
<1>3. Cardinality(1..Len(s)) = Len(s)
  <2>1. Cardinality(1..Len(s)) = IF 1 > Len(s) THEN 0 ELSE Len(s) - 1 + 1
    BY <1>2, FS_Interval
  <2> QED BY <1>2, <2>1
<1>4. Bag!Size(BagOf(s)) = Bag!Total(BagOf(s), Values)
  BY DEF Bag!Size
<1> QED BY <1>1, <1>3, <1>4, PairsCount

\* In a bag, the k-th smallest sample is the one an ascending array has at the place k.
LEMMA RankedIs ==
  ASSUME NEW t \in Seq(Values), IsAscending(t), NEW k \in 0..Len(t) - 1
  PROVE  Bag!Ranked(BagOf(t), k) = t[k + 1]
<1> DEFINE Less(v) == {u \in Values : u < v}
           UpTo(v) == {u \in Values : u <= v}
           Has(v) == /\ Bag!Total(BagOf(t), Less(v)) <= k
                     /\ k < Bag!Total(BagOf(t), UpTo(v))
<1>1. PICK n \in Nat : n = Len(t) /\ t \in [1..n -> Nat] /\ t \in [1..n -> Values]
  BY SamplesAre
<1>2. k \in Nat /\ k + 1 \in 1..n
  BY <1>1
<1>3. PICK x \in Values : x = t[k + 1] /\ x \in Nat
  BY <1>1, <1>2
<1>4. \A v \in Values : /\ Bag!Total(BagOf(t), Less(v)) = Cardinality(At(t, Less(v)))
                       /\ Bag!Total(BagOf(t), UpTo(v)) = Cardinality(At(t, UpTo(v)))
  BY PairsCount
<1>5. /\ \A i \in 1..k + 1 : t[i] \in Nat /\ t[i] <= x
      /\ \A i \in k + 1..n : t[i] \in Nat /\ x <= t[i]
  <2>1. \A i \in 1..k + 1 : i \in 1..n /\ k + 1 \in i..n
    BY <1>2
  <2>2. \A i \in k + 1..n : i \in 1..n
    BY <1>2
  <2> QED BY <1>1, <1>2, <1>3, <2>1, <2>2, AscendingPairs
<1>6. \A m \in Nat : IsFiniteSet(1..m) /\ Cardinality(1..m) = m
  <2>1. ASSUME NEW m \in Nat PROVE IsFiniteSet(1..m) /\ Cardinality(1..m) = m
    <3>1. IsFiniteSet(1..m) /\ Cardinality(1..m) = IF 1 > m THEN 0 ELSE m - 1 + 1
      BY FS_Interval
    <3> QED BY <3>1
  <2> QED BY <2>1
<1>7. \A V : IsFiniteSet(At(t, V)) /\ Cardinality(At(t, V)) \in Nat
  <2>1. \A V : IsFiniteSet(At(t, V)) /\ Cardinality(At(t, V)) \in 0..n
    BY <1>1, AtFinite
  <2> QED BY <2>1
<1>8. ASSUME NEW v \in Values, v <= x PROVE Cardinality(At(t, Less(v))) <= k
  <2>1. v \in Nat
    BY ValuesAssumption
  <2>2. At(t, Less(v)) \in SUBSET (1..k)
    <3>1. ASSUME NEW i \in At(t, Less(v)) PROVE i \in 1..k
      <4>1. i \in 1..n /\ t[i] < v
        BY <1>1 DEF At
      <4>2. i \notin k + 1..n
        BY <1>5, <1>8, <2>1, <4>1
      <4> QED BY <1>2, <4>1, <4>2
    <3> QED BY <3>1
  <2> QED BY <1>2, <1>6, <2>2, FS_Subset
<1>9. ASSUME NEW v \in Values, x <= v PROVE k + 1 <= Cardinality(At(t, UpTo(v)))
  <2>1. v \in Nat
    BY ValuesAssumption
  <2>2. 1..k + 1 \in SUBSET At(t, UpTo(v))
    <3>1. ASSUME NEW i \in 1..k + 1 PROVE i \in At(t, UpTo(v))
      <4>1. i \in 1..n /\ t[i] \in Values /\ t[i] <= x /\ t[i] \in Nat
        BY <1>1, <1>2, <1>5
      <4> QED BY <1>1, <1>9, <2>1, <4>1 DEF At
    <3> QED BY <3>1
  <2>3. Cardinality(1..k + 1) <= Cardinality(At(t, UpTo(v)))
    BY <1>7, <2>2, FS_Subset
  <2> QED BY <1>2, <1>6, <2>3
<1>10. ASSUME NEW v \in Values, x < v PROVE k + 1 <= Cardinality(At(t, Less(v)))
  <2>1. v \in Nat
    BY ValuesAssumption
  <2>2. 1..k + 1 \in SUBSET At(t, Less(v))
    <3>1. ASSUME NEW i \in 1..k + 1 PROVE i \in At(t, Less(v))
      <4>1. i \in 1..n /\ t[i] \in Values /\ t[i] <= x /\ t[i] \in Nat
        BY <1>1, <1>2, <1>5
      <4> QED BY <1>1, <1>10, <2>1, <4>1 DEF At
    <3> QED BY <3>1
  <2>3. Cardinality(1..k + 1) <= Cardinality(At(t, Less(v)))
    BY <1>7, <2>2, FS_Subset
  <2> QED BY <1>2, <1>6, <2>3
<1>11. ASSUME NEW v \in Values, v < x PROVE Cardinality(At(t, UpTo(v))) <= k
  <2>1. v \in Nat
    BY ValuesAssumption
  <2>2. At(t, UpTo(v)) \in SUBSET (1..k)
    <3>1. ASSUME NEW i \in At(t, UpTo(v)) PROVE i \in 1..k
      <4>1. i \in 1..n /\ t[i] <= v
        BY <1>1 DEF At
      <4>2. i \notin k + 1..n
        BY <1>5, <1>11, <2>1, <4>1
      <4> QED BY <1>2, <4>1, <4>2
    <3> QED BY <3>1
  <2> QED BY <1>2, <1>6, <2>2, FS_Subset
<1> HIDE DEF Less, UpTo
<1>12. Has(x)
  <2>1. Cardinality(At(t, Less(x))) <= k /\ k + 1 <= Cardinality(At(t, UpTo(x)))
    BY <1>3, <1>8, <1>9
  <2> QED BY <1>2, <1>4, <1>7, <2>1
<1>13. ASSUME NEW v \in Values, Has(v) PROVE v = x
  <2>1. v \in Nat
    BY ValuesAssumption
  <2>2. ~ (x < v)
    BY <1>2, <1>4, <1>7, <1>10, <1>13
  <2>3. ~ (v < x)
    BY <1>2, <1>4, <1>7, <1>11, <1>13
  <2> QED BY <1>3, <2>1, <2>2, <2>3
<1>14. Bag!Ranked(BagOf(t), k) = CHOOSE v \in Values : Has(v)
  BY DEF Bag!Ranked, Less, UpTo
<1> HIDE DEF Has
<1>15. x = CHOOSE v \in Values : Has(v)
  BY <1>12, <1>13
<1> QED BY <1>3, <1>14, <1>15

\* The percentile of a bag is the one of the ascending array with its samples.
LEMMA AtFractionIs ==
  ASSUME NEW t \in Seq(Values), t # <<>>, IsAscending(t), NEW f, IsFraction(f)
  PROVE  Bag!AtFraction(BagOf(t), f) = PercentileOf(t, f)
<1>1. PICK n \in Nat \ {0} : n = Len(t) /\ t \in [1..n -> Nat] /\ t \in [1..n -> Values]
  BY SamplesAre
<1>2. PICK q \in 0..n - 1, d \in Nat \ {0} : q = Below(f, n) /\ d = f[2]
  BY PlaceInside DEF IsFraction
<1>3. PICK r \in 0..d - 1 : r = Rest(f, n) /\ (r # 0 => q + 1 <= n - 1)
  BY <1>2, PlaceInside
<1>4. Bag!Ranked(BagOf(t), q) = t[q + 1]
  BY <1>1, RankedIs
<1>5. PICK lo \in Nat : lo = t[q + 1]
  BY <1>1
<1>6. PICK up : up = IF r = 0 THEN lo ELSE Bag!Ranked(BagOf(t), q + 1)
  OBVIOUS
<1>7. Bag!AtFraction(BagOf(t), f) = (lo * d + r * (up - lo)) \div d
  <2>1. Bag!Size(BagOf(t)) = n
    BY <1>1, BagSize
  <2> QED BY <1>2, <1>3, <1>4, <1>5, <1>6, <2>1 DEF Bag!AtFraction, Below, Rest
<1>8. PercentileOf(t, f) = IF r = 0 THEN lo ELSE lo + (r * (t[q + 2] - lo)) \div d
  BY <1>1, <1>2, <1>3, <1>5, PercentileIs
<1>9. CASE r = 0
  <2>1. r * (up - lo) = 0
    BY <1>6, <1>9
  <2>2. (d * lo + 0) \div d = lo
    BY DivOf
  <2>3. lo * d + 0 = d * lo + 0
    OBVIOUS
  <2> QED BY <1>7, <1>8, <1>9, <2>1, <2>2, <2>3
<1>10. CASE r # 0
  <2>1. q + 1 \in 0..n - 1 /\ (q + 1) + 1 = q + 2
    BY <1>3, <1>10
  <2>2. up = t[q + 2]
    BY <1>1, <1>6, <1>10, <2>1, RankedIs
  <2>3. q + 1 \in 1..n /\ q + 2 \in (q + 1)..n
    BY <1>3, <1>10
  <2>4. up \in Nat /\ lo <= up
    BY <1>1, <1>5, <2>2, <2>3, AscendingPairs
  <2>5. PICK h \in Nat : h = up - lo
    BY <2>4
  <2>6. (lo * d + r * h) \div d = lo + (r * h) \div d
    <3>1. PICK p \in Nat : p = r * h
      OBVIOUS
    <3>2. PICK a \in Nat, b \in 0..d - 1 : a = p \div d /\ b = p % d /\ p = d * a + b
      <4>1. p \div d \in Nat /\ p % d \in 0..d - 1 /\ p = d * (p \div d) + (p % d)
        BY DivMod
      <4> QED BY <4>1, ZenonT(30)
    <3>3. PICK u \in Nat : u = lo + a
      OBVIOUS
    <3>4. d * u = d * lo + d * a
      BY <3>3
    <3>5. lo * d + p = d * u + b
      BY <3>2, <3>4
    <3>6. (d * u + b) \div d = u
      BY DivOf
    <3> QED BY <3>1, <3>2, <3>3, <3>5, <3>6
  <2> QED BY <1>7, <1>8, <1>10, <2>2, <2>5, <2>6
<1> QED BY <1>9, <1>10

\* A question answered from the sorted array, in terms of the array as it is.
LEMMA AnswerIs ==
  ASSUME values \in Seq(Values), values # <<>>, FlagIsTrue, NEW f, IsFraction(f)
  PROVE  /\ InOrder # <<>> /\ Bag!AtFraction(BagOf(values), f) = PercentileOf(InOrder, f)
         /\ BagOf(InOrder) = BagOf(values)
<1>1. /\ InOrder \in Seq(Values) /\ Len(InOrder) = Len(values) /\ IsAscending(InOrder)
      /\ \A v : Count(InOrder, v) = Count(values, v)
  BY InOrderIs
<1>2. InOrder # <<>>
  <2>1. Len(values) # 0
    BY SamplesAre
  <2> QED BY <1>1, <2>1
<1>3. BagOf(InOrder) = BagOf(values)
  BY <1>1 DEF BagOf
<1>4. Bag!AtFraction(BagOf(InOrder), f) = PercentileOf(InOrder, f)
  BY <1>1, <1>2, AtFractionIs
<1> QED BY <1>2, <1>3, <1>4

\* The ends are the percentiles 0 and 1.
LEMMA EndsAre ==
  ASSUME NEW t
  PROVE  /\ Smallest(t) = PercentileOf(t, <<0, 1>>)
         /\ Largest(t) = PercentileOf(t, <<1, 1>>)
  BY DEF PercentileOf

Asked == Fractions \cup {<<0, 1>>, <<1, 1>>, <<1, 2>>}

LEMMA AskedAreFractions == \A f \in Asked : IsFraction(f)
  BY FractionsAssumption DEF Asked, IsFraction

\* A step that sorts and gives a percentile is a question to the bag.
LEMMA SortAsks ==
  ASSUME IInv, Sort, NEW f \in Asked, answer' = PercentileOf(InOrder, f)
  PROVE  Bag!Ask(f)
<1>1. values \in Seq(Values) /\ values # <<>> /\ FlagIsTrue /\ values' = InOrder
  BY DEF IInv, TypeOK, Sort
<1>2. /\ Bag!AtFraction(BagOf(values), f) = PercentileOf(InOrder, f)
      /\ BagOf(values') = BagOf(values)
  BY <1>1, AskedAreFractions, AnswerIs
<1>3. Bag!Size(BagOf(values)) # 0
  BY <1>1, BagSize, SamplesAre
<1> QED BY <1>2, <1>3 DEF Bag!Ask, BagOf

\* Without samples there is no answer.
LEMMA NothingAsks ==
  ASSUME values = <<>>, values' = values, answer' = Unknown, NEW f
  PROVE  Bag!Ask(f)
<1>1. Bag!Size(BagOf(values)) = 0
  BY BagSize, NoSamples
<1>2. BagOf(values') = BagOf(values)
  OBVIOUS
<1> QED BY <1>1, <1>2 DEF Bag!Ask, BagOf

\* A step that changes neither the samples nor the answer.
LEMMA BagStutters ==
  ASSUME BagOf(values') = BagOf(values), answer' = answer
  PROVE  UNCHANGED Bag!vars
  BY DEF Bag!vars, BagOf

LEMMA BagStep == IInv /\ [Next]_vars => [Bag!Next]_(Bag!vars)
<1> SUFFICES ASSUME IInv, [Next]_vars PROVE Bag!Next \/ UNCHANGED Bag!vars
  OBVIOUS
<1>1. CASE Renew
  <2>1. values' = <<>> /\ answer' = answer
    BY <1>1 DEF Renew
  <2>2. \A v : {i \in 1..Len(<<>>) : <<>>[i] = v} = {}
    BY NoSamples
  <2>3. BagOf(values') = [v \in Values |-> 0]
    BY <2>1, <2>2, FS_EmptySet DEF BagOf, Count
  <2> QED BY <2>1, <2>3 DEF Bag!Next, Bag!Clear, BagOf
<1>2. ASSUME NEW v \in Values, Add(v) PROVE Bag!Next \/ UNCHANGED Bag!vars
  <2>1. CASE UNCHANGED vars
    BY <2>1, BagStutters DEF vars
  <2>2. CASE Store(v)
    <3>1. PICK n \in Nat : n = Len(values) /\ values \in Seq(Values)
      BY SamplesAre DEF IInv, TypeOK
    <3>2. /\ Len(values') = n + 1 /\ answer' = answer
          /\ \A i \in 1..n : values'[i] = values[i]
          /\ values'[n + 1] = v
      BY <2>2, <3>1 DEF Store
    <3>3. \A u : Count(values', u) = Count(values, u) + IF u = v THEN 1 ELSE 0
      BY <3>1, <3>2, CountAppend
    <3>4. \A u : Count(values, u) \in Nat
      BY <3>1, CountType
    <3>5. BagOf(values') = [BagOf(values) EXCEPT ![v] = @ + 1]
      <4>1. PICK c, d : c = BagOf(values) /\ d = BagOf(values')
        OBVIOUS
      <4>2. \A u \in Values : d[u] = IF u = v THEN c[u] + 1 ELSE c[u]
        BY <3>3, <3>4, <4>1 DEF BagOf
      <4>3. c = [u \in Values |-> c[u]] /\ d = [u \in Values |-> d[u]]
        BY <4>1 DEF BagOf
      <4> QED BY <4>1, <4>2, <4>3
    <3>6. Bag!Record(v)
      BY <3>2, <3>5 DEF Bag!Record, BagOf
    <3> QED BY <3>6 DEF Bag!Next
  <2> QED BY <1>2, <2>1, <2>2 DEF Add
<1>3. ASSUME Sort PROVE BagOf(values') = BagOf(values)
  <2>1. values \in Seq(Values) /\ FlagIsTrue /\ values' = InOrder
    BY <1>3 DEF IInv, TypeOK, Sort
  <2>2. \A v : Count(InOrder, v) = Count(values, v)
    BY <2>1, InOrderIs
  <2> QED BY <2>1, <2>2 DEF BagOf
<1>4. CASE Sort /\ UNCHANGED <<answer, summary>>
  BY <1>3, <1>4, BagStutters
<1>5. ASSUME NEW f \in Asked, Bag!Ask(f) PROVE Bag!Next
  BY <1>5 DEF Bag!Next, Asked
<1>6. ASSUME NEW f \in Fractions, Percentile(f) PROVE Bag!Next
  <2>1. f \in Asked
    BY DEF Asked
  <2>2. CASE values = <<>>
    <3>1. answer' = Unknown /\ values' = values
      BY <1>6, <2>2 DEF Percentile
    <3> QED BY <1>5, <2>1, <2>2, <3>1, NothingAsks
  <2>3. CASE values # <<>>
    <3>1. Sort /\ answer' = PercentileOf(InOrder, f)
      BY <1>6, <2>3 DEF Percentile
    <3> QED BY <1>5, <2>1, <3>1, SortAsks
  <2> QED BY <2>2, <2>3
<1>7. ASSUME NEW f \in Asked, Extreme(PercentileOf(InOrder, f)) PROVE Bag!Next
  <2>1. CASE values = <<>>
    <3>1. answer' = Unknown /\ values' = values
      BY <1>7, <2>1 DEF Extreme
    <3> QED BY <1>5, <2>1, <3>1, NothingAsks
  <2>2. CASE values # <<>>
    <3>1. Sort /\ answer' = PercentileOf(InOrder, f)
      BY <1>7, <2>2 DEF Extreme
    <3> QED BY <1>5, <3>1, SortAsks
  <2> QED BY <2>1, <2>2
<1>8. CASE Extreme(Smallest(InOrder)) \/ Extreme(Largest(InOrder))
  <2>1. <<0, 1>> \in Asked /\ <<1, 1>> \in Asked
    BY DEF Asked
  <2> QED BY <1>7, <1>8, <2>1, EndsAre
<1>9. CASE Calculate
  BY <1>3, <1>9, BagStutters DEF Calculate
<1>10. CASE AskMedian
  <2>1. values' = values /\ answer' \in IF values = <<>> THEN {Unknown}
                                                      ELSE {Median(values), answer}
    BY <1>10 DEF AskMedian
  <2>2. <<1, 2>> \in Asked
    BY DEF Asked
  <2>3. CASE values = <<>>
    BY <1>5, <2>1, <2>2, <2>3, NothingAsks
  <2>4. CASE values # <<>> /\ answer' = answer
    BY <2>1, <2>4, BagStutters
  <2>5. CASE values # <<>> /\ answer' = Median(values)
    <3>1. values \in Seq(Values)
      BY DEF IInv, TypeOK
    <3>2. PICK t : t = Ascending(values)
      OBVIOUS
    <3>3. /\ t \in Seq(Values) /\ t # <<>> /\ IsAscending(t)
          /\ BagOf(t) = BagOf(values)
      <4>1. /\ t \in Seq(Values) /\ Len(t) = Len(values) /\ IsAscending(t)
            /\ \A v : Count(t, v) = Count(values, v)
        BY <3>1, <3>2, AscendingIs
      <4>2. t # <<>>
        BY <2>5, <3>1, <4>1, SamplesAre, NoSamples
      <4> QED BY <4>1, <4>2 DEF BagOf
    <3>4. Bag!AtFraction(BagOf(values), <<1, 2>>) = answer'
      <4>1. Bag!AtFraction(BagOf(t), <<1, 2>>) = PercentileOf(t, <<1, 2>>)
        BY <2>2, <3>3, AskedAreFractions, AtFractionIs
      <4>2. answer' = PercentileOf(t, <<1, 2>>)
        BY <2>5, <3>1, <3>2, MedianIs
      <4> QED BY <3>3, <4>1, <4>2
    <3>5. Bag!Size(BagOf(values)) # 0
      BY <2>5, <3>1, BagSize, SamplesAre
    <3>6. Bag!Ask(<<1, 2>>)
      BY <2>1, <3>4, <3>5 DEF Bag!Ask, BagOf
    <3> QED BY <1>5, <2>2, <3>6
  <2> QED BY <2>1, <2>3, <2>4, <2>5
<1>11. CASE UNCHANGED vars
  BY <1>11, BagStutters DEF vars
<1> QED BY <1>1, <1>2, <1>4, <1>6, <1>8, <1>9, <1>10, <1>11 DEF Next

LEMMA BagInit == Init => Bag!Init
<1> SUFFICES ASSUME Init PROVE Bag!Init
  OBVIOUS
<1>1. values = <<>> /\ answer = Unknown
  BY DEF Init
<1>2. \A v : {i \in 1..Len(<<>>) : <<>>[i] = v} = {}
  BY NoSamples
<1>3. BagOf(values) = [v \in Values |-> 0]
  BY <1>1, <1>2, FS_EmptySet DEF BagOf, Count
<1> QED BY <1>1, <1>3 DEF Bag!Init, BagOf

\* Whatever is added, sorted and asked, in any order and with any failing
\* allocation: the answers of src/stats.c are those found by counting, and no
\* sample is lost or made up.
THEOREM CountsAsABag == Spec => ImplementsBag
  BY BagInit, BagStep, Invariance, PTL DEF Spec, ImplementsBag, Bag!Spec
=============================================================================
