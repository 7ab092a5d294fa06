---------------------------- MODULE SMetricProofs ----------------------------
(***************************************************************************)
(* Proofs about SMetric, for fronts of any number of points with any       *)
(* number of objectives.                                                   *)
(***************************************************************************)
EXTENDS SMetric, SequenceTheorems, FiniteSetTheorems, TLAPS

-----------------------------------------------------------------------------
(* Finite sets.                                                            *)

\* A finite set of integers that is not empty has a smallest element.
LEMMA MinOfSet ==
  ASSUME NEW S, IsFiniteSet(S), S \subseteq Int, S # {}
  PROVE  Min(S) \in S /\ \A x \in S : Min(S) <= x
<1> DEFINE T == {{x \in S : x <= m} : m \in S}
<1>1. T \subseteq FiniteSubsetsOf(S) /\ T # {}
  <2>1. T \subseteq SUBSET S /\ T # {}
    OBVIOUS
  <2> HIDE DEF T
  <2> QED BY <2>1, FS_FiniteSubsetsOfFinite
<1>2. PICK t \in T : \A u \in T : ~ (<<u, t>> \in StrictSubsetOrdering(S))
  <2> HIDE DEF T
  <2> QED BY <1>1, FS_StrictSubsetOrderingWellFounded, WFMin
<1>3. PICK m \in S : t = {x \in S : x <= m}
  OBVIOUS
<1>4. ASSUME NEW y \in S PROVE m <= y
  <2>1. SUFFICES ASSUME y < m PROVE FALSE
    OBVIOUS
  <2> DEFINE u == {x \in S : x <= y}
  <2>2. u \in T /\ u \in SUBSET S /\ t \in SUBSET S
    BY <1>3
  <2>3. \A x \in u : x \in t
    BY <1>3, <2>1
  <2>4. m \in t /\ m \notin u
    BY <1>3, <2>1
  <2> HIDE DEF T, u
  <2>5. ~ (<<u, t>> \in StrictSubsetOrdering(S))
    BY <1>2, <2>2
  <2> QED BY <2>2, <2>3, <2>4, <2>5 DEF StrictSubsetOrdering
<1> QED BY <1>4 DEF Min

\* And a greatest one.
LEMMA MaxOfSet ==
  ASSUME NEW S, IsFiniteSet(S), S \subseteq Int, S # {}
  PROVE  Max(S) \in S /\ \A x \in S : x <= Max(S)
<1> DEFINE T == {{x \in S : m <= x} : m \in S}
<1>1. T \subseteq FiniteSubsetsOf(S) /\ T # {}
  <2>1. T \subseteq SUBSET S /\ T # {}
    OBVIOUS
  <2> HIDE DEF T
  <2> QED BY <2>1, FS_FiniteSubsetsOfFinite
<1>2. PICK t \in T : \A u \in T : ~ (<<u, t>> \in StrictSubsetOrdering(S))
  <2> HIDE DEF T
  <2> QED BY <1>1, FS_StrictSubsetOrderingWellFounded, WFMin
<1>3. PICK m \in S : t = {x \in S : m <= x}
  OBVIOUS
<1>4. ASSUME NEW y \in S PROVE y <= m
  <2>1. SUFFICES ASSUME m < y PROVE FALSE
    OBVIOUS
  <2> DEFINE u == {x \in S : y <= x}
  <2>2. u \in T /\ u \in SUBSET S /\ t \in SUBSET S
    BY <1>3
  <2>3. \A x \in u : x \in t
    BY <1>3, <2>1
  <2>4. m \in t /\ m \notin u
    BY <1>3, <2>1
  <2> HIDE DEF T, u
  <2>5. ~ (<<u, t>> \in StrictSubsetOrdering(S))
    BY <1>2, <2>2
  <2> QED BY <2>2, <2>3, <2>4, <2>5 DEF StrictSubsetOrdering
<1> QED BY <1>4 DEF Max

\* The functions from a finite set to a finite set are finitely many: each has
\* its graph.
LEMMA FunctionsAreFinite ==
  ASSUME NEW A, NEW B, IsFiniteSet(A), IsFiniteSet(B)
  PROVE  IsFiniteSet([A -> B])
<1> DEFINE G == [f \in [A -> B] |-> {<<a, f[a]>> : a \in A}]
<1>1. IsFiniteSet(SUBSET (A \X B))
  BY FS_Product, FS_SUBSET
<1>2. G \in [[A -> B] -> SUBSET (A \X B)]
  OBVIOUS
<1>3. ASSUME NEW f \in [A -> B], NEW g \in [A -> B], G[f] = G[g] PROVE f = g
  <2>1. ASSUME NEW a \in A PROVE f[a] = g[a]
    <3>1. <<a, f[a]>> \in G[f]
      OBVIOUS
    <3>2. <<a, f[a]>> \in {<<b, g[b]>> : b \in A}
      BY <1>3, <3>1
    <3> QED BY <3>2
  <2> QED BY <2>1
<1> HIDE DEF G
<1>4. G \in Injection([A -> B], SUBSET (A \X B))
  BY <1>2, <1>3 DEF Injection, IsInjective
<1> QED BY <1>1, <1>4, FS_Injection

\* Values of finitely many points are finitely many.
LEMMA ValuesAreFinite ==
  ASSUME NEW v, NEW is, NEW o, IsFiniteSet(is)
  PROVE  IsFiniteSet({v[i][o] : i \in is})
<1> DEFINE T == {v[i][o] : i \in is}
           f == [i \in is |-> v[i][o]]
<1>1. f \in Surjection(is, T)
  BY DEF Surjection
<1> QED BY <1>1, FS_Surjection

\* The extreme values of points.
LEMMA ExtremeValues ==
  ASSUME NEW v, NEW is, NEW o, IsFiniteSet(is), is # {}, \A i \in is : v[i][o] \in Int
  PROVE  /\ \E i \in is : v[i][o] = MinValue(v, is, o)
         /\ \E i \in is : v[i][o] = MaxValue(v, is, o)
         /\ \A i \in is : MinValue(v, is, o) <= v[i][o] /\ v[i][o] <= MaxValue(v, is, o)
<1> DEFINE T == {v[i][o] : i \in is}
<1>1. IsFiniteSet(T) /\ T \subseteq Int /\ T # {}
  BY ValuesAreFinite
<1>2. /\ Min(T) \in T /\ \A x \in T : Min(T) <= x
      /\ Max(T) \in T /\ \A x \in T : x <= Max(T)
  <2> HIDE DEF T
  <2> QED BY <1>1, MinOfSet, MaxOfSet
<1> QED BY <1>2 DEF MinValue, MaxValue

-----------------------------------------------------------------------------
(* The measure of regions.                                                 *)

LEMMA RegionIsFinite ==
  ASSUME NEW v, NEW is, NEW k \in Nat, NEW most \in Nat
  PROVE  IsFiniteSet(Region(v, is, k, most))
<1>1. IsFiniteSet(1 .. k) /\ IsFiniteSet(1 .. most)
  BY FS_Interval
<1>2. IsFiniteSet([1 .. k -> 1 .. most])
  BY <1>1, FunctionsAreFinite
<1>3. Region(v, is, k, most) \subseteq [1 .. k -> 1 .. most]
  BY DEF Region
<1> QED BY <1>2, <1>3, FS_Subset

\* With one objective it is as long as the greatest value.
LEMMA LineMeasure ==
  ASSUME NEW v, NEW is, IsFiniteSet(is), is # {}, NEW most \in Nat,
         \A i \in is : v[i][1] \in 1 .. most
  PROVE  Cardinality(Region(v, is, 1, most)) = MaxValue(v, is, 1) /\ MaxValue(v, is, 1) \in 1 .. most
<1> DEFINE m == MaxValue(v, is, 1)
           R == Region(v, is, 1, most)
           f == [n \in 1 .. m |-> [o \in 1 .. 1 |-> n]]
<1>1. (\E i \in is : v[i][1] = m) /\ \A i \in is : v[i][1] <= m
  BY ExtremeValues
<1>2. m \in 1 .. most
  BY <1>1
<1> HIDE DEF m
<1>3. \A c \in [1 .. 1 -> 1 .. most] : c \in R <=> c[1] <= m
  <2>1. ASSUME NEW c \in [1 .. 1 -> 1 .. most] PROVE c \in R <=> \E i \in is : c[1] <= v[i][1]
    BY DEF Region
  <2>2. ASSUME NEW c \in [1 .. 1 -> 1 .. most]
        PROVE  (\E i \in is : c[1] <= v[i][1]) <=> c[1] <= m
    <3>1. c[1] \in Int /\ m \in Int /\ \A i \in is : v[i][1] \in Int
      BY <1>2
    <3> QED BY <1>1, <3>1
  <2> QED BY <2>1, <2>2
<1>4. R \subseteq [1 .. 1 -> 1 .. most]
  BY DEF Region
<1> HIDE DEF R
<1>5. \A n \in 1 .. m : f[n] \in [1 .. 1 -> 1 .. most] /\ f[n][1] = n /\ n <= m
  BY <1>2
<1>6. f \in [1 .. m -> R]
  BY <1>3, <1>5
<1>7. \A c \in R : c[1] \in 1 .. m /\ c = [o \in 1 .. 1 |-> c[1]]
  <2> TAKE c \in R
  <2>1. c \in [1 .. 1 -> 1 .. most] /\ c[1] <= m
    BY <1>3, <1>4
  <2> QED BY <1>2, <2>1
<1>8. \A c \in R : f[c[1]] = c
  BY <1>7
<1> HIDE DEF f
<1>9. f \in Bijection(1 .. m, R)
  BY <1>5, <1>6, <1>7, <1>8 DEF Bijection, Injection, Surjection, IsInjective
<1>10. IsFiniteSet(1 .. m) /\ Cardinality(1 .. m) = m
  BY <1>2, FS_Interval
<1> QED BY <1>2, <1>9, <1>10, FS_Bijection DEF ExistsBijection, m, R

\* A slice in which all points have the same part is as large as that part, in
\* the objectives before, times its thickness.
LEMMA SliceMeasure ==
  ASSUME NEW v, NEW is, NEW k \in Nat, k > 1, NEW most \in Nat,
         NEW a \in Nat, NEW b \in Nat, a <= b, b <= most, \A i \in is : v[i][k] \in Int /\ b <= v[i][k]
  PROVE  Cardinality({c \in Region(v, is, k, most) : a < c[k] /\ c[k] <= b})
             = Cardinality(Region(v, is, k - 1, most)) * (b - a)
<1> DEFINE R == Region(v, is, k - 1, most)
           S == {c \in Region(v, is, k, most) : a < c[k] /\ c[k] <= b}
           glued(c, h) == [o \in 1 .. k |-> IF o = k THEN h ELSE c[o]]
           f == [x \in R \X (a + 1 .. b) |-> glued(x[1], x[2])]
<1>0. /\ k - 1 \in Nat /\ k \in 1 .. k /\ k \notin 1 .. k - 1
      /\ 1 .. k - 1 \subseteq 1 .. k /\ \A o \in 1 .. k : o # k => o \in 1 .. k - 1
  OBVIOUS
<1>1. ASSUME NEW c \in R, NEW h \in a + 1 .. b
      PROVE  /\ glued(c, h) \in S /\ glued(c, h)[k] = h
             /\ \A o \in 1 .. k - 1 : glued(c, h)[o] = c[o]
  <2>1. c \in [1 .. k - 1 -> 1 .. most]
    BY DEF Region
  <2>2. PICK i \in is : \A o \in 1 .. k - 1 : c[o] <= v[i][o]
    BY DEF Region
  <2>3. h \in 1 .. most /\ h <= b /\ a < h /\ h \in Int
    OBVIOUS
  <2> DEFINE g == glued(c, h)
  <2>4. g \in [1 .. k -> 1 .. most] /\ g[k] = h /\ \A o \in 1 .. k - 1 : g[o] = c[o]
    BY <1>0, <2>1, <2>3
  <2> HIDE DEF g
  <2>5. v[i][k] \in Int /\ h <= v[i][k]
    BY <2>3
  <2>6. \A o \in 1 .. k : g[o] <= v[i][o]
    BY <1>0, <2>2, <2>4, <2>5
  <2>7. g \in S
    BY <2>3, <2>4, <2>6 DEF Region
  <2> QED BY <2>4, <2>7 DEF g
<1>2. ASSUME NEW c \in S
      PROVE  \E d \in R, h \in a + 1 .. b : c = glued(d, h)
  <2> DEFINE d == [o \in 1 .. k - 1 |-> c[o]]
  <2>1. c \in [1 .. k -> 1 .. most] /\ c[k] \in a + 1 .. b
    BY <1>0 DEF Region
  <2>2. PICK i \in is : \A o \in 1 .. k : c[o] <= v[i][o]
    BY DEF Region
  <2>3. d \in [1 .. k - 1 -> 1 .. most] /\ \A o \in 1 .. k - 1 : d[o] = c[o]
    BY <1>0, <2>1
  <2>4. d \in R
    BY <1>0, <2>2, <2>3 DEF Region
  <2>5. c = glued(d, c[k])
    BY <1>0, <2>1, <2>3
  <2> QED BY <2>1, <2>4, <2>5
<1>3. IsFiniteSet(R) /\ IsFiniteSet(a + 1 .. b) /\ Cardinality(a + 1 .. b) = b - a
  <2>1. a + 1 \in Int /\ b \in Int
    OBVIOUS
  <2>2. IsFiniteSet(a + 1 .. b) /\ Cardinality(a + 1 .. b) = IF a + 1 > b THEN 0 ELSE b - (a + 1) + 1
    BY <2>1, FS_Interval
  <2> QED BY <1>0, <2>2, RegionIsFinite
<1>4. \A c \in R : c \in [1 .. k - 1 -> 1 .. most]
  BY DEF Region
<1> HIDE DEF R, S
<1>5. f \in [R \X (a + 1 .. b) -> S]
  BY <1>1
<1>6. ASSUME NEW x \in R \X (a + 1 .. b), NEW y \in R \X (a + 1 .. b), f[x] = f[y]
      PROVE  x = y
  <2>1. glued(x[1], x[2]) = glued(y[1], y[2])
    BY <1>6
  <2> HIDE DEF glued
  <2>2. x[2] = y[2] /\ \A o \in 1 .. k - 1 : x[1][o] = y[1][o]
    BY <1>1, <2>1
  <2>3. x[1] = y[1]
    BY <1>4, <2>2
  <2> QED BY <2>2, <2>3
<1>7. \A c \in S : \E x \in R \X (a + 1 .. b) : f[x] = c
  <2> TAKE c \in S
  <2>1. PICK d \in R, h \in a + 1 .. b : c = glued(d, h)
    BY <1>2
  <2> WITNESS <<d, h>> \in R \X (a + 1 .. b)
  <2> QED BY <2>1
<1> HIDE DEF f
<1>8. f \in Bijection(R \X (a + 1 .. b), S)
  BY <1>5, <1>6, <1>7 DEF Bijection, Injection, Surjection, IsInjective
<1>9. /\ IsFiniteSet(R \X (a + 1 .. b))
      /\ Cardinality(R \X (a + 1 .. b)) = Cardinality(R) * (b - a)
  BY <1>3, FS_Product
<1> QED BY <1>8, <1>9, FS_Bijection DEF ExistsBijection, R, S

Measurable(v, is, k) == \A i \in is : \A o \in 1 .. k : v[i][o] \in Int

\* Every point of all in front of d is dominated or equalled by one of is.
StandFor(v, is, all, k, d) ==
    \A i \in all : d < v[i][k] => \E j \in is : \A o \in 1 .. k : v[i][o] <= v[j][o]

\* In front of d the points of is then dominate the same region as those of all.
LEMMA SameRegionInFront ==
  ASSUME NEW v, NEW all, NEW is \in SUBSET all, NEW k \in Nat, k >= 1, NEW most \in Nat, NEW d \in Nat,
         Measurable(v, all, k),
         StandFor(v, is, all, k, d)
  PROVE  {c \in Region(v, all, k, most) : d < c[k]} = {c \in Region(v, is, k, most) : d < c[k]}
<1>1. Region(v, is, k, most) \subseteq Region(v, all, k, most)
  BY DEF Region
<1>2. ASSUME NEW c \in Region(v, all, k, most), d < c[k]
      PROVE  c \in Region(v, is, k, most)
  <2>1. c \in [1 .. k -> 1 .. most] /\ k \in 1 .. k
    BY DEF Region
  <2>2. PICK i \in all : \A o \in 1 .. k : c[o] <= v[i][o]
    BY DEF Region
  <2>3. d < v[i][k]
    <3>1. c[k] \in Int /\ v[i][k] \in Int /\ c[k] <= v[i][k]
      BY <2>1, <2>2 DEF Measurable
    <3> QED BY <1>2, <3>1
  <2>4. PICK j \in is : \A o \in 1 .. k : v[i][o] <= v[j][o]
    BY <2>3 DEF StandFor
  <2>5. \A o \in 1 .. k : c[o] \in Int /\ v[i][o] \in Int /\ v[j][o] \in Int
    BY <2>1 DEF Measurable
  <2>6. \A o \in 1 .. k : c[o] <= v[j][o]
    BY <2>2, <2>4, <2>5
  <2> QED BY <2>1, <2>6 DEF Region
<1> QED BY <1>1, <1>2

\* What lies behind the next slice is what lay behind the last, and the slice.
LEMMA SlicesAddUp ==
  ASSUME NEW v, NEW all, NEW is \in SUBSET all, NEW k \in Nat, k > 1, NEW most \in Nat,
         NEW d \in Nat, NEW e \in Nat, d <= e, e <= most,
         Measurable(v, all, k),
         StandFor(v, is, all, k, d),
         \A i \in is : e <= v[i][k]
  PROVE  Cardinality({c \in Region(v, all, k, most) : c[k] <= e})
             = Cardinality({c \in Region(v, all, k, most) : c[k] <= d})
                   + Cardinality(Region(v, is, k - 1, most)) * (e - d)
<1> DEFINE R == Region(v, all, k, most)
           S == {c \in Region(v, is, k, most) : d < c[k] /\ c[k] <= e}
           A == {c \in R : c[k] <= d}
           B == {c \in R : c[k] <= e}
<1>1. {c \in R : d < c[k]} = {c \in Region(v, is, k, most) : d < c[k]}
  <2>1. k >= 1
    OBVIOUS
  <2> QED BY <2>1, SameRegionInFront
<1>2. \A c \in R : c[k] \in Int
  BY DEF Region
<1>3. IsFiniteSet(R)
  BY RegionIsFinite
<1>4. B = A \cup S /\ A \cap S = {} /\ A \subseteq R /\ S \subseteq R
  <2> HIDE DEF R
  <2> QED BY <1>1, <1>2
<1>5. Cardinality(S) = Cardinality(Region(v, is, k - 1, most)) * (e - d)
  <2>1. \A i \in is : v[i][k] \in Int /\ e <= v[i][k]
    BY DEF Measurable
  <2> QED BY <2>1, SliceMeasure
<1> HIDE DEF R, S, A, B
<1>6. IsFiniteSet(A) /\ IsFiniteSet(S)
  BY <1>3, <1>4, FS_Subset
<1>7. Cardinality(B) = Cardinality(A) + Cardinality(S)
  <2>1. Cardinality(A) \in Nat /\ Cardinality(S) \in Nat /\ Cardinality(A \cap S) = 0
    BY <1>4, <1>6, FS_CardinalityType, FS_EmptySet
  <2>2. Cardinality(A \cup S) = Cardinality(A) + Cardinality(S) - Cardinality(A \cap S)
    BY <1>6, FS_Union
  <2> QED BY <1>4, <2>1, <2>2
<1> QED BY <1>5, <1>7 DEF A, B, R

\* Inverting the values turns the region that is to be measured when they are to
\* be minimized over, and does not change its measure.
LEMMA InvertedMeasure ==
  ASSUME NEW v, NEW w, NEW is, NEW k \in Nat, NEW most \in Nat, NEW worst,
         \A o \in 1 .. k : worst[o] \in 1 .. most,
         \A i \in is : \A o \in 1 .. k : v[i][o] \in 1 .. worst[o] /\ w[i][o] = worst[o] - v[i][o] + 1
  PROVE  Cardinality(Region(w, is, k, most)) = Cardinality(RegionBelow(v, is, k, worst, most))
<1> DEFINE R == Region(w, is, k, most)
           B == RegionBelow(v, is, k, worst, most)
           over(c) == [o \in 1 .. k |-> worst[o] - c[o] + 1]
           f == [c \in R |-> over(c)]
<1>1. ASSUME NEW c \in R
      PROVE  over(c) \in B /\ \A o \in 1 .. k : over(c)[o] = worst[o] - c[o] + 1
  <2>1. c \in [1 .. k -> 1 .. most]
    BY DEF Region
  <2>2. PICK i \in is : \A o \in 1 .. k : c[o] <= w[i][o]
    BY DEF Region
  <2> DEFINE d == over(c)
  <2>3. \A o \in 1 .. k : d[o] = worst[o] - c[o] + 1
    OBVIOUS
  <2>4. ASSUME NEW o \in 1 .. k PROVE d[o] \in 1 .. most /\ v[i][o] <= d[o] /\ d[o] <= worst[o]
    <3>1. /\ worst[o] \in 1 .. most /\ v[i][o] \in 1 .. worst[o] /\ c[o] \in 1 .. most
          /\ c[o] <= worst[o] - v[i][o] + 1
      BY <2>1, <2>2
    <3> HIDE DEF d
    <3> QED BY <2>3, <3>1
  <2>5. d \in [1 .. k -> 1 .. most]
    BY <2>4
  <2> HIDE DEF d
  <2>6. d \in B
    BY <2>4, <2>5 DEF RegionBelow
  <2> QED BY <2>3, <2>6 DEF d
<1>2. ASSUME NEW d \in B
      PROVE  \E c \in R : over(c) = d
  <2>1. d \in [1 .. k -> 1 .. most]
    BY DEF RegionBelow
  <2>2. PICK i \in is : \A o \in 1 .. k : v[i][o] <= d[o] /\ d[o] <= worst[o]
    BY DEF RegionBelow
  <2> DEFINE c == over(d)
  <2>3. \A o \in 1 .. k : c[o] = worst[o] - d[o] + 1
    OBVIOUS
  <2>4. ASSUME NEW o \in 1 .. k PROVE c[o] \in 1 .. most /\ c[o] <= w[i][o] /\ worst[o] - c[o] + 1 = d[o]
    <3>1. /\ worst[o] \in 1 .. most /\ v[i][o] \in 1 .. worst[o] /\ d[o] \in 1 .. most
          /\ v[i][o] <= d[o] /\ d[o] <= worst[o] /\ w[i][o] = worst[o] - v[i][o] + 1
      BY <2>1, <2>2
    <3> HIDE DEF c
    <3> QED BY <2>3, <3>1
  <2>5. c \in [1 .. k -> 1 .. most]
    BY <2>4
  <2> HIDE DEF c
  <2>6. c \in R
    BY <2>4, <2>5 DEF Region
  <2>7. over(c) = d
    BY <2>1, <2>4
  <2> QED BY <2>6, <2>7
<1>3. \A c \in R : c \in [1 .. k -> 1 .. most]
  BY DEF Region
<1>4. IsFiniteSet(R)
  BY RegionIsFinite
<1> HIDE DEF R, B
<1>5. ASSUME NEW c \in R, NEW d \in R, f[c] = f[d] PROVE c = d
  <2>1. over(c) = over(d)
    BY <1>5
  <2> HIDE DEF over
  <2>2. ASSUME NEW o \in 1 .. k PROVE c[o] = d[o]
    <3>1. worst[o] - c[o] + 1 = worst[o] - d[o] + 1
      BY <1>1, <2>1
    <3>2. worst[o] \in Int /\ c[o] \in Int /\ d[o] \in Int
      BY <1>3
    <3> QED BY <3>1, <3>2
  <2> QED BY <1>3, <2>2
<1>6. f \in [R -> B] /\ \A d \in B : \E c \in R : f[c] = d
  BY <1>1, <1>2
<1> HIDE DEF f
<1>7. f \in Bijection(R, B)
  BY <1>5, <1>6 DEF Bijection, Injection, Surjection, IsInjective
<1> QED BY <1>4, <1>7, FS_Bijection DEF ExistsBijection, R, B

-----------------------------------------------------------------------------
(* Lists and domination.                                                   *)

\* remove takes an element from a list that has it once.
LEMMA RemoveFirstTakesOne ==
  ASSUME NEW S, NEW s \in Seq(S), IsInjective(s), NEW p \in 1 .. Len(s)
  PROVE  LET r == RemoveFirst(s, s[p])
         IN  /\ r \in Seq(S) /\ IsInjective(r)
             /\ ToSet(r) = ToSet(s) \ {s[p]}
             /\ \A q \in 1 .. p - 1 : q \in 1 .. Len(r) /\ r[q] = s[q]
<1> DEFINE a == SubSeq(s, 1, p - 1)
           z == SubSeq(s, p + 1, Len(s))
           r == RemoveFirst(s, s[p])
           old(q) == IF q < p THEN q ELSE q + 1
<1>1. Len(s) \in Nat /\ DOMAIN s = 1 .. Len(s)
  BY LenProperties
<1>2. \A i, k \in 1 .. Len(s) : s[i] = s[k] => i = k
  BY <1>1 DEF IsInjective
<1>3. r = a \o z
  <2>1. {i \in 1 .. Len(s) : s[i] = s[p]} = {p}
    BY <1>2
  <2>2. Min({p}) = p
    BY <1>1 DEF Min
  <2> QED BY <2>1, <2>2 DEF RemoveFirst, SelectInSeq, RemoveAt
<1>4. a \in Seq(S) /\ Len(a) = p - 1 /\ \A k \in 1 .. p - 1 : a[k] = s[k]
  BY <1>1, SubSeqProperties
<1>5. z \in Seq(S) /\ Len(z) = Len(s) - p /\ \A k \in 1 .. Len(s) - p : z[k] = s[p + k]
  <2>1. p + 1 \in Int /\ Len(s) \in Int /\ \A i \in p + 1 .. Len(s) : s[i] \in S
    BY <1>1, ElementOfSeq
  <2>2. /\ z \in Seq(S) /\ Len(z) = IF p + 1 <= Len(s) THEN Len(s) - (p + 1) + 1 ELSE 0
        /\ \A k \in 1 .. Len(s) - (p + 1) + 1 : z[k] = s[(p + 1) + k - 1]
    BY <2>1, SubSeqProperties
  <2> HIDE DEF z
  <2>3. Len(z) = Len(s) - p /\ Len(s) - (p + 1) + 1 = Len(s) - p
    <3>1. Len(z) = IF p + 1 <= Len(s) THEN Len(s) - (p + 1) + 1 ELSE 0
      BY <2>2
    <3>2. Len(s) \in Nat /\ p \in Nat /\ p <= Len(s)
      BY <1>1
    <3> HIDE DEF r, a
    <3> QED BY <3>1, <3>2
  <2>4. \A k \in 1 .. Len(s) - p : (p + 1) + k - 1 = p + k
    BY <1>1
  <2> QED BY <2>2, <2>3, <2>4
<1> HIDE DEF a, z, r
<1>6. /\ a \o z \in Seq(S) /\ Len(a \o z) = Len(a) + Len(z)
      /\ \A k \in 1 .. Len(a) + Len(z) : (a \o z)[k] = IF k <= Len(a) THEN a[k] ELSE z[k - Len(a)]
  BY <1>4, <1>5, ConcatProperties
<1>7. r \in Seq(S) /\ Len(r) = Len(s) - 1 /\ DOMAIN r = 1 .. Len(s) - 1
  <2>1. r \in Seq(S) /\ Len(r) = Len(s) - 1
    BY <1>1, <1>3, <1>4, <1>5, <1>6
  <2> QED BY <2>1, LenProperties
<1>8. ASSUME NEW k \in 1 .. Len(s) - 1
      PROVE  r[k] = s[old(k)] /\ old(k) \in 1 .. Len(s) /\ old(k) # p
  <2>1. CASE k < p
    <3>1. (a \o z)[k] = a[k] /\ k \in 1 .. p - 1
      BY <1>1, <1>4, <1>5, <1>6, <2>1
    <3> QED BY <1>1, <1>3, <1>4, <2>1, <3>1
  <2>2. CASE ~ (k < p)
    <3>1. (a \o z)[k] = z[k - Len(a)] /\ k - Len(a) \in 1 .. Len(s) - p /\ p + (k - Len(a)) = k + 1
      BY <1>1, <1>4, <1>5, <1>6, <2>2
    <3> QED BY <1>1, <1>3, <1>5, <2>2, <3>1
  <2> QED BY <2>1, <2>2
<1>9. IsInjective(r)
  <2>1. ASSUME NEW i \in 1 .. Len(s) - 1, NEW k \in 1 .. Len(s) - 1, r[i] = r[k] PROVE i = k
    <3>1. old(i) = old(k)
      BY <1>2, <1>8, <2>1
    <3> QED BY <1>1, <3>1
  <2> QED BY <1>7, <2>1 DEF IsInjective
<1>10. ToSet(r) = ToSet(s) \ {s[p]}
  <2>1. ASSUME NEW x \in ToSet(r) PROVE x \in ToSet(s) /\ x # s[p]
    <3>1. PICK k \in 1 .. Len(s) - 1 : x = r[k]
      BY <1>7 DEF ToSet
    <3>2. x = s[old(k)] /\ old(k) \in 1 .. Len(s) /\ old(k) # p
      BY <1>8, <3>1
    <3> HIDE DEF old
    <3> QED BY <1>1, <1>2, <3>2 DEF ToSet
  <2>2. ASSUME NEW x \in ToSet(s), x # s[p] PROVE x \in ToSet(r)
    <3>1. PICK i \in 1 .. Len(s) : x = s[i]
      BY <1>1 DEF ToSet
    <3>2. \E k \in 1 .. Len(s) - 1 : old(k) = i
      <4>1. CASE i < p
        <5>1. i \in 1 .. Len(s) - 1 /\ old(i) = i
          BY <1>1, <4>1
        <5> QED BY <5>1
      <4>2. CASE i > p
        <5>1. i - 1 \in 1 .. Len(s) - 1 /\ old(i - 1) = i
          BY <1>1, <4>2
        <5> QED BY <5>1
      <4> QED BY <1>1, <2>2, <3>1, <4>1, <4>2
    <3>3. PICK k \in 1 .. Len(s) - 1 : old(k) = i
      BY <3>2
    <3>4. r[k] = x
      BY <1>8, <3>1, <3>3
    <3> QED BY <1>7, <3>4 DEF ToSet
  <2> QED BY <2>1, <2>2
<1>11. ASSUME NEW q \in 1 .. p - 1 PROVE q \in 1 .. Len(r) /\ r[q] = s[q]
  <2>1. q \in 1 .. Len(s) - 1 /\ old(q) = q
    BY <1>1
  <2> QED BY <1>7, <1>8, <2>1
<1> QED BY <1>7, <1>9, <1>10, <1>11 DEF r

\* And it leaves a list that does not have the element.
LEMMA RemoveFirstOfNone ==
  ASSUME NEW S, NEW s \in Seq(S), NEW x, x \notin ToSet(s)
  PROVE  RemoveFirst(s, x) = s
<1>1. DOMAIN s = 1 .. Len(s)
  BY LenProperties
<1>2. \A i \in 1 .. Len(s) : s[i] # x
  BY <1>1 DEF ToSet
<1> QED BY <1>2 DEF RemoveFirst

\* A point that is appended is in the list once if it was not in it.
LEMMA AppendNew ==
  ASSUME NEW S, NEW s \in Seq(S), IsInjective(s), NEW x \in S, x \notin ToSet(s)
  PROVE  /\ Append(s, x) \in Seq(S) /\ IsInjective(Append(s, x))
         /\ ToSet(Append(s, x)) = ToSet(s) \cup {x}
<1> DEFINE r == Append(s, x)
<1>1. /\ r \in Seq(S) /\ Len(r) = Len(s) + 1 /\ Len(s) \in Nat
      /\ DOMAIN s = 1 .. Len(s) /\ DOMAIN r = 1 .. Len(s) + 1
      /\ \A i \in 1 .. Len(s) : r[i] = s[i] /\ r[Len(s) + 1] = x
  BY LenProperties, AppendProperties
<1>2. r[Len(s) + 1] = x /\ \A i \in 1 .. Len(s) + 1 : i = Len(s) + 1 \/ i \in 1 .. Len(s)
  BY <1>1, AppendProperties
<1> HIDE DEF r
<1>3. \A i, k \in 1 .. Len(s) : s[i] = s[k] => i = k
  BY <1>1 DEF IsInjective
<1>4. \A i \in 1 .. Len(s) : s[i] # x
  BY <1>1 DEF ToSet
<1>5. IsInjective(r)
  BY <1>1, <1>2, <1>3, <1>4 DEF IsInjective
<1>6. ToSet(r) = ToSet(s) \cup {x}
  <2>1. Len(s) + 1 \in 1 .. Len(s) + 1 /\ 1 .. Len(s) \subseteq 1 .. Len(s) + 1
    BY <1>1
  <2> QED BY <1>1, <1>2, <2>1 DEF ToSet
<1> QED BY <1>1, <1>5, <1>6 DEF r

LEMMA DominatesTransitive ==
  ASSUME NEW v, NEW is, NEW k \in Nat, Measurable(v, is, k), NEW a \in is, NEW b \in is, NEW c \in is,
         Dominates(v, a, b, k), Dominates(v, b, c, k)
  PROVE  Dominates(v, a, c, k)
<1>1. \A o \in 1 .. k : v[a][o] \in Int /\ v[b][o] \in Int /\ v[c][o] \in Int
  BY DEF Measurable
<1>2. \A o \in 1 .. k : v[a][o] >= v[b][o] /\ v[b][o] >= v[c][o]
  BY DEF Dominates
<1>3. PICK o \in 1 .. k : v[a][o] > v[b][o]
  BY DEF Dominates
<1>4. \A p \in 1 .. k : v[a][p] >= v[c][p]
  BY <1>1, <1>2
<1>5. v[a][o] > v[c][o]
  BY <1>1, <1>2, <1>3
<1> QED BY <1>4, <1>5 DEF Dominates

LEMMA DominatesIrreflexive ==
  ASSUME NEW v, NEW is, NEW k \in Nat, Measurable(v, is, k), NEW a \in is
  PROVE  ~ Dominates(v, a, a, k)
<1>1. \A o \in 1 .. k : v[a][o] \in Int
  BY DEF Measurable
<1> QED BY <1>1 DEF Dominates

-----------------------------------------------------------------------------
(* getNondominatedSolutions.  The list it builds, of the points in seen, with *)
(* values v in the first k objectives.                                        *)

\* Each point that was seen and is not in the list is dominated by one that is.
Displaced(v, list, seen, k) ==
    \A i \in seen \ ToSet(list) : \E j \in ToSet(list) : Dominates(v, j, i, k)

NoneDominates(v, is, k) == \A i, j \in is : ~ Dominates(v, i, j, k)

\* Between two points of population.
ListInv(v, list, seen, k) ==
    /\ list \in Seq(seen) /\ IsInjective(list)
    /\ NoneDominates(v, ToSet(list), k)
    /\ Displaced(v, list, seen, k)

\* While the point x is compared with the competitors, the next at place p: as
\* long as x is in the list, it has been compared with those before.
CompareInv(v, list, seen, k, x, p) ==
    /\ list \in Seq(seen) /\ IsInjective(list)
    /\ x \in seen /\ p \in Nat \ {0}
    /\ NoneDominates(v, ToSet(list) \ {x}, k)
    /\ Displaced(v, list, seen, k)
    /\ x \in ToSet(list) =>
           \A q \in 1 .. Len(list) : q < p => ~ Dominates(v, x, list[q], k) /\ ~ Dominates(v, list[q], x, k)

-----------------------------------------------------------------------------
(* What the steps of getNondominatedSolutions do to its list.              *)

\* A list is over the points that it has.
LEMMA ListHas ==
  ASSUME NEW S, NEW s \in Seq(S)
  PROVE  ToSet(s) \subseteq S /\ \A q \in 1 .. Len(s) : s[q] \in ToSet(s)
<1>1. DOMAIN s = 1 .. Len(s) /\ \A q \in 1 .. Len(s) : s[q] \in S
  BY LenProperties, ElementOfSeq
<1> QED BY <1>1 DEF ToSet

\* The list with the first point.
LEMMA ListStart ==
  ASSUME NEW v, NEW is, NEW k \in Nat, Measurable(v, is, k), NEW i \in is
  PROVE  ListInv(v, <<i>>, {i}, k)
<1>1. <<i>> \in Seq({i}) /\ IsInjective(<<i>>) /\ ToSet(<<i>>) = {i}
  BY DEF IsInjective, ToSet
<1>2. ~ Dominates(v, i, i, k)
  BY DominatesIrreflexive
<1> HIDE DEF Dominates
<1> QED BY <1>1, <1>2 DEF ListInv, NoneDominates, Displaced

\* The next point is compared with the first competitor.
LEMMA ListConsider ==
  ASSUME NEW v, NEW seen, NEW k, NEW list, ListInv(v, list, seen, k), NEW x, x \notin seen
  PROVE  CompareInv(v, Append(list, x), seen \cup {x}, k, x, 1)
<1>1. list \in Seq(seen) /\ IsInjective(list)
  BY DEF ListInv
<1>2. list \in Seq(seen \cup {x}) /\ ToSet(list) \subseteq seen
  BY <1>1, ListHas, SeqMonotonic
<1> DEFINE r == Append(list, x)
<1>3. r \in Seq(seen \cup {x}) /\ IsInjective(r) /\ ToSet(r) = ToSet(list) \cup {x}
  BY <1>1, <1>2, AppendNew
<1> HIDE DEF r
<1>4. NoneDominates(v, ToSet(r) \ {x}, k)
  BY <1>2, <1>3 DEF ListInv, NoneDominates
<1>5. Displaced(v, r, seen \cup {x}, k)
  BY <1>3 DEF ListInv, Displaced
<1>6. \A q \in 1 .. Len(r) : ~ (q < 1)
  OBVIOUS
<1> QED BY <1>3, <1>4, <1>5, <1>6 DEF CompareInv, r

\* The point takes the place of a competitor it dominates.  It is still in the
\* list then: the one that would have displaced it would dominate the competitor.
LEMMA ListDisplace ==
  ASSUME NEW v, NEW seen, NEW k \in Nat, Measurable(v, seen, k), NEW list, NEW x, NEW p,
         CompareInv(v, list, seen, k, x, p),
         p <= Len(list), list[p] # x, Dominates(v, x, list[p], k)
  PROVE  CompareInv(v, RemoveFirst(list, list[p]), seen, k, x, p)
<1> DEFINE r == RemoveFirst(list, list[p])
<1>1. /\ list \in Seq(seen) /\ IsInjective(list) /\ x \in seen
      /\ NoneDominates(v, ToSet(list) \ {x}, k) /\ Displaced(v, list, seen, k)
  BY DEF CompareInv
<1>2. p \in 1 .. Len(list) /\ p \in Nat /\ Len(list) \in Nat
  BY <1>1, LenProperties DEF CompareInv
<1>3. ToSet(list) \subseteq seen /\ list[p] \in ToSet(list)
  BY <1>1, <1>2, ListHas
<1>4. /\ r \in Seq(seen) /\ IsInjective(r) /\ ToSet(r) = ToSet(list) \ {list[p]}
      /\ \A q \in 1 .. p - 1 : q \in 1 .. Len(r) /\ r[q] = list[q]
  BY <1>1, <1>2, RemoveFirstTakesOne
<1> HIDE DEF r
<1>5. x \in ToSet(list)
  <2>1. SUFFICES ASSUME x \notin ToSet(list) PROVE FALSE
    OBVIOUS
  <2>2. PICK j \in ToSet(list) : Dominates(v, j, x, k)
    BY <1>1, <2>1 DEF Displaced
  <2>3. Dominates(v, j, list[p], k)
    BY <1>1, <1>3, <2>2, DominatesTransitive
  <2> QED BY <1>1, <1>3, <2>1, <2>3 DEF NoneDominates
<1>6. NoneDominates(v, ToSet(r) \ {x}, k)
  BY <1>1, <1>4 DEF NoneDominates
<1>7. ASSUME NEW i \in seen \ ToSet(r) PROVE \E j \in ToSet(r) : Dominates(v, j, i, k)
  <2>1. CASE i = list[p]
    BY <1>4, <1>5, <2>1
  <2>2. CASE i # list[p]
    <3>1. PICK j \in ToSet(list) : Dominates(v, j, i, k)
      BY <1>1, <1>4, <2>2 DEF Displaced
    <3>2. j = list[p] => Dominates(v, x, i, k)
      BY <1>1, <1>3, <3>1, DominatesTransitive
    <3> QED BY <1>4, <1>5, <3>1, <3>2
  <2> QED BY <2>1, <2>2
<1>8. ASSUME NEW q \in 1 .. Len(r), q < p
      PROVE  ~ Dominates(v, x, r[q], k) /\ ~ Dominates(v, r[q], x, k)
  <2>1. q \in 1 .. p - 1 /\ q \in 1 .. Len(list)
    BY <1>2, <1>8
  <2>2. r[q] = list[q]
    BY <1>4, <2>1
  <2> QED BY <1>5, <1>8, <2>1, <2>2 DEF CompareInv
<1>9. Displaced(v, r, seen, k)
  BY <1>7 DEF Displaced
<1>10. p \in Nat \ {0}
  BY DEF CompareInv
<1> QED BY <1>1, <1>4, <1>6, <1>8, <1>9, <1>10 DEF CompareInv, r

\* A competitor takes the place of the point it is compared with, if that is
\* still in the list.
LEMMA ListReject ==
  ASSUME NEW v, NEW seen, NEW k \in Nat, Measurable(v, seen, k), NEW list, NEW x, NEW p,
         CompareInv(v, list, seen, k, x, p),
         p <= Len(list), list[p] # x, Dominates(v, list[p], x, k)
  PROVE  CompareInv(v, RemoveFirst(list, x), seen, k, x, p + 1)
<1> DEFINE r == RemoveFirst(list, x)
<1>1. /\ list \in Seq(seen) /\ IsInjective(list) /\ x \in seen /\ p \in Nat \ {0}
      /\ NoneDominates(v, ToSet(list) \ {x}, k) /\ Displaced(v, list, seen, k)
  BY DEF CompareInv
<1>2. p \in 1 .. Len(list) /\ p + 1 \in Nat \ {0}
  BY <1>1, LenProperties
<1>3. ToSet(list) \subseteq seen /\ list[p] \in ToSet(list)
  BY <1>1, <1>2, ListHas
<1>4. r \in Seq(seen) /\ IsInjective(r) /\ ToSet(r) = ToSet(list) \ {x}
  <2>1. CASE x \in ToSet(list)
    <3>1. PICK m \in 1 .. Len(list) : x = list[m]
      BY <1>1, <2>1, LenProperties DEF ToSet
    <3> QED BY <1>1, <3>1, RemoveFirstTakesOne
  <2>2. CASE x \notin ToSet(list)
    BY <1>1, <2>2, RemoveFirstOfNone
  <2> QED BY <2>1, <2>2
<1> HIDE DEF r
<1>5. NoneDominates(v, ToSet(r) \ {x}, k)
  BY <1>1, <1>4 DEF NoneDominates
<1>6. ASSUME NEW i \in seen \ ToSet(r) PROVE \E j \in ToSet(r) : Dominates(v, j, i, k)
  <2>1. CASE i = x
    BY <1>3, <1>4, <2>1
  <2>2. CASE i # x
    <3>1. PICK j \in ToSet(list) : Dominates(v, j, i, k)
      BY <1>1, <1>4, <2>2 DEF Displaced
    <3>2. j = x => Dominates(v, list[p], i, k)
      BY <1>1, <1>3, <3>1, DominatesTransitive
    <3> QED BY <1>3, <1>4, <3>1, <3>2
  <2> QED BY <2>1, <2>2
<1>7. Displaced(v, r, seen, k)
  BY <1>6 DEF Displaced
<1> QED BY <1>1, <1>2, <1>4, <1>5, <1>7 DEF CompareInv, r

\* The loop goes on to the next competitor.
LEMMA ListPass ==
  ASSUME NEW v, NEW seen, NEW k \in Nat, Measurable(v, seen, k), NEW list, NEW x, NEW p,
         CompareInv(v, list, seen, k, x, p), p <= Len(list),
         \/ list[p] = x
         \/ ~ Dominates(v, x, list[p], k) /\ ~ Dominates(v, list[p], x, k)
  PROVE  CompareInv(v, list, seen, k, x, p + 1)
<1>1. p \in Nat \ {0} /\ x \in seen
  BY DEF CompareInv
<1>2. ~ Dominates(v, x, list[p], k) /\ ~ Dominates(v, list[p], x, k)
  BY <1>1, DominatesIrreflexive
<1>3. p + 1 \in Nat \ {0} /\ \A q \in 1 .. Len(list) : q < p + 1 => q < p \/ q = p
  BY <1>1
<1>4. ASSUME NEW q \in 1 .. Len(list), q < p + 1, x \in ToSet(list)
      PROVE  ~ Dominates(v, x, list[q], k) /\ ~ Dominates(v, list[q], x, k)
  <2>1. q < p \/ q = p
    BY <1>3, <1>4
  <2> QED BY <1>2, <1>4, <2>1 DEF CompareInv
<1> QED BY <1>3, <1>4 DEF CompareInv

\* There is no other: what is in the list does not dominate each other.
LEMMA ListEnd ==
  ASSUME NEW v, NEW seen, NEW k \in Nat, Measurable(v, seen, k), NEW list, NEW x, NEW p,
         CompareInv(v, list, seen, k, x, p), p > Len(list)
  PROVE  ListInv(v, list, seen, k)
<1>1. /\ list \in Seq(seen) /\ IsInjective(list) /\ x \in seen /\ p \in Nat
      /\ NoneDominates(v, ToSet(list) \ {x}, k) /\ Displaced(v, list, seen, k)
  BY DEF CompareInv
<1>2. Len(list) \in Nat /\ DOMAIN list = 1 .. Len(list)
  BY <1>1, LenProperties
<1>3. \A q \in 1 .. Len(list) : q < p
  BY <1>1, <1>2
<1>4. ASSUME x \in ToSet(list), NEW i \in ToSet(list)
      PROVE  ~ Dominates(v, x, i, k) /\ ~ Dominates(v, i, x, k)
  <2>1. PICK q \in 1 .. Len(list) : i = list[q]
    BY <1>2 DEF ToSet
  <2> QED BY <1>3, <1>4, <2>1 DEF CompareInv
<1>5. NoneDominates(v, ToSet(list), k)
  BY <1>1, <1>4 DEF NoneDominates
<1> QED BY <1>1, <1>5 DEF ListInv

\* When all points were seen the list has those that none dominates.
LEMMA ListResult ==
  ASSUME NEW v, NEW all, NEW k \in Nat, Measurable(v, all, k), NEW list, ListInv(v, list, all, k)
  PROVE  ToSet(list) = {i \in all : \A j \in all : ~ Dominates(v, j, i, k)}
<1>1. ToSet(list) \subseteq all /\ NoneDominates(v, ToSet(list), k) /\ Displaced(v, list, all, k)
  BY ListHas DEF ListInv
<1>2. ASSUME NEW i \in ToSet(list), NEW j \in all PROVE ~ Dominates(v, j, i, k)
  <2>1. SUFFICES ASSUME Dominates(v, j, i, k) PROVE FALSE
    OBVIOUS
  <2>2. j \notin ToSet(list)
    BY <1>1, <2>1 DEF NoneDominates
  <2>3. PICK l \in ToSet(list) : Dominates(v, l, j, k)
    BY <1>1, <2>2 DEF Displaced
  <2>4. Dominates(v, l, i, k)
    BY <1>1, <2>1, <2>3, DominatesTransitive
  <2> QED BY <1>1, <2>4 DEF NoneDominates
<1>3. ASSUME NEW i \in all, \A j \in all : ~ Dominates(v, j, i, k) PROVE i \in ToSet(list)
  BY <1>1, <1>3 DEF Displaced
<1> QED BY <1>1, <1>2, <1>3

\* They dominate what all do.
LEMMA ListStandsForAll ==
  ASSUME NEW v, NEW all, NEW k \in Nat, Measurable(v, all, k), NEW list, ListInv(v, list, all, k)
  PROVE  \A d : StandFor(v, ToSet(list), all, k, d)
<1>1. ToSet(list) \subseteq all /\ Displaced(v, list, all, k)
  BY ListHas DEF ListInv
<1>2. ASSUME NEW i \in all PROVE \E j \in ToSet(list) : \A o \in 1 .. k : v[i][o] <= v[j][o]
  <2>1. CASE i \in ToSet(list)
    <3>1. \A o \in 1 .. k : v[i][o] <= v[i][o]
      BY DEF Measurable
    <3> QED BY <2>1, <3>1
  <2>2. CASE i \notin ToSet(list)
    <3>1. PICK j \in ToSet(list) : Dominates(v, j, i, k)
      BY <1>1, <2>2 DEF Displaced
    <3>2. \A o \in 1 .. k : v[j][o] >= v[i][o] /\ v[j][o] \in Int /\ v[i][o] \in Int
      BY <1>1, <3>1 DEF Dominates, Measurable
    <3>3. \A o \in 1 .. k : v[i][o] <= v[j][o]
      BY <3>2
    <3> QED BY <3>3
  <2> QED BY <2>1, <2>2
<1> QED BY <1>2 DEF StandFor

-----------------------------------------------------------------------------
(* getMaximizationSMetricByHSO.                                            *)

\* A call about the points all, with values v in the first k objectives, that has
\* the points is left, when its last slice ended at d and the slices add up to vol:
\* those left are in front of d and dominate what is to be measured there, and
\* vol is the measure of what is behind.
CallInv(v, is, all, k, d, vol, most) ==
    /\ is \in SUBSET all
    /\ d \in 0 .. most
    /\ \A i \in is : d < v[i][k]
    /\ StandFor(v, is, all, k, d)
    /\ k > 1 => vol = Cardinality({c \in Region(v, all, k, most) : c[k] <= d})

-----------------------------------------------------------------------------
(* What the steps of getMaximizationSMetricByHSO do to a call.             *)

\* Values as they are: integers from 1 to most.
Valued(v, is, k, most) == \A i \in is : \A o \in 1 .. k : v[i][o] \in 1 .. most

LEMMA ValuedIsMeasurable ==
  ASSUME NEW v, NEW all, NEW is \in SUBSET all, NEW k \in Nat, NEW l \in Nat, l <= k, NEW most \in Nat,
         Valued(v, all, k, most)
  PROVE  Valued(v, is, l, most) /\ Measurable(v, is, l)
<1>1. 1 .. l \subseteq 1 .. k
  OBVIOUS
<1>2. 1 .. most \subseteq Int
  OBVIOUS
<1> QED BY <1>1, <1>2 DEF Valued, Measurable

\* A new call has nothing behind it, and may begin with the points that are not
\* dominated.
LEMMA CallBegins ==
  ASSUME NEW v, NEW all, NEW is \in SUBSET all, NEW k \in Nat \ {0}, NEW most \in Nat,
         Valued(v, all, k, most), StandFor(v, is, all, k, 0)
  PROVE  CallInv(v, is, all, k, 0, 0, most)
<1>1. \A i \in is : 0 < v[i][k]
  <2>1. k \in 1 .. k
    OBVIOUS
  <2>2. \A i \in is : v[i][k] \in 1 .. most
    BY <2>1 DEF Valued
  <2>3. \A n \in 1 .. most : 0 < n
    OBVIOUS
  <2> QED BY <2>2, <2>3
<1>2. {c \in Region(v, all, k, most) : c[k] <= 0} = {}
  <2>1. ASSUME NEW c \in Region(v, all, k, most) PROVE ~ (c[k] <= 0)
    <3>1. c \in [1 .. k -> 1 .. most] /\ k \in 1 .. k
      BY DEF Region
    <3>2. c[k] \in 1 .. most
      BY <3>1
    <3> QED BY <3>2
  <2> QED BY <2>1
<1>3. 0 \in 0 .. most
  OBVIOUS
<1> QED BY <1>1, <1>2, <1>3, FS_EmptySet DEF CallInv

\* The slice up to the smallest value is cut, when the volume of its points in
\* the objectives before is known.
LEMMA CallCuts ==
  ASSUME NEW v, NEW all, IsFiniteSet(all), NEW is, is # {}, NEW k \in Nat \ {0}, NEW most \in Nat,
         Valued(v, all, k, most),
         NEW d, NEW vol, CallInv(v, is, all, k, d, vol, most),
         NEW lastVol \in Nat, k > 1 => lastVol = Cardinality(Region(v, is, k - 1, most))
  PROVE  LET e == MinValue(v, is, k)
         IN  /\ Distance(e, d) \in Nat
             /\ CallInv(v, Above(v, is, k, e), all, k, e, vol + lastVol * Distance(e, d), most)
<1> DEFINE e == MinValue(v, is, k)
           left == Above(v, is, k, e)
<1>1. /\ is \in SUBSET all /\ d \in 0 .. most /\ \A i \in is : d < v[i][k]
      /\ StandFor(v, is, all, k, d)
  BY DEF CallInv
<1>2. k \in 1 .. k /\ \A i \in all : v[i][k] \in 1 .. most
  BY DEF Valued
<1>3. /\ \E i \in is : v[i][k] = e
      /\ \A i \in is : e <= v[i][k]
  <2>1. IsFiniteSet(is)
    BY <1>1, FS_Subset
  <2>2. \A i \in is : v[i][k] \in Int
    BY <1>1, <1>2
  <2> QED BY <2>1, <2>2, ExtremeValues
<1> HIDE DEF e
<1>4. e \in 1 .. most /\ d < e
  <2>1. PICK i \in is : v[i][k] = e
    BY <1>3
  <2> QED BY <1>1, <1>2, <2>1
<1>5. d \in Nat /\ e \in Nat /\ d <= e /\ e <= most /\ Distance(e, d) = e - d /\ e - d \in Nat
  BY <1>1, <1>4 DEF Distance
<1>6. left \in SUBSET all /\ \A i \in left : e < v[i][k]
  BY <1>1 DEF Above
<1>7. StandFor(v, left, all, k, e)
  <2>1. ASSUME NEW i \in all, e < v[i][k]
        PROVE  \E j \in left : \A o \in 1 .. k : v[i][o] <= v[j][o]
    <3>1. v[i][k] \in Int /\ d < v[i][k]
      BY <1>2, <1>5, <2>1
    <3>2. PICK j \in is : \A o \in 1 .. k : v[i][o] <= v[j][o]
      BY <1>1, <3>1 DEF StandFor
    <3>3. v[j][k] \in Int /\ v[i][k] <= v[j][k]
      BY <1>1, <1>2, <3>2
    <3>4. e < v[j][k]
      BY <1>5, <2>1, <3>1, <3>3
    <3>5. j \in left
      BY <3>4 DEF Above
    <3> QED BY <3>2, <3>5
  <2> QED BY <2>1 DEF StandFor
<1>8. ASSUME k > 1
      PROVE  vol + lastVol * Distance(e, d) = Cardinality({c \in Region(v, all, k, most) : c[k] <= e})
  <2>1. Measurable(v, all, k)
    BY ValuedIsMeasurable
  <2>2. Cardinality({c \in Region(v, all, k, most) : c[k] <= e})
            = Cardinality({c \in Region(v, all, k, most) : c[k] <= d})
                  + Cardinality(Region(v, is, k - 1, most)) * (e - d)
    BY <1>1, <1>3, <1>5, <1>8, <2>1, SlicesAddUp
  <2>3. vol = Cardinality({c \in Region(v, all, k, most) : c[k] <= d})
    BY <1>8 DEF CallInv
  <2> QED BY <1>5, <1>8, <2>2, <2>3
<1>9. e \in 0 .. most
  BY <1>4
<1> HIDE DEF left
<1>10. CallInv(v, left, all, k, e, vol + lastVol * Distance(e, d), most)
  BY <1>6, <1>7, <1>8, <1>9 DEF CallInv
<1> QED BY <1>5, <1>10 DEF e, left

\* When no points are left, the slices are all there is.
LEMMA CallEnds ==
  ASSUME NEW v, NEW all, NEW k \in Nat, k > 1, NEW most \in Nat,
         Valued(v, all, k, most),
         NEW d, NEW vol, CallInv(v, {}, all, k, d, vol, most)
  PROVE  vol = Cardinality(Region(v, all, k, most))
<1>1. ASSUME NEW c \in Region(v, all, k, most) PROVE c[k] <= d
  <2>1. c \in [1 .. k -> 1 .. most] /\ k \in 1 .. k
    BY DEF Region
  <2>2. PICK i \in all : \A o \in 1 .. k : c[o] <= v[i][o]
    BY DEF Region
  <2>3. ~ (d < v[i][k])
    BY DEF CallInv, StandFor
  <2>4. c[k] \in 1 .. most /\ v[i][k] \in 1 .. most /\ d \in 0 .. most /\ c[k] <= v[i][k]
    BY <2>1, <2>2 DEF Valued, CallInv
  <2> QED BY <2>3, <2>4
<1>2. {c \in Region(v, all, k, most) : c[k] <= d} = Region(v, all, k, most)
  BY <1>1
<1> QED BY <1>2 DEF CallInv

-----------------------------------------------------------------------------
(* The parameters.                                                         *)

LEMMA FrontFacts ==
  ASSUME front \in Fronts, front # <<>>
  PROVE  /\ IsFiniteSet(Points) /\ Points # {}
         /\ Dimension \in Nat \ {0} /\ \A i \in Points : Len(front[i]) = Dimension
         /\ Extent \in Nat \ {0}
         /\ \A i \in Points : \A o \in 1 .. Dimension : front[i][o] \in 1 .. Extent
<1>1. /\ front \in Seq(Seq(Nat \ {0}))
      /\ \A i \in 1 .. Len(front) : Len(front[i]) = Len(front[1]) /\ front[i] # <<>>
  BY SMetricAssumption
<1>2. Len(front) \in Nat \ {0}
  BY <1>1, EmptySeq, LenProperties
<1>3. IsFiniteSet(Points) /\ 1 \in Points
  BY <1>2, FS_Interval DEF Points
<1>4. \A i \in Points : front[i] \in Seq(Nat \ {0})
  BY <1>1, ElementOfSeq DEF Points
<1>5. Dimension = Len(front[1]) /\ Dimension \in Nat \ {0}
  <2>1. front[1] \in Seq(Nat \ {0}) /\ front[1] # <<>>
    BY <1>1, <1>3, <1>4 DEF Points
  <2> QED BY <2>1, EmptySeq, LenProperties DEF Dimension
<1>6. \A i \in Points : Len(front[i]) = Dimension
  BY <1>1, <1>5 DEF Points
<1>7. ASSUME NEW i \in Points, NEW o \in 1 .. Dimension PROVE front[i][o] \in Nat \ {0}
  BY <1>4, <1>6, ElementOfSeq
<1> DEFINE T == {front[i][o] : i \in Points, o \in 1 .. Dimension}
           f == [x \in Points \X (1 .. Dimension) |-> front[x[1]][x[2]]]
<1>8. IsFiniteSet(T)
  <2>1. IsFiniteSet(1 .. Dimension)
    BY <1>5, FS_Interval
  <2>2. IsFiniteSet(Points \X (1 .. Dimension))
    BY <1>3, <2>1, FS_Product
  <2>3. f \in Surjection(Points \X (1 .. Dimension), T)
    <3>1. f \in [Points \X (1 .. Dimension) -> T]
      OBVIOUS
    <3>2. ASSUME NEW t \in T PROVE \E x \in Points \X (1 .. Dimension) : f[x] = t
      <4>1. PICK i \in Points, o \in 1 .. Dimension : t = front[i][o]
        OBVIOUS
      <4> WITNESS <<i, o>> \in Points \X (1 .. Dimension)
      <4> QED BY <4>1
    <3> HIDE DEF T, f
    <3> QED BY <3>1, <3>2 DEF Surjection
  <2> HIDE DEF T, f
  <2> QED BY <2>2, <2>3, FS_Surjection
<1>9. T \subseteq Int /\ T # {} /\ \A x \in T : x \in Nat \ {0}
  <2>1. 1 \in 1 .. Dimension
    BY <1>5
  <2>2. front[1][1] \in T
    BY <1>3, <2>1
  <2>3. \A x \in T : x \in Nat \ {0}
    BY <1>7
  <2> HIDE DEF T
  <2> QED BY <2>2, <2>3
<1>10. Extent = Max(T)
  BY DEF Extent
<1>11. Max(T) \in T /\ \A x \in T : x <= Max(T)
  <2> HIDE DEF T
  <2> QED BY <1>8, <1>9, MaxOfSet
<1>12. \A i \in Points : \A o \in 1 .. Dimension : front[i][o] \in T
  OBVIOUS
<1> HIDE DEF T
<1> HIDE DEF f
<1>13. Extent \in T /\ \A x \in T : x <= Extent
  BY <1>10, <1>11
<1>14. Extent \in Nat \ {0} /\ \A x \in T : x \in 1 .. Extent
  <2>1. Extent \in Nat \ {0}
    BY <1>9, <1>13
  <2>2. ASSUME NEW x \in T PROVE x \in 1 .. Extent
    <3>1. x \in Nat \ {0} /\ x <= Extent
      BY <1>9, <1>13
    <3> QED BY <2>1, <3>1
  <2> QED BY <2>1, <2>2
<1> QED BY <1>3, <1>5, <1>6, <1>12, <1>14

\* The worst value of an objective, if it is to be minimized, and what becomes of
\* the values when they are inverted.
LEMMA InvertedFacts ==
  ASSUME front \in Fronts, front # <<>>
  PROVE  \A o \in 1 .. Dimension :
             /\ MaxValue(front, Points, o) \in 1 .. Extent
             /\ \A i \in Points :
                    /\ front[i][o] \in 1 .. MaxValue(front, Points, o)
                    /\ Inverted(front)[i][o] = MaxValue(front, Points, o) - front[i][o] + 1
<1> TAKE o \in 1 .. Dimension
<1>1. /\ IsFiniteSet(Points) /\ Points # {} /\ Extent \in Nat
      /\ \A i \in Points : front[i][o] \in 1 .. Extent /\ Len(front[i]) = Dimension
  BY FrontFacts
<1>2. \A i \in Points : front[i][o] \in Int
  BY <1>1
<1>3. /\ \E i \in Points : front[i][o] = MaxValue(front, Points, o)
      /\ \A i \in Points : front[i][o] <= MaxValue(front, Points, o)
  BY <1>1, <1>2, ExtremeValues
<1>4. MaxValue(front, Points, o) \in 1 .. Extent
  BY <1>1, <1>3
<1>5. ASSUME NEW i \in Points PROVE front[i][o] \in 1 .. MaxValue(front, Points, o)
  BY <1>1, <1>3, <1>4
<1>6. ASSUME NEW i \in Points
      PROVE  Inverted(front)[i][o] = MaxValue(front, Points, o) - front[i][o] + 1
  BY <1>1 DEF Inverted, Points
<1> QED BY <1>4, <1>5, <1>6

\* The values that are sliced are of the same range.
LEMMA ValuesFacts ==
  ASSUME front \in Fronts, front # <<>>, NEW v, v \in {front, Inverted(front)}
  PROVE  Valued(v, Points, Dimension, Extent)
<1>1. CASE v = front
  BY <1>1, FrontFacts DEF Valued
<1>2. CASE v = Inverted(front)
  <2>1. ASSUME NEW i \in Points, NEW o \in 1 .. Dimension PROVE v[i][o] \in 1 .. Extent
    <3> DEFINE m == MaxValue(front, Points, o)
    <3>1. m \in 1 .. Extent /\ front[i][o] \in 1 .. m /\ v[i][o] = m - front[i][o] + 1
      BY <1>2, InvertedFacts
    <3>2. Extent \in Nat
      BY FrontFacts
    <3> HIDE DEF m
    <3> QED BY <3>1, <3>2
  <2> QED BY <2>1 DEF Valued
<1> QED BY <1>1, <1>2

-----------------------------------------------------------------------------
(* The inductive invariant.                                                *)

TypeInv ==
    /\ front \in Fronts /\ minimization \in BOOLEAN
    /\ pc \in {"start", "slices", "population", "competitors", "done"}
    /\ level \in Nat /\ level <= Dimension
    /\ inds \in [1 .. Dimension -> SUBSET Points]
    /\ volume \in [1 .. Dimension -> Nat]
    /\ curDistance \in [1 .. Dimension -> Nat]

\* Before anything is done, and what is done first.
StartInv ==
    /\ pc = "start" => /\ level = Dimension
                       /\ \A k \in 1 .. Dimension : volume[k] = 0 /\ curDistance[k] = 0
    /\ pc # "start" => values = IF minimization THEN Inverted(front) ELSE front
    /\ pc \notin {"start", "done"} => front # <<>>
    /\ pc = "done" => level = Dimension /\ (front # <<>> => inds[Dimension] = {})

\* The calls that are open; each but the last waits for the volume of a slice.
\* No call is made with fewer than two objectives.
CallsInv ==
    pc # "start" =>
        /\ level = Dimension \/ level >= 2
        /\ \A k \in 1 .. Dimension : k >= level =>
               CallInv(values, inds[k], PointsOf(k), k, curDistance[k], volume[k], Extent)
        /\ \A k \in 1 .. Dimension : k > level => inds[k] # {}

FilterInv ==
    /\ pc \in {"population", "competitors"} => inds[level] # {} /\ rest \in SUBSET inds[level]
    /\ pc = "population" => ListInv(values, nonDominated, inds[level] \ rest, level - 1)
    /\ pc = "competitors" =>
           CompareInv(values, nonDominated, inds[level] \ rest, level - 1, individual, place)

Inv == TypeInv /\ StartInv /\ CallsInv /\ FilterInv

LEMMA ParametersUnchanged ==
  ASSUME UNCHANGED parameters
  PROVE  Points' = Points /\ Dimension' = Dimension /\ Extent' = Extent
<1>1. Points' = Points /\ Dimension' = Dimension
  BY DEF parameters, Points, Dimension
<1> QED BY <1>1 DEF parameters, Extent

LEMMA DimensionIsNatural ==
  ASSUME front \in Fronts
  PROVE  Dimension \in Nat /\ (front = <<>> => Dimension = 0)
<1>1. CASE front = <<>>
  BY <1>1 DEF Dimension
<1>2. CASE front # <<>>
  BY <1>2, FrontFacts
<1> QED BY <1>1, <1>2

\* While a call runs there is a front, and its values are in range.
LEMMA CallFacts ==
  ASSUME TypeInv, StartInv, CallsInv, pc \in {"slices", "population", "competitors"}
  PROVE  /\ front # <<>> /\ Extent \in Nat /\ Dimension \in Nat \ {0} /\ level \in 1 .. Dimension
         /\ \A k \in 1 .. Dimension :
                /\ inds[k] \in SUBSET Points
                /\ IsFiniteSet(PointsOf(k)) /\ Valued(values, PointsOf(k), k, Extent)
         /\ level - 1 \in Nat /\ Measurable(values, inds[level], level - 1)
<1>1. front # <<>> /\ front \in Fronts /\ values \in {front, Inverted(front)}
  BY DEF TypeInv, StartInv
<1>2. /\ Extent \in Nat /\ Dimension \in Nat \ {0} /\ IsFiniteSet(Points)
      /\ Valued(values, Points, Dimension, Extent)
  BY <1>1, FrontFacts, ValuesFacts
<1>3. level \in 1 .. Dimension /\ level - 1 \in Nat
  BY <1>2 DEF TypeInv, CallsInv
<1>4. \A k \in 1 .. Dimension : inds[k] \in SUBSET Points
  BY DEF TypeInv
<1>5. ASSUME NEW k \in 1 .. Dimension
      PROVE  IsFiniteSet(PointsOf(k)) /\ Valued(values, PointsOf(k), k, Extent)
  <2>1. PointsOf(k) \in SUBSET Points
    <3>1. CASE k = Dimension
      BY <3>1 DEF PointsOf
    <3>2. CASE k # Dimension
      <4>1. k + 1 \in 1 .. Dimension
        BY <1>2, <3>2
      <4> QED BY <1>4, <3>2, <4>1 DEF PointsOf
    <3> QED BY <3>1, <3>2
  <2>2. k \in Nat /\ k <= Dimension /\ Dimension \in Nat
    BY <1>2
  <2> QED BY <1>2, <2>1, <2>2, FS_Subset, ValuedIsMeasurable
<1>6. Measurable(values, inds[level], level - 1)
  <2>1. inds[level] \in SUBSET Points /\ 1 .. level - 1 \subseteq 1 .. Dimension
    BY <1>2, <1>3, <1>4
  <2>2. \A i \in inds[level] : \A o \in 1 .. level - 1 : values[i][o] \in 1 .. Extent
    BY <1>2, <2>1 DEF Valued
  <2> QED BY <2>2 DEF Measurable
<1> QED BY <1>1, <1>2, <1>3, <1>4, <1>5, <1>6

-----------------------------------------------------------------------------
(* The first state and the first step.                                     *)

LEMMA InitInv == Init => Inv
<1> SUFFICES ASSUME Init PROVE Inv
  OBVIOUS
<1>1. Dimension \in Nat
  BY DimensionIsNatural DEF Init
<1>2. TypeInv
  BY <1>1 DEF Init, TypeInv
<1>3. StartInv /\ CallsInv /\ FilterInv
  BY DEF Init, StartInv, CallsInv, FilterInv
<1> QED BY <1>2, <1>3 DEF Inv

LEMMA StartKeeps == Inv /\ Start => Inv'
<1> SUFFICES ASSUME Inv, Start PROVE Inv'
  OBVIOUS
<1>1. Points' = Points /\ Dimension' = Dimension /\ Extent' = Extent
  BY ParametersUnchanged DEF Start
<1>2. front \in Fronts /\ minimization \in BOOLEAN /\ level = Dimension /\ Dimension \in Nat
  BY DimensionIsNatural DEF Inv, TypeInv, StartInv, Start
<1>3. /\ UNCHANGED <<front, minimization, level, volume, curDistance>>
      /\ values' = IF minimization THEN Inverted(front) ELSE front
  BY DEF Start, parameters
<1>4. CASE front = <<>>
  <2>1. pc' = "done" /\ UNCHANGED inds /\ Dimension = 0
    BY <1>2, <1>4, DimensionIsNatural DEF Start
  <2>2. TypeInv'
    BY <1>1, <1>3, <2>1 DEF Inv, TypeInv
  <2>3. StartInv' /\ FilterInv'
    BY <1>1, <1>2, <1>3, <1>4, <2>1 DEF StartInv, FilterInv
  <2>4. CallsInv'
    <3>1. \A k \in 1 .. Dimension' : FALSE
      BY <1>1, <2>1
    <3> QED BY <1>1, <1>2, <1>3, <3>1 DEF CallsInv
  <2> QED BY <2>2, <2>3, <2>4 DEF Inv
<1>5. CASE front # <<>>
  <2>1. pc' = "slices" /\ inds' = [inds EXCEPT ![Dimension] = Points]
    BY <1>5 DEF Start
  <2>2. /\ Dimension \in Nat \ {0} /\ Dimension \in 1 .. Dimension /\ Extent \in Nat
        /\ Valued(values', Points, Dimension, Extent)
    BY <1>2, <1>3, <1>5, FrontFacts, ValuesFacts
  <2>3. TypeInv'
    BY <1>1, <1>2, <1>3, <2>1 DEF Inv, TypeInv
  <2>4. inds'[Dimension] = Points
    BY <2>1, <2>2 DEF Inv, TypeInv
  <2>5. volume[Dimension] = 0 /\ curDistance[Dimension] = 0
    BY <2>2 DEF Inv, StartInv, Start
  <2>6. CallInv(values', Points, Points, Dimension, 0, 0, Extent)
    <3>1. StandFor(values', Points, Points, Dimension, 0)
      <4>1. \A i \in Points : \A o \in 1 .. Dimension : values'[i][o] \in 1 .. Extent
        BY <2>2 DEF Valued
      <4>2. \A i \in Points : \A o \in 1 .. Dimension : values'[i][o] <= values'[i][o]
        BY <4>1
      <4> QED BY <4>2 DEF StandFor
    <3> QED BY <2>2, <3>1, CallBegins
  <2>7. CallsInv'
    <3>1. \A k \in 1 .. Dimension : k >= Dimension => k = Dimension
      BY <2>2
    <3>2. \A k \in 1 .. Dimension : ~ (k > Dimension)
      BY <2>2
    <3>3. PointsOf(Dimension)' = Points
      BY <1>1 DEF PointsOf
    <3>4. CallInv(values, inds[Dimension], PointsOf(Dimension), Dimension, curDistance[Dimension],
                  volume[Dimension], Extent)'
      BY <1>1, <1>3, <2>4, <2>5, <2>6, <3>3
    <3>5. \A k \in 1 .. Dimension : k >= Dimension =>
              CallInv(values, inds[k], PointsOf(k), k, curDistance[k], volume[k], Extent)'
      BY <1>1, <3>1, <3>4
    <3> QED BY <1>1, <1>2, <1>3, <3>2, <3>5 DEF CallsInv
  <2>8. StartInv' /\ FilterInv'
    BY <1>3, <1>5, <2>1 DEF StartInv, FilterInv
  <2> QED BY <2>3, <2>7, <2>8 DEF Inv
<1> QED BY <1>4, <1>5

-----------------------------------------------------------------------------
(* The steps of getNondominatedSolutions, which leave the calls alone.     *)

LEMMA CallsUnchanged ==
  ASSUME TypeInv, StartInv, CallsInv, pc \in {"slices", "population", "competitors"},
         UNCHANGED <<parameters, values, level, calls>>, pc' \in {"slices", "population", "competitors"}
  PROVE  TypeInv' /\ StartInv' /\ CallsInv'
<1>1. Points' = Points /\ Dimension' = Dimension /\ Extent' = Extent
  BY ParametersUnchanged
<1>2. UNCHANGED <<front, minimization, values, level, inds, volume, curDistance>>
  BY DEF parameters, calls
<1>3. TypeInv'
  BY <1>1, <1>2 DEF TypeInv
<1>4. StartInv'
  BY <1>2 DEF StartInv
<1>5. \A k \in 1 .. Dimension : PointsOf(k)' = PointsOf(k)
  BY <1>1, <1>2 DEF PointsOf
<1>6. \A k \in 1 .. Dimension : k >= level =>
          CallInv(values, inds[k], PointsOf(k), k, curDistance[k], volume[k], Extent)'
  BY <1>1, <1>2, <1>5 DEF CallsInv
<1>7. CallsInv'
  BY <1>1, <1>2, <1>6 DEF CallsInv
<1> QED BY <1>3, <1>4, <1>7

LEMMA StartFilterKeeps == Inv /\ StartFilter => Inv'
<1> SUFFICES ASSUME Inv, StartFilter PROVE Inv'
  OBVIOUS
<1>1. TypeInv' /\ StartInv' /\ CallsInv'
  BY CallsUnchanged DEF Inv, StartFilter
<1>2. PICK i \in inds[level] : nonDominated' = <<i>> /\ rest' = inds[level] \ {i}
  BY DEF StartFilter
<1>3. level - 1 \in Nat /\ Measurable(values, inds[level], level - 1)
  BY CallFacts DEF Inv, StartFilter
<1>4. ListInv(values, <<i>>, {i}, level - 1)
  BY <1>3, ListStart
<1>5. inds[level] \ rest' = {i}
  BY <1>2
<1>6. FilterInv'
  BY <1>2, <1>4, <1>5 DEF FilterInv, StartFilter, calls
<1> QED BY <1>1, <1>6 DEF Inv

LEMMA ConsiderKeeps == Inv /\ Consider => Inv'
<1> SUFFICES ASSUME Inv, Consider PROVE Inv'
  OBVIOUS
<1>1. TypeInv' /\ StartInv' /\ CallsInv'
  BY CallsUnchanged DEF Inv, Consider
<1>2. PICK i \in rest :
          individual' = i /\ nonDominated' = Append(nonDominated, i) /\ rest' = rest \ {i}
  BY DEF Consider
<1>3. /\ inds[level] # {} /\ rest \in SUBSET inds[level]
      /\ ListInv(values, nonDominated, inds[level] \ rest, level - 1)
  BY DEF Inv, FilterInv, Consider
<1>4. CompareInv(values, nonDominated', (inds[level] \ rest) \cup {i}, level - 1, i, 1)
  BY <1>2, <1>3, ListConsider
<1>5. inds[level] \ rest' = (inds[level] \ rest) \cup {i}
  BY <1>2, <1>3
<1>6. FilterInv'
  BY <1>2, <1>3, <1>4, <1>5 DEF FilterInv, Consider, calls
<1> QED BY <1>1, <1>6 DEF Inv

\* What the steps that compare have in common.
LEMMA CompareFacts ==
  ASSUME Inv, pc = "competitors"
  PROVE  /\ inds[level] # {} /\ rest \in SUBSET inds[level]
         /\ level - 1 \in Nat /\ Measurable(values, inds[level] \ rest, level - 1)
         /\ CompareInv(values, nonDominated, inds[level] \ rest, level - 1, individual, place)
<1>1. level - 1 \in Nat /\ Measurable(values, inds[level], level - 1)
  BY CallFacts DEF Inv
<1>2. Measurable(values, inds[level] \ rest, level - 1)
  BY <1>1 DEF Measurable
<1> QED BY <1>1, <1>2 DEF Inv, FilterInv

LEMMA DisplaceKeeps == Inv /\ Displace => Inv'
<1> SUFFICES ASSUME Inv, Displace PROVE Inv'
  OBVIOUS
<1>1. TypeInv' /\ StartInv' /\ CallsInv'
  BY CallsUnchanged DEF Inv, Displace
<1>2. CompareInv(values, nonDominated', inds[level] \ rest, level - 1, individual, place)
  BY CompareFacts, ListDisplace DEF Displace, Competitor
<1>3. FilterInv'
  BY <1>2, CompareFacts DEF FilterInv, Displace, calls
<1> QED BY <1>1, <1>3 DEF Inv

LEMMA RejectKeeps == Inv /\ Reject => Inv'
<1> SUFFICES ASSUME Inv, Reject PROVE Inv'
  OBVIOUS
<1>1. TypeInv' /\ StartInv' /\ CallsInv'
  BY CallsUnchanged DEF Inv, Reject
<1>2. CompareInv(values, nonDominated', inds[level] \ rest, level - 1, individual, place + 1)
  BY CompareFacts, ListReject DEF Reject, Competitor
<1>3. FilterInv'
  BY <1>2, CompareFacts DEF FilterInv, Reject, calls
<1> QED BY <1>1, <1>3 DEF Inv

LEMMA PassKeeps == Inv /\ Pass => Inv'
<1> SUFFICES ASSUME Inv, Pass PROVE Inv'
  OBVIOUS
<1>1. TypeInv' /\ StartInv' /\ CallsInv'
  BY CallsUnchanged DEF Inv, Pass
<1>2. CompareInv(values, nonDominated, inds[level] \ rest, level - 1, individual, place + 1)
  BY CompareFacts, ListPass DEF Pass, Competitor
<1>3. FilterInv'
  BY <1>2, CompareFacts DEF FilterInv, Pass, calls
<1> QED BY <1>1, <1>3 DEF Inv

LEMMA EndOfCompetitorsKeeps == Inv /\ EndOfCompetitors => Inv'
<1> SUFFICES ASSUME Inv, EndOfCompetitors PROVE Inv'
  OBVIOUS
<1>1. TypeInv' /\ StartInv' /\ CallsInv'
  BY CallsUnchanged DEF Inv, EndOfCompetitors
<1>2. ListInv(values, nonDominated, inds[level] \ rest, level - 1)
  BY CompareFacts, ListEnd DEF EndOfCompetitors
<1>3. FilterInv'
  BY <1>2, CompareFacts DEF FilterInv, EndOfCompetitors, calls
<1> QED BY <1>1, <1>3 DEF Inv

-----------------------------------------------------------------------------
(* The other steps of getMaximizationSMetricByHSO.                         *)

\* A slice is cut in the call that runs, or in the one that goes on when this
\* has returned.
LEMMA CutSliceKeeps ==
  ASSUME Inv, pc \in {"slices", "population"},
         NEW k \in 1 .. Dimension, k >= level, inds[k] # {},
         NEW lastVol \in Nat, k > 1 => lastVol = Cardinality(Region(values, inds[k], k - 1, Extent)),
         CutSlice(k, lastVol), UNCHANGED <<parameters, values>>, level' = k, pc' = "slices"
  PROVE  Inv'
<1>1. Points' = Points /\ Dimension' = Dimension /\ Extent' = Extent
  BY ParametersUnchanged
<1>2. UNCHANGED <<front, minimization, values>> /\ TypeInv /\ StartInv /\ CallsInv
  BY DEF parameters, Inv
<1>3. /\ front # <<>> /\ Extent \in Nat /\ Dimension \in Nat \ {0} /\ level \in 1 .. Dimension
      /\ inds[k] \in SUBSET Points /\ IsFiniteSet(PointsOf(k)) /\ Valued(values, PointsOf(k), k, Extent)
  BY <1>2, CallFacts
<1> DEFINE e == MinValue(values, inds[k], k)
           left == Above(values, inds[k], k, e)
           sum == volume[k] + lastVol * Distance(e, curDistance[k])
<1>4. CallInv(values, inds[k], PointsOf(k), k, curDistance[k], volume[k], Extent)
  BY <1>2 DEF CallsInv
<1>5. Distance(e, curDistance[k]) \in Nat /\ CallInv(values, left, PointsOf(k), k, e, sum, Extent)
  <2>1. k \in Nat \ {0}
    OBVIOUS
  <2> QED BY <1>3, <1>4, <2>1, CallCuts
<1>6. /\ inds' = [inds EXCEPT ![k] = left]
      /\ volume' = [volume EXCEPT ![k] = sum]
      /\ curDistance' = [curDistance EXCEPT ![k] = e]
  BY DEF CutSlice
<1>7. left \in SUBSET Points /\ e \in Nat
  BY <1>3, <1>5 DEF CallInv, Above
<1>8. sum \in Nat
  <2>1. volume[k] \in Nat
    BY <1>2 DEF TypeInv
  <2>2. \A a, b \in Nat : a * b \in Nat
    OBVIOUS
  <2>3. lastVol * Distance(e, curDistance[k]) \in Nat
    BY <1>5, <2>2
  <2> QED BY <2>1, <2>3
<1> HIDE DEF e, left, sum
<1>9. /\ inds \in [1 .. Dimension -> SUBSET Points]
      /\ volume \in [1 .. Dimension -> Nat] /\ curDistance \in [1 .. Dimension -> Nat]
  BY <1>2 DEF TypeInv
<1>10. TypeInv'
  <2>1. /\ inds' \in [1 .. Dimension -> SUBSET Points]
        /\ volume' \in [1 .. Dimension -> Nat] /\ curDistance' \in [1 .. Dimension -> Nat]
    BY <1>6, <1>7, <1>8, <1>9
  <2>2. level' \in Nat /\ level' <= Dimension
    BY <1>3
  <2> QED BY <1>1, <1>2, <2>1, <2>2 DEF TypeInv
<1>11. /\ inds'[k] = left /\ volume'[k] = sum /\ curDistance'[k] = e
       /\ \A j \in 1 .. Dimension : j # k =>
              inds'[j] = inds[j] /\ volume'[j] = volume[j] /\ curDistance'[j] = curDistance[j]
  BY <1>6, <1>9
<1>12. ASSUME NEW j \in 1 .. Dimension, j >= k PROVE PointsOf(j)' = PointsOf(j)
  <2>1. j # Dimension => j + 1 \in 1 .. Dimension /\ j + 1 # k
    BY <1>3, <1>12
  <2> QED BY <1>1, <1>11, <2>1 DEF PointsOf
<1>13. ASSUME NEW j \in 1 .. Dimension, j >= k
       PROVE  CallInv(values, inds[j], PointsOf(j), j, curDistance[j], volume[j], Extent)'
  <2>1. CASE j = k
    BY <1>1, <1>2, <1>5, <1>11, <1>12, <2>1
  <2>2. CASE j # k
    <3>1. j >= level
      BY <1>3, <1>13
    <3>2. CallInv(values, inds[j], PointsOf(j), j, curDistance[j], volume[j], Extent)
      BY <1>2, <3>1 DEF CallsInv
    <3> QED BY <1>1, <1>2, <1>11, <1>12, <1>13, <2>2, <3>2
  <2> QED BY <2>1, <2>2
<1>14. ASSUME NEW j \in 1 .. Dimension, j > k PROVE inds'[j] # {}
  <2>1. j > level /\ j # k
    BY <1>3, <1>14
  <2> QED BY <1>2, <1>11, <2>1 DEF CallsInv
<1>15. k = Dimension \/ k >= 2
  <2>1. level = Dimension \/ level >= 2
    BY <1>2 DEF CallsInv
  <2> QED BY <1>3, <2>1
<1>16. CallsInv'
  BY <1>1, <1>13, <1>14, <1>15 DEF CallsInv
<1>17. StartInv' /\ FilterInv'
  BY <1>2, <1>3 DEF StartInv, FilterInv
<1> QED BY <1>10, <1>16, <1>17 DEF Inv

LEMMA MeasureLineKeeps == Inv /\ MeasureLine => Inv'
<1> SUFFICES ASSUME Inv, MeasureLine PROVE Inv'
  OBVIOUS
<1>1. /\ Dimension \in Nat \ {0} /\ level \in 1 .. Dimension /\ Extent \in Nat
      /\ inds[level] \in SUBSET Points /\ IsFiniteSet(PointsOf(level))
      /\ Valued(values, PointsOf(level), level, Extent)
  BY CallFacts DEF Inv, MeasureLine
<1>2. inds[level] # {}
  BY DEF Inv, FilterInv, MeasureLine
<1>3. inds[level] \in SUBSET PointsOf(level) /\ 1 \in 1 .. level
  <2>1. CallInv(values, inds[level], PointsOf(level), level, curDistance[level], volume[level], Extent)
    BY <1>1 DEF Inv, CallsInv, MeasureLine
  <2> QED BY <1>1, <2>1 DEF CallInv
<1>4. IsFiniteSet(inds[level]) /\ \A i \in inds[level] : values[i][1] \in 1 .. Extent
  BY <1>1, <1>3, FS_Subset DEF Valued
<1> DEFINE lastVol == MaxValue(values, inds[level], 1)
<1>5. lastVol \in Nat /\ lastVol = Cardinality(Region(values, inds[level], 1, Extent))
  BY <1>1, <1>2, <1>4, LineMeasure
<1>6. level > 1 => level - 1 = 1
  BY <1>1 DEF MeasureLine
<1>7. CutSlice(level, lastVol) /\ UNCHANGED <<parameters, values>> /\ level' = level
      /\ pc = "population" /\ pc' = "slices" /\ level >= level
  BY <1>1 DEF MeasureLine
<1> HIDE DEF lastVol
<1>8. level > 1 => lastVol = Cardinality(Region(values, inds[level], level - 1, Extent))
  BY <1>5, <1>6
<1> QED BY <1>1, <1>2, <1>5, <1>7, <1>8, CutSliceKeeps

LEMMA ReturnKeeps == Inv /\ Return => Inv'
<1> SUFFICES ASSUME Inv, Return PROVE Inv'
  OBVIOUS
<1>1. /\ Dimension \in Nat \ {0} /\ level \in 1 .. Dimension /\ Extent \in Nat
      /\ Valued(values, PointsOf(level), level, Extent)
  BY CallFacts DEF Inv, Return
<1>2. pc = "slices" /\ pc' = "slices" /\ inds[level] = {} /\ level < Dimension
      /\ level' = level + 1 /\ CutSlice(level + 1, volume[level]) /\ UNCHANGED <<parameters, values>>
  BY DEF Return, filter
<1>3. level + 1 \in 1 .. Dimension /\ level + 1 >= level /\ level + 1 > level /\ level > 1
      /\ (level + 1) - 1 = level
  BY <1>1, <1>2 DEF Inv, CallsInv
<1>4. inds[level + 1] # {}
  BY <1>2, <1>3 DEF Inv, CallsInv
<1>5. PointsOf(level) = inds[level + 1]
  BY <1>1, <1>2 DEF PointsOf
<1>6. CallInv(values, {}, PointsOf(level), level, curDistance[level], volume[level], Extent)
  BY <1>1, <1>2 DEF Inv, CallsInv
<1>7. volume[level] = Cardinality(Region(values, inds[level + 1], (level + 1) - 1, Extent))
  BY <1>1, <1>3, <1>5, <1>6, CallEnds
<1>8. volume[level] \in Nat
  BY <1>1 DEF Inv, TypeInv
<1> QED BY <1>2, <1>3, <1>4, <1>7, <1>8, CutSliceKeeps

LEMMA CallKeeps == Inv /\ Call => Inv'
<1> SUFFICES ASSUME Inv, Call PROVE Inv'
  OBVIOUS
<1>1. Points' = Points /\ Dimension' = Dimension /\ Extent' = Extent
  BY ParametersUnchanged DEF Call
<1>2. UNCHANGED <<front, minimization, values>> /\ TypeInv /\ StartInv /\ CallsInv
  BY DEF parameters, Inv, Call
<1>3. /\ front # <<>> /\ Extent \in Nat /\ Dimension \in Nat \ {0} /\ level \in 1 .. Dimension
      /\ inds[level] \in SUBSET Points /\ Valued(values, PointsOf(level), level, Extent)
      /\ level - 1 \in Nat /\ Measurable(values, inds[level], level - 1)
  BY <1>2, CallFacts DEF Call
<1> DEFINE all == inds[level]
           is == ToSet(nonDominated)
<1> PICK k \in Nat : k = level - 1
  BY <1>3
<1>4. /\ level' = k /\ pc' = "slices" /\ pc = "population"
      /\ inds' = [inds EXCEPT ![k] = is]
      /\ volume' = [volume EXCEPT ![k] = 0]
      /\ curDistance' = [curDistance EXCEPT ![k] = 0]
  BY DEF Call
<1>5. k \in 1 .. Dimension /\ k \in Nat \ {0} /\ k >= 2 /\ level = k + 1 /\ k < level /\ k # Dimension
  BY <1>3 DEF Call
<1>6. all # {} /\ ListInv(values, nonDominated, all, k)
  <2>1. inds[level] \ rest = inds[level]
    BY DEF Call
  <2> QED BY <2>1 DEF Inv, FilterInv, Call
<1>7. is \in SUBSET all /\ StandFor(values, is, all, k, 0)
  <2>1. is \in SUBSET all
    BY <1>6, ListHas DEF ListInv
  <2> QED BY <1>3, <1>6, <2>1, ListStandsForAll
<1>8. CallInv(values, is, all, k, 0, 0, Extent)
  <2>1. all \in SUBSET PointsOf(level)
    <3>1. CallInv(values, inds[level], PointsOf(level), level, curDistance[level], volume[level], Extent)
      BY <1>2, <1>3, <1>4 DEF CallsInv
    <3> QED BY <3>1 DEF CallInv
  <2>2. Valued(values, all, k, Extent)
    <3>1. level \in Nat /\ k \in Nat /\ k <= level
      BY <1>3, <1>5
    <3> HIDE DEF all
    <3> QED BY <1>3, <2>1, <3>1, ValuedIsMeasurable
  <2> HIDE DEF all, is
  <2> QED BY <1>3, <1>5, <1>7, <2>2, CallBegins
<1> HIDE DEF is
<1>9. /\ inds \in [1 .. Dimension -> SUBSET Points]
      /\ volume \in [1 .. Dimension -> Nat] /\ curDistance \in [1 .. Dimension -> Nat]
  BY <1>2 DEF TypeInv
<1>10. TypeInv'
  <2>1. /\ inds' \in [1 .. Dimension -> SUBSET Points]
        /\ volume' \in [1 .. Dimension -> Nat] /\ curDistance' \in [1 .. Dimension -> Nat]
    <3>1. is \in SUBSET Points
      BY <1>3, <1>7
    <3> QED BY <1>4, <1>9, <3>1
  <2>2. level' \in Nat /\ level' <= Dimension
    BY <1>3, <1>4, <1>5
  <2> QED BY <1>1, <1>2, <1>4, <2>1, <2>2 DEF TypeInv
<1>11. /\ inds'[k] = is /\ volume'[k] = 0 /\ curDistance'[k] = 0
       /\ \A j \in 1 .. Dimension : j # k =>
              inds'[j] = inds[j] /\ volume'[j] = volume[j] /\ curDistance'[j] = curDistance[j]
  BY <1>4, <1>5, <1>9
<1>12. PointsOf(k)' = all
  BY <1>1, <1>3, <1>5, <1>11 DEF PointsOf
<1>13. ASSUME NEW j \in 1 .. Dimension, j > k
       PROVE  /\ inds'[j] # {}
              /\ CallInv(values, inds[j], PointsOf(j), j, curDistance[j], volume[j], Extent)'
  <2>1. j >= level /\ j # k /\ (j # Dimension => j + 1 \in 1 .. Dimension /\ j + 1 # k)
    BY <1>3, <1>5, <1>13
  <2>2. PointsOf(j)' = PointsOf(j)
    BY <1>1, <1>11, <2>1 DEF PointsOf
  <2>3. CallInv(values, inds[j], PointsOf(j), j, curDistance[j], volume[j], Extent)
    BY <1>2, <1>4, <2>1 DEF CallsInv
  <2>4. inds[j] # {}
    <3>1. j = level \/ j > level
      BY <1>3, <2>1
    <3> QED BY <1>2, <1>4, <1>6, <3>1 DEF CallsInv
  <2> QED BY <1>1, <1>2, <1>11, <2>1, <2>2, <2>3, <2>4
<1>14. ASSUME NEW j \in 1 .. Dimension, j >= k
       PROVE  CallInv(values, inds[j], PointsOf(j), j, curDistance[j], volume[j], Extent)'
  <2>1. CASE j = k
    BY <1>1, <1>2, <1>8, <1>11, <1>12, <2>1
  <2>2. CASE j # k
    <3>1. j > k
      BY <1>5, <1>14, <2>2
    <3> QED BY <1>13, <3>1
  <2> QED BY <2>1, <2>2
<1>15. CallsInv'
  BY <1>1, <1>4, <1>5, <1>13, <1>14 DEF CallsInv
<1>16. StartInv' /\ FilterInv'
  BY <1>2, <1>3, <1>4 DEF StartInv, FilterInv
<1> QED BY <1>10, <1>15, <1>16 DEF Inv

LEMMA FinishKeeps == Inv /\ Finish => Inv'
<1> SUFFICES ASSUME Inv, Finish PROVE Inv'
  OBVIOUS
<1>1. /\ UNCHANGED <<front, minimization, values, level, inds, volume, curDistance>>
      /\ pc = "slices" /\ pc' = "done" /\ level = Dimension /\ inds[level] = {}
  BY DEF Finish, parameters, calls
<1>2. Points' = Points /\ Dimension' = Dimension /\ Extent' = Extent
  BY ParametersUnchanged DEF Finish
<1>3. TypeInv'
  BY <1>1, <1>2 DEF Inv, TypeInv
<1>4. \A k \in 1 .. Dimension : PointsOf(k)' = PointsOf(k)
  BY <1>1, <1>2 DEF PointsOf
<1>5. \A k \in 1 .. Dimension : k >= level =>
          CallInv(values, inds[k], PointsOf(k), k, curDistance[k], volume[k], Extent)'
  BY <1>1, <1>2, <1>4 DEF Inv, CallsInv
<1>6. CallsInv'
  BY <1>1, <1>2, <1>5 DEF Inv, CallsInv
<1>7. StartInv' /\ FilterInv'
  BY <1>1, <1>2 DEF Inv, StartInv, FilterInv
<1> QED BY <1>3, <1>6, <1>7 DEF Inv

LEMMA StutteringKeeps == Inv /\ UNCHANGED vars => Inv'
<1> SUFFICES ASSUME Inv, UNCHANGED vars PROVE Inv'
  OBVIOUS
<1>1. UNCHANGED <<front, minimization, values, pc, level, inds, volume, curDistance,
                  nonDominated, rest, individual, place>>
  BY DEF vars, parameters, calls, filter
<1>2. Points' = Points /\ Dimension' = Dimension /\ Extent' = Extent
  BY ParametersUnchanged DEF vars
<1>3. TypeInv' /\ StartInv' /\ FilterInv'
  BY <1>1, <1>2 DEF Inv, TypeInv, StartInv, FilterInv
<1>4. \A k \in 1 .. Dimension : PointsOf(k)' = PointsOf(k)
  BY <1>1, <1>2 DEF PointsOf
<1>5. \A k \in 1 .. Dimension : k >= level =>
          CallInv(values, inds[k], PointsOf(k), k, curDistance[k], volume[k], Extent)' 
              <=> CallInv(values, inds[k], PointsOf(k), k, curDistance[k], volume[k], Extent)
  BY <1>1, <1>2, <1>4
<1>6. CallsInv'
  BY <1>1, <1>2, <1>5 DEF Inv, CallsInv
<1> QED BY <1>3, <1>6 DEF Inv

\* The inductive invariant holds for fronts of any size.
LEMMA InvAlways == Spec => []Inv
<1>1. Inv /\ [Next]_vars => Inv'
  BY StartKeeps, StartFilterKeeps, ConsiderKeeps, DisplaceKeeps, RejectKeeps, PassKeeps,
     EndOfCompetitorsKeeps, MeasureLineKeeps, CallKeeps, ReturnKeeps, FinishKeeps, StutteringKeeps
     DEF Next, Filter
<1> QED BY InitInv, <1>1, PTL DEF Spec

-----------------------------------------------------------------------------
(* The theorems.                                                           *)

\* The metric is the hypervolume of the dominated region (calculateSMetric), for
\* every number of points and of objectives but one, whether the values are to be
\* minimized or maximized.
THEOREM MetricIsRight == Spec => []MetricIsHypervolume
<1>1. Inv => MetricIsHypervolume
  <2> SUFFICES ASSUME Inv, pc = "done", Dimension > 1
               PROVE  volume[Dimension] = Hypervolume
    BY DEF MetricIsHypervolume
  <2>1. Dimension \in Nat /\ front \in Fronts /\ front # <<>>
    BY DimensionIsNatural DEF Inv, TypeInv
  <2>2. /\ Extent \in Nat /\ Dimension \in 1 .. Dimension /\ values \in {front, Inverted(front)}
        /\ values = IF minimization THEN Inverted(front) ELSE front
        /\ level = Dimension /\ inds[Dimension] = {}
    BY <2>1, FrontFacts DEF Inv, StartInv
  <2>3. CallInv(values, {}, Points, Dimension, curDistance[Dimension], volume[Dimension], Extent)
    <3>1. PointsOf(Dimension) = Points
      BY DEF PointsOf
    <3>2. CallInv(values, inds[Dimension], PointsOf(Dimension), Dimension, curDistance[Dimension],
                  volume[Dimension], Extent)
      <4>1. \A k \in 1 .. Dimension : k >= level =>
                CallInv(values, inds[k], PointsOf(k), k, curDistance[k], volume[k], Extent)
        BY DEF Inv, CallsInv
      <4>2. Dimension \in 1 .. Dimension /\ Dimension >= level
        BY <2>1, <2>2
      <4> QED BY <4>1, <4>2
    <3> QED BY <2>2, <3>1, <3>2
  <2>4. Valued(values, Points, Dimension, Extent)
    BY <2>1, <2>2, ValuesFacts
  <2>5. volume[Dimension] = Cardinality(Region(values, Points, Dimension, Extent))
    BY <2>1, <2>2, <2>3, <2>4, CallEnds
  <2>6. CASE ~ minimization
    BY <2>2, <2>5, <2>6 DEF Hypervolume
  <2>7. CASE minimization
    <3> DEFINE worst == [o \in 1 .. Dimension |-> MaxValue(front, Points, o)]
    <3>1. ASSUME NEW o \in 1 .. Dimension
          PROVE  /\ worst[o] \in 1 .. Extent
                 /\ \A i \in Points : front[i][o] \in 1 .. worst[o] /\ values[i][o] = worst[o] - front[i][o] + 1
      BY <2>1, <2>2, <2>7, InvertedFacts
    <3>2. Hypervolume = Cardinality(RegionBelow(front, Points, Dimension, worst, Extent))
      BY <2>7 DEF Hypervolume
    <3> HIDE DEF worst
    <3>3. /\ \A o \in 1 .. Dimension : worst[o] \in 1 .. Extent
          /\ \A i \in Points : \A o \in 1 .. Dimension :
                 front[i][o] \in 1 .. worst[o] /\ values[i][o] = worst[o] - front[i][o] + 1
      BY <3>1
    <3>4. Cardinality(Region(values, Points, Dimension, Extent))
              = Cardinality(RegionBelow(front, Points, Dimension, worst, Extent))
      BY <2>1, <2>2, <3>3, InvertedMeasure
    <3> QED BY <2>5, <3>2, <3>4
  <2> QED BY <2>6, <2>7
<1> QED BY <1>1, InvAlways, PTL

\* In every open call of getMaximizationSMetricByHSO the slices are the measure of
\* what is behind them, and the points left stand for what is in front.
THEOREM SlicesAreRight == Spec => []SlicesMeasureWhatTheyPassed
<1>1. Inv => SlicesMeasureWhatTheyPassed
  <2> SUFFICES ASSUME Inv, pc # "start", NEW k \in level .. Dimension, k > 1
               PROVE  LET region == Region(values, PointsOf(k), k, Extent)
                      IN  /\ volume[k] = Cardinality({c \in region : c[k] <= curDistance[k]})
                          /\ {c \in region : c[k] > curDistance[k]} =
                                 {c \in Region(values, inds[k], k, Extent) : c[k] > curDistance[k]}
    BY DEF SlicesMeasureWhatTheyPassed
  <2>1. /\ Dimension \in Nat /\ front \in Fronts /\ level \in Nat
        /\ inds \in [1 .. Dimension -> SUBSET Points]
    BY DimensionIsNatural DEF Inv, TypeInv
  <2>2. k \in 1 .. Dimension /\ k \in Nat /\ k >= level /\ k >= 1
    BY <2>1
  <2>3. front # <<>>
    BY <2>1, <2>2, DimensionIsNatural
  <2>4. /\ Extent \in Nat /\ IsFiniteSet(Points) /\ values \in {front, Inverted(front)}
    BY <2>1, <2>3, FrontFacts DEF Inv, StartInv
  <2>5. Valued(values, Points, Dimension, Extent)
    BY <2>1, <2>3, <2>4, ValuesFacts
  <2>6. PointsOf(k) \in SUBSET Points
    <3>1. k # Dimension => k + 1 \in 1 .. Dimension
      BY <2>1, <2>2
    <3> QED BY <2>1, <3>1 DEF PointsOf
  <2>7. Measurable(values, PointsOf(k), k)
    <3>1. 1 .. k \subseteq 1 .. Dimension
      BY <2>1, <2>2
    <3>2. \A i \in PointsOf(k) : \A o \in 1 .. k : values[i][o] \in 1 .. Extent
      BY <2>5, <2>6, <3>1 DEF Valued
    <3> QED BY <3>2 DEF Measurable
  <2>8. CallInv(values, inds[k], PointsOf(k), k, curDistance[k], volume[k], Extent)
    BY <2>2 DEF Inv, CallsInv
  <2>9. /\ inds[k] \in SUBSET PointsOf(k) /\ curDistance[k] \in Nat
        /\ StandFor(values, inds[k], PointsOf(k), k, curDistance[k])
        /\ volume[k] = Cardinality({c \in Region(values, PointsOf(k), k, Extent) : c[k] <= curDistance[k]})
    BY <2>4, <2>8 DEF CallInv
  <2>10. {c \in Region(values, PointsOf(k), k, Extent) : curDistance[k] < c[k]}
             = {c \in Region(values, inds[k], k, Extent) : curDistance[k] < c[k]}
    BY <2>2, <2>4, <2>7, <2>9, SameRegionInFront
  <2> QED BY <2>9, <2>10
<1> QED BY <1>1, InvAlways, PTL

\* getNondominatedSolutions returns the points that no other dominates, each once,
\* in whatever order it comes to them.
THEOREM NondominatedAlways == Spec => []NondominatedAreKept
<1>1. Inv => NondominatedAreKept
  <2> SUFFICES ASSUME Inv, pc = "population", rest = {}
               PROVE  /\ IsInjective(nonDominated)
                      /\ ToSet(nonDominated) =
                             {i \in inds[level] : \A j \in inds[level] : ~ Dominates(values, j, i, level - 1)}
    BY DEF NondominatedAreKept
  <2>1. inds[level] \ rest = inds[level]
    OBVIOUS
  <2>2. ListInv(values, nonDominated, inds[level], level - 1)
    BY <2>1 DEF Inv, FilterInv
  <2>3. level - 1 \in Nat /\ Measurable(values, inds[level], level - 1)
    BY CallFacts DEF Inv
  <2> QED BY <2>2, <2>3, ListResult DEF ListInv
<1> QED BY <1>1, InvAlways, PTL

\* The next slice of an open call of getMaximizationSMetricByHSO ends in front of
\* the last, as its comment says ("newDistance is always larger than curDistance"):
\* Math.abs never turns a difference over, and each slice leaves fewer points.
SlicesMoveOn ==
    pc # "start" => \A k \in 1 .. Dimension : k >= level /\ inds[k] # {} =>
        /\ curDistance[k] < MinValue(values, inds[k], k)
        /\ Above(values, inds[k], k, MinValue(values, inds[k], k)) # inds[k]

\* They do so for fronts of any size.
THEOREM SlicesAlwaysMoveOn == Spec => []SlicesMoveOn
<1>1. ASSUME Inv, pc # "start", NEW k \in 1 .. Dimension, k >= level, inds[k] # {}
      PROVE  /\ curDistance[k] < MinValue(values, inds[k], k)
             /\ Above(values, inds[k], k, MinValue(values, inds[k], k)) # inds[k]
  <2>1. Dimension \in Nat /\ front \in Fronts /\ inds[k] \in SUBSET Points
    BY <1>1, DimensionIsNatural DEF Inv, TypeInv
  <2>2. front # <<>>
    BY <1>1, <2>1, DimensionIsNatural
  <2>3. values \in {front, Inverted(front)}
    BY <1>1 DEF Inv, StartInv
  <2>4. Extent \in Nat /\ IsFiniteSet(Points) /\ Valued(values, Points, Dimension, Extent)
    BY <2>1, <2>2, <2>3, FrontFacts, ValuesFacts
  <2>5. IsFiniteSet(inds[k]) /\ \A i \in inds[k] : values[i][k] \in Int
    BY <2>1, <2>4, FS_Subset DEF Valued
  <2> DEFINE e == MinValue(values, inds[k], k)
  <2>6. /\ \E i \in inds[k] : values[i][k] = e
        /\ \A i \in inds[k] : e <= values[i][k]
    BY <1>1, <2>5, ExtremeValues
  <2> HIDE DEF e
  <2>7. \A i \in inds[k] : curDistance[k] < values[i][k]
    <3>1. CallInv(values, inds[k], PointsOf(k), k, curDistance[k], volume[k], Extent)
      BY <1>1 DEF Inv, CallsInv
    <3> QED BY <3>1 DEF CallInv
  <2>8. PICK i \in inds[k] : values[i][k] = e
    BY <2>6
  <2>9. curDistance[k] < e
    BY <2>7, <2>8
  <2>10. i \notin Above(values, inds[k], k, e)
    BY <2>5, <2>8 DEF Above
  <2> QED BY <2>8, <2>9, <2>10 DEF e
<1>2. Inv => SlicesMoveOn
  BY <1>1 DEF SlicesMoveOn
<1> QED BY <1>2, InvAlways, PTL

=============================================================================
