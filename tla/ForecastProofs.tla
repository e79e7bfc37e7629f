--------------------------- MODULE ForecastProofs ---------------------------
(***************************************************************************)
(* Proofs about the two forecasts: of the time until a resource is full or *)
(* a budget spent (BudgetEngine), for any horizons, thresholds, gaps and   *)
(* values of the metric, and of the bill at the end of the month           *)
(* (CostReport), for any calendar, services and charges.                   *)
(***************************************************************************)
EXTENDS BudgetEngine, CostReport, NumberProofs

-----------------------------------------------------------------------------
(* Numbers and finite sets.                                                *)

LEMMA DivBetween ==
  ASSUME NEW x \in Int, NEW d \in Nat \ {0}
  PROVE  /\ x \div d \in Int
         /\ \A h \in Int : x <= h * d => x \div d <= h
         /\ \A h \in Int : h * d <= x => h <= x \div d
<1>1. \A h \in Int : x <= h * d => x \div d <= h
  OBVIOUS
<1>2. \A h \in Int : h * d <= x => h <= x \div d
  OBVIOUS
<1> QED
  BY <1>1, <1>2

LEMMA Half ==
  ASSUME NEW n \in Nat \ {0}
  PROVE  n \div 2 \in Nat /\ n \div 2 < n /\ (n % 2 # 1 => n \div 2 - 1 \in Nat)
OBVIOUS

(* The k-th smallest key is one of the keys.                               *)
LEMMA KthIsKey ==
  ASSUME NEW S, IsFiniteSet(S), NEW key \in [S -> Int], NEW k \in Nat, k < Cardinality(S)
  PROVE  /\ Kth(S, key, k) \in {key[x] : x \in S}
         /\ Cardinality({x \in S : key[x] < Kth(S, key, k)}) <= k
         /\ Cardinality({x \in S : key[x] <= Kth(S, key, k)}) > k
<1> DEFINE Keys == {key[x] : x \in S}
           T    == {v \in Keys : Cardinality({x \in S : key[x] <= v}) > k}
<1>1. IsFiniteSet(Keys) /\ Keys \in SUBSET Int
  BY FiniteImage
<1>2. S # {} /\ Keys # {}
  BY FS_EmptySet
<1>3. \A P \in SUBSET S : IsFiniteSet(P) /\ Cardinality(P) \in Nat
  BY FS_Subset, FS_CardinalityType
<1>4. T # {}
  <2>1. PICK m \in Keys : \A x \in Keys : x <= m
    BY <1>1, <1>2, Extremes
  <2>2. {x \in S : key[x] <= m} = S
    BY <2>1
  <2> QED
    BY <2>1, <2>2
<1>5. T \in SUBSET Int /\ IsFiniteSet(T)
  BY <1>1, FS_Subset
<1>6. PICK v \in T : \A u \in T : v <= u
  BY <1>4, <1>5, Extremes
<1>7. Cardinality({x \in S : key[x] < v}) <= k
  <2> DEFINE Below == {u \in Keys : u < v}
  <2>1. CASE Below = {}
    <3>1. {x \in S : key[x] < v} = {}
      BY <2>1
    <3> QED
      BY <3>1, FS_EmptySet
  <2>2. CASE Below # {}
    <3>1. Below \in SUBSET Int /\ IsFiniteSet(Below)
      BY <1>1, FS_Subset
    <3>2. PICK u \in Below : \A t \in Below : t <= u
      BY <2>2, <3>1, Extremes
    <3>3. {x \in S : key[x] < v} = {x \in S : key[x] <= u}
      BY <1>1, <1>5, <3>2
    <3>4. u \notin T
      BY <1>1, <1>5, <1>6, <3>2
    <3> QED
      BY <1>3, <3>2, <3>3, <3>4
  <2> QED
    BY <2>1, <2>2
<1>8. v \in Keys /\ Cardinality({x \in S : key[x] <= v}) > k
  OBVIOUS
<1> QED
  BY <1>7, <1>8 DEF Kth

-----------------------------------------------------------------------------
(* The slope of a run.                                                     *)

(* In every finite run there is a sample with exactly i younger ones...    *)
LEMMA Ranked ==
  ASSUME NEW run, IsFiniteSet(run), \A x \in run : x \in Int, NEW i \in Nat, i < Cardinality(run)
  PROVE  \E a \in run : Cardinality({b \in run : b > a}) = i
<1> DEFINE Above(a) == {b \in run : b > a}
           T == {a \in run : Cardinality(Above(a)) <= i}
<1>1. \A P \in SUBSET run : IsFiniteSet(P) /\ Cardinality(P) \in Nat
  BY FS_Subset, FS_CardinalityType
<1>2. run # {}
  BY FS_EmptySet
<1>3. T # {}
  <2>1. PICK m \in run : \A x \in run : x <= m
    BY <1>2, Extremes
  <2>2. Above(m) = {}
    BY <2>1
  <2> QED
    BY <2>2, FS_EmptySet
<1>4. T \in SUBSET Int /\ IsFiniteSet(T)
  BY <1>1
<1>5. PICK a \in T : \A u \in T : a <= u
  BY <1>3, <1>4, Extremes
<1>6. ASSUME Cardinality(Above(a)) < i PROVE FALSE
  <2> DEFINE Below == {c \in run : c < a}
  <2>1. a \in run /\ a \notin Above(a) /\ IsFiniteSet(Above(a)) /\ Cardinality(Above(a)) \in Nat
    BY <1>1
  <2>2. Cardinality(Above(a) \cup {a}) = Cardinality(Above(a)) + 1
    BY <2>1, FS_AddElement
  <2>3. Below # {}
    <3>1. ASSUME Below = {} PROVE run = Above(a) \cup {a}
      BY <2>1, <3>1
    <3> QED
      BY <1>6, <2>1, <2>2, <3>1
  <2>4. Below \in SUBSET Int /\ IsFiniteSet(Below)
    BY <1>1
  <2>5. PICK c \in Below : \A x \in Below : x <= c
    BY <2>3, <2>4, Extremes
  <2>6. Above(c) = Above(a) \cup {a}
    BY <2>1, <2>5
  <2>7. c \in T /\ c < a
    BY <1>6, <2>1, <2>2, <2>5, <2>6
  <2> QED
    BY <1>4, <1>5, <2>7
<1>7. Cardinality(Above(a)) \in Nat /\ Cardinality(Above(a)) <= i
  BY <1>1
<1>8. a \in run /\ Cardinality(Above(a)) = i
  BY <1>6, <1>7
<1> QED
  BY <1>8

(* ... and in one of two or more there is a pair.                          *)
LEMMA TwoOfThem ==
  ASSUME NEW run, IsFiniteSet(run), \A x \in run : x \in Int, Cardinality(run) >= 2
  PROVE  \E a, b \in run : a < b
<1>1. PICK a \in run : TRUE
  <2>1. Cardinality(run) # 0
    OBVIOUS
  <2> QED
    BY <2>1, FS_EmptySet
<1>2. Cardinality(run \ {a}) = Cardinality(run) - 1 /\ Cardinality(run) \in Nat
  BY <1>1, FS_RemoveElement, FS_CardinalityType
<1>3. run \ {a} # {}
  <2>1. Cardinality(run \ {a}) # 0
    BY <1>2
  <2> QED
    BY <2>1, FS_EmptySet
<1>4. PICK b \in run \ {a} : TRUE
  BY <1>3
<1> QED
  BY <1>1, <1>4

(* The ranks that decimation keeps are spread over the run.                *)
LEMMA Spread ==
  ASSUME NEW last \in Nat, NEW m \in Nat \ {0}, NEW i \in 0..m
  PROVE  /\ (2 * i * last + m) \div (2 * m) \in 0..last
         /\ \A j \in 0..m : last > m /\ i < j
               => (2 * i * last + m) \div (2 * m) < (2 * j * last + m) \div (2 * m)
<1> DEFINE x(k)  == 2 * k * last + m
           at(k) == x(k) \div (2 * m)
<1>1. \A k \in 0..m : x(k) \in Int /\ 2 * m \in Nat \ {0} /\ 0 <= k * last /\ k * last <= last * m
  OBVIOUS
<1>2. 0 * (2 * m) <= x(i) /\ x(i) < (last + 1) * (2 * m)
  BY <1>1
<1>3. at(i) \in Int /\ 0 <= at(i)
  BY <1>1, <1>2, DivBetween
<1>4. at(i) < last + 1
  BY <1>1, <1>2, <1>3
<1>5. ASSUME NEW j \in 0..m, last > m, i < j PROVE at(i) < at(j)
  <2>1. at(i) * (2 * m) <= x(i)
    <3>1. \A y \in Int, d \in Nat \ {0} : (y \div d) * d <= y
      OBVIOUS
    <3> HIDE DEF x
    <3> QED
      BY <1>1, <3>1
  <2>2. x(i) + 2 * m <= x(j)
    <3>1. PICK d \in Nat \ {0} : j = i + d
      <4>1. j - i \in Nat \ {0} /\ j = i + (j - i)
        BY <1>5
      <4> QED
        BY <4>1
    <3>2. j * last = i * last + d * last
      BY <3>1
    <3>3. m <= d * last
      BY <1>5, <3>1
    <3>4. 2 * j * last = 2 * (j * last) /\ 2 * i * last = 2 * (i * last)
      OBVIOUS
    <3>5. i * last \in Int /\ d * last \in Int /\ j * last \in Int
      OBVIOUS
    <3> QED
      BY <3>2, <3>3, <3>4, <3>5
  <2>3. (at(i) + 1) * (2 * m) <= x(j)
    <3>1. (at(i) + 1) * (2 * m) = at(i) * (2 * m) + 2 * m /\ at(i) * (2 * m) \in Int
      <4> HIDE DEF at
      <4> QED
        BY <1>3
    <3> HIDE DEF x, at
    <3> QED
      BY <1>1, <2>1, <2>2, <3>1
  <2>4. at(i) + 1 <= at(j) /\ at(j) \in Int
    <3>1. x(j) \in Int /\ at(i) + 1 \in Int
      BY <1>1, <1>3
    <3> HIDE DEF x
    <3> QED
      BY <1>1, <2>3, <3>1, DivBetween
  <2> HIDE DEF at
  <2> QED
    BY <1>3, <2>4
<1> QED
  BY <1>3, <1>4, <1>5

(* Decimation leaves samples of the run, the first and the last of them.   *)
LEMMA DecimateType ==
  ASSUME NEW run, IsFiniteSet(run), \A x \in run : x \in Int, Cardinality(run) >= 2
  PROVE  Decimate(run) \subseteq run /\ \E a, b \in Decimate(run) : a < b
<1> DEFINE last   == Cardinality(run) - 1
           nth(i) == CHOOSE a \in run : Cardinality({b \in run : b > a}) = i
           at(i)  == (2 * i * last + (MaxPoints - 1)) \div (2 * (MaxPoints - 1))
           Kept   == {nth(at(i)) : i \in 0..(MaxPoints - 1)}
<1>1. last \in Nat \ {0} /\ MaxPoints - 1 \in Nat \ {0} /\ Cardinality(run) \in Nat
  BY FS_CardinalityType, EngineConstantsOK
<1>2. CASE last < MaxPoints
  <2>1. Decimate(run) = run
    BY <1>2 DEF Decimate
  <2> QED
    BY <2>1, TwoOfThem
<1>3. CASE ~(last < MaxPoints)
  <2>1. Decimate(run) = Kept
    BY <1>3 DEF Decimate
  <2>2. \A i \in 0..last : nth(i) \in run /\ Cardinality({b \in run : b > nth(i)}) = i
    <3> SUFFICES ASSUME NEW i \in 0..last
                 PROVE  \E a \in run : Cardinality({b \in run : b > a}) = i
      OBVIOUS
    <3>1. i \in Nat /\ i < Cardinality(run)
      BY <1>1
    <3> QED
      BY <3>1, Ranked
  <2> HIDE DEF last, nth
  <2>4. \A i \in 0..(MaxPoints - 1) : at(i) \in 0..last
    BY <1>1, Spread
  <2>5. at(0) = 0
    <3>1. \A m \in Nat \ {0} : m \div (2 * m) = 0
      OBVIOUS
    <3>2. 2 * 0 * last + (MaxPoints - 1) = MaxPoints - 1
      BY <1>1
    <3> QED
      BY <1>1, <3>1, <3>2
  <2>6. at(MaxPoints - 1) = last
    <3>1. ASSUME NEW m \in Nat \ {0} PROVE (2 * m * last + m) \div (2 * m) = last
      <4>1. 2 * m * last + m = last * (2 * m) + m
        BY <1>1
      <4> QED
        BY <1>1, <4>1
    <3> QED
      BY <1>1, <3>1
  <2> HIDE DEF at
  <2>7. Kept \subseteq run
    BY <2>2, <2>4
  <2>8. nth(0) \in Kept /\ nth(last) \in Kept
    BY <1>1, <2>5, <2>6
  <2>9. nth(0) # nth(last) /\ nth(0) \in Int /\ nth(last) \in Int
    <3>1. 0 \in 0..last /\ last \in 0..last /\ last # 0
      BY <1>1
    <3>2. /\ nth(0) \in run /\ Cardinality({b \in run : b > nth(0)}) = 0
          /\ nth(last) \in run /\ Cardinality({b \in run : b > nth(last)}) = last
      BY <2>2, <3>1
    <3> QED
      BY <3>1, <3>2
  <2>10. nth(0) < nth(last) \/ nth(last) < nth(0)
    BY <2>9
  <2> QED
    BY <2>1, <2>7, <2>8, <2>10
<1> QED
  BY <1>2, <1>3

(* The median of the rates of all pairs lies where these lie.              *)
LEMMA TheilSenBetween ==
  ASSUME NEW run, IsFiniteSet(run), \A x \in run : x \in Int, Cardinality(run) >= 2,
         NEW s, NEW lo \in Int, NEW hi \in Int,
         \A a, b \in run : a < b => Rate(s, a, b) \in Int /\ lo <= Rate(s, a, b) /\ Rate(s, a, b) <= hi
  PROVE  /\ TheilSenSlope(s, run) \in Int
         /\ 2 * lo <= TheilSenSlope(s, run) /\ TheilSenSlope(s, run) <= 2 * hi
<1> DEFINE pairs == Pairs(Decimate(run))
           n     == Cardinality(pairs)
           rate  == [p \in pairs |-> Rate(s, p[1], p[2])]
<1>1. Decimate(run) \subseteq run /\ \E a, b \in Decimate(run) : a < b
  BY DecimateType
<1>2. IsFiniteSet(pairs)
  <2>1. IsFiniteSet(Decimate(run))
    BY <1>1, FS_Subset
  <2>2. IsFiniteSet(Decimate(run) \X Decimate(run))
    BY <2>1, FS_Product
  <2> QED
    BY <2>2, FS_Subset DEF Pairs
<1>3. pairs # {}
  <2>1. PICK a, b \in Decimate(run) : a < b
    BY <1>1
  <2>2. <<a, b>> \in pairs
    BY <2>1 DEF Pairs
  <2> QED
    BY <2>2
<1>4. \A p \in pairs : p[1] \in run /\ p[2] \in run /\ p[1] < p[2]
  BY <1>1 DEF Pairs
<1>5. rate \in [pairs -> Int] /\ \A p \in pairs : lo <= rate[p] /\ rate[p] <= hi
  BY <1>4
<1>6. n \in Nat \ {0}
  BY <1>2, <1>3, FS_EmptySet, FS_CardinalityType
<1>7. TheilSenSlope(s, run) = IF n % 2 = 1 THEN 2 * Kth(pairs, rate, n \div 2)
                              ELSE Kth(pairs, rate, n \div 2 - 1) + Kth(pairs, rate, n \div 2)
  BY DEF TheilSenSlope
<1> HIDE DEF pairs, rate, n
<1>8. ASSUME NEW k \in Nat, k < n
      PROVE  Kth(pairs, rate, k) \in Int /\ lo <= Kth(pairs, rate, k) /\ Kth(pairs, rate, k) <= hi
  <2>1. Kth(pairs, rate, k) \in {rate[p] : p \in pairs}
    BY <1>2, <1>5, <1>8, KthIsKey DEF n
  <2> QED
    BY <1>5, <2>1
<1>9. n \div 2 \in Nat /\ n \div 2 < n /\ (n % 2 # 1 => n \div 2 - 1 \in Nat /\ n \div 2 - 1 < n)
  BY <1>6, Half
<1>10. CASE n % 2 = 1
  BY <1>7, <1>8, <1>9, <1>10
<1>11. CASE n % 2 # 1
  BY <1>7, <1>8, <1>9, <1>11
<1> QED
  BY <1>10, <1>11

-----------------------------------------------------------------------------
(* The runs of a window.                                                   *)

LEMMA Scaled ==
  ASSUME NEW x \in Int, NEW d \in Nat \ {0}, Unit % d = 0
  PROVE  /\ (x * Unit) \div d \in Int
         /\ ((x * Unit) \div d) * d = x * Unit
<1>1. Unit \in Nat
  BY EngineConstantsOK
<1>2. Unit \div d \in Int /\ Unit = (Unit \div d) * d
  BY <1>1
<1>3. \A y \in Int : (y * d) \div d = y
  OBVIOUS
<1>4. x * Unit = (x * (Unit \div d)) * d /\ x * (Unit \div d) \in Int
  BY <1>2
<1> QED
  BY <1>3, <1>4

LEMMA Larger ==
  ASSUME NEW x \in Int, NEW y \in Int, x <= y, NEW d \in Nat
  PROVE  x * d <= y * d
OBVIOUS

LEMMA Distance ==
  ASSUME NEW h \in Int, NEW a \in Int, NEW b \in Int, NEW c \in Int
  PROVE  h * (b - a) = h * (c - a) + h * (b - c) /\ h * (c - a) \in Int /\ h * (b - c) \in Int
OBVIOUS

(* A run has every sample between two of its own, and no gap.              *)
LEMMA RunShape ==
  ASSUME NEW samples, \A x \in samples : x \in Int, NEW run \in SplitByGaps(samples)
  PROVE  /\ run \subseteq samples
         /\ \A a, b \in run : \A c \in samples : a < c /\ c < b => c \in run
         /\ \A a, b \in run : a < b /\ (~ \E c \in samples : a < c /\ c < b) => b - a <= MaxGap
<1> DEFINE firsts == {a \in samples : ~ \E b \in samples : a < b /\ b =< a + MaxGap}
<1>1. PICK first \in firsts : run = {b \in samples : b =< first /\ ~ \E f \in firsts : b =< f /\ f < first}
  BY DEF SplitByGaps
<1>2. \A a \in samples : a \in firsts <=> ~ \E b \in samples : a < b /\ b =< a + MaxGap
  OBVIOUS
<1>3. firsts \subseteq samples
  OBVIOUS
<1>4. \A b : b \in run <=> b \in samples /\ b =< first /\ ~ \E f \in firsts : b =< f /\ f < first
  BY <1>1
<1> HIDE DEF firsts
<1>5. ASSUME NEW a \in run, NEW b \in run, NEW c \in samples, a < c, c < b PROVE c \in run
  <2>1. c <= first
    BY <1>3, <1>4, <1>5
  <2>2. ASSUME NEW f \in firsts, c =< f, f < first PROVE FALSE
    BY <1>3, <1>4, <1>5, <2>2
  <2> QED
    BY <1>4, <2>1, <2>2
<1>6. ASSUME NEW a \in run, NEW b \in run, a < b, ~ \E c \in samples : a < c /\ c < b, ~(b - a <= MaxGap)
      PROVE  FALSE
  <2>1. a \in samples /\ b \in samples /\ b <= first /\ MaxGap \in Nat
    BY <1>4, EngineConstantsOK
  <2>2. a \in firsts
    BY <1>2, <1>6, <2>1
  <2>3. a < first
    BY <1>3, <1>6, <2>1
  <2> QED
    BY <1>4, <2>1, <2>2, <2>3
<1> QED
  BY <1>4, <1>5, <1>6

(* The rate between any two samples of a run lies between the slowest and  *)
(* the fastest rate of neighbours.                                         *)
LEMMA Chain ==
  ASSUME NEW s \in [0..Long -> Int], NEW samples, \A x \in samples : x \in 0..Long,
         NEW run \in SplitByGaps(samples), NEW lo \in Int, NEW hi \in Int,
         \A p \in Neighbours(samples) : lo <= Rate(s, p[1], p[2]) /\ Rate(s, p[1], p[2]) <= hi
  PROVE  \A a, b \in run : a < b => Rate(s, a, b) \in Int /\ lo <= Rate(s, a, b) /\ Rate(s, a, b) <= hi
<1> DEFINE D(a, b) == (s[a] - s[b]) * Unit
           Fits(a, b) == lo * (b - a) <= D(a, b) /\ D(a, b) <= hi * (b - a)
           I == {n \in Nat : \A a, b \in run : a < b /\ b - a <= n => Fits(a, b)}
<1>1. run \subseteq samples /\ Long \in Nat /\ Unit \in Nat /\ \A d \in 1..Long : Unit % d = 0
  BY RunShape, EngineConstantsOK
<1>2. \A a \in run : a \in 0..Long /\ a \in Int /\ s[a] \in Int
  BY <1>1
<1>3. ASSUME NEW a \in run, NEW b \in run, a < b
      PROVE  /\ b - a \in 1..Long /\ b - a \in Nat \ {0} /\ s[a] - s[b] \in Int
             /\ Rate(s, a, b) \in Int /\ Rate(s, a, b) * (b - a) = D(a, b) /\ D(a, b) \in Int
  <2>1. b - a \in 1..Long /\ b - a \in Nat \ {0} /\ s[a] - s[b] \in Int /\ D(a, b) \in Int
    BY <1>1, <1>2, <1>3
  <2> QED
    BY <1>1, <2>1, Scaled DEF Rate
<1>4. 0 \in I
  BY <1>2
<1>5. ASSUME NEW n \in Nat, n \in I PROVE n + 1 \in I
  <2> SUFFICES ASSUME NEW a \in run, NEW b \in run, a < b, b - a <= n + 1 PROVE Fits(a, b)
    OBVIOUS
  <2>1. CASE \E c \in samples : a < c /\ c < b
    <3>1. PICK c \in samples : a < c /\ c < b
      BY <2>1
    <3>2. c \in run
      BY <3>1, RunShape
    <3>3. Fits(a, c) /\ Fits(c, b)
      <4>1. c - a <= n /\ b - c <= n
        BY <1>2, <3>1, <3>2
      <4> QED
        BY <1>5, <3>1, <3>2, <4>1
    <3>4. D(a, b) = D(a, c) + D(c, b) /\ D(a, c) \in Int /\ D(c, b) \in Int
      BY <1>1, <1>2, <3>2
    <3>5. \A h \in Int : h * (b - a) = h * (c - a) + h * (b - c) /\ h * (c - a) \in Int /\ h * (b - c) \in Int
      <4>1. a \in Int /\ b \in Int /\ c \in Int
        BY <1>2, <3>2
      <4> HIDE DEF D, Fits, I
      <4> TAKE h \in Int
      <4> QED
        BY <4>1, Distance
    <3>6. /\ lo * (b - a) = lo * (c - a) + lo * (b - c) /\ lo * (c - a) \in Int /\ lo * (b - c) \in Int
          /\ hi * (b - a) = hi * (c - a) + hi * (b - c) /\ hi * (c - a) \in Int /\ hi * (b - c) \in Int
      BY <3>5
    <3>7. \A x, y, x1, y1, x2, y2 \in Int : x1 <= x /\ x <= x2 /\ y1 <= y /\ y <= y2
                                            => x1 + y1 <= x + y /\ x + y <= x2 + y2
      OBVIOUS
    <3> HIDE DEF D
    <3> QED
      BY <3>3, <3>4, <3>6, <3>7
  <2>2. CASE ~ \E c \in samples : a < c /\ c < b
    <3>1. <<a, b>> \in Neighbours(samples)
      <4>1. b - a <= MaxGap
        BY <2>2, RunShape
      <4> QED
        BY <1>1, <2>2, <4>1 DEF Neighbours, Pairs
    <3>2. lo <= Rate(s, a, b) /\ Rate(s, a, b) <= hi
      BY <3>1
    <3>3. Rate(s, a, b) \in Int /\ b - a \in Nat /\ Rate(s, a, b) * (b - a) = D(a, b)
      BY <1>3
    <3>4. lo * (b - a) <= Rate(s, a, b) * (b - a) /\ Rate(s, a, b) * (b - a) <= hi * (b - a)
      BY <3>2, <3>3, Larger
    <3> QED
      BY <3>3, <3>4
  <2> QED
    BY <2>1, <2>2
<1> HIDE DEF I
<1>6. Nat \subseteq I
  BY <1>4, <1>5, SetInduction
<1>7. ASSUME NEW a \in run, NEW b \in run, a < b
      PROVE  Rate(s, a, b) \in Int /\ lo <= Rate(s, a, b) /\ Rate(s, a, b) <= hi
  <2>1. b - a \in Nat \ {0} /\ D(a, b) \in Int
    BY <1>3, <1>7
  <2>2. Fits(a, b)
    BY <1>6, <1>7, <2>1 DEF I
  <2> QED
    BY <2>1, <2>2, DivBetween DEF Rate
<1> QED
  BY <1>7

-----------------------------------------------------------------------------
(* One window.                                                             *)

LEMMA SamplesType ==
  ASSUME NEW s, NEW w \in Windows
  PROVE  /\ IsFiniteSet(Samples(s, w))
         /\ \A a \in Samples(s, w) : a \in 0..Long /\ a \in Int
<1>1. Long \in Nat /\ Span(w) \in Nat /\ Span(w) <= Long
  BY EngineConstantsOK DEF Span, Windows
<1>2. \A a \in Samples(s, w) : a \in 0..Long /\ a \in Int
  BY <1>1 DEF Samples
<1>3. IsFiniteSet(0..Long)
  BY <1>1, FS_Interval
<1> QED
  BY <1>2, <1>3, FS_Subset

LEMMA RunsType ==
  ASSUME NEW s, NEW w \in Windows
  PROVE  /\ IsFiniteSet(Runs(s, w))
         /\ \A run \in Runs(s, w) : /\ run \in SplitByGaps(Samples(s, w))
                                    /\ IsFiniteSet(run) /\ Cardinality(run) >= 2
                                    /\ \A x \in run : x \in Int
<1> DEFINE samples == Samples(s, w)
           firsts  == {a \in samples : ~ \E b \in samples : a < b /\ b =< a + MaxGap}
           runAt   == [a \in firsts |-> {b \in samples : b =< a /\ ~ \E f \in firsts : b =< f /\ f < a}]
<1>1. IsFiniteSet(samples) /\ \A a \in samples : a \in Int
  BY SamplesType
<1>2. IsFiniteSet(firsts)
  BY <1>1, FS_Subset
<1>3. runAt \in [firsts -> SUBSET samples] /\ SplitByGaps(samples) = {runAt[a] : a \in firsts}
  BY DEF SplitByGaps
<1>4. IsFiniteSet(SplitByGaps(samples))
  <2> HIDE DEF samples, firsts, runAt
  <2> QED
    BY <1>2, <1>3, FiniteImage
<1>5. IsFiniteSet(Runs(s, w))
  BY <1>4, FS_Subset DEF Runs
<1>6. ASSUME NEW run \in Runs(s, w)
      PROVE  /\ run \in SplitByGaps(samples) /\ Cardinality(run) >= 2
             /\ IsFiniteSet(run) /\ \A x \in run : x \in Int
  <2>1. run \in SplitByGaps(samples) /\ Cardinality(run) >= 2
    BY DEF Runs
  <2>2. run \subseteq samples
    BY <1>1, <2>1, RunShape
  <2> QED
    BY <1>1, <2>1, <2>2, FS_Subset
<1> QED
  BY <1>5, <1>6

(* In a run of two or more there are neighbours.                           *)
LEMMA RunHasNeighbours ==
  ASSUME NEW samples, IsFiniteSet(samples), \A x \in samples : x \in Int,
         NEW run \in SplitByGaps(samples), NEW a \in run, NEW b \in run, a < b
  PROVE  Neighbours(samples) # {}
<1> DEFINE Older == {x \in samples : a < x}
<1>1. run \subseteq samples
  BY RunShape
<1>2. Older \in SUBSET Int /\ IsFiniteSet(Older) /\ b \in Older
  BY <1>1, FS_Subset
<1>3. PICK c \in Older : \A x \in Older : c <= x
  BY <1>2, Extremes
<1>4. c \in samples /\ a < c /\ c <= b /\ ~ \E x \in samples : a < x /\ x < c
  BY <1>2, <1>3
<1>5. c \in run
  <2>1. CASE c = b
    BY <2>1
  <2>2. CASE c # b
    <3>1. c < b
      BY <1>1, <1>4, <2>2
    <3> QED
      BY <1>4, <3>1, RunShape
  <2> QED
    BY <2>1, <2>2
<1>6. c - a <= MaxGap
  BY <1>4, <1>5, RunShape
<1>7. <<a, c>> \in Neighbours(samples)
  BY <1>1, <1>4, <1>6 DEF Neighbours, Pairs
<1> QED
  BY <1>7

RatesOf(s, w) == {Rate(s, p[1], p[2]) : p \in Neighbours(Samples(s, w))}

LEMMA RatesType ==
  ASSUME NEW s \in [0..Long -> Int], NEW w \in Windows
  PROVE  RatesOf(s, w) \in SUBSET Int /\ IsFiniteSet(RatesOf(s, w))
<1> DEFINE samples == Samples(s, w)
           near    == Neighbours(samples)
           rate    == [p \in near |-> Rate(s, p[1], p[2])]
<1>1. IsFiniteSet(samples) /\ \A a \in samples : a \in 0..Long /\ a \in Int
  BY SamplesType
<1>2. IsFiniteSet(near)
  <2>1. IsFiniteSet(samples \X samples)
    BY <1>1, FS_Product
  <2> QED
    BY <2>1, FS_Subset DEF Neighbours, Pairs
<1>3. ASSUME NEW p \in near PROVE Rate(s, p[1], p[2]) \in Int
  <2>1. p[1] \in samples /\ p[2] \in samples /\ p[1] < p[2]
    BY DEF Neighbours, Pairs
  <2>2. p[2] - p[1] \in Nat \ {0} /\ (s[p[1]] - s[p[2]]) * Unit \in Int
    BY <1>1, <2>1, EngineConstantsOK
  <2> QED
    BY <2>2, DivBetween DEF Rate
<1>4. rate \in [near -> Int] /\ RatesOf(s, w) = {rate[p] : p \in near}
  BY <1>3 DEF RatesOf
<1> HIDE DEF near, rate
<1> QED
  BY <1>2, <1>4, FiniteImage

(* The slope of a window lies between the slowest and the fastest change   *)
(* of neighbouring samples.                                                *)
LEMMA WindowSlopeBetween ==
  ASSUME NEW s \in [0..Long -> Int], NEW w \in Windows, Runs(s, w) # {}
  PROVE  /\ WindowSlope(s, w) \in Nat
         /\ WindowSlope(s, w) > 0 => \E r \in RatesOf(s, w) : WindowSlope(s, w) <= 2 * r
         /\ \/ \E r \in RatesOf(s, w) : r <= 0
            \/ \E r \in RatesOf(s, w) : WindowSlope(s, w) >= 2 * r
<1> DEFINE samples == Samples(s, w)
           runs    == Runs(s, w)
           slope   == [r \in runs |-> TheilSenSlope(s, r)]
           n       == Cardinality(runs)
           beta    == Kth(runs, slope, n \div 2)
<1>1. /\ IsFiniteSet(samples) /\ \A a \in samples : a \in 0..Long
      /\ \A a \in samples : a \in Int
  BY SamplesType
<1>2. /\ IsFiniteSet(runs)
      /\ \A run \in runs : /\ run \in SplitByGaps(samples)
                           /\ IsFiniteSet(run) /\ Cardinality(run) >= 2
                           /\ \A x \in run : x \in Int
  BY RunsType
<1>3. RatesOf(s, w) \in SUBSET Int /\ IsFiniteSet(RatesOf(s, w)) /\ RatesOf(s, w) # {}
  <2>1. PICK run \in runs : TRUE
    OBVIOUS
  <2>2. PICK a, b \in run : a < b
    BY <1>2, TwoOfThem
  <2>3. Neighbours(samples) # {}
    BY <1>1, <1>2, <2>2, RunHasNeighbours
  <2> QED
    BY <2>3, RatesType DEF RatesOf
<1>4. PICK lo \in RatesOf(s, w) : \A r \in RatesOf(s, w) : lo <= r
  BY <1>3, Extremes
<1>5. PICK hi \in RatesOf(s, w) : \A r \in RatesOf(s, w) : r <= hi
  BY <1>3, Extremes
<1>6. lo \in Int /\ hi \in Int
  BY <1>3
<1>7. \A p \in Neighbours(samples) : lo <= Rate(s, p[1], p[2]) /\ Rate(s, p[1], p[2]) <= hi
  BY <1>4, <1>5 DEF RatesOf
<1>8. ASSUME NEW run \in runs
      PROVE  slope[run] \in Int /\ 2 * lo <= slope[run] /\ slope[run] <= 2 * hi
  <2>1. \A a, b \in run : a < b => Rate(s, a, b) \in Int /\ lo <= Rate(s, a, b) /\ Rate(s, a, b) <= hi
    BY <1>1, <1>2, <1>6, <1>7, Chain
  <2>2. IsFiniteSet(run) /\ Cardinality(run) >= 2 /\ \A x \in run : x \in Int
    BY <1>2
  <2>3. /\ TheilSenSlope(s, run) \in Int
        /\ 2 * lo <= TheilSenSlope(s, run) /\ TheilSenSlope(s, run) <= 2 * hi
    BY <1>6, <2>1, <2>2, TheilSenBetween
  <2> QED
    BY <2>3
<1>9. n \in Nat \ {0}
  BY <1>2, FS_EmptySet, FS_CardinalityType
<1>10. WindowSlope(s, w) = IF beta > 0 THEN beta ELSE 0
  BY DEF WindowSlope
<1>11. slope \in [runs -> Int]
  BY <1>8
<1> HIDE DEF runs, slope, n
<1>12. beta \in {slope[r] : r \in runs}
  <2>1. n \div 2 \in Nat /\ n \div 2 < n
    BY <1>9, Half
  <2> QED
    BY <1>2, <1>11, <2>1, KthIsKey DEF n
<1>13. beta \in Int /\ 2 * lo <= beta /\ beta <= 2 * hi
  BY <1>8, <1>12
<1> HIDE DEF beta
<1> QED
  BY <1>4, <1>5, <1>6, <1>10, <1>13

-----------------------------------------------------------------------------
(* The sensor.                                                             *)

LEMMA ThresholdTypes ==
  /\ Hour \in Windows /\ Long \in Windows /\ Hour # Long /\ Windows = {Hour, Long}
  /\ Hour \in Nat /\ Long \in Nat
  /\ Values \cup {Gap} \subseteq Int /\ Ceilings \subseteq Nat
  /\ ExitPolls \in Nat \ {0}
BY EngineConstantsOK DEF Windows, Gap

LEMMA ShiftType ==
  ASSUME EngineTypeOK, NEW v \in Values \cup {Gap}
  PROVE  /\ Shift(v) \in [0..Long -> Values \cup {Gap}]
         /\ Shift(v)[0] = v
<1>1. Long \in Nat
  BY ThresholdTypes
<1>2. \A a \in 0..Long : a # 0 => a - 1 \in 0..Long
  BY <1>1
<1> QED
  BY <1>1, <1>2 DEF Shift, EngineTypeOK

LEMMA SlopesAreNat ==
  ASSUME NEW s \in [0..Long -> Values \cup {Gap}], NEW w \in Windows, NEW jumped, Valid(s, w, jumped)
  PROVE  WindowSlope(s, w) \in Nat
<1>1. s \in [0..Long -> Int]
  BY ThresholdTypes
<1> QED
  BY <1>1, WindowSlopeBetween DEF Valid

(* A sensor judges by the same rules as long as it lives.                  *)
LEMMA SameRules ==
  ASSUME UNCHANGED kind, NEW s, series' = s, NEW jumped, forecast'.jumped = jumped, NEW w
  PROVE  /\ Valid(series, w, forecast.jumped)' <=> Valid(s, w, jumped)
         /\ WindowSlope(series, w)' = WindowSlope(s, w)
<1>1. Samples(series, w)' = Samples(s, w)
  BY DEF Samples, Span, IsBudget
<1>2. Runs(series, w)' = Runs(s, w)
  BY <1>1 DEF Runs
<1> QED
  BY <1>1, <1>2 DEF Valid, WindowSlope

LEMMA Decided ==
  ASSUME EngineTypeOK, NEW verdict \in States
  PROVE  /\ Decide(verdict).state \in States /\ Decide(verdict).streak \in 0..ExitPolls
         /\ Decide(verdict).state # verdict => verdict = "healthy"
         /\ verdict = "healthy" => IF IsBudget THEN Decide(verdict).state = verdict
                                   ELSE Decide(verdict).streak > 0
<1>1. Longer \in 0..ExitPolls /\ Longer > 0
  BY ThresholdTypes DEF Longer, EngineTypeOK
<1> QED
  BY <1>1, ThresholdTypes DEF Decide, EngineTypeOK, States

LEMMA VerdictType ==
  ASSUME NEW value, NEW room, NEW aggressive, NEW conservative
  PROVE  Verdict(value, room, aggressive, conservative) \in States
BY DEF Verdict, States

(* What a poll leaves behind.                                              *)
LEMMA PollResult ==
  ASSUME EngineTypeOK, NEW v \in Values \cup {Gap}, NEW ceiling \in Ceilings, Poll(v, ceiling)
  PROVE  EngineTypeOK' /\ FromTheSeries'
<1> DEFINE s   == Shift(v)
           f   == Evaluate(s, Measured(v), ceiling)
           ver == Verdict(Measured(v), f.room, f.aggressive, f.conservative)
           new == Decide(ver)
<1>1. /\ series' = s
      /\ forecast' = [k \in DOMAIN NoForecast |-> IF k = "state" THEN new.state ELSE f[k]]
      /\ kind' = kind
      /\ IF IsBudget THEN UNCHANGED <<prevCeiling, prevState, streak>>
         ELSE prevCeiling' = ceiling /\ prevState' = new.state /\ streak' = new.streak
  BY DEF Poll
<1>2. s \in [0..Long -> Values \cup {Gap}] /\ s[0] = v
  BY ShiftType
<1>3. /\ forecast'.ok = TRUE /\ forecast'.valid = f.valid /\ forecast'.aggressive = f.aggressive
      /\ forecast'.conservative = f.conservative /\ forecast'.room = f.room
      /\ forecast'.jumped = f.jumped /\ forecast'.state = new.state
  <2>1. forecast' = [k \in {"ok", "valid", "aggressive", "conservative", "room", "jumped", "state"} |->
                       IF k = "state" THEN new.state ELSE f[k]]
    BY <1>1 DEF NoForecast
  <2>2. f.ok = TRUE
    BY DEF Evaluate
  <2> HIDE DEF f, new
  <2> QED
    BY <2>1, <2>2
<1>4. /\ f.valid = {w \in Windows : Valid(s, w, f.jumped)}
      /\ f.aggressive = IF Hour \in f.valid THEN WindowSlope(s, Hour) ELSE 0
      /\ f.conservative = IF Long \in f.valid THEN WindowSlope(s, Long) ELSE 0
      /\ f.room = ceiling - Measured(v) /\ f.jumped = Jumped(ceiling)
  BY DEF Evaluate
<1>5. f.jumped \in BOOLEAN
  BY <1>4 DEF Jumped, CeilingJumped
<1>6. f.room \in Int
  BY <1>4, ThresholdTypes DEF Measured
<1> HIDE DEF s, f
<1>7. f.aggressive \in Nat /\ f.conservative \in Nat /\ f.valid \subseteq Windows
  BY <1>2, <1>4, SlopesAreNat, ThresholdTypes
<1>8. ver \in States
  BY VerdictType
<1> HIDE DEF ver
<1>9. /\ new.state \in States /\ new.streak \in 0..ExitPolls
      /\ new.state # ver => ver = "healthy"
      /\ ver = "healthy" => IF IsBudget THEN new.state = ver ELSE new.streak > 0
  BY <1>8, Decided
<1> HIDE DEF new
<1>10. EngineTypeOK'
  <2>1. kind' \in Kinds /\ series' \in [0..Long -> Values \cup {Gap}]
    BY <1>1, <1>2 DEF EngineTypeOK
  <2>2. prevCeiling' \in Ceilings \cup {0} /\ prevState' \in States /\ streak' \in 0..ExitPolls
    BY <1>1, <1>9 DEF EngineTypeOK
  <2> QED
    BY <1>3, <1>5, <1>6, <1>7, <1>9, <2>1, <2>2 DEF EngineTypeOK, States, Windows
<1>11. FromTheSeries'
  <2>1. /\ f.valid = {w \in Windows : Valid(series, w, forecast.jumped)'}
        /\ \A w \in Windows : WindowSlope(series, w)' = WindowSlope(s, w)
    <3>1. PICK c, j : c = s /\ j = f.jumped
      OBVIOUS
    <3>2. \A w : /\ Valid(series, w, forecast.jumped)' <=> Valid(c, w, j)
                 /\ WindowSlope(series, w)' = WindowSlope(c, w)
      BY <1>1, <1>3, <3>1, SameRules
    <3> QED
      BY <1>4, <3>1, <3>2
  <2>2. IsBudget' = IsBudget
    BY <1>1 DEF IsBudget
  <2>3. ver = Verdict(Measured(series[0])', forecast'.room, forecast'.aggressive, forecast'.conservative)
    BY <1>1, <1>2, <1>3 DEF ver, Measured
  <2> QED
    BY <1>1, <1>3, <1>4, <1>9, <2>1, <2>2, <2>3, ThresholdTypes DEF FromTheSeries
<1> QED
  BY <1>10, <1>11

EngineBase == EngineTypeOK /\ FromTheSeries

LEMMA EngineStarts == EngineInit => EngineBase
BY EngineConstantsOK
   DEF EngineInit, EngineBase, EngineTypeOK, FromTheSeries, NoForecast, States, Gap

LEMMA EngineSteps == EngineBase /\ [EngineNext]_engineVars => EngineBase'
<1> SUFFICES ASSUME EngineBase, [EngineNext]_engineVars PROVE EngineBase'
  OBVIOUS
<1>0. EngineTypeOK /\ FromTheSeries
  BY DEF EngineBase
<1>1. ASSUME NEW v \in Values \cup {Gap}, NEW ceiling \in Ceilings, Poll(v, ceiling)
      PROVE  EngineBase'
  BY <1>0, <1>1, PollResult DEF EngineBase
<1>2. ASSUME NEW v \in Values \cup {Gap}, PollFails(v) PROVE EngineBase'
  <2>1. series' \in [0..Long -> Values \cup {Gap}]
    BY <1>0, <1>2, ShiftType DEF PollFails
  <2> QED
    BY <1>0, <1>2, <2>1
       DEF PollFails, EngineBase, EngineTypeOK, FromTheSeries, NoForecast, States
<1>3. CASE Rebuild
  BY <1>0, <1>3, ThresholdTypes
     DEF Rebuild, EngineBase, EngineTypeOK, FromTheSeries, NoForecast, States
<1>4. CASE UNCHANGED engineVars
  <2>1. forecast' = forecast /\ series' = series /\ kind' = kind /\ prevCeiling' = prevCeiling
        /\ prevState' = prevState /\ streak' = streak
    BY <1>4 DEF engineVars
  <2>2. EngineTypeOK'
    BY <1>0, <2>1 DEF EngineTypeOK, Windows
  <2>3. FromTheSeries'
    <3>1. PICK c, j : c = series /\ j = forecast.jumped
      OBVIOUS
    <3>2. \A w : /\ Valid(series, w, forecast.jumped)' <=> Valid(c, w, j)
                 /\ WindowSlope(series, w)' = WindowSlope(c, w)
      BY <2>1, <3>1, SameRules
    <3>3. IsBudget' = IsBudget /\ Measured(series[0])' = Measured(series[0])
      BY <2>1 DEF IsBudget, Measured
    <3> QED
      BY <1>0, <2>1, <3>1, <3>2, <3>3 DEF FromTheSeries, Windows
  <2> QED
    BY <2>2, <2>3 DEF EngineBase
<1> QED
  BY <1>1, <1>2, <1>3, <1>4 DEF EngineNext

LEMMA SlopesWithinRates == EngineBase => SlopeWithinRates
<1> SUFFICES ASSUME EngineBase, NEW w \in forecast.valid
             PROVE  /\ SlopeOf(w) > 0 => \E r \in Rates(w) : SlopeOf(w) =< 2 * r
                    /\ \/ \E r \in Rates(w) : r =< 0
                       \/ \E r \in Rates(w) : SlopeOf(w) >= 2 * r
  BY DEF SlopeWithinRates
<1>1. EngineTypeOK /\ FromTheSeries
  BY DEF EngineBase
<1>2. PICK s : s = series
  OBVIOUS
<1>3. s \in [0..Long -> Int] /\ w \in Windows
  BY <1>1, <1>2, ThresholdTypes DEF EngineTypeOK
<1>4. Runs(s, w) # {}
  BY <1>1, <1>2, <1>3 DEF FromTheSeries, Valid
<1>5. SlopeOf(w) = WindowSlope(s, w)
  BY <1>1, <1>2, <1>3, ThresholdTypes DEF FromTheSeries, SlopeOf
<1>6. Rates(w) = RatesOf(s, w)
  BY <1>2 DEF Rates, RatesOf
<1> QED
  BY <1>3, <1>4, <1>5, <1>6, WindowSlopeBetween

(* Whatever decimation, the pairs, the medians and the gaps do, a window's *)
(* slope lies between the slowest and the fastest change of neighbouring   *)
(* samples, and what a sensor reports is the verdict on its samples, or a  *)
(* clear one that waits (TheilSenSlope, evalWindow, decideState).          *)
THEOREM TrendsAreMeasured == EngineSpec => []EngineInv
<1>1. EngineSpec => []EngineBase
  BY EngineStarts, EngineSteps, PTL DEF EngineSpec
<1>2. EngineBase => EngineInv
  BY SlopesWithinRates DEF EngineBase, EngineInv
<1> QED
  BY <1>1, <1>2, PTL

(* Critical is never a slow trend, a trend of the long window alone, or    *)
(* the memory of an older verdict, for any thresholds.                     *)
THEOREM CriticalHasAReason == EngineSpec => []SlowGrowthIsNotCritical
<1>1. EngineBase => SlowGrowthIsNotCritical
  <2> SUFFICES ASSUME EngineBase, forecast.ok, forecast.state = "critical", IsBudget \/ streak = 0
               PROVE  SlowGrowthIsNotCritical
    BY DEF SlowGrowthIsNotCritical
  <2>1. Verdict(Measured(series[0]), forecast.room, forecast.aggressive, forecast.conservative) = "critical"
    BY DEF EngineBase, FromTheSeries
  <2>2. /\ forecast.aggressive \in Nat /\ forecast.conservative \in Nat /\ forecast.room \in Int
        /\ Measured(series[0]) \in Int
    <3>1. series[0] \in Int
      BY ThresholdTypes DEF EngineBase, EngineTypeOK
    <3> QED
      BY <3>1 DEF EngineBase, EngineTypeOK, Measured
  <2>3. \/ EtaBelow(forecast.room, forecast.aggressive, CritEta)
        \/ AtLeastPercent(Measured(series[0]), Measured(series[0]) + forecast.room, CritPercent)
    BY <2>1 DEF Verdict
  <2>4. Measured(series[0]) + forecast.room = forecast.room + Measured(series[0])
    BY <2>2
  <2> QED
    BY <2>2, <2>3, <2>4 DEF SlowGrowthIsNotCritical, EtaBelow
<1>2. EngineSpec => []EngineBase
  BY EngineStarts, EngineSteps, PTL DEF EngineSpec
<1> QED
  BY <1>1, <1>2, PTL

Severity(state) == CASE state = "critical" -> 2 [] state = "warning" -> 1 [] OTHER -> 0

(* The time until the ceiling is within the range of time.Duration.        *)
InRange(room, slope) == slope > 0 => 2 * Unit * room < MaxDuration * slope

(* Less room and a steeper slope leave less time.                          *)
LEMMA SoonerBelow ==
  ASSUME NEW room \in Int, NEW less \in Int, less <= room,
         NEW slope \in Int, NEW steeper \in Int, slope <= steeper,
         NEW limit \in Nat, EtaBelow(room, slope, limit),
         InRange(room, slope), InRange(less, steeper)
  PROVE  EtaBelow(less, steeper, limit)
<1>1. Unit \in Nat /\ MaxDuration \in Nat
  BY EngineConstantsOK
<1>2. slope > 0 /\ steeper > 0
  BY DEF EtaBelow
<1>3. PICK time, longer, r1, r2 :
        /\ time = 2 * Unit * less /\ longer = 2 * Unit * room
        /\ r1 = limit * slope /\ r2 = limit * steeper
  OBVIOUS
<1>4. time <= longer /\ time \in Int /\ longer \in Int
  <2>1. 2 * Unit \in Nat
    BY <1>1
  <2>2. PICK u \in Nat : u = 2 * Unit
    BY <2>1
  <2>3. less * u <= room * u /\ less * u = u * less /\ room * u = u * room
    BY <2>2, Larger
  <2> QED
    BY <1>3, <2>2, <2>3
<1>5. r1 <= r2 /\ r1 \in Int /\ r2 \in Int
  <2>1. slope * limit <= steeper * limit /\ slope * limit = limit * slope /\ steeper * limit = limit * steeper
    BY Larger
  <2> QED
    BY <1>3, <2>1
<1>6. longer < r1
  <2>1. longer < MaxDuration * slope
    BY <1>2, <1>3 DEF InRange
  <2>2. MaxDuration * slope \in Int
    BY <1>1
  <2>3. ~(longer >= MaxDuration * slope)
    BY <1>4, <2>1, <2>2
  <2> QED
    BY <1>3, <2>3 DEF EtaBelow
<1>7. ~(time >= MaxDuration * steeper)
  <2>1. time < MaxDuration * steeper
    BY <1>2, <1>3 DEF InRange
  <2>2. MaxDuration * steeper \in Int
    BY <1>1
  <2> QED
    BY <1>4, <2>1, <2>2
<1>8. time < r2
  BY <1>4, <1>5, <1>6
<1> QED
  BY <1>2, <1>3, <1>7, <1>8 DEF EtaBelow

(* A fuller resource, with less room and at the same ceiling, that fills   *)
(* no slower is judged no milder, whatever the thresholds, as long as the  *)
(* times are within the range of time.Duration (beyond it, on a build that *)
(* makes them negative, the flatter metric is the critical one).           *)
THEOREM WorseIsNoMilder ==
  ASSUME NEW value \in Nat, NEW fuller \in Nat, NEW room \in Int, NEW less \in Int,
         value <= fuller, fuller + less = value + room,
         NEW aggressive \in Nat, NEW steeper \in Nat, aggressive <= steeper,
         NEW conservative \in Nat, NEW steady \in Nat, conservative <= steady,
         InRange(room, aggressive), InRange(less, steeper),
         InRange(room, conservative), InRange(less, steady)
  PROVE  Severity(Verdict(value, room, aggressive, conservative))
           <= Severity(Verdict(fuller, less, steeper, steady))
<1>1. /\ CritEta \in Nat /\ WarnEta \in Nat /\ CritPercent \in Nat /\ SoftPercent \in Nat
      /\ less <= room
  BY EngineConstantsOK
<1>2. /\ EtaBelow(room, aggressive, CritEta) => EtaBelow(less, steeper, CritEta)
      /\ EtaBelow(room, aggressive, WarnEta) => EtaBelow(less, steeper, WarnEta)
      /\ EtaBelow(room, conservative, WarnEta) => EtaBelow(less, steady, WarnEta)
  BY <1>1, SoonerBelow
<1>3. ASSUME NEW percent \in Nat, AtLeastPercent(value, value + room, percent)
      PROVE  AtLeastPercent(fuller, fuller + less, percent)
  <2>1. PICK share : share = percent * (value + room)
    OBVIOUS
  <2>2. share \in Int /\ 100 * value >= share
    BY <1>3, <2>1 DEF AtLeastPercent
  <2>3. 100 * fuller >= share
    BY <2>2
  <2> QED
    BY <2>1, <2>3 DEF AtLeastPercent
<1> QED
  BY <1>1, <1>2, <1>3 DEF Verdict, Severity

(* Neighbours are in one run, which has a slope.                           *)
LEMMA NeighboursMakeARun ==
  ASSUME NEW s, NEW w \in Windows, NEW p \in Neighbours(Samples(s, w))
  PROVE  Runs(s, w) # {}
<1> DEFINE samples == Samples(s, w)
           firsts  == {a \in samples : ~ \E b \in samples : a < b /\ b =< a + MaxGap}
           Later   == {f \in firsts : f >= p[2]}
           run(a)  == {b \in samples : b =< a /\ ~ \E f \in firsts : b =< f /\ f < a}
<1>1. IsFiniteSet(samples) /\ (\A a \in samples : a \in Int) /\ MaxGap \in Nat
  BY SamplesType, EngineConstantsOK
<1>2. /\ p[1] \in samples /\ p[2] \in samples /\ p[1] < p[2] /\ p[2] - p[1] =< MaxGap
      /\ ~ \E a \in samples : p[1] < a /\ a < p[2]
  BY DEF Neighbours, Pairs
<1> HIDE DEF samples
<1>3. Later # {}
  <2>1. samples \in SUBSET Int
    BY <1>1
  <2>2. PICK m \in samples : \A x \in samples : x <= m
    BY <1>1, <1>2, <2>1, Extremes
  <2>3. m \in firsts
    BY <1>1, <2>2
  <2> QED
    BY <1>2, <2>2, <2>3
<1>4. Later \in SUBSET Int /\ IsFiniteSet(Later)
  BY <1>1, FS_Subset
<1>5. PICK f \in Later : \A g \in Later : f <= g
  BY <1>3, <1>4, Extremes
<1>6. f \in firsts /\ f \in samples /\ f >= p[2]
  OBVIOUS
<1>7. p[1] \notin firsts
  BY <1>1, <1>2
<1>8. p[2] \in run(f)
  BY <1>1, <1>2, <1>5, <1>6
<1>9. p[1] \in run(f)
  <2>1. ASSUME NEW g \in firsts, p[1] =< g, g < f PROVE FALSE
    <3>1. g \in samples
      OBVIOUS
    <3>2. ~(g >= p[2])
      BY <1>1, <1>5, <1>6, <2>1, <3>1
    <3>3. g = p[1]
      BY <1>1, <1>2, <2>1, <3>1, <3>2
    <3> QED
      BY <1>7, <3>3
  <2> QED
    BY <1>1, <1>2, <1>6, <2>1
<1>10. run(f) \in SplitByGaps(samples)
  BY <1>6 DEF SplitByGaps
<1>11. Cardinality(run(f)) >= 2
  <2>1. IsFiniteSet(run(f)) /\ {p[1], p[2]} \subseteq run(f)
    BY <1>1, <1>8, <1>9, FS_Subset
  <2>2. p[1] # p[2]
    BY <1>1, <1>2
  <2>3. Cardinality({p[1], p[2]}) = 2
    BY <2>2, TwoMembers
  <2> HIDE DEF run
  <2> QED
    BY <2>1, <2>3, FS_Subset
<1> QED
  BY <1>10, <1>11 DEF Runs, samples

LEMMA EnoughSamples ==
  ASSUME NEW s, ~IsBudget, \A a \in 0..(MinSamples(Hour) - 1) : s[a] # Gap
  PROVE  Cardinality(Samples(s, Hour)) >= MinSamples(Hour)
<1> DEFINE m == MinSamples(Hour)
<1>1. m \in Nat /\ m <= Hour /\ Hour \in Nat
  <2>1. \A h \in Nat : (h * 83) \div 100 \in Nat /\ (h * 83) \div 100 <= h
    OBVIOUS
  <2> QED
    BY <2>1, ThresholdTypes DEF MinSamples
<1> HIDE DEF m
<1>2. 0..(m - 1) \subseteq Samples(s, Hour)
  BY <1>1 DEF Samples, Span, m
<1>3. Cardinality(0..(m - 1)) = m
  <2>1. CASE m = 0
    BY <2>1, FS_EmptySet
  <2>2. CASE m # 0
    BY <1>1, <2>2, UpTo
  <2> QED
    BY <2>1, <2>2
<1>4. IsFiniteSet(Samples(s, Hour))
  BY SamplesType, ThresholdTypes
<1> QED
  BY <1>2, <1>3, <1>4, FS_Subset DEF m

(* A metric that rose at every step of the last hour, and would reach the  *)
(* ceiling at its slowest pace within crit_eta, is critical, even with a   *)
(* sixth of the samples missing at the hour's beginning.                   *)
THEOREM NoMissedAlarm == EngineSpec => []FastGrowthIsCritical
<1>1. EngineBase => FastGrowthIsCritical
  <2> SUFFICES ASSUME EngineBase, forecast.ok, ~forecast.jumped, ~IsBudget,
                      \A a \in 0..(MinSamples(Hour) - 1) : series[a] # Gap,
                      NEW r \in Rates(Hour), r > 0, \A q \in Rates(Hour) : q >= r,
                      Unit * forecast.room < CritEta * r
               PROVE  forecast.state = "critical"
    BY DEF FastGrowthIsCritical
  <2>1. EngineTypeOK /\ FromTheSeries /\ SlopeWithinRates
    BY SlopesWithinRates DEF EngineBase
  <2>2. Hour \in Windows /\ CritEta \in Nat /\ MaxDuration \in Nat /\ CritEta <= MaxDuration /\ Unit \in Nat
    BY ThresholdTypes, EngineConstantsOK
  <2>3. Hour \in forecast.valid
    <3>1. PICK s : s = series
      OBVIOUS
    <3>2. PICK p \in Neighbours(Samples(s, Hour)) : TRUE
      BY <3>1 DEF Rates
    <3>3. Runs(series, Hour) # {}
      BY <2>2, <3>1, <3>2, NeighboursMakeARun
    <3>4. Cardinality(Samples(series, Hour)) >= MinSamples(Hour)
      BY <3>1, EnoughSamples
    <3> QED
      BY <2>1, <2>2, <3>3, <3>4 DEF FromTheSeries, Valid
  <2>4. \A q \in Rates(Hour) : q \in Int
    <3>1. PICK s : s = series
      OBVIOUS
    <3>2. s \in [0..Long -> Int]
      BY <2>1, <3>1, ThresholdTypes DEF EngineTypeOK
    <3>3. Rates(Hour) = RatesOf(s, Hour)
      BY <3>1 DEF Rates, RatesOf
    <3> QED
      BY <2>2, <3>2, <3>3, RatesType
  <2>5. forecast.aggressive \in Nat /\ forecast.room \in Int
    BY <2>1 DEF EngineTypeOK
  <2>6. forecast.aggressive >= 2 * r
    <3>1. SlopeOf(Hour) = forecast.aggressive
      BY DEF SlopeOf
    <3>2. \/ \E q \in Rates(Hour) : q =< 0
          \/ \E q \in Rates(Hour) : forecast.aggressive >= 2 * q
      BY <2>1, <2>3, <3>1 DEF SlopeWithinRates
    <3> QED
      BY <2>4, <2>5, <3>2
  <2>7. EtaBelow(forecast.room, forecast.aggressive, CritEta)
    <3> DEFINE slope == forecast.aggressive
               room  == forecast.room
    <3>1. slope \in Nat /\ room \in Int /\ r \in Int /\ slope > 0
      BY <2>4, <2>5, <2>6
    <3>2. Unit * room < CritEta * r
      OBVIOUS
    <3>3. slope >= 2 * r
      BY <2>6
    <3> HIDE DEF slope, room
    <3>4. (2 * r) * CritEta <= slope * CritEta /\ CritEta * slope <= MaxDuration * slope
      BY <2>2, <3>1, <3>3, Larger
    <3>5. 2 * Unit * room < 2 * (CritEta * r)
      BY <2>2, <3>1, <3>2
    <3>6. 2 * (CritEta * r) = (2 * r) * CritEta /\ slope * CritEta = CritEta * slope
      BY <2>2, <3>1
    <3>7. /\ 2 * Unit * room \in Int /\ 2 * (CritEta * r) \in Int
          /\ CritEta * slope \in Int /\ MaxDuration * slope \in Int
      BY <2>2, <3>1
    <3>8. 2 * Unit * room < CritEta * slope /\ ~(2 * Unit * room >= MaxDuration * slope)
      BY <3>4, <3>5, <3>6, <3>7
    <3> QED
      BY <3>1, <3>8 DEF EtaBelow, slope, room
  <2>8. Verdict(Measured(series[0]), forecast.room, forecast.aggressive, forecast.conservative) = "critical"
    BY <2>7 DEF Verdict
  <2> QED
    BY <2>1, <2>8 DEF FromTheSeries
<1>2. EngineSpec => []EngineBase
  BY EngineStarts, EngineSteps, PTL DEF EngineSpec
<1> QED
  BY <1>1, <1>2, PTL

-----------------------------------------------------------------------------
(* A single spike.                                                         *)

LEMMA PairOf ==
  ASSUME NEW S, NEW p \in S \X S
  PROVE  p = <<p[1], p[2]>> /\ p[1] \in S /\ p[2] \in S
OBVIOUS

LEMMA ManyPairs ==
  ASSUME NEW S, IsFiniteSet(S), \A x \in S : x \in Int
  PROVE  /\ IsFiniteSet(Pairs(S)) /\ Cardinality(Pairs(S)) \in Nat /\ Cardinality(S) \in Nat
         /\ 2 * Cardinality(Pairs(S)) = Cardinality(S) * (Cardinality(S) - 1)
<1> DEFINE Good(T) == /\ IsFiniteSet(Pairs(T)) /\ Cardinality(Pairs(T)) \in Nat
                      /\ 2 * Cardinality(Pairs(T)) = Cardinality(T) * (Cardinality(T) - 1)
           I == {n \in Nat : \A T \in SUBSET Int : IsFiniteSet(T) /\ Cardinality(T) = n => Good(T)}
<1>1. 0 \in I
  <2> SUFFICES ASSUME NEW T \in SUBSET Int, IsFiniteSet(T), Cardinality(T) = 0 PROVE Good(T)
    OBVIOUS
  <2>1. T = {}
    BY FS_EmptySet
  <2>2. Pairs(T) = {}
    BY <2>1 DEF Pairs
  <2>3. IsFiniteSet({}) /\ Cardinality({}) = 0
    BY FS_EmptySet
  <2> QED
    BY <2>1, <2>2, <2>3
<1>2. ASSUME NEW n \in Nat, n \in I PROVE n + 1 \in I
  <2> SUFFICES ASSUME NEW T \in SUBSET Int, IsFiniteSet(T), Cardinality(T) = n + 1 PROVE Good(T)
    OBVIOUS
  <2>1. T # {}
    BY FS_EmptySet
  <2>2. PICK top \in T : \A x \in T : x <= top
    BY <2>1, Extremes
  <2> DEFINE U    == T \ {top}
             With == {<<y, top>> : y \in U}
             f    == [y \in U |-> <<y, top>>]
  <2>3. U \in SUBSET Int /\ IsFiniteSet(U) /\ Cardinality(U) = n
    <3>1. IsFiniteSet(U) /\ Cardinality(U) = Cardinality(T) - 1
      BY <2>2, FS_RemoveElement
    <3> QED
      BY <3>1
  <2>4. Good(U)
    BY <1>2, <2>3
  <2>5. IsFiniteSet(With) /\ Cardinality(With) = n
    <3>1. f \in Bijection(U, With)
      BY DEF Bijection, Injection, Surjection, IsInjective
    <3>2. ExistsBijection(U, With)
      BY <3>1 DEF ExistsBijection
    <3> HIDE DEF U, With
    <3> QED
      BY <2>3, <3>2, FS_Bijection
  <2>6. Pairs(T) = Pairs(U) \cup With
    <3>1. ASSUME NEW a \in T, NEW b \in T, a < b PROVE a \in U /\ (b = top \/ b \in U)
      BY <2>2, <3>1
    <3>2. \A a \in U : a < top
      BY <2>2
    <3>3. Pairs(T) \subseteq Pairs(U) \cup With
      <4> SUFFICES ASSUME NEW p \in Pairs(T) PROVE p \in Pairs(U) \cup With
        OBVIOUS
      <4>0. PICK a \in T, b \in T : p = <<a, b>> /\ a < b
        <5>1. p \in T \X T /\ p[1] < p[2]
          BY DEF Pairs
        <5>2. p = <<p[1], p[2]>> /\ p[1] \in T /\ p[2] \in T
          BY <5>1, PairOf
        <5> QED
          BY <5>1, <5>2
      <4>1. CASE b = top
        <5>1. p \in With
          BY <3>1, <4>0, <4>1
        <5> QED
          BY <5>1
      <4>2. CASE b # top
        <5>1. a \in U /\ b \in U
          BY <3>1, <4>0, <4>2
        <5>2. p \in Pairs(U)
          <6> HIDE DEF U
          <6> QED
            BY <4>0, <5>1 DEF Pairs
        <5> QED
          BY <5>2
      <4> QED
        BY <4>1, <4>2
    <3>4. Pairs(U) \subseteq Pairs(T) /\ With \subseteq Pairs(T)
      BY <2>2, <3>2 DEF Pairs
    <3> QED
      BY <3>3, <3>4
  <2>7. Pairs(U) \cap With = {}
    BY DEF Pairs
  <2>9. IsFiniteSet(Pairs(T)) /\ Cardinality(Pairs(T)) = Cardinality(Pairs(U)) + n
    <3> HIDE DEF U, With
    <3> QED
      BY <2>4, <2>5, <2>6, <2>7, DisjointUnion
  <2>10. 2 * (Cardinality(Pairs(U)) + n) = (n + 1) * n
    <3>1. \A c \in Nat : 2 * c = n * (n - 1) => 2 * (c + n) = (n + 1) * n
      OBVIOUS
    <3> QED
      BY <2>3, <2>4, <3>1
  <2> QED
    BY <2>4, <2>9, <2>10
<1> HIDE DEF I
<1>3. Nat \subseteq I
  BY <1>1, <1>2, SetInduction
<1>4. Cardinality(S) \in Nat /\ S \in SUBSET Int
  BY FS_CardinalityType
<1> QED
  BY <1>3, <1>4 DEF I

(* Decimation keeps MaxPoints different samples.                           *)
LEMMA DecimateKeepsEnough ==
  ASSUME NEW run, IsFiniteSet(run), \A x \in run : x \in Int, Cardinality(run) >= 5
  PROVE  IsFiniteSet(Decimate(run)) /\ Cardinality(Decimate(run)) >= 5
<1> DEFINE last   == Cardinality(run) - 1
           nth(i) == CHOOSE a \in run : Cardinality({b \in run : b > a}) = i
           at(i)  == (2 * i * last + (MaxPoints - 1)) \div (2 * (MaxPoints - 1))
           Kept   == {nth(at(i)) : i \in 0..(MaxPoints - 1)}
<1>1. last \in Nat \ {0} /\ MaxPoints \in Nat /\ MaxPoints >= 5 /\ Cardinality(run) \in Nat
  BY FS_CardinalityType, EngineConstantsOK
<1>2. CASE last < MaxPoints
  <2>1. Decimate(run) = run
    BY <1>2 DEF Decimate
  <2> QED
    BY <2>1
<1>3. CASE ~(last < MaxPoints)
  <2>1. Decimate(run) = Kept
    BY <1>3 DEF Decimate
  <2>2. \A i \in 0..last : nth(i) \in run /\ Cardinality({b \in run : b > nth(i)}) = i
    <3> SUFFICES ASSUME NEW i \in 0..last
                 PROVE  \E a \in run : Cardinality({b \in run : b > a}) = i
      OBVIOUS
    <3>1. i \in Nat /\ i < Cardinality(run)
      BY <1>1
    <3> QED
      BY <3>1, Ranked
  <2>3. \A i, j \in 0..last : nth(i) = nth(j) => i = j
    BY <2>2
  <2>4. /\ \A i \in 0..(MaxPoints - 1) : at(i) \in 0..last
        /\ \A i, j \in 0..(MaxPoints - 1) : i < j => at(i) < at(j)
    <3>1. last > MaxPoints - 1 /\ MaxPoints - 1 \in Nat \ {0}
      BY <1>1, <1>3
    <3> HIDE DEF last
    <3> QED
      BY <1>1, <3>1, Spread
  <2> HIDE DEF last, nth, at
  <2>5. \A i, j \in 0..(MaxPoints - 1) : nth(at(i)) = nth(at(j)) => i = j
    <3> SUFFICES ASSUME NEW i \in 0..(MaxPoints - 1), NEW j \in 0..(MaxPoints - 1),
                        nth(at(i)) = nth(at(j)), i # j
                 PROVE  FALSE
      OBVIOUS
    <3>1. at(i) = at(j)
      BY <2>3, <2>4
    <3>2. i < j \/ j < i
      OBVIOUS
    <3>3. at(i) \in Int /\ at(j) \in Int
      BY <2>4
    <3> QED
      BY <2>4, <3>1, <3>2, <3>3
  <2>6. IsFiniteSet(0..(MaxPoints - 1)) /\ Cardinality(0..(MaxPoints - 1)) = MaxPoints
    BY <1>1, UpTo
  <2> DEFINE pick == [i \in 0..(MaxPoints - 1) |-> nth(at(i))]
  <2>7. pick \in Bijection(0..(MaxPoints - 1), Kept)
    BY <2>5 DEF Bijection, Injection, Surjection, IsInjective
  <2>8. IsFiniteSet(Kept) /\ Cardinality(Kept) = MaxPoints
    <3>1. ExistsBijection(0..(MaxPoints - 1), Kept)
      BY <2>7 DEF ExistsBijection
    <3> HIDE DEF Kept
    <3> QED
      BY <2>6, <3>1, FS_Bijection
  <2> QED
    BY <1>1, <2>1, <2>8
<1> QED
  BY <1>2, <1>3

(* A key that most members share is the middle one.                        *)
LEMMA KthZero ==
  ASSUME NEW S, IsFiniteSet(S), NEW key \in [S -> Int], NEW k \in Nat, k < Cardinality(S),
         Cardinality({x \in S : key[x] # 0}) <= k,
         Cardinality(S) - Cardinality({x \in S : key[x] # 0}) > k
  PROVE  Kth(S, key, k) = 0
<1> DEFINE v    == Kth(S, key, k)
           Odd  == {x \in S : key[x] # 0}
           Even == {x \in S : key[x] = 0}
<1>1. \A P \in SUBSET S : IsFiniteSet(P) /\ Cardinality(P) \in Nat
  BY FS_Subset, FS_CardinalityType
<1>2. Cardinality(S) = Cardinality(Odd) + Cardinality(Even)
  <2>1. Odd \cup Even = S /\ Odd \cap Even = {} /\ IsFiniteSet(Odd) /\ IsFiniteSet(Even)
    BY <1>1
  <2> HIDE DEF Odd, Even
  <2> QED
    BY <2>1, DisjointUnion
<1>3. /\ v \in {key[x] : x \in S}
      /\ Cardinality({x \in S : key[x] < v}) <= k
      /\ Cardinality({x \in S : key[x] <= v}) > k
  BY KthIsKey
<1>4. v \in Int
  BY <1>3
<1> HIDE DEF v
<1>5. ASSUME v > 0 PROVE FALSE
  <2>1. Even \subseteq {x \in S : key[x] < v}
    BY <1>4, <1>5
  <2>2. Cardinality(Even) <= Cardinality({x \in S : key[x] < v})
    BY <1>1, <2>1, FS_Subset
  <2> QED
    BY <1>1, <1>2, <1>3, <2>2
<1>6. ASSUME v < 0 PROVE FALSE
  <2>1. {x \in S : key[x] <= v} \subseteq Odd
    BY <1>4, <1>6
  <2>2. Cardinality({x \in S : key[x] <= v}) <= Cardinality(Odd)
    BY <1>1, <2>1, FS_Subset
  <2> QED
    BY <1>1, <1>3, <2>2
<1>7. v = 0
  BY <1>4, <1>5, <1>6
<1> QED
  BY <1>7 DEF v

LEMMA SpikeSlope ==
  ASSUME NEW run, IsFiniteSet(run), \A x \in run : x \in Int, Cardinality(run) >= 5,
         NEW s, \A x \in run : s[x] \in Int,
         NEW o, NEW v \in Int, \A x \in run : x # o => s[x] = v
  PROVE  TheilSenSlope(s, run) = 0
<1> DEFINE K     == Decimate(run)
           L     == K \ {o}
           pairs == Pairs(K)
           n     == Cardinality(pairs)
           rate  == [p \in pairs |-> Rate(s, p[1], p[2])]
           Odd   == {p \in pairs : rate[p] # 0}
<1>1. K \subseteq run /\ IsFiniteSet(K) /\ Cardinality(K) >= 5
  BY DecimateType, DecimateKeepsEnough, FS_CardinalityType
<1>2. L \subseteq K /\ IsFiniteSet(L) /\ \A x \in K : x \in Int
  BY <1>1, FS_Subset
<1>3. Unit \in Nat
  BY EngineConstantsOK
<1>4. \A d \in Nat \ {0} : 0 \div d = 0
  OBVIOUS
<1> HIDE DEF K
<1>5. /\ IsFiniteSet(pairs) /\ n \in Nat /\ Cardinality(K) \in Nat
      /\ 2 * n = Cardinality(K) * (Cardinality(K) - 1)
  BY <1>1, <1>2, ManyPairs
<1>6. /\ IsFiniteSet(Pairs(L)) /\ Cardinality(Pairs(L)) \in Nat /\ Cardinality(L) \in Nat
      /\ 2 * Cardinality(Pairs(L)) = Cardinality(L) * (Cardinality(L) - 1)
  BY <1>2, ManyPairs
<1>7. Cardinality(L) = Cardinality(K) \/ Cardinality(L) = Cardinality(K) - 1
  <2>1. CASE o \in K
    BY <1>1, <2>1, FS_RemoveElement
  <2>2. CASE o \notin K
    <3>1. L = K
      BY <2>2
    <3> QED
      BY <3>1
  <2> QED
    BY <2>1, <2>2
<1>8. ASSUME NEW p \in pairs
      PROVE  /\ p[1] \in K /\ p[2] \in K /\ p[1] < p[2] /\ p \in K \X K
             /\ p[2] - p[1] \in Nat \ {0} /\ Rate(s, p[1], p[2]) \in Int
  <2>1. p[1] \in K /\ p[2] \in K /\ p[1] < p[2] /\ p \in K \X K
    BY DEF Pairs
  <2>2. p[2] - p[1] \in Nat \ {0}
    BY <1>2, <2>1
  <2>3. (s[p[1]] - s[p[2]]) * Unit \in Int
    BY <1>1, <1>3, <2>1
  <2> QED
    BY <2>1, <2>2, <2>3, DivBetween DEF Rate
<1>9. rate \in [pairs -> Int]
  BY <1>8
<1>10. Pairs(L) \subseteq pairs \ Odd
  <2> SUFFICES ASSUME NEW p \in Pairs(L) PROVE p \in pairs /\ rate[p] = 0
    OBVIOUS
  <2>1. p \in L \X L /\ p[1] < p[2]
    BY DEF Pairs
  <2>2. p = <<p[1], p[2]>> /\ p[1] \in L /\ p[2] \in L
    BY <2>1, PairOf
  <2>3. p \in pairs
    <3>1. p \in K \X K
      BY <1>2, <2>2
    <3> QED
      BY <2>1, <3>1 DEF Pairs
  <2>4. s[p[1]] = v /\ s[p[2]] = v
    BY <1>1, <1>2, <2>2
  <2>5. (v - v) * Unit = 0 /\ p[2] - p[1] \in Nat \ {0}
    BY <1>3, <1>8, <2>3
  <2>6. Rate(s, p[1], p[2]) = 0
    BY <1>4, <2>4, <2>5 DEF Rate
  <2> QED
    BY <2>3, <2>6
<1>11. IsFiniteSet(Odd) /\ IsFiniteSet(pairs \ Odd) /\ Cardinality(Odd) \in Nat
       /\ Cardinality(pairs \ Odd) \in Nat /\ n = Cardinality(Odd) + Cardinality(pairs \ Odd)
  <2>1. Odd \subseteq pairs
    OBVIOUS
  <2> HIDE DEF Odd, pairs, n
  <2>2. IsFiniteSet(Odd) /\ IsFiniteSet(pairs \ Odd) /\ Odd \cup (pairs \ Odd) = pairs
        /\ Odd \cap (pairs \ Odd) = {}
    BY <1>5, <2>1, FS_Subset
  <2>3. Cardinality(Odd \cup (pairs \ Odd)) = Cardinality(Odd) + Cardinality(pairs \ Odd)
    BY <2>2, DisjointUnion
  <2> QED
    BY <2>2, <2>3, FS_CardinalityType DEF n
<1>12. Cardinality(Pairs(L)) <= Cardinality(pairs \ Odd)
  BY <1>10, <1>11, FS_Subset
<1>13. Cardinality(Odd) < n \div 2 /\ n - Cardinality(Odd) > n \div 2 /\ n \div 2 \in Nat
  <2>1. ASSUME NEW m \in Nat, NEW l \in Nat, NEW x \in Nat, NEW y \in Nat,
               m >= 5, l = m \/ l = m - 1, 2 * x = m * (m - 1), 2 * y = l * (l - 1)
        PROVE  x >= 2 * m /\ x - y <= m - 1
    <3>1. x >= 2 * m
      <4>1. m * (m - 1) >= 4 * m
        BY <2>1
      <4> QED
        BY <2>1, <4>1
    <3>2. CASE l = m
      BY <2>1, <3>2
    <3>3. CASE l = m - 1
      <4>1. l * (l - 1) = m * (m - 1) - 2 * (m - 1) /\ m * (m - 1) \in Int
        BY <3>3
      <4>2. 2 * y = 2 * x - 2 * (m - 1)
        BY <2>1, <4>1
      <4> QED
        BY <3>1, <4>2
    <3> QED
      BY <2>1, <3>1, <3>2, <3>3
  <2>2. n >= 2 * Cardinality(K) /\ n - Cardinality(Pairs(L)) <= Cardinality(K) - 1
    BY <1>1, <1>5, <1>6, <1>7, <2>1
  <2> HIDE DEF n, Odd, pairs
  <2>3. Cardinality(Odd) <= Cardinality(K) - 1
    BY <1>5, <1>6, <1>11, <1>12, <2>2
  <2> QED
    BY <1>5, <1>11, <2>2, <2>3
<1>14. TheilSenSlope(s, run) = IF n % 2 = 1 THEN 2 * Kth(pairs, rate, n \div 2)
                               ELSE Kth(pairs, rate, n \div 2 - 1) + Kth(pairs, rate, n \div 2)
  BY DEF TheilSenSlope, K
<1>15. ASSUME NEW k \in {n \div 2 - 1, n \div 2} PROVE Kth(pairs, rate, k) = 0
  <2>1. /\ k \in Nat /\ k < n /\ Cardinality(Odd) <= k /\ n - Cardinality(Odd) > k
    <3> HIDE DEF n, Odd
    <3> QED
      BY <1>5, <1>11, <1>13
  <2> HIDE DEF pairs, rate
  <2> QED
    BY <1>5, <1>9, <2>1, KthZero
<1> HIDE DEF pairs, rate, n
<1> QED
  BY <1>14, <1>15

(* Without a gap a window has one run.                                     *)
LEMMA WholeWindow ==
  ASSUME NEW s, NEW w \in Windows, \A a \in 0..Span(w) : s[a] # Gap, Span(w) >= 1
  PROVE  Runs(s, w) = {0..Span(w)}
<1> DEFINE h       == Span(w)
           samples == 0..h
           firsts  == {a \in samples : ~ \E b \in samples : a < b /\ b =< a + MaxGap}
           run(a)  == {b \in samples : b =< a /\ ~ \E f \in firsts : b =< f /\ f < a}
<1>1. h \in Nat /\ h >= 1 /\ MaxGap \in Nat \ {0}
  BY EngineConstantsOK DEF Span, Windows
<1>2. Samples(s, w) = samples
  BY DEF Samples
<1> HIDE DEF h
<1>3. firsts = {h}
  <2>1. h \in firsts
    BY <1>1
  <2>2. \A a \in samples : a # h => a + 1 \in samples /\ a < a + 1 /\ a + 1 =< a + MaxGap
    BY <1>1
  <2> QED
    BY <2>1, <2>2
<1>4. run(h) = samples
  BY <1>1, <1>3
<1>5. SplitByGaps(samples) = {run(a) : a \in firsts}
  BY DEF SplitByGaps
<1>6. Cardinality(samples) >= 2
  <2>1. h + 1 \in Nat \ {0} /\ (h + 1) - 1 = h
    BY <1>1
  <2>2. Cardinality(0..((h + 1) - 1)) = h + 1
    BY <2>1, UpTo
  <2> QED
    BY <1>1, <2>1, <2>2
<1>7. SplitByGaps(samples) = {samples}
  <2> HIDE DEF samples, firsts, run
  <2> QED
    BY <1>3, <1>4, <1>5
<1> HIDE DEF samples
<1>8. Runs(s, w) = {samples}
  BY <1>2, <1>6, <1>7 DEF Runs
<1> QED
  BY <1>8 DEF samples, h

LEMMA OneRunSlope ==
  ASSUME NEW s, NEW w, NEW run, Runs(s, w) = {run}, TheilSenSlope(s, run) = 0
  PROVE  WindowSlope(s, w) = 0
<1> DEFINE runs  == {run}
           slope == [r \in runs |-> TheilSenSlope(s, r)]
<1>1. IsFiniteSet(runs) /\ Cardinality(runs) = 1
  BY FS_Singleton
<1>2. slope \in [runs -> Int] /\ {slope[r] : r \in runs} = {0}
  OBVIOUS
<1>3. WindowSlope(s, w) = LET beta == Kth(runs, slope, Cardinality(runs) \div 2)
                          IN  IF beta > 0 THEN beta ELSE 0
  BY DEF WindowSlope
<1> HIDE DEF runs, slope
<1>4. 1 \div 2 = 0
  OBVIOUS
<1>5. ASSUME NEW k \in Nat, k < Cardinality(runs)
      PROVE  Kth(runs, slope, k) \in {slope[r] : r \in runs}
  <2>1. IsFiniteSet(runs) /\ slope \in [runs -> Int]
    BY <1>1, <1>2
  <2> QED
    BY <1>5, <2>1, KthIsKey
<1> QED
  BY <1>1, <1>2, <1>3, <1>4, <1>5

(* One sample that sticks out of a constant series, however far and        *)
(* wherever, leaves the window without a slope, decimated or not: a spike  *)
(* raises no alarm (TheilSenSlope, evalWindow).                            *)
THEOREM OneSpikeIsNoTrend == EngineSpec => []SpikeIgnored
<1>1. EngineBase => SpikeIgnored
  <2> SUFFICES ASSUME EngineBase, NEW w \in forecast.valid, Unbroken(Span(w)), Span(w) >= 4,
                      NEW v \in Values, NEW o \in 0..Span(w),
                      \A b \in (0..Span(w)) \ {o} : series[b] = v
               PROVE  SlopeOf(w) = 0
    BY DEF SpikeIgnored
  <2>1. EngineTypeOK /\ FromTheSeries
    BY DEF EngineBase
  <2>2. PICK s : s = series
    OBVIOUS
  <2>3. w \in Windows /\ s \in [0..Long -> Int] /\ v \in Int
    BY <2>1, <2>2, ThresholdTypes DEF EngineTypeOK
  <2>4. Span(w) \in Nat /\ Span(w) <= Long /\ Long \in Nat
    BY <2>3, EngineConstantsOK DEF Span, Windows
  <2> DEFINE run == 0..Span(w)
  <2>5. \A a \in run : s[a] # Gap /\ s[a] \in Int /\ a \in Int
    BY <2>2, <2>3, <2>4 DEF Unbroken
  <2>6. Span(w) >= 1
    BY <2>4
  <2>7. Runs(s, w) = {run}
    BY <2>3, <2>5, <2>6, WholeWindow
  <2>8. IsFiniteSet(run) /\ Cardinality(run) >= 5
    <3>1. Span(w) + 1 \in Nat \ {0} /\ (Span(w) + 1) - 1 = Span(w) /\ Span(w) + 1 >= 5
      BY <2>4
    <3>2. IsFiniteSet(0..((Span(w) + 1) - 1)) /\ Cardinality(0..((Span(w) + 1) - 1)) = Span(w) + 1
      BY <3>1, UpTo
    <3> QED
      BY <3>1, <3>2
  <2>9. \A x \in run : x # o => s[x] = v
    BY <2>2
  <2> HIDE DEF run
  <2>10. TheilSenSlope(s, run) = 0
    BY <2>3, <2>5, <2>8, <2>9, SpikeSlope
  <2>11. WindowSlope(s, w) = 0
    BY <2>7, <2>10, OneRunSlope
  <2> QED
    BY <2>1, <2>2, <2>3, <2>11, ThresholdTypes DEF FromTheSeries, SlopeOf
<1>2. EngineSpec => []EngineBase
  BY EngineStarts, EngineSteps, PTL DEF EngineSpec
<1> QED
  BY <1>1, <1>2, PTL

-----------------------------------------------------------------------------
(* Sequences.                                                              *)

(* FlattenSeq appends its sequences one after the other.                   *)
LEMMA FlattenStep ==
  ASSUME NEW seqs, NEW n \in Nat, DOMAIN seqs = 1..(n + 1), Len(seqs) = n + 1
  PROVE  FlattenSeq(seqs) =
           IF n = 0 THEN seqs[1] ELSE FlattenSeq([i \in 1..n |-> seqs[i]]) \o seqs[n + 1]
<1> DEFINE Step(g, i) == IF i = 1 THEN seqs[i] ELSE g[i - 1] \o seqs[i]
           Upto(m) == CHOOSE g : g = [i \in 1..m |-> Step(g, i)]
           I == {m \in Nat : \E g : g = [i \in 1..m |-> Step(g, i)]}
<1>1. 0 \in I
  <2> DEFINE g == [i \in 1..0 |-> {}]
  <2>1. g = [i \in 1..0 |-> Step(g, i)]
    OBVIOUS
  <2> QED
    BY <2>1
<1>2. ASSUME NEW m \in Nat, m \in I PROVE m + 1 \in I
  <2>1. PICK g : g = [i \in 1..m |-> Step(g, i)]
    BY <1>2
  <2> DEFINE h == [i \in 1..(m + 1) |-> Step(g, i)]
  <2>2. \A i \in 1..m : h[i] = g[i]
    <3>1. \A i \in 1..m : g[i] = Step(g, i)
      <4> HIDE DEF Step
      <4> QED
        BY <2>1
    <3>2. \A i \in 1..m : h[i] = Step(g, i)
      <4> HIDE DEF Step
      <4> QED
        OBVIOUS
    <3> HIDE DEF Step, h
    <3> QED
      BY <3>1, <3>2
  <2>3. \A i \in 1..(m + 1) : Step(g, i) = Step(h, i)
    <3> SUFFICES ASSUME NEW i \in 1..(m + 1), i # 1 PROVE g[i - 1] = h[i - 1]
      OBVIOUS
    <3>1. i - 1 \in 1..m
      OBVIOUS
    <3> HIDE DEF h
    <3> QED
      BY <2>2, <3>1
  <2>4. h = [i \in 1..(m + 1) |-> Step(h, i)]
    <3> HIDE DEF Step
    <3> QED
      BY <2>3
  <2> HIDE DEF h, Step
  <2> QED
    BY <2>4
<1> HIDE DEF I
<1>3. Nat \subseteq I
  BY <1>1, <1>2, SetInduction
<1>4. ASSUME NEW m \in Nat PROVE /\ Upto(m) = [i \in 1..m |-> Step(Upto(m), i)]
                                  /\ \A i \in 1..m : Upto(m)[i] = Step(Upto(m), i)
  <2>1. \E g : g = [i \in 1..m |-> Step(g, i)]
    BY <1>3 DEF I
  <2>2. Upto(m) = [i \in 1..m |-> Step(Upto(m), i)]
    BY <2>1
  <2> HIDE DEF Upto, Step
  <2> QED
    BY <2>2
<1>5. \A i \in Nat : i \in 1..n => Upto(n)[i] = Upto(n + 1)[i]
  <2> DEFINE K == {i \in Nat : i \in 1..n => Upto(n)[i] = Upto(n + 1)[i]}
  <2>1. 0 \in K
    OBVIOUS
  <2>2. ASSUME NEW i \in Nat, i \in K PROVE i + 1 \in K
    <3> SUFFICES ASSUME i + 1 \in 1..n PROVE Upto(n)[i + 1] = Upto(n + 1)[i + 1]
      OBVIOUS
    <3>1. i + 1 \in 1..(n + 1) /\ n + 1 \in Nat
      OBVIOUS
    <3>2. Upto(n)[i + 1] = Step(Upto(n), i + 1) /\ Upto(n + 1)[i + 1] = Step(Upto(n + 1), i + 1)
      <4> HIDE DEF Upto, Step
      <4> QED
        BY <1>4, <3>1
    <3>3. i # 0 => Upto(n)[i] = Upto(n + 1)[i]
      <4> HIDE DEF Upto
      <4> QED
        BY <2>2
    <3>4. (i + 1) - 1 = i
      OBVIOUS
    <3> HIDE DEF Upto
    <3> QED
      BY <3>2, <3>3, <3>4
  <2> HIDE DEF K
  <2>3. Nat \subseteq K
    BY <2>1, <2>2, SetInduction
  <2> HIDE DEF Upto
  <2> QED
    BY <2>3 DEF K
<1>6. FlattenSeq(seqs) = Upto(n + 1)[n + 1]
  BY DEF FlattenSeq
<1>7. n # 0 => FlattenSeq([i \in 1..n |-> seqs[i]]) = Upto(n)[n]
  <2> SUFFICES ASSUME n # 0 PROVE FlattenSeq([i \in 1..n |-> seqs[i]]) = Upto(n)[n]
    OBVIOUS
  <2> DEFINE part == [i \in 1..n |-> seqs[i]]
             Step2(g, i) == IF i = 1 THEN part[i] ELSE g[i - 1] \o part[i]
  <2>1. Len(part) = n /\ n # 0
    OBVIOUS
  <2>2. \A g : \A i \in 1..n : Step2(g, i) = Step(g, i)
    OBVIOUS
  <2>3. \A g : [i \in 1..n |-> Step2(g, i)] = [i \in 1..n |-> Step(g, i)]
    <3> HIDE DEF Step2, Step
    <3> QED
      BY <2>2
  <2>4. (CHOOSE g : g = [i \in 1..n |-> Step2(g, i)]) = Upto(n)
    <3> HIDE DEF Step2, Step
    <3> QED
      BY <2>3
  <2>5. FlattenSeq(part) = (CHOOSE g : g = [i \in 1..n |-> Step2(g, i)])[n]
    <3> HIDE DEF part
    <3> QED
      BY <2>1 DEF FlattenSeq
  <2> QED
    BY <2>4, <2>5
<1>8. Upto(n + 1)[n + 1] = Step(Upto(n + 1), n + 1)
  <2> HIDE DEF Upto, Step
  <2> QED
    BY <1>4
<1> HIDE DEF Upto
<1> QED
  BY <1>5, <1>6, <1>7, <1>8

-----------------------------------------------------------------------------
(* The calendar.                                                           *)

(* The months are numbered from 1 and have 28 to 31 days.                  *)
LEMMA MonthsAre == /\ Len(Months) \in Nat \ {0} /\ MonthIds = 1..Len(Months)
                   /\ \A m \in MonthIds : Months[m] \in Nat /\ Months[m] >= 28 /\ Months[m] <= 31
  BY ConstantsOK DEF MonthIds

(* Each month begins the day after the one before it ends.                 *)
LEMMA FirstIs ==
  /\ 1 \in MonthIds /\ First[1] = 1
  /\ \A m \in MonthIds : m + 1 \in MonthIds => First[m + 1] = First[m] + Months[m]
<1> DEFINE Step(g, m) == IF m = 1 THEN 1 ELSE g[m - 1] + Months[m - 1]
           I == {n \in Nat : \E g : g = [m \in 1..n |-> Step(g, m)]}
<1>1. 0 \in I
  <2> DEFINE g == [m \in 1..0 |-> {}]
  <2>1. g = [m \in 1..0 |-> Step(g, m)]
    OBVIOUS
  <2> QED
    BY <2>1
<1>2. ASSUME NEW n \in Nat, n \in I PROVE n + 1 \in I
  <2>1. PICK g : g = [m \in 1..n |-> Step(g, m)]
    BY <1>2
  <2> DEFINE h == [m \in 1..(n + 1) |-> Step(g, m)]
  <2>2. \A m \in 1..n : h[m] = g[m]
    <3>1. \A m \in 1..n : g[m] = Step(g, m)
      <4> HIDE DEF Step
      <4> QED
        BY <2>1
    <3>2. \A m \in 1..n : h[m] = Step(g, m)
      <4> HIDE DEF Step
      <4> QED
        OBVIOUS
    <3> HIDE DEF Step, h
    <3> QED
      BY <3>1, <3>2
  <2>3. \A m \in 1..(n + 1) : Step(g, m) = Step(h, m)
    <3> SUFFICES ASSUME NEW m \in 1..(n + 1), m # 1 PROVE g[m - 1] = h[m - 1]
      OBVIOUS
    <3>1. m - 1 \in 1..n
      OBVIOUS
    <3> HIDE DEF h
    <3> QED
      BY <2>2, <3>1
  <2>4. h = [m \in 1..(n + 1) |-> Step(h, m)]
    <3> HIDE DEF Step
    <3> QED
      BY <2>3
  <2> HIDE DEF h, Step
  <2> QED
    BY <2>4
<1> HIDE DEF I
<1>3. Nat \subseteq I
  BY <1>1, <1>2, SetInduction
<1>4. \E g : g = [m \in MonthIds |-> Step(g, m)]
  BY <1>3, MonthsAre DEF I
<1>5. First = [m \in MonthIds |-> Step(First, m)]
  BY <1>4 DEF First
<1>6. \A m \in MonthIds : First[m] = Step(First, m)
  <2> HIDE DEF Step
  <2> QED
    BY <1>5
<1> QED
  BY <1>6, MonthsAre

LEMMA FirstType == \A m \in MonthIds : First[m] \in Nat \ {0}
<1> DEFINE K == {k \in Nat : k + 1 \in MonthIds => First[k + 1] \in Nat \ {0}}
<1>1. 0 \in K
  BY FirstIs
<1>2. ASSUME NEW k \in Nat, k \in K PROVE k + 1 \in K
  <2> SUFFICES ASSUME (k + 1) + 1 \in MonthIds PROVE First[(k + 1) + 1] \in Nat \ {0}
    OBVIOUS
  <2>1. k + 1 \in MonthIds
    BY MonthsAre
  <2> QED
    BY <1>2, <2>1, FirstIs, MonthsAre
<1> HIDE DEF K
<1>3. Nat \subseteq K
  BY <1>1, <1>2, SetInduction
<1>4. ASSUME NEW m \in MonthIds PROVE First[m] \in Nat \ {0}
  <2>1. m - 1 \in K /\ (m - 1) + 1 = m
    BY <1>3, MonthsAre
  <2> QED
    BY <2>1 DEF K
<1> QED
  BY <1>4

(* A later month begins after the end of an earlier one.                   *)
LEMMA FirstGrows == \A m, n \in MonthIds : m < n => First[m] + Months[m] <= First[n]
<1> DEFINE I == {n \in Nat : n + 1 \in MonthIds =>
                   \A m \in MonthIds : m < n + 1 => First[m] + Months[m] <= First[n + 1]}
<1>1. 0 \in I
  BY MonthsAre
<1>2. ASSUME NEW n \in Nat, n \in I PROVE n + 1 \in I
  <2> SUFFICES ASSUME (n + 1) + 1 \in MonthIds, NEW m \in MonthIds, m < (n + 1) + 1
               PROVE  First[m] + Months[m] <= First[(n + 1) + 1]
    OBVIOUS
  <2>1. n + 1 \in MonthIds
    BY MonthsAre
  <2>2. First[(n + 1) + 1] = First[n + 1] + Months[n + 1]
    BY <2>1, FirstIs
  <2>3. /\ First[m] \in Nat /\ First[n + 1] \in Nat /\ Months[m] \in Nat /\ Months[n + 1] \in Nat
    BY <2>1, FirstType, MonthsAre
  <2>4. CASE m = n + 1
    BY <2>2, <2>3, <2>4
  <2>5. CASE m < n + 1
    <3>1. First[m] + Months[m] <= First[n + 1]
      BY <1>2, <2>1, <2>5
    <3> QED
      BY <2>2, <2>3, <3>1
  <2> QED
    BY <2>4, <2>5, MonthsAre
<1> HIDE DEF I
<1>3. Nat \subseteq I
  BY <1>1, <1>2, SetInduction
<1>4. ASSUME NEW n \in MonthIds, NEW m \in MonthIds, m < n PROVE First[m] + Months[m] <= First[n]
  <2>1. n - 1 \in I /\ (n - 1) + 1 = n
    BY <1>3, MonthsAre
  <2> QED
    BY <1>4, <2>1 DEF I
<1> QED
  BY <1>4

(* Every day is in a month, and in one only.                               *)
LEMMA MonthFound ==
  ASSUME NEW d \in 1..LastDay
  PROVE  \E m \in MonthIds : First[m] <= d /\ d < First[m] + Months[m]
<1> DEFINE I == {n \in Nat : n + 1 \in MonthIds /\ d < First[n + 1] + Months[n + 1] =>
                   \E m \in MonthIds : First[m] <= d /\ d < First[m] + Months[m]}
<1>1. 0 \in I
  BY FirstIs
<1>2. ASSUME NEW n \in Nat, n \in I PROVE n + 1 \in I
  <2> SUFFICES ASSUME (n + 1) + 1 \in MonthIds, d < First[(n + 1) + 1] + Months[(n + 1) + 1]
               PROVE  \E m \in MonthIds : First[m] <= d /\ d < First[m] + Months[m]
    OBVIOUS
  <2>1. n + 1 \in MonthIds
    BY MonthsAre
  <2>2. First[(n + 1) + 1] = First[n + 1] + Months[n + 1] /\ First[(n + 1) + 1] \in Nat
    BY <2>1, FirstIs, FirstType
  <2>3. CASE First[(n + 1) + 1] <= d
    BY <2>3
  <2>4. CASE d < First[(n + 1) + 1]
    BY <1>2, <2>1, <2>2, <2>4
  <2> QED
    BY <2>2, <2>3, <2>4
<1> HIDE DEF I
<1>3. Nat \subseteq I
  BY <1>1, <1>2, SetInduction
<1>4. Len(Months) - 1 \in I /\ (Len(Months) - 1) + 1 = Len(Months) /\ Len(Months) \in MonthIds
  BY <1>3, MonthsAre
<1>5. d < First[Len(Months)] + Months[Len(Months)]
  BY <1>4, FirstType, MonthsAre DEF LastDay
<1> QED
  BY <1>4, <1>5 DEF I

LEMMA MonthIs ==
  ASSUME NEW d \in 1..LastDay
  PROVE  /\ MonthOf[d] \in MonthIds
         /\ First[MonthOf[d]] <= d /\ d < First[MonthOf[d]] + Months[MonthOf[d]]
         /\ \A m \in MonthIds : First[m] <= d /\ d < First[m] + Months[m] => MonthOf[d] = m
<1>1. MonthOf[d] = CHOOSE m \in MonthIds : First[m] <= d /\ d < First[m] + Months[m]
  BY DEF MonthOf
<1>2. /\ MonthOf[d] \in MonthIds
      /\ First[MonthOf[d]] <= d /\ d < First[MonthOf[d]] + Months[MonthOf[d]]
  BY <1>1, MonthFound
<1>3. ASSUME NEW m \in MonthIds, First[m] <= d, d < First[m] + Months[m], MonthOf[d] # m
      PROVE  FALSE
  <2>1. PICK n \in MonthIds : n = MonthOf[d]
    BY <1>2
  <2>2. First[m] \in Nat /\ First[n] \in Nat /\ Months[m] \in Nat /\ Months[n] \in Nat /\ m \in Nat /\ n \in Nat
    BY FirstType, MonthsAre
  <2>3. CASE m < n
    <3>1. First[m] + Months[m] <= First[n]
      BY <2>3, FirstGrows
    <3> QED
      BY <1>2, <1>3, <2>1, <2>2, <3>1
  <2>4. CASE n < m
    <3>1. First[n] + Months[n] <= First[m]
      BY <2>4, FirstGrows
    <3> QED
      BY <1>2, <1>3, <2>1, <2>2, <3>1
  <2> QED
    BY <1>3, <2>1, <2>2, <2>3, <2>4
<1> QED
  BY <1>2, <1>3

(* A day of a run, and the ends of its month and the next.                 *)
LEMMA TodayIs ==
  ASSUME NEW d \in Days
  PROVE  /\ d \in 15..LastDay /\ LastDay \in Nat
         /\ MonthOf[d] \in MonthIds /\ MonthOf[d] + 1 \in MonthIds
         /\ First[MonthOf[d]] \in 1..d
         /\ First[MonthOf[d] + 1] = First[MonthOf[d]] + Months[MonthOf[d]]
         /\ First[MonthOf[d] + 1] \in (d + 1)..LastDay
         /\ DayOf(d) \in 1..31
         /\ DayOf(d) <= Months[MonthOf[d] + 1] => DaysInMonth(d) = Months[MonthOf[d]]
<1>1. LastDay \in Nat
  <2>1. Len(Months) \in MonthIds
    BY MonthsAre
  <2>2. First[Len(Months)] \in Nat \ {0} /\ Months[Len(Months)] \in Nat
    BY <2>1, FirstType, MonthsAre
  <2> QED
    BY <2>2 DEF LastDay
<1>2. d \in 15..LastDay /\ MonthOf[d] + 1 < Len(Months)
  BY ConstantsOK
<1>3. PICK m \in MonthIds : m = MonthOf[d]
  BY <1>1, <1>2, MonthIs
<1>4. m \in Nat /\ m + 1 \in MonthIds /\ (m + 1) + 1 \in MonthIds
  BY <1>2, <1>3, MonthsAre
<1>5. /\ First[m] \in Nat \ {0} /\ First[m] <= d /\ d < First[m] + Months[m]
      /\ First[m + 1] = First[m] + Months[m]
      /\ First[(m + 1) + 1] = First[m + 1] + Months[m + 1]
      /\ Months[m] \in Nat /\ Months[m] <= 31
      /\ Months[m + 1] \in Nat /\ Months[m + 1] >= 28
  BY <1>1, <1>2, <1>3, <1>4, MonthIs, FirstIs, FirstType, MonthsAre
<1>6. First[(m + 1) + 1] <= LastDay
  <2>1. Len(Months) \in MonthIds /\ (m + 1) + 1 <= Len(Months) /\ Len(Months) \in Nat
    BY <1>4, MonthsAre
  <2>2. First[Len(Months)] \in Nat /\ Months[Len(Months)] \in Nat /\ Months[Len(Months)] >= 28
    BY <2>1, FirstType, MonthsAre
  <2>3. First[(m + 1) + 1] <= First[Len(Months)]
    <3>1. CASE (m + 1) + 1 = Len(Months)
      BY <2>2, <3>1
    <3>2. CASE (m + 1) + 1 < Len(Months)
      <4>1. First[(m + 1) + 1] + Months[(m + 1) + 1] <= First[Len(Months)]
        BY <1>4, <2>1, <3>2, FirstGrows
      <4>2. First[(m + 1) + 1] \in Nat /\ Months[(m + 1) + 1] \in Nat
        BY <1>4, FirstType, MonthsAre
      <4> QED
        BY <2>2, <4>1, <4>2
    <3> QED
      BY <1>4, <2>1, <3>1, <3>2
  <2>4. First[(m + 1) + 1] \in Nat
    BY <1>4, FirstType
  <2> QED
    BY <2>2, <2>3, <2>4 DEF LastDay
<1>7. DayOf(d) = d - First[m] + 1 /\ DayOf(d) \in 1..31
  <2>1. DayOf(d) = d - First[m] + 1
    BY <1>3 DEF DayOf
  <2>2. d \in Int /\ First[m] \in Int /\ Months[m] \in Int
    BY <1>1, <1>2, <1>5
  <2> QED
    BY <1>5, <2>1, <2>2
<1>8. ASSUME DayOf(d) <= Months[m + 1] PROVE DaysInMonth(d) = Months[m]
  <2>1. PICK e : e = First[m + 1] + DayOf(d) - 1
    OBVIOUS
  <2>2. e \in 1..LastDay /\ First[m + 1] <= e /\ e < First[m + 1] + Months[m + 1]
    BY <1>1, <1>5, <1>6, <1>7, <1>8, <2>1
  <2>3. MonthOf[e] = m + 1
    BY <1>4, <2>2, MonthIs
  <2>4. DaysInMonth(d) = First[m + 1] - First[m]
    BY <1>3, <2>1, <2>3 DEF DaysInMonth, AddMonth
  <2> QED
    BY <1>5, <2>4
<1>9. First[m] \in 1..d /\ First[m + 1] \in (d + 1)..LastDay
  <2>1. First[m + 1] <= LastDay
    BY <1>1, <1>5, <1>6
  <2> QED
    BY <1>1, <1>2, <1>5, <2>1
<1> QED
  BY <1>1, <1>2, <1>3, <1>4, <1>5, <1>7, <1>8, <1>9

-----------------------------------------------------------------------------
(* Bills.                                                                  *)

(* SetToSeq names every member of a finite set once.                       *)
LEMMA SetToSeqIs ==
  ASSUME NEW S, IsFiniteSet(S)
  PROVE  /\ SetToSeq(S) \in Bijection(1..Cardinality(S), S) /\ Cardinality(S) \in Nat
         /\ DOMAIN SetToSeq(S) = 1..Cardinality(S)
<1> DEFINE n == Cardinality(S)
<1>1. n \in Nat /\ ExistsBijection(1..n, S)
  BY FS_CardinalityType
<1>2. PICK h : h \in Bijection(1..n, S)
  BY <1>1 DEF ExistsBijection
<1>3. h \in [1..n -> S] /\ IsInjective(h)
  BY <1>2 DEF Bijection, Injection
<1>4. SetToSeq(S) \in [1..n -> S] /\ IsInjective(SetToSeq(S))
  BY <1>3 DEF SetToSeq
<1>5. SetToSeq(S) \in Injection(1..n, S)
  BY <1>4 DEF Injection
<1> HIDE DEF n
<1>6. IsFiniteSet(1..n) /\ Cardinality(1..n) = n
  <2>1. 1 \in Int /\ n \in Int /\ (1 > n => n = 0) /\ n - 1 + 1 = n
    BY <1>1
  <2> QED
    BY <2>1, FS_Interval
<1>7. SetToSeq(S) \in Surjection(1..n, S)
  <2>1. Cardinality(1..n) = Cardinality(S)
    BY <1>6 DEF n
  <2> QED
    BY <1>5, <2>1, FS_Injection
<1> QED
  BY <1>1, <1>4, <1>5, <1>7 DEF Bijection, n

LEMMA ChargeType ==
  ASSUME NEW d \in 1..LastDay, NEW s \in Services
  PROVE  Charge(d, s) \in Nat
  BY ConstantsOK

(* The bill of a day: a row for each service that cost something, and the *)
(* rows add up to what the day cost.                                       *)
LEMMA BillIs ==
  ASSUME NEW d \in 1..LastDay
  PROVE  /\ Bill[d] \in Seq(Rows)
         /\ \A i \in DOMAIN Bill[d] : Bill[d][i].day = d /\ Billed(Bill[d][i])
         /\ \A i, j \in DOMAIN Bill[d] : i # j => Bill[d][i] # Bill[d][j]
         /\ \A s \in Services : Charge(d, s) > 0 => \E i \in DOMAIN Bill[d] : Bill[d][i].service = s
         /\ Sum(Bill[d]) = CostOf(d) /\ CostOf(d) \in Nat
<1> DEFINE paid   == {s \in Services : Charge(d, s) > 0}
           costly == SetToSeq(paid)
           n      == Cardinality(paid)
           row(s) == [day |-> d, service |-> s, cost |-> Charge(d, s)]
           all    == [s \in Services |-> Charge(d, s)]
<1>1. IsFiniteSet(Services) /\ IsFiniteSet(paid)
  BY ConstantsOK, FS_Subset
<1>2. costly \in Bijection(1..n, paid) /\ n \in Nat /\ DOMAIN costly = 1..n
  <2> HIDE DEF paid
  <2> QED
    BY <1>1, SetToSeqIs
<1>3. Bill[d] = [i \in 1..n |-> row(costly[i])]
  BY <1>2 DEF Bill
<1> HIDE DEF costly, n
<1>4. /\ costly \in [1..n -> paid] /\ \A i, j \in 1..n : costly[i] = costly[j] => i = j
      /\ \A s \in paid : \E i \in 1..n : costly[i] = s
  BY <1>2 DEF Bijection, Injection, Surjection, IsInjective
<1>5. \A s \in paid : row(s) \in Rows /\ Billed(row(s)) /\ row(s).day = d /\ row(s).service = s
  BY ChargeType DEF Rows, Billed
<1>6. Bill[d] \in Seq(Rows) /\ DOMAIN Bill[d] = 1..n
  <2>1. \A i \in 1..n : row(costly[i]) \in Rows
    BY <1>4, <1>5
  <2> HIDE DEF row
  <2> QED
    BY <1>2, <1>3, <2>1
<1>7. \A i \in DOMAIN Bill[d] : Bill[d][i].day = d /\ Billed(Bill[d][i]) /\ Bill[d][i].service = costly[i]
  <2> HIDE DEF row
  <2> QED
    BY <1>3, <1>4, <1>5, <1>6
<1>8. \A i, j \in DOMAIN Bill[d] : i # j => Bill[d][i] # Bill[d][j]
  BY <1>4, <1>6, <1>7
<1>9. \A s \in Services : Charge(d, s) > 0 => \E i \in DOMAIN Bill[d] : Bill[d][i].service = s
  BY <1>4, <1>6, <1>7
<1>10. \A s \in Services : all[s] \in Int /\ all[s] >= 0
  BY ChargeType
<1>11. Sum(Bill[d]) = SumFunctionOnSet(all, paid)
  <2> DEFINE costs == Costs(Bill[d])
  <2>1. IsFiniteSet(1..n)
    BY <1>2, FS_Interval
  <2>2. \A i \in 1..n : costs[i] \in Int /\ all[costly[i]] = costs[i]
    <3>1. \A i \in 1..n : costs[i] = Charge(d, costly[i])
      BY <1>3, <1>6 DEF Costs
    <3> QED
      BY <1>4, <3>1, ChargeType
  <2>3. Sum(Bill[d]) = SumFunctionOnSet(costs, 1..n)
    BY <1>6 DEF Sum, SumFunction, Costs
  <2> HIDE DEF costs, paid, all
  <2> QED
    BY <1>2, <2>1, <2>2, <2>3, SumReindex
<1>12. SumFunctionOnSet(all, Services) = SumFunctionOnSet(all, paid)
  <2>1. \A s \in Services \ paid : all[s] = 0
    BY ChargeType
  <2>2. paid \in SUBSET Services
    OBVIOUS
  <2> HIDE DEF all, paid
  <2> QED
    BY <1>1, <1>10, <2>1, <2>2, SumPositive
<1>13. CostOf(d) = SumFunctionOnSet(all, Services)
  BY DEF CostOf, SumFunction
<1>14. CostOf(d) \in Nat
  <2> DEFINE lo == 0
  <2>1. lo \in Int /\ \A s \in Services : all[s] \in Int /\ lo <= all[s]
    BY <1>10
  <2>2. Cardinality(Services) \in Nat
    BY <1>1, FS_CardinalityType
  <2> HIDE DEF lo, all
  <2>3. lo * Cardinality(Services) <= SumFunctionOnSet(all, Services)
    BY <1>1, <2>1, SumAtLeast
  <2>4. SumFunctionOnSet(all, Services) \in Int
    BY <1>1, <1>10, SumType
  <2> QED
    BY <1>13, <2>2, <2>3, <2>4 DEF lo
<1> QED
  BY <1>6, <1>7, <1>8, <1>9, <1>11, <1>12, <1>13, <1>14

-----------------------------------------------------------------------------
(* Rows of several days.                                                   *)

(* What the days from a to b cost.                                         *)
CostByDay == [d \in 1..LastDay |-> CostOf(d)]
Between(a, b) == SumFunctionOnSet(CostByDay, a..b)

LEMMA BetweenType ==
  ASSUME NEW a \in Int, NEW b \in Int, 1 <= a, b <= LastDay
  PROVE  Between(a, b) \in Nat /\ (b < a => Between(a, b) = 0)
<1>1. LastDay \in Int /\ a..b \subseteq 1..LastDay /\ IsFiniteSet(a..b) /\ Cardinality(a..b) \in Nat
  <2>1. LastDay \in Int
    BY FirstType, MonthsAre DEF LastDay
  <2> QED
    BY <2>1, FS_Interval, FS_CardinalityType
<1>2. \A d \in a..b : CostByDay[d] \in Int /\ 0 <= CostByDay[d]
  BY <1>1, BillIs DEF CostByDay
<1>3. Between(a, b) \in Int
  BY <1>1, <1>2, SumType DEF Between
<1> DEFINE lo == 0
<1>4. lo \in Int /\ \A d \in a..b : CostByDay[d] \in Int /\ lo <= CostByDay[d]
  BY <1>2
<1> HIDE DEF lo
<1>5. lo * Cardinality(a..b) <= Between(a, b)
  BY <1>1, <1>4, SumAtLeast DEF Between
<1>6. Between(a, b) \in Nat
  BY <1>1, <1>3, <1>5 DEF lo
<1>7. ASSUME b < a PROVE Between(a, b) = 0
  <2>1. a..b = {}
    BY <1>7
  <2> QED
    BY <2>1, SumEmpty DEF Between
<1> QED
  BY <1>6, <1>7

LEMMA BetweenSplit ==
  ASSUME NEW a \in Int, NEW b \in Int, NEW c \in Int, 1 <= a, a - 1 <= b, b <= c, c <= LastDay
  PROVE  Between(a, c) = Between(a, b) + Between(b + 1, c)
<1> DEFINE S == a..b
           T == (b + 1)..c
<1>1. LastDay \in Int
  BY FirstType, MonthsAre DEF LastDay
<1>2. S \cup T = a..c /\ S \cap T = {} /\ S \cup T \subseteq 1..LastDay
  BY <1>1
<1>3. IsFiniteSet(S) /\ IsFiniteSet(T)
  BY FS_Interval
<1>4. \A d \in S \cup T : CostByDay[d] \in Int
  BY <1>2, BillIs DEF CostByDay
<1>5. Between(a, b) = SumFunctionOnSet(CostByDay, S) /\ Between(b + 1, c) = SumFunctionOnSet(CostByDay, T)
  BY DEF Between
<1> HIDE DEF S, T
<1>6. SumFunctionOnSet(CostByDay, S \cup T) = SumFunctionOnSet(CostByDay, S) + SumFunctionOnSet(CostByDay, T)
  BY <1>2, <1>3, <1>4, SumUnion
<1>7. Between(a, c) = SumFunctionOnSet(CostByDay, S \cup T)
  BY <1>2, Zenon DEF Between
<1> QED
  BY <1>5, <1>6, <1>7

LEMMA BetweenGrows ==
  ASSUME NEW a \in Int, NEW b \in Int, NEW c \in Int, 1 <= a, b <= c, c <= LastDay
  PROVE  Between(a, b) <= Between(a, c)
<1>0. LastDay \in Int
  BY FirstType, MonthsAre DEF LastDay
<1>1. CASE b < a
  BY <1>0, <1>1, BetweenType
<1>2. CASE a <= b
  <2>1. Between(a, c) = Between(a, b) + Between(b + 1, c)
    BY <1>2, BetweenSplit
  <2>2. Between(a, b) \in Nat /\ Between(b + 1, c) \in Nat
    BY <1>0, <1>2, BetweenType
  <2> QED
    BY <2>1, <2>2
<1> QED
  BY <1>1, <1>2

LEMMA OneDay ==
  ASSUME NEW d \in 1..LastDay
  PROVE  Between(d, d) = CostOf(d)
<1>1. d..d = {} \cup {d} /\ d \notin {} /\ IsFiniteSet({})
  BY FS_EmptySet
<1>2. CostByDay[d] = CostOf(d) /\ CostOf(d) \in Nat
  BY BillIs DEF CostByDay
<1>3. SumFunctionOnSet(CostByDay, {} \cup {d}) = SumFunctionOnSet(CostByDay, {}) + CostByDay[d]
  <2> DEFINE E == {}
  <2>1. IsFiniteSet(E) /\ d \notin E /\ \A x \in E \cup {d} : CostByDay[x] \in Int
    BY <1>1, <1>2
  <2> HIDE DEF E
  <2>2. SumFunctionOnSet(CostByDay, E \cup {d}) = SumFunctionOnSet(CostByDay, E) + CostByDay[d]
    BY <2>1, SumAdd
  <2> QED
    BY <2>2 DEF E
<1>4. SumFunctionOnSet(CostByDay, {}) = 0
  BY SumEmpty
<1>5. Between(d, d) = SumFunctionOnSet(CostByDay, {} \cup {d})
  BY <1>1, Zenon DEF Between
<1> QED
  BY <1>2, <1>3, <1>4, <1>5

(* The spend of a month so far, which the invariant speaks of, is that of  *)
(* its days.                                                               *)
LEMMA SpentIs ==
  ASSUME NEW m \in MonthIds, NEW to \in Int, to <= LastDay
  PROVE  Spent(m, to) = Between(First[m], to)
<1> DEFINE f == [d \in First[m]..to |-> CostOf(d)]
<1>1. First[m] \in Int /\ LastDay \in Int /\ First[m]..to \subseteq 1..LastDay
  BY FirstType, MonthsAre DEF LastDay
<1>2. \A d \in First[m]..to : f[d] \in Int /\ CostByDay[d] = f[d]
  <2> SUFFICES ASSUME NEW d \in First[m]..to PROVE f[d] \in Int /\ CostByDay[d] = f[d]
    OBVIOUS
  <2>1. d \in 1..LastDay
    BY <1>1
  <2>2. CostOf(d) \in Nat
    BY <2>1, BillIs
  <2>3. f[d] = CostOf(d)
    OBVIOUS
  <2>4. CostByDay[d] = CostOf(d)
    BY <2>1 DEF CostByDay
  <2> HIDE DEF f
  <2> QED
    BY <2>2, <2>3, <2>4
<1>3. IsFiniteSet(First[m]..to)
  BY <1>1, FS_Interval
<1>4. Spent(m, to) = SumFunctionOnSet(f, First[m]..to)
  BY DEF Spent, SumFunction
<1> HIDE DEF f
<1>5. SumFunctionOnSet(f, First[m]..to) = SumFunctionOnSet(CostByDay, First[m]..to)
  BY <1>2, <1>3, SumSame
<1> QED
  BY <1>4, <1>5 DEF Between

LEMMA SumOfRows ==
  ASSUME NEW x \in Seq(Rows)
  PROVE  /\ \A i \in DOMAIN x : Costs(x)[i] \in Int
         /\ Sum(x) = SumFunctionOnSet(Costs(x), DOMAIN x) /\ Sum(x) \in Int
         /\ IsFiniteSet(DOMAIN x)
<1>1. DOMAIN x = 1..Len(x) /\ Len(x) \in Int
  OBVIOUS
<1>2. \A i \in DOMAIN x : Costs(x)[i] \in Int
  <2>1. \A r \in Rows : r.cost \in Int
    BY DEF Rows
  <2>2. \A i \in DOMAIN x : Costs(x)[i] = x[i].cost /\ x[i] \in Rows
    BY DEF Costs
  <2> QED
    BY <2>1, <2>2
<1>3. IsFiniteSet(DOMAIN x)
  BY <1>1, FS_Interval
<1>4. Sum(x) = SumFunctionOnSet(Costs(x), DOMAIN x)
  BY DEF Sum, SumFunction, Costs
<1> QED
  BY <1>2, <1>3, <1>4, SumType

LEMMA Joined ==
  ASSUME NEW x \in Seq(Rows), NEW y \in Seq(Rows)
  PROVE  /\ x \o y \in Seq(Rows) /\ Len(x) \in Nat /\ Len(y) \in Nat
         /\ DOMAIN x = 1..Len(x) /\ DOMAIN y = 1..Len(y)
         /\ DOMAIN (x \o y) = 1..(Len(x) + Len(y))
         /\ \A i \in 1..Len(x) : (x \o y)[i] = x[i]
         /\ \A i \in 1..Len(y) : (x \o y)[i + Len(x)] = y[i]
         /\ \A i \in 1..(Len(x) + Len(y)) : i > Len(x) => i - Len(x) \in 1..Len(y) /\ (x \o y)[i] = y[i - Len(x)]
  OBVIOUS

(* The costs of joined answers add up.                                     *)
LEMMA SumJoined ==
  ASSUME NEW x \in Seq(Rows), NEW y \in Seq(Rows)
  PROVE  Sum(x \o y) = Sum(x) + Sum(y)
<1> DEFINE z == x \o y
           n == Len(x)
           S == 1..n
           T == (n + 1)..(n + Len(y))
           h == [i \in DOMAIN y |-> i + n]
<1>1. /\ z \in Seq(Rows) /\ n \in Nat /\ Len(y) \in Nat
      /\ DOMAIN x = 1..n /\ DOMAIN y = 1..Len(y) /\ DOMAIN z = 1..(n + Len(y))
      /\ \A i \in 1..n : z[i] = x[i]
      /\ \A i \in 1..Len(y) : z[i + n] = y[i]
  BY Joined
<1>2. DOMAIN z = S \cup T /\ S \cap T = {}
  BY <1>1
<1>3. h \in Bijection(DOMAIN y, T)
  <2>1. h \in [DOMAIN y -> T] /\ \A i, j \in DOMAIN y : h[i] = h[j] => i = j
    BY <1>1
  <2>2. \A k \in T : \E i \in DOMAIN y : h[i] = k
    <3> SUFFICES ASSUME NEW k \in T PROVE k - n \in DOMAIN y /\ h[k - n] = k
      OBVIOUS
    <3> QED
      BY <1>1
  <2> HIDE DEF h, T
  <2> QED
    BY <2>1, <2>2 DEF Bijection, Injection, Surjection, IsInjective
<1>4. \A i \in DOMAIN y : Costs(y)[i] \in Int /\ Costs(z)[h[i]] = Costs(y)[i]
  <2>1. \A i \in DOMAIN y : h[i] = i + n /\ i + n \in DOMAIN z
    BY <1>1
  <2>2. \A i \in DOMAIN y : z[i + n] = y[i]
    BY <1>1
  <2> HIDE DEF z, h, n
  <2>3. \A k \in DOMAIN z : Costs(z)[k] = z[k].cost
    BY DEF Costs
  <2>4. \A i \in DOMAIN y : Costs(y)[i] = y[i].cost
    BY DEF Costs
  <2>5. \A i \in DOMAIN y : Costs(y)[i] \in Int
    BY SumOfRows
  <2> QED
    BY <2>1, <2>2, <2>3, <2>4, <2>5
<1>5. \A i \in DOMAIN x : Costs(x)[i] \in Int /\ Costs(z)[i] = Costs(x)[i]
  <2>1. \A i \in DOMAIN x : z[i] = x[i] /\ i \in DOMAIN z
    BY <1>1
  <2> HIDE DEF z
  <2>2. \A k \in DOMAIN z : Costs(z)[k] = z[k].cost
    BY DEF Costs
  <2>3. \A i \in DOMAIN x : Costs(x)[i] = x[i].cost
    BY DEF Costs
  <2>4. \A i \in DOMAIN x : Costs(x)[i] \in Int
    BY SumOfRows
  <2> QED
    BY <2>1, <2>2, <2>3, <2>4
<1>6. IsFiniteSet(S) /\ IsFiniteSet(T) /\ IsFiniteSet(DOMAIN x) /\ IsFiniteSet(DOMAIN y)
  BY <1>1, FS_Interval
<1>7. /\ Sum(z) = SumFunctionOnSet(Costs(z), DOMAIN z) /\ \A i \in DOMAIN z : Costs(z)[i] \in Int
      /\ Sum(x) = SumFunctionOnSet(Costs(x), DOMAIN x)
      /\ Sum(y) = SumFunctionOnSet(Costs(y), DOMAIN y)
  BY <1>1, SumOfRows
<1>8. DOMAIN x = S
  BY <1>1
<1> HIDE DEF z, h, S, T
<1>9. SumFunctionOnSet(Costs(y), DOMAIN y) = SumFunctionOnSet(Costs(z), T)
  BY <1>3, <1>4, <1>6, SumReindex
<1>10. SumFunctionOnSet(Costs(x), S) = SumFunctionOnSet(Costs(z), S)
  BY <1>5, <1>6, <1>8, SumSame
<1>11. SumFunctionOnSet(Costs(z), S \cup T) = SumFunctionOnSet(Costs(z), S) + SumFunctionOnSet(Costs(z), T)
  BY <1>2, <1>6, <1>7, SumUnion
<1>12. Sum(z) = Sum(x) + Sum(y)
  BY <1>2, <1>7, <1>8, <1>9, <1>10, <1>11
<1> QED
  BY <1>12 DEF z

Sorted(x)   == \A i, j \in DOMAIN x : i < j => x[i].day <= x[j].day
Distinct(x) == \A i, j \in DOMAIN x : i # j => x[i] # x[j]

(* Rows of later days go behind rows of earlier ones.                      *)
LEMMA Glue ==
  ASSUME NEW x \in Seq(Rows), NEW y \in Seq(Rows), NEW b \in Int,
         \A i \in DOMAIN x : x[i].day <= b, \A j \in DOMAIN y : b < y[j].day
  PROVE  /\ Sorted(x) /\ Sorted(y) => Sorted(x \o y)
         /\ Distinct(x) /\ Distinct(y) => Distinct(x \o y)
<1> DEFINE z == x \o y
           n == Len(x)
<1>1. /\ z \in Seq(Rows) /\ n \in Nat /\ Len(y) \in Nat
      /\ DOMAIN x = 1..n /\ DOMAIN y = 1..Len(y) /\ DOMAIN z = 1..(n + Len(y))
      /\ \A i \in 1..n : z[i] = x[i]
      /\ \A i \in 1..(n + Len(y)) : i > n => i - n \in 1..Len(y) /\ z[i] = y[i - n]
  BY Joined
<1>2. /\ \A i \in DOMAIN x : x[i].day \in Int
      /\ \A i \in DOMAIN y : y[i].day \in Int
  <2>1. \A r \in Rows : r.day \in Int
    BY DEF Rows
  <2> QED
    BY <2>1
<1> HIDE DEF z, n
<1>3. \A i, j \in DOMAIN z : i <= n /\ j > n => z[i].day < z[j].day /\ z[i] # z[j]
  <2> SUFFICES ASSUME NEW i \in DOMAIN z, NEW j \in DOMAIN z, i <= n, j > n
               PROVE  z[i].day < z[j].day /\ z[i] # z[j]
    OBVIOUS
  <2>1. i \in DOMAIN x /\ z[i] = x[i] /\ j - n \in DOMAIN y /\ z[j] = y[j - n]
    BY <1>1
  <2>2. x[i].day \in Int /\ y[j - n].day \in Int /\ x[i].day <= b /\ b < y[j - n].day
    BY <1>2, <2>1
  <2> QED
    BY <2>1, <2>2
<1>4. ASSUME Sorted(x), Sorted(y) PROVE Sorted(z)
  <2> SUFFICES ASSUME NEW i \in DOMAIN z, NEW j \in DOMAIN z, i < j PROVE z[i].day <= z[j].day
    BY DEF Sorted
  <2>1. CASE j <= n
    BY <1>1, <1>4, <2>1 DEF Sorted
  <2>2. CASE i <= n /\ j > n
    <3>1. z[i].day < z[j].day /\ z[i].day \in Int /\ z[j].day \in Int
      BY <1>1, <1>2, <1>3, <2>2
    <3> QED
      BY <3>1
  <2>3. CASE i > n /\ j > n
    <3>1. i - n \in DOMAIN y /\ j - n \in DOMAIN y /\ i - n < j - n /\ z[i] = y[i - n] /\ z[j] = y[j - n]
      BY <1>1, <2>3
    <3> QED
      BY <1>4, <3>1 DEF Sorted
  <2> QED
    BY <1>1, <2>1, <2>2, <2>3
<1>5. ASSUME Distinct(x), Distinct(y) PROVE Distinct(z)
  <2> SUFFICES ASSUME NEW i \in DOMAIN z, NEW j \in DOMAIN z, i < j PROVE z[i] # z[j]
    BY <1>1 DEF Distinct
  <2>1. CASE j <= n
    BY <1>1, <1>5, <2>1 DEF Distinct
  <2>2. CASE i <= n /\ j > n
    BY <1>3, <2>2
  <2>3. CASE i > n /\ j > n
    <3>1. i - n \in DOMAIN y /\ j - n \in DOMAIN y /\ i - n # j - n /\ z[i] = y[i - n] /\ z[j] = y[j - n]
      BY <1>1, <2>3
    <3> QED
      BY <1>5, <3>1 DEF Distinct
  <2> QED
    BY <1>1, <2>1, <2>2, <2>3
<1> QED
  BY <1>4, <1>5 DEF z

LEMMA GlueComplete ==
  ASSUME NEW x \in Seq(Rows), NEW y \in Seq(Rows), NEW a \in Int, NEW b \in Int, NEW c \in Int, NEW k,
         Complete(x, a, b, k), Complete(y, b + 1, c, k)
  PROVE  Complete(x \o y, a, c, k)
<1> DEFINE z == x \o y
           n == Len(x)
<1>1. /\ n \in Nat /\ Len(y) \in Nat
      /\ DOMAIN x = 1..n /\ DOMAIN y = 1..Len(y) /\ DOMAIN z = 1..(n + Len(y))
      /\ \A i \in 1..n : z[i] = x[i]
      /\ \A i \in 1..Len(y) : z[i + n] = y[i]
  BY Joined
<1> HIDE DEF z, n
<1>2. ASSUME NEW d \in a..c, NEW s \in Services, d <= k, Charge(d, s) > 0
      PROVE  \E i \in DOMAIN z : z[i].day = d /\ z[i].service = s
  <2>1. CASE d <= b
    <3>1. PICK i \in DOMAIN x : x[i].day = d /\ x[i].service = s
      BY <1>2, <2>1 DEF Complete
    <3> QED
      BY <1>1, <3>1
  <2>2. CASE d > b
    <3>1. d \in (b + 1)..c
      BY <2>2
    <3>2. PICK i \in DOMAIN y : y[i].day = d /\ y[i].service = s
      BY <1>2, <3>1 DEF Complete
    <3>3. i + n \in DOMAIN z /\ z[i + n] = y[i]
      BY <1>1
    <3> QED
      BY <3>2, <3>3
  <2> QED
    BY <2>1, <2>2
<1>3. Complete(z, a, c, k)
  BY <1>2 DEF Complete
<1> QED
  BY <1>3 DEF z

(* The bills of n days.                                                    *)
RowsFrom(a, n) == FlattenSeq([i \in 1..n |-> Bill[a + i - 1]])

LEMMA RowsJoin ==
  ASSUME NEW a \in Int, NEW n \in Nat, a + n \in 1..LastDay
  PROVE  /\ RowsFrom(a, 0) = <<>>
         /\ RowsFrom(a, n) \in Seq(Rows) => RowsFrom(a, n + 1) = RowsFrom(a, n) \o Bill[a + n]
<1>1. RowsFrom(a, 0) = <<>>
  BY DEF RowsFrom, FlattenSeq
<1> DEFINE seqs == [i \in 1..(n + 1) |-> Bill[a + i - 1]]
<1>2. DOMAIN seqs = 1..(n + 1) /\ Len(seqs) = n + 1 /\ seqs[n + 1] = Bill[a + n]
  BY Zenon, SMT
<1>3. [i \in 1..n |-> seqs[i]] = [i \in 1..n |-> Bill[a + i - 1]]
  OBVIOUS
<1>4. RowsFrom(a, n + 1) = FlattenSeq(seqs)
  BY DEF RowsFrom
<1> HIDE DEF seqs
<1>5. FlattenSeq(seqs) = IF n = 0 THEN seqs[1] ELSE FlattenSeq([i \in 1..n |-> seqs[i]]) \o seqs[n + 1]
  BY <1>2, FlattenStep
<1>6. FlattenSeq([i \in 1..n |-> seqs[i]]) = RowsFrom(a, n)
  BY <1>3 DEF RowsFrom
<1>7. CASE n = 0
  <2>1. Bill[a + n] \in Seq(Rows)
    BY BillIs
  <2>2. <<>> \o Bill[a + n] = Bill[a + n]
    BY <2>1
  <2>3. RowsFrom(a, n + 1) = Bill[a + n]
    BY <1>2, <1>4, <1>5, <1>7
  <2> QED
    BY <1>1, <1>7, <2>2, <2>3
<1>8. CASE n # 0
  BY <1>1, <1>2, <1>4, <1>5, <1>6, <1>8
<1> QED
  BY <1>7, <1>8

LEMMA RowsFromIs ==
  ASSUME NEW a \in Int, 1 <= a, NEW n \in Nat, a + n - 1 <= LastDay
  PROVE  LET x == RowsFrom(a, n) IN
         /\ x \in Seq(Rows)
         /\ \A i \in DOMAIN x : Billed(x[i]) /\ x[i].day \in a..(a + n - 1)
         /\ Sorted(x) /\ Distinct(x)
         /\ Complete(x, a, a + n - 1, LastDay)
         /\ Sum(x) = Between(a, a + n - 1)
<1> DEFINE Good(x, b) == /\ x \in Seq(Rows)
                         /\ \A i \in DOMAIN x : Billed(x[i]) /\ x[i].day \in a..b
                         /\ Sorted(x) /\ Distinct(x)
                         /\ Complete(x, a, b, LastDay)
                         /\ Sum(x) = Between(a, b)
           I == {m \in Nat : a + m - 1 <= LastDay => Good(RowsFrom(a, m), a + m - 1)}
<1>0. LastDay \in Nat
  <2>1. Len(Months) \in MonthIds
    BY MonthsAre
  <2>2. First[Len(Months)] \in Nat \ {0} /\ Months[Len(Months)] \in Nat
    BY <2>1, FirstType, MonthsAre
  <2> QED
    BY <2>2 DEF LastDay
<1>1. 0 \in I
  <2> SUFFICES ASSUME a + 0 - 1 <= LastDay PROVE Good(RowsFrom(a, 0), a + 0 - 1)
    OBVIOUS
  <2>1. RowsFrom(a, 0) = <<>>
    BY DEF RowsFrom, FlattenSeq
  <2>2. <<>> \in Seq(Rows) /\ DOMAIN <<>> = {}
    OBVIOUS
  <2>3. Sum(<<>>) = 0
    <3>1. DOMAIN Costs(<<>>) = {}
      BY <2>2 DEF Costs
    <3> QED
      BY <3>1, SumEmpty DEF Sum, SumFunction
  <2>4. Between(a, a + 0 - 1) = 0
    BY BetweenType
  <2>5. Complete(<<>>, a, a + 0 - 1, LastDay)
    BY DEF Complete
  <2>6. Sorted(<<>>) /\ Distinct(<<>>)
    BY <2>2 DEF Sorted, Distinct
  <2> QED
    BY <2>1, <2>2, <2>3, <2>4, <2>5, <2>6
<1>2. ASSUME NEW m \in Nat, m \in I PROVE m + 1 \in I
  <2> SUFFICES ASSUME a + (m + 1) - 1 <= LastDay PROVE Good(RowsFrom(a, m + 1), a + (m + 1) - 1)
    OBVIOUS
  <2>1. PICK d : d = a + m
    OBVIOUS
  <2>2. d \in 1..LastDay /\ d \in Int /\ d - 1 \in Int /\ (d - 1) + 1 = d /\ a + m - 1 = d - 1 /\ a + (m + 1) - 1 = d
    BY <1>0, <2>1
  <2>3. Good(RowsFrom(a, m), d - 1)
    BY <1>0, <1>2, <2>2
  <2>4. PICK x : x = RowsFrom(a, m)
    OBVIOUS
  <2>5. PICK y : y = Bill[d]
    OBVIOUS
  <2>6. RowsFrom(a, m + 1) = x \o y
    BY <2>1, <2>2, <2>3, <2>4, <2>5, RowsJoin
  <2>7. /\ y \in Seq(Rows)
        /\ \A i \in DOMAIN y : y[i].day = d /\ Billed(y[i])
        /\ Distinct(y)
        /\ \A s \in Services : Charge(d, s) > 0 => \E i \in DOMAIN y : y[i].service = s
        /\ Sum(y) = Between(d, d)
    BY <2>2, <2>5, BillIs, OneDay DEF Distinct
  <2>8. Good(x, d - 1)
    BY <2>3, <2>4
  <2>9. (\A i \in DOMAIN x : x[i].day <= d - 1) /\ (\A j \in DOMAIN y : d - 1 < y[j].day)
    BY <2>2, <2>7, <2>8
  <2>10. Sorted(y)
    BY <2>2, <2>7 DEF Sorted
  <2>11. x \o y \in Seq(Rows) /\ Sorted(x \o y) /\ Distinct(x \o y)
    BY <2>2, <2>7, <2>8, <2>9, <2>10, Glue, Joined
  <2>12. Complete(y, (d - 1) + 1, d, LastDay)
    BY <2>2, <2>7 DEF Complete
  <2>13. Complete(x \o y, a, d, LastDay)
    BY <2>2, <2>7, <2>8, <2>12, GlueComplete
  <2>14. Sum(x \o y) = Between(a, d)
    <3>1. Between(a, d) = Between(a, d - 1) + Between((d - 1) + 1, d)
      BY <2>1, <2>2, BetweenSplit
    <3> QED
      BY <2>2, <2>7, <2>8, <3>1, SumJoined
  <2>15. \A i \in DOMAIN (x \o y) : Billed((x \o y)[i]) /\ (x \o y)[i].day \in a..d
    <3>1. PICK z : z = x \o y
      OBVIOUS
    <3>2. \A i \in DOMAIN z : (i \in DOMAIN x /\ z[i] = x[i]) \/ (\E j \in DOMAIN y : z[i] = y[j])
      BY <2>7, <2>8, <3>1, Joined
    <3>3. \A i \in DOMAIN x : Billed(x[i]) /\ x[i].day \in a..d
      BY <2>2, <2>8
    <3>4. \A i \in DOMAIN y : Billed(y[i]) /\ y[i].day \in a..d
      BY <2>1, <2>2, <2>7
    <3> QED
      BY <3>1, <3>2, <3>3, <3>4
  <2> HIDE DEF Good
  <2>16. Good(x \o y, d)
    BY <2>11, <2>13, <2>14, <2>15 DEF Good
  <2> QED
    BY <2>2, <2>6, <2>16
<1> HIDE DEF I
<1>3. Nat \subseteq I
  BY <1>1, <1>2, SetInduction
<1> QED
  BY <1>3 DEF I

LEMMA LessOf ==
  ASSUME NEW a \in Int, NEW b \in Int
  PROVE  Min({a, b}) = (IF a <= b THEN a ELSE b)
  BY DEF Min

LEMMA MoreOf ==
  ASSUME NEW a \in Int, NEW b \in Int
  PROVE  Max({a, b}) = (IF a >= b THEN a ELSE b)
  BY DEF Max

(* What a source answers for some days.                                    *)
LEMMA RowsOfIs ==
  ASSUME NEW a \in Int, 1 <= a, NEW b \in Int, b <= LastDay, a - 1 <= b, confirmed \in Int
  PROVE  LET x == RowsOf(a, b) IN
         /\ x \in Seq(Rows)
         /\ \A i \in DOMAIN x : Billed(x[i]) /\ x[i].day \in a..b /\ x[i].day <= confirmed
         /\ Sorted(x) /\ Distinct(x)
         /\ \A k \in Int : k <= confirmed => Complete(x, a, b, k)
         /\ Sum(x) = Between(a, Min({b, confirmed}))
<1> DEFINE c == Min({b, confirmed})
<1>1. c \in Int /\ c <= b /\ c <= confirmed /\ (c = b \/ c = confirmed)
  BY LessOf
<1>2. RowsOf(a, b) = FlattenSeq([i \in 1..(c - a + 1) |-> Bill[a + i - 1]])
  BY DEF RowsOf
<1> HIDE DEF c
<1>3. LastDay \in Int
  BY FirstType, MonthsAre DEF LastDay
<1>4. CASE a <= c
  <2>1. PICK n : n = c - a + 1
    OBVIOUS
  <2>2. n \in Nat /\ a + n - 1 = c
    BY <1>1, <1>4, <2>1
  <2>3. RowsOf(a, b) = RowsFrom(a, n)
    BY <1>2, <2>1 DEF RowsFrom
  <2>4. a + n - 1 <= LastDay
    BY <1>1, <1>3, <2>2
  <2>5. PICK x : x = RowsFrom(a, n)
    OBVIOUS
  <2>6. /\ x \in Seq(Rows)
        /\ \A i \in DOMAIN x : Billed(x[i]) /\ x[i].day \in a..c
        /\ Sorted(x) /\ Distinct(x)
        /\ Complete(x, a, c, LastDay)
        /\ Sum(x) = Between(a, c)
    BY <2>2, <2>4, <2>5, RowsFromIs
  <2>7. \A i \in DOMAIN x : Billed(x[i]) /\ x[i].day \in a..b /\ x[i].day <= confirmed
    BY <1>1, <2>6
  <2>8. ASSUME NEW k \in Int, k <= confirmed PROVE Complete(x, a, b, k)
    <3> SUFFICES ASSUME NEW d \in a..b, NEW s \in Services, d <= k, Charge(d, s) > 0
                 PROVE  \E i \in DOMAIN x : x[i].day = d /\ x[i].service = s
      BY DEF Complete
    <3>1. d \in a..c /\ d <= LastDay
      BY <1>1, <1>3, <2>8
    <3> QED
      BY <2>6, <3>1 DEF Complete
  <2> QED
    BY <2>3, <2>5, <2>6, <2>7, <2>8 DEF c
<1>5. CASE c < a
  <2>1. 1..(c - a + 1) = {} /\ 1..0 = {}
    BY <1>1, <1>5
  <2>2. PICK x : x = RowsFrom(a, 0)
    OBVIOUS
  <2>3. RowsOf(a, b) = x
    BY <1>2, <2>1, <2>2 DEF RowsFrom
  <2>4. x = <<>> /\ a + 0 - 1 <= LastDay
    BY <1>3, <2>2 DEF RowsFrom, FlattenSeq
  <2>5. /\ x \in Seq(Rows) /\ DOMAIN x = {}
        /\ Sorted(x) /\ Distinct(x)
        /\ Sum(x) = Between(a, a + 0 - 1)
    <3>1. PICK n \in Nat : n = 0
      OBVIOUS
    <3>2. x = RowsFrom(a, n) /\ a + n - 1 <= LastDay
      BY <2>2, <2>4, <3>1
    <3>3. x \in Seq(Rows) /\ Sorted(x) /\ Distinct(x) /\ Sum(x) = Between(a, a + n - 1)
      BY <3>2, RowsFromIs
    <3>4. DOMAIN x = {}
      BY <2>4
    <3> QED
      BY <3>1, <3>3, <3>4
  <2>6. Between(a, a + 0 - 1) = 0 /\ Between(a, c) = 0
    BY <1>1, <1>3, <1>5, BetweenType
  <2>7. ASSUME NEW k \in Int, k <= confirmed PROVE Complete(x, a, b, k)
    BY <1>1, <1>5, <2>7 DEF Complete
  <2> QED
    BY <2>3, <2>5, <2>6, <2>7 DEF c
<1> QED
  BY <1>1, <1>4, <1>5

(* The rows of one who knows no services: the same days and costs.         *)
LEMMA AnonymousIs ==
  ASSUME NEW x \in Seq(Rows)
  PROVE  LET y == [i \in DOMAIN x |-> [x[i] EXCEPT !.service = NoName]] IN
         /\ y \in Seq(Rows) /\ DOMAIN y = DOMAIN x
         /\ \A i \in DOMAIN x : y[i].day = x[i].day
         /\ Sum(y) = Sum(x)
<1> DEFINE y == [i \in DOMAIN x |-> [x[i] EXCEPT !.service = NoName]]
<1>1. \A r \in Rows : /\ [r EXCEPT !.service = NoName] \in Rows
                      /\ [r EXCEPT !.service = NoName].day = r.day
                      /\ [r EXCEPT !.service = NoName].cost = r.cost
  BY DEF Rows
<1>2. Len(x) \in Nat /\ DOMAIN x = 1..Len(x) /\ \A i \in DOMAIN x : x[i] \in Rows
  OBVIOUS
<1>3. \A i \in DOMAIN x : y[i] \in Rows /\ y[i].day = x[i].day /\ y[i].cost = x[i].cost
  <2> SUFFICES ASSUME NEW i \in DOMAIN x
               PROVE  y[i] \in Rows /\ y[i].day = x[i].day /\ y[i].cost = x[i].cost
    OBVIOUS
  <2>1. x[i] \in Rows
    BY <1>2
  <2>2. y[i] = [x[i] EXCEPT !.service = NoName]
    OBVIOUS
  <2> HIDE DEF y
  <2> QED
    BY <1>1, <2>1, <2>2
<1>4. DOMAIN y = DOMAIN x
  OBVIOUS
<1>5. y \in Seq(Rows)
  <2>1. y \in [1..Len(x) -> Rows]
    BY <1>2, <1>3, <1>4
  <2> HIDE DEF y
  <2> QED
    BY <1>2, <2>1
<1> HIDE DEF y
<1>6. \A i \in DOMAIN x : Costs(x)[i] = x[i].cost /\ Costs(y)[i] = y[i].cost
  BY <1>4 DEF Costs
<1>7. \A i \in DOMAIN x : Costs(x)[i] \in Int /\ Costs(y)[i] = Costs(x)[i]
  BY <1>3, <1>6, SumOfRows
<1>8. SumFunctionOnSet(Costs(x), DOMAIN x) = SumFunctionOnSet(Costs(y), DOMAIN x)
  BY <1>7, SumOfRows, SumSame
<1>9. Sum(y) = Sum(x)
  BY <1>4, <1>5, <1>8, SumOfRows
<1> QED
  BY <1>3, <1>4, <1>5, <1>9 DEF y

-----------------------------------------------------------------------------
(* The steps.                                                              *)

CostInv == IInv /\ ProjectionIsReference /\ GrowthIsReal

(* The days before today: their months are known, and the next month too.  *)
LEMMA MonthsBefore ==
  ASSUME NEW now \in Days, NEW d \in 1..now
  PROVE  /\ d \in 1..LastDay
         /\ MonthOf[d] \in MonthIds /\ MonthOf[d] + 1 \in MonthIds
         /\ First[MonthOf[d]] \in 1..d
         /\ First[MonthOf[d] + 1] - 1 \in d..LastDay
         /\ MonthOf[First[MonthOf[d]]] = MonthOf[d]
<1>1. now \in 15..LastDay /\ LastDay \in Nat
  BY TodayIs
<1>2. d \in 1..LastDay
  BY <1>1
<1>3. PICK m \in MonthIds : m = MonthOf[d]
  BY <1>2, MonthIs
<1>4. PICK n \in MonthIds : n = MonthOf[now] /\ n + 1 \in MonthIds
  BY TodayIs
<1>5. /\ First[m] \in Nat \ {0} /\ First[n] \in Nat /\ Months[m] \in Nat /\ Months[n] \in Nat
      /\ m \in Nat /\ n \in Nat /\ Months[m] >= 28
  BY FirstType, MonthsAre
<1>6. First[m] <= d /\ d < First[m] + Months[m]
  BY <1>2, <1>3, MonthIs
<1>7. First[n + 1] = First[n] + Months[n] /\ First[n + 1] \in (now + 1)..LastDay
  BY <1>4, TodayIs
<1>8. m <= n
  <2> SUFFICES ASSUME n < m PROVE FALSE
    BY <1>5
  <2>1. First[n] + Months[n] <= First[m]
    BY FirstGrows
  <2> QED
    BY <1>1, <1>5, <1>6, <1>7, <2>1
<1>9. m + 1 \in MonthIds /\ First[m + 1] = First[m] + Months[m]
  BY <1>4, <1>5, <1>8, MonthsAre, FirstIs
<1>10. First[m + 1] <= First[n + 1]
  <2>1. CASE m = n
    BY <1>1, <1>7, <2>1
  <2>2. CASE m < n
    <3>1. First[m] + Months[m] <= First[n]
      BY <2>2, FirstGrows
    <3> QED
      BY <1>1, <1>5, <1>7, <1>9, <3>1
  <2> QED
    BY <1>5, <1>8, <2>1, <2>2
<1>11. First[m + 1] - 1 \in d..LastDay
  BY <1>1, <1>2, <1>5, <1>6, <1>7, <1>9, <1>10
<1>12. First[m] \in 1..d
  BY <1>1, <1>5, <1>6
<1>13. MonthOf[First[m]] = m
  <2>1. First[m] \in 1..LastDay /\ First[m] < First[m] + Months[m] /\ First[m] <= First[m]
    BY <1>1, <1>5, <1>12
  <2> QED
    BY <2>1, MonthIs
<1> QED
  BY <1>2, <1>3, <1>9, <1>11, <1>12, <1>13

LEMMA NoRows == Sum(<<>>) = 0 /\ <<>> \in Seq(Rows) /\ DOMAIN <<>> = {}
<1>1. DOMAIN Costs(<<>>) = {}
  BY DEF Costs
<1> QED
  BY <1>1, SumEmpty DEF Sum, SumFunction

(* A request that begins has asked for what its reader wants, and has no   *)
(* rows yet.                                                               *)
LEMMA Began ==
  ASSUME NEW part \in Parts, NEW a \in Int, NEW b \in Int,
         today \in Days, source \in Sources, confirmed \in (today - MaxLag)..today,
         source' = source, today' = today, confirmed' = confirmed,
         job'.now = today,
         \/ part = "this"  /\ a = today - 7 /\ b = today
         \/ part = "prev"  /\ a = today - 14 /\ b = today - 8
         \/ part = "month" /\ a = MonthStart(today) /\ b = today,
         Begin(part, a, b)
  PROVE  /\ fetch' \in Fetches /\ fetch' # NoFetch
         /\ fetch'.part = part /\ fetch'.since = confirmed
         /\ PagesFit' /\ FetchInv'
<1>1. today \in 15..LastDay /\ LastDay \in Nat /\ confirmed \in Int /\ confirmed <= today
  BY TodayIs, ConstantsOK
<1>2. /\ MonthOf[today] \in MonthIds
      /\ First[MonthOf[today]] \in 1..today
      /\ MonthStart(today) = First[MonthOf[today]]
  BY TodayIs DEF MonthStart
<1>3. a \in 1..today /\ b \in 1..today /\ a <= b
  BY <1>1, <1>2
<1>4. PICK m : m = MonthOf[a]
  OBVIOUS
<1>5. First[m] \in 1..a /\ First[m + 1] - 1 \in a..LastDay
  BY <1>3, <1>4, MonthsBefore
<1>6. PICK at, end : /\ at = IF source = "aws-ce" THEN a ELSE First[m]
                     /\ end = IF source = "aws-ce" THEN b ELSE First[m + 1] - 1
  OBVIOUS
<1>7. fetch' = [part |-> part, since |-> confirmed, at |-> at, end |-> end, rows |-> <<>>]
  BY <1>4, <1>6 DEF Begin
<1>8. at \in 1..today /\ end \in 1..LastDay /\ at <= end
  BY <1>1, <1>3, <1>5, <1>6
<1>9. /\ fetch'.part = part /\ fetch'.since = confirmed /\ fetch'.at = at /\ fetch'.end = end
      /\ fetch'.rows = <<>>
  BY <1>7
<1>10. fetch' \in Fetches
  BY <1>1, <1>7, <1>8, NoRows DEF Fetches
<1>11. fetch' # NoFetch
  <2>1. NoFetch.part = "none" /\ part # "none"
    BY DEF NoFetch, Parts
  <2> QED
    BY <1>9, <2>1
<1>12. PagesFit'
  BY <1>9 DEF PagesFit
<1>13. FirstAsked' = a /\ LastAsked' = b
  <2>1. FirstAsked' = CASE part = "this"  -> today - 7
                        [] part = "prev"  -> today - 14
                        [] part = "month" -> MonthStart(today)
    BY <1>9 DEF FirstAsked
  <2>2. LastAsked' = IF part = "prev" THEN today - 8 ELSE today
    BY <1>9 DEF LastAsked
  <2> QED
    BY <2>1, <2>2
<1>14. source' = "aws-ce" => Complete(<<>>, a, at - 1, confirmed)
  BY <1>3, <1>6 DEF Complete
<1>15. ASSUME part = "month"
       PROVE  /\ Spent(MonthOf[today], Min({at - 1, confirmed})) <= Sum(<<>>)
              /\ Sum(<<>>) <= Spent(MonthOf[today], Min({at - 1, confirmed}))
  <2>1. a = First[MonthOf[today]] /\ MonthOf[a] = MonthOf[today]
    BY <1>2, <1>15, MonthsBefore
  <2>2. at = First[MonthOf[today]]
    BY <1>4, <1>6, <2>1
  <2>3. PICK to : to = Min({at - 1, confirmed})
    OBVIOUS
  <2>4. to \in Int /\ to < at /\ to <= LastDay
    BY <1>1, <1>8, <2>3, LessOf
  <2>5. Spent(MonthOf[today], to) = Between(at, to)
    BY <1>2, <2>2, <2>4, SpentIs
  <2>6. Between(at, to) = 0
    BY <1>8, <2>4, BetweenType
  <2> QED
    BY <2>3, <2>5, <2>6, NoRows
<1>16. /\ fetch'.end = IF source' = "aws-ce" THEN LastAsked' ELSE First[MonthOf[FirstAsked'] + 1] - 1
       /\ fetch'.at \in (IF source' = "aws-ce" THEN FirstAsked' ELSE MonthStart(FirstAsked'))..(fetch'.end + 1)
  BY <1>1, <1>4, <1>6, <1>8, <1>9, <1>13 DEF MonthStart
<1>17. FetchInv'
  <2>1. fetch'.since <= confirmed'
    BY <1>1, <1>9
  <2>2. source' = "aws-ce" => /\ \A i \in DOMAIN fetch'.rows : /\ Billed(fetch'.rows[i])
                                                            /\ fetch'.rows[i].day \in FirstAsked'..confirmed'
                             /\ Complete(fetch'.rows, FirstAsked', fetch'.at - 1, fetch'.since)
    BY <1>9, <1>13, <1>14, NoRows
  <2>3. fetch'.part = "month" =>
         /\ Spent(MonthOf[job'.now], Min({fetch'.at - 1, fetch'.since})) <= Sum(fetch'.rows)
         /\ Sum(fetch'.rows) <= Spent(MonthOf[job'.now], Min({fetch'.at - 1, confirmed'}))
    BY <1>9, <1>15
  <2> HIDE DEF Complete, Spent, Billed
  <2> QED
    BY <1>16, <2>1, <2>2, <2>3 DEF FetchInv
<1> QED
  BY <1>9, <1>10, <1>11, <1>12, <1>17

LEMMA DaysAre ==
  ASSUME TypeOK
  PROVE  /\ today \in Days /\ today \in 15..LastDay /\ LastDay \in Nat
         /\ confirmed \in Int /\ confirmed <= today
  BY TodayIs, ConstantsOK DEF TypeOK

LEMMA NothingsAre ==
  /\ \A j \in Jobs : j # NoJob
  /\ \A f \in Fetches : f # NoFetch
  BY DEF Jobs, Fetches, NoJob, NoFetch, Readers, Parts

LEMMA CostInit == Init => CostInv
<1> SUFFICES ASSUME Init PROVE CostInv
  OBVIOUS
<1>1. TypeOK
  BY DEF Init, TypeOK
<1>2. PagesFit /\ FetchInv /\ JobInv
  BY DEF Init, PagesFit, FetchInv, JobInv
<1>3. ProjectionIsReference
  BY DEF Init, ProjectionIsReference
<1>4. GrowthIsReal
  BY DEF Init, GrowthIsReal, NoReport
<1> QED
  BY <1>1, <1>2, <1>3, <1>4 DEF CostInv, IInv

(* What the month has cost so far does not get less.                       *)
LEMMA SpentGrows ==
  ASSUME NEW m \in MonthIds, NEW b \in Int, NEW c \in Int, b <= c, c <= LastDay
  PROVE  Spent(m, b) <= Spent(m, c)
<1>1. First[m] \in Int /\ 1 <= First[m] /\ LastDay \in Int /\ b <= LastDay
  BY FirstType, MonthsAre DEF LastDay
<1>2. Between(First[m], b) <= Between(First[m], c)
  BY <1>1, BetweenGrows
<1>3. Spent(m, b) = Between(First[m], b) /\ Spent(m, c) = Between(First[m], c)
  BY <1>1, SpentIs
<1> QED
  BY <1>2, <1>3

LEMMA ConfirmKeeps == IInv /\ Confirm => IInv'
<1> SUFFICES ASSUME IInv, Confirm PROVE IInv'
  OBVIOUS
<1>1. /\ TypeOK /\ PagesFit /\ FetchInv /\ JobInv
      /\ confirmed < today /\ confirmed' = confirmed + 1
      /\ source' = source /\ today' = today /\ job' = job /\ fetch' = fetch
      /\ report' = report /\ faults' = faults
  BY DEF IInv, Confirm
<1>2. /\ today \in Days /\ today \in 15..LastDay /\ LastDay \in Nat
      /\ confirmed \in Int /\ confirmed <= today
  BY <1>1, DaysAre
<1>3. TypeOK'
  <2>1. confirmed + 1 \in (today - MaxLag)..today
    BY <1>1, <1>2, ConstantsOK DEF TypeOK
  <2> QED
    BY <1>1, <2>1 DEF TypeOK
<1>4. PagesFit' /\ JobInv'
  <2>1. PagesFit'
    BY <1>1 DEF PagesFit
  <2>2. JobInv'
    BY <1>1 DEF JobInv
  <2> QED
    BY <2>1, <2>2
<1>5. FirstAsked' = FirstAsked /\ LastAsked' = LastAsked
  BY <1>1 DEF FirstAsked, LastAsked
<1>6. ASSUME fetch # NoFetch PROVE FetchInv'
  <2>1. fetch \in Fetches /\ job \in Jobs /\ job.now = today
    BY <1>1, <1>6 DEF TypeOK
  <2>2. fetch.at \in Int /\ fetch.since \in Int /\ fetch.at - 1 <= LastDay /\ fetch.rows \in Seq(Rows)
    BY <1>2, <2>1 DEF Fetches
  <2>3. fetch.since <= confirmed + 1
    BY <1>1, <1>2, <1>6, <2>2 DEF FetchInv
  <2>4. ASSUME source = "aws-ce", NEW i \in DOMAIN fetch.rows
        PROVE  Billed(fetch.rows[i]) /\ fetch.rows[i].day \in FirstAsked..(confirmed + 1)
    <3>1. Billed(fetch.rows[i]) /\ fetch.rows[i].day \in FirstAsked..confirmed
      BY <1>1, <1>6, <2>4 DEF FetchInv
    <3>2. FirstAsked \in Int
      BY <1>2, <2>1, TodayIs DEF FirstAsked, MonthStart, Fetches, Parts
    <3> QED
      BY <1>2, <3>1, <3>2
  <2>5. ASSUME fetch.part = "month"
        PROVE  Sum(fetch.rows) <= Spent(MonthOf[job.now], Min({fetch.at - 1, confirmed + 1}))
    <3>1. Sum(fetch.rows) <= Spent(MonthOf[job.now], Min({fetch.at - 1, confirmed}))
      BY <1>1, <1>6, <2>5 DEF FetchInv
    <3>2. PICK b, c : b = Min({fetch.at - 1, confirmed}) /\ c = Min({fetch.at - 1, confirmed + 1})
      OBVIOUS
    <3>3. b \in Int /\ c \in Int /\ b <= c /\ c <= LastDay
      BY <1>2, <2>2, <3>2, LessOf
    <3>4. MonthOf[job.now] \in MonthIds
      BY <1>2, <2>1, TodayIs
    <3>5. Spent(MonthOf[job.now], b) <= Spent(MonthOf[job.now], c)
      BY <3>3, <3>4, SpentGrows
    <3>6. /\ Spent(MonthOf[job.now], b) \in Int /\ Spent(MonthOf[job.now], c) \in Int
          /\ Sum(fetch.rows) \in Int
      <4>1. First[MonthOf[job.now]] \in Int /\ 1 <= First[MonthOf[job.now]] /\ b <= LastDay
        BY <1>2, <3>3, <3>4, FirstType
      <4>2. \A x \in {b, c} : /\ Spent(MonthOf[job.now], x) = Between(First[MonthOf[job.now]], x)
                              /\ Between(First[MonthOf[job.now]], x) \in Nat
        BY <3>3, <3>4, <4>1, SpentIs, BetweenType
      <4> QED
        BY <2>2, <4>2, SumOfRows
    <3> QED
      BY <3>1, <3>2, <3>5, <3>6
  <2> HIDE DEF Billed, Complete, Spent
  <2> QED
    BY <1>1, <1>5, <2>3, <2>4, <2>5 DEF FetchInv, Complete
<1>7. fetch = NoFetch => FetchInv'
  BY <1>1 DEF FetchInv
<1> QED
  BY <1>3, <1>4, <1>6, <1>7 DEF IInv

LEMMA SpentType ==
  ASSUME NEW m \in MonthIds, NEW to \in Int, to <= LastDay
  PROVE  Spent(m, to) \in Int
<1>1. First[m] \in Int /\ 1 <= First[m]
  BY FirstType
<1>2. Between(First[m], to) \in Nat
  BY <1>1, BetweenType
<1> QED
  BY <1>2, SpentIs

(* The bounds of the spend after a page.                                   *)
LEMMA PageSum ==
  ASSUME NEW m \in MonthIds, NEW at \in Int, First[m] <= at, NEW to \in Int, at <= to, to <= LastDay,
         NEW k \in Int, NEW c \in Int, k <= c,
         NEW sum \in Int, Spent(m, Min({at - 1, k})) <= sum, sum <= Spent(m, Min({at - 1, c}))
  PROVE  /\ Spent(m, Min({to, k})) <= sum + Between(at, Min({to, c}))
         /\ sum + Between(at, Min({to, c})) <= Spent(m, Min({to, c}))
<1> DEFINE a == First[m]
<1>1. a \in Int /\ 1 <= a /\ a <= at /\ LastDay \in Int
  BY FirstType, MonthsAre DEF LastDay
<1>2. \A x \in Int : x <= LastDay => Spent(m, x) = Between(a, x)
  BY SpentIs
<1> HIDE DEF a
<1>3. PICK k0, k1, c0, c1 : k0 = Min({at - 1, k}) /\ k1 = Min({to, k}) /\ c0 = Min({at - 1, c}) /\ c1 = Min({to, c})
  OBVIOUS
<1>4. /\ k0 = (IF at - 1 <= k THEN at - 1 ELSE k) /\ k1 = (IF to <= k THEN to ELSE k)
      /\ c0 = (IF at - 1 <= c THEN at - 1 ELSE c) /\ c1 = (IF to <= c THEN to ELSE c)
  BY <1>3, LessOf
<1>5. /\ k0 \in Int /\ k1 \in Int /\ c0 \in Int /\ c1 \in Int
      /\ k0 <= LastDay /\ k1 <= LastDay /\ c0 <= LastDay /\ c1 <= LastDay /\ k1 <= c1
  BY <1>1, <1>4
<1>6. Between(a, k0) <= sum /\ sum <= Between(a, c0)
  BY <1>2, <1>3, <1>5
<1>7. \A x \in {k0, k1, c0, c1} : Between(a, x) \in Nat /\ Between(at, x) \in Nat
  BY <1>1, <1>5, BetweenType
<1>8. sum + Between(at, c1) <= Between(a, c1)
  <2>1. CASE at - 1 <= c
    <3>1. (at - 1) + 1 = at /\ at - 1 \in Int /\ a - 1 <= at - 1 /\ at - 1 <= c1 /\ c0 = at - 1
      BY <1>1, <1>4, <2>1
    <3>2. Between(a, c1) = Between(a, at - 1) + Between((at - 1) + 1, c1)
      BY <1>1, <1>5, <3>1, BetweenSplit
    <3> QED
      BY <1>6, <1>7, <3>1, <3>2
  <2>2. CASE c < at - 1
    <3>1. c0 = c /\ c1 = c /\ c1 < at
      BY <1>4, <2>2
    <3>2. Between(at, c1) = 0
      BY <1>1, <1>5, <3>1, BetweenType
    <3> QED
      BY <1>6, <1>7, <3>1, <3>2
  <2> QED
    BY <2>1, <2>2
<1>9. Between(a, k1) <= sum + Between(at, c1)
  <2>1. CASE at - 1 <= k
    <3>1. (at - 1) + 1 = at /\ at - 1 \in Int /\ a - 1 <= at - 1 /\ at - 1 <= k1 /\ k0 = at - 1
      BY <1>1, <1>4, <2>1
    <3>2. Between(a, k1) = Between(a, at - 1) + Between((at - 1) + 1, k1)
      BY <1>1, <1>5, <3>1, BetweenSplit
    <3>3. Between(at, k1) <= Between(at, c1)
      BY <1>1, <1>5, BetweenGrows
    <3> QED
      BY <1>6, <1>7, <3>1, <3>2, <3>3
  <2>2. CASE k < at - 1
    <3>1. k0 = k /\ k1 = k
      BY <1>4, <2>2
    <3> QED
      BY <1>6, <1>7, <3>1
  <2> QED
    BY <2>1, <2>2
<1> QED
  BY <1>2, <1>3, <1>5, <1>8, <1>9

LEMMA PageKeeps == IInv /\ Page => IInv'
<1> SUFFICES ASSUME IInv, Page PROVE IInv'
  OBVIOUS
<1>1. PICK to : to = IF source = "aws-ce" THEN Min({fetch.end, fetch.at + PageDays - 1}) ELSE fetch.end
  OBVIOUS
<1>2. PICK new : new = RowsOf(fetch.at, to)
  OBVIOUS
<1>3. PICK y : y = IF source = "aws-ce" THEN new ELSE [i \in DOMAIN new |-> [new[i] EXCEPT !.service = NoName]]
  OBVIOUS
<1>4. /\ TypeOK /\ PagesFit /\ FetchInv /\ JobInv
      /\ fetch # NoFetch /\ fetch.at <= fetch.end
      /\ fetch' = [fetch EXCEPT !.at = to + 1, !.rows = @ \o y]
      /\ source' = source /\ today' = today /\ confirmed' = confirmed /\ job' = job
      /\ report' = report /\ faults' = faults
  BY <1>1, <1>2, <1>3 DEF IInv, Page
<1>5. /\ today \in Days /\ today \in 15..LastDay /\ LastDay \in Nat
      /\ confirmed \in Int /\ confirmed <= today
  BY <1>4, DaysAre
<1>6. fetch \in Fetches /\ job \in Jobs /\ job.now = today
  BY <1>4 DEF TypeOK
<1>7. PICK rows, at : rows = fetch.rows /\ at = fetch.at
  OBVIOUS
<1>8. /\ at \in Int /\ 1 <= at /\ fetch.end \in Int /\ fetch.end <= LastDay /\ at <= fetch.end
      /\ fetch.since \in Int /\ rows \in Seq(Rows) /\ fetch.part \in Parts
  BY <1>4, <1>5, <1>6, <1>7 DEF Fetches
<1>9. to \in Int /\ at <= to /\ to <= fetch.end /\ to <= LastDay
  <2>1. PageDays \in Int /\ PageDays >= 1
    BY ConstantsOK
  <2>2. Min({fetch.end, at + PageDays - 1}) = (IF fetch.end <= at + PageDays - 1 THEN fetch.end ELSE at + PageDays - 1)
    BY <1>8, <2>1, LessOf
  <2> QED
    BY <1>1, <1>5, <1>7, <1>8, <2>1, <2>2
<1>10. /\ new \in Seq(Rows)
       /\ \A i \in DOMAIN new : Billed(new[i]) /\ new[i].day \in at..to /\ new[i].day <= confirmed
       /\ Sorted(new) /\ Distinct(new)
       /\ \A k \in Int : k <= confirmed => Complete(new, at, to, k)
       /\ Sum(new) = Between(at, Min({to, confirmed}))
  <2>1. at - 1 <= to
    BY <1>8, <1>9
  <2> QED
    BY <1>2, <1>5, <1>7, <1>8, <1>9, <2>1, RowsOfIs
<1>11. /\ y \in Seq(Rows) /\ DOMAIN y = DOMAIN new
       /\ \A i \in DOMAIN new : y[i].day = new[i].day
       /\ Sum(y) = Sum(new)
       /\ source = "aws-ce" => y = new
  BY <1>3, <1>10, AnonymousIs
<1>12. (\A i \in DOMAIN y : y[i].day \in at..to) /\ Sorted(y)
  BY <1>10, <1>11 DEF Sorted
<1>13. \A i \in DOMAIN rows : rows[i].day < at /\ rows[i].day \in Int
  <2>1. \A r \in Rows : r.day \in Int
    BY DEF Rows
  <2> QED
    BY <1>4, <1>7, <1>8, <2>1 DEF PagesFit
<1>14. Sorted(rows) /\ (source = "aws-ce" => Distinct(rows))
  BY <1>4, <1>7 DEF PagesFit, Sorted, Distinct
<1>15. (\A i \in DOMAIN rows : rows[i].day <= at - 1) /\ (\A j \in DOMAIN y : at - 1 < y[j].day) /\ at - 1 \in Int
  BY <1>8, <1>12, <1>13
<1>16. PICK z : z = rows \o y
  OBVIOUS
<1>17. z \in Seq(Rows) /\ Sorted(z) /\ (source = "aws-ce" => Distinct(z))
  BY <1>8, <1>10, <1>11, <1>12, <1>14, <1>15, <1>16, Glue, Joined
<1>18. \A i \in DOMAIN z : (i \in DOMAIN rows /\ z[i] = rows[i]) \/ (\E j \in DOMAIN y : z[i] = y[j])
  BY <1>8, <1>11, <1>16, Joined
<1>19. /\ fetch' = [fetch EXCEPT !.at = to + 1, !.rows = z]
       /\ fetch'.part = fetch.part /\ fetch'.since = fetch.since /\ fetch'.at = to + 1
       /\ fetch'.end = fetch.end /\ fetch'.rows = z
  BY <1>4, <1>6, <1>7, <1>16 DEF Fetches
<1>20. fetch' \in Fetches /\ fetch' # NoFetch
  <2>1. to + 1 \in 1..(LastDay + 1)
    BY <1>5, <1>8, <1>9
  <2>2. fetch' \in Fetches
    BY <1>6, <1>17, <1>19, <2>1 DEF Fetches
  <2> QED
    BY <2>2, NothingsAre
<1>21. TypeOK'
  BY <1>4, <1>20 DEF TypeOK
<1>22. PagesFit'
  <2>1. \A i \in DOMAIN z : z[i].day < to + 1
    BY <1>8, <1>9, <1>12, <1>13, <1>18
  <2> QED
    BY <1>4, <1>17, <1>19, <2>1 DEF PagesFit, Sorted, Distinct
<1>23. FirstAsked' = FirstAsked /\ LastAsked' = LastAsked
  BY <1>4, <1>19 DEF FirstAsked, LastAsked
<1>24. JobInv'
  BY <1>4, <1>19 DEF JobInv
<1>25. FirstAsked \in 1..today
  <2>1. MonthStart(today) \in 1..today
    BY <1>5, TodayIs DEF MonthStart
  <2>2. FirstAsked = CASE fetch.part = "this"  -> today - 7
                       [] fetch.part = "prev"  -> today - 14
                       [] fetch.part = "month" -> MonthStart(today)
    BY <1>6 DEF FirstAsked
  <2> QED
    BY <1>5, <1>8, <2>1, <2>2 DEF Parts
<1>26. PICK start : start = IF source = "aws-ce" THEN FirstAsked ELSE MonthStart(FirstAsked)
  OBVIOUS
<1>27. start \in Int /\ start <= at /\ at \in start..(fetch.end + 1)
  <2>1. at \in start..(fetch.end + 1)
    BY <1>4, <1>7, <1>26 DEF FetchInv
  <2>2. MonthStart(FirstAsked) \in Int
    BY <1>5, <1>25, MonthsBefore DEF MonthStart
  <2> QED
    BY <1>8, <1>25, <1>26, <2>1, <2>2
<1>28. ASSUME source = "aws-ce"
       PROVE  /\ \A i \in DOMAIN z : Billed(z[i]) /\ z[i].day \in FirstAsked..confirmed
              /\ Complete(z, FirstAsked, to, fetch.since)
  <2>1. \A i \in DOMAIN rows : Billed(rows[i]) /\ rows[i].day \in FirstAsked..confirmed
    BY <1>4, <1>7, <1>28 DEF FetchInv
  <2>2. FirstAsked \in Int /\ FirstAsked <= at
    BY <1>25, <1>26, <1>27, <1>28
  <2>3. \A j \in DOMAIN y : Billed(y[j]) /\ y[j].day \in FirstAsked..confirmed
    BY <1>5, <1>8, <1>9, <1>10, <1>11, <1>28, <2>2
  <2>4. \A i \in DOMAIN z : Billed(z[i]) /\ z[i].day \in FirstAsked..confirmed
    BY <1>18, <2>1, <2>3
  <2>5. Complete(rows, FirstAsked, at - 1, fetch.since) /\ fetch.since <= confirmed
    BY <1>4, <1>7, <1>28 DEF FetchInv
  <2>6. Complete(y, (at - 1) + 1, to, fetch.since)
    <3>1. (at - 1) + 1 = at
      BY <1>8
    <3> QED
      BY <1>8, <1>10, <1>11, <1>28, <2>5, <3>1
  <2>7. Complete(rows \o y, FirstAsked, to, fetch.since)
    BY <1>8, <1>9, <1>11, <1>15, <2>2, <2>5, <2>6, GlueComplete
  <2> QED
    BY <1>16, <2>4, <2>7
<1>29. ASSUME fetch.part = "month"
       PROVE  /\ Spent(MonthOf[today], Min({to, fetch.since})) <= Sum(z)
              /\ Sum(z) <= Spent(MonthOf[today], Min({to, confirmed}))
  <2>1. /\ Spent(MonthOf[today], Min({at - 1, fetch.since})) <= Sum(rows)
        /\ Sum(rows) <= Spent(MonthOf[today], Min({at - 1, confirmed}))
        /\ fetch.since <= confirmed
    BY <1>4, <1>6, <1>7, <1>29 DEF FetchInv
  <2>2. MonthOf[today] \in MonthIds /\ First[MonthOf[today]] \in 1..today
    BY <1>5, TodayIs
  <2>3. First[MonthOf[today]] <= at
    <3>1. FirstAsked = First[MonthOf[today]]
      BY <1>6, <1>29 DEF FirstAsked, MonthStart
    <3>2. MonthStart(FirstAsked) = First[MonthOf[today]]
      <4>1. today \in 1..today
        BY <1>5
      <4>2. MonthOf[First[MonthOf[today]]] = MonthOf[today]
        BY <1>5, <4>1, MonthsBefore
      <4> QED
        BY <3>1, <4>2 DEF MonthStart
    <3> QED
      BY <1>26, <1>27, <3>1, <3>2
  <2>4. Sum(rows) \in Int
    BY <1>8, SumOfRows
  <2>5. Sum(z) = Sum(rows) + Between(at, Min({to, confirmed}))
    BY <1>8, <1>10, <1>11, <1>16, SumJoined
  <2>6. PICK m, sum, k, c : m = MonthOf[today] /\ sum = Sum(rows) /\ k = fetch.since /\ c = confirmed
    OBVIOUS
  <2>7. m \in MonthIds /\ First[m] <= at /\ sum \in Int /\ k \in Int /\ c \in Int /\ k <= c
    BY <1>5, <1>8, <2>1, <2>2, <2>3, <2>4, <2>6
  <2>8. Spent(m, Min({at - 1, k})) <= sum /\ sum <= Spent(m, Min({at - 1, c}))
    BY <2>1, <2>6
  <2> HIDE DEF Spent
  <2>9. /\ Spent(m, Min({to, k})) <= sum + Between(at, Min({to, c}))
        /\ sum + Between(at, Min({to, c})) <= Spent(m, Min({to, c}))
    BY <1>8, <1>9, <2>7, <2>8, PageSum
  <2> QED
    BY <2>5, <2>6, <2>9
<1>30. (to + 1) - 1 = to /\ to + 1 \in start..(fetch.end + 1)
  BY <1>8, <1>9, <1>27
<1>31. fetch.since <= confirmed
  BY <1>4 DEF FetchInv
<1>32. fetch.end = IF source = "aws-ce" THEN LastAsked ELSE First[MonthOf[FirstAsked] + 1] - 1
  BY <1>4 DEF FetchInv
<1>33. FetchInv'
  <2> HIDE DEF Billed, Complete, Spent
  <2>1. MonthStart(FirstAsked)' = MonthStart(FirstAsked)
    BY <1>23 DEF MonthStart
  <2>2. (First[MonthOf[FirstAsked] + 1] - 1)' = First[MonthOf[FirstAsked] + 1] - 1
    BY <1>23
  <2>3. fetch'.since <= confirmed'
    BY <1>4, <1>19, <1>31
  <2>4. fetch'.end = IF source' = "aws-ce" THEN LastAsked' ELSE (First[MonthOf[FirstAsked] + 1] - 1)'
    BY <1>4, <1>19, <1>23, <1>32, <2>2
  <2>5. fetch'.at \in (IF source' = "aws-ce" THEN FirstAsked' ELSE MonthStart(FirstAsked)')..(fetch'.end + 1)
    BY <1>4, <1>19, <1>23, <1>26, <1>30, <2>1
  <2>6. source' = "aws-ce" =>
         /\ \A i \in DOMAIN fetch'.rows : /\ Billed(fetch'.rows[i])
                                         /\ fetch'.rows[i].day \in FirstAsked'..confirmed'
         /\ Complete(fetch'.rows, FirstAsked', fetch'.at - 1, fetch'.since)
    BY <1>4, <1>19, <1>23, <1>28, <1>30
  <2>7. fetch'.part = "month" =>
         /\ Spent(MonthOf[job'.now], Min({fetch'.at - 1, fetch'.since})) <= Sum(fetch'.rows)
         /\ Sum(fetch'.rows) <= Spent(MonthOf[job'.now], Min({fetch'.at - 1, confirmed'}))
    BY <1>4, <1>6, <1>19, <1>29, <1>30
  <2> QED
    BY <2>3, <2>4, <2>5, <2>6, <2>7 DEF FetchInv
<1> QED
  BY <1>21, <1>22, <1>24, <1>33 DEF IInv

LEMMA BeginsKeep == IInv /\ (CostJSON \/ WeeklyCost) => IInv'
<1> SUFFICES ASSUME IInv, CostJSON \/ WeeklyCost PROVE IInv'
  OBVIOUS
<1>1. /\ TypeOK
      /\ source' = source /\ today' = today /\ confirmed' = confirmed
      /\ report' = report /\ faults' = faults
  BY DEF IInv, CostJSON, WeeklyCost
<1>2. /\ today \in Days /\ today \in 15..LastDay /\ source \in Sources
      /\ confirmed \in (today - MaxLag)..today
  BY <1>1, DaysAre DEF TypeOK
<1>3. PICK reader \in Readers :
        job' = [reader |-> reader, now |-> today, this |-> <<>>, prev |-> <<>>, failed |-> {}]
  BY DEF CostJSON, WeeklyCost, Readers
<1>4. job'.now = today /\ job' \in Jobs /\ job' # NoJob
  <2>1. job' \in Jobs
    BY <1>2, <1>3, NoRows DEF Jobs
  <2> QED
    BY <1>3, <2>1, NothingsAre
<1>5. PICK part \in Parts, a \in Int, b \in Int :
        /\ \/ part = "this"  /\ a = today - 7 /\ b = today
           \/ part = "prev"  /\ a = today - 14 /\ b = today - 8
           \/ part = "month" /\ a = MonthStart(today) /\ b = today
        /\ Begin(part, a, b)
  <2>1. "this" \in Parts /\ "month" \in Parts
    BY DEF Parts
  <2>2. today \in Int /\ today - 7 \in Int /\ MonthStart(today) \in Int
    BY <1>2, TodayIs DEF MonthStart
  <2>3. Begin("month", MonthStart(today), today) \/ Begin("this", today - 7, today)
    BY DEF CostJSON, WeeklyCost
  <2> QED
    BY <2>1, <2>2, <2>3
<1>6. /\ fetch' \in Fetches /\ fetch' # NoFetch
      /\ PagesFit' /\ FetchInv'
  BY <1>1, <1>2, <1>4, <1>5, Began
<1>7. TypeOK'
  BY <1>1, <1>4, <1>6 DEF TypeOK
<1>8. JobInv'
  <2>1. DOMAIN job'.this = {} /\ DOMAIN job'.prev = {}
    BY <1>3, NoRows
  <2> QED
    BY <2>1 DEF JobInv
<1> QED
  BY <1>6, <1>7, <1>8 DEF IInv

LEMMA CompleteLess ==
  ASSUME NEW x, NEW a \in Int, NEW b \in Int, NEW k \in Int, NEW j \in Int, j <= k, Complete(x, a, b, k)
  PROVE  Complete(x, a, b, j)
<1>1. \A d \in a..b : d <= j => d <= k
  OBVIOUS
<1> QED
  BY <1>1 DEF Complete

(* What an answer or its failure leads to.                                 *)
LEMMA AnsweredKeeps ==
  ASSUME IInv, fetch # NoFetch, NEW rows, NEW failed, Answered(rows, failed),
         \/ fetch.at > fetch.end /\ rows = fetch.rows /\ failed = job.failed
         \/ rows = <<>> /\ failed = job.failed \cup {fetch.part} /\ fetch.part # "this",
         source' = source, today' = today, confirmed' = confirmed, faults' \in Nat
  PROVE  IInv'
<1>1. TypeOK /\ PagesFit /\ FetchInv /\ JobInv
  BY DEF IInv
<1>2. /\ today \in Days /\ today \in 15..LastDay /\ LastDay \in Nat /\ source \in Sources
      /\ confirmed \in Int /\ confirmed <= today /\ confirmed \in (today - MaxLag)..today
  BY <1>1, DaysAre DEF TypeOK
<1>3. fetch \in Fetches /\ job \in Jobs /\ job # NoJob /\ job.now = today
  BY <1>1 DEF TypeOK
<1>4. /\ fetch.at \in Int /\ fetch.end \in Int /\ fetch.since \in Int /\ fetch.rows \in Seq(Rows)
      /\ fetch.part \in Parts
  BY <1>2, <1>3 DEF Fetches
<1>5. rows \in Seq(Rows) /\ failed \in SUBSET Parts
  BY <1>3, <1>4, NoRows DEF Jobs
<1>6. ASSUME source = "aws-ce" PROVE fetch.end = LastAsked /\ fetch.since <= confirmed /\ FirstAsked \in Int /\ LastAsked \in Int
  <2>1. FirstAsked \in Int /\ LastAsked \in Int
    BY <1>2, <1>3, <1>4, TodayIs DEF FirstAsked, LastAsked, MonthStart, Parts
  <2> QED
    BY <1>1, <1>6, <2>1 DEF FetchInv
<1>7. ASSUME source = "aws-ce", NEW i \in DOMAIN rows
      PROVE  Billed(rows[i]) /\ rows[i].day \in FirstAsked..LastAsked /\ rows[i].day <= confirmed
  <2>1. rows = fetch.rows /\ fetch.at > fetch.end
    BY <1>7, NoRows
  <2>2. Billed(rows[i]) /\ rows[i].day \in FirstAsked..confirmed
    BY <1>1, <1>7, <2>1 DEF FetchInv
  <2>3. rows[i].day < fetch.at
    BY <1>1, <1>7, <2>1 DEF PagesFit
  <2>4. fetch.at <= LastAsked + 1
    BY <1>1, <1>2, <1>4, <1>6, <1>7 DEF FetchInv
  <2> QED
    BY <1>2, <1>4, <1>6, <1>7, <2>2, <2>3, <2>4
<1>8. CASE fetch.part = "this"
  <2>1. job' = [job EXCEPT !.this = rows] /\ Begin("prev", job.now - 14, job.now - 8) /\ report' = report
    BY <1>8 DEF Answered
  <2>2. /\ job' \in Jobs /\ job' # NoJob /\ job'.now = today
        /\ job'.this = rows /\ job'.prev = job.prev /\ job'.failed = job.failed
    <3>1. job' \in Jobs
      BY <1>3, <1>5, <2>1 DEF Jobs
    <3> QED
      BY <1>3, <2>1, <3>1, NothingsAre DEF Jobs
  <2>3. /\ fetch' \in Fetches /\ fetch' # NoFetch
        /\ fetch'.part = "prev" /\ fetch'.since = confirmed
        /\ PagesFit' /\ FetchInv'
    <3>1. "prev" \in Parts /\ today - 14 \in Int /\ today - 8 \in Int
      BY <1>2 DEF Parts
    <3>2. Begin("prev", today - 14, today - 8)
      BY <1>3, <2>1
    <3> QED
      BY <1>2, <2>2, <3>1, <3>2, Began
  <2>4. TypeOK'
    BY <1>1, <2>1, <2>2, <2>3 DEF TypeOK
  <2>5. ASSUME source = "aws-ce", NEW i \in DOMAIN rows
        PROVE  Billed(rows[i]) /\ rows[i].day \in (today - 7)..today /\ rows[i].day <= confirmed
    <3>1. FirstAsked = today - 7 /\ LastAsked = today
      BY <1>3, <1>8 DEF FirstAsked, LastAsked
    <3> QED
      BY <1>7, <2>5, <3>1
  <2>6. source = "aws-ce" =>
          \A i \in DOMAIN job.prev : Billed(job.prev[i]) /\ job.prev[i].day \in (today - 14)..(today - 8)
    BY <1>1, <1>3 DEF JobInv
  <2>7. JobInv'
    BY <2>2, <2>3, <2>5, <2>6 DEF JobInv
  <2> QED
    BY <2>3, <2>4, <2>7 DEF IInv
<1>9. CASE fetch.part = "prev"
  <2>1. /\ job' = [job EXCEPT !.prev = rows, !.failed = failed]
        /\ Begin("month", MonthStart(job.now), job.now) /\ report' = report
    BY <1>9 DEF Answered
  <2>2. /\ job' \in Jobs /\ job' # NoJob /\ job'.now = today
        /\ job'.this = job.this /\ job'.prev = rows /\ job'.failed = failed
    <3>1. job' \in Jobs
      BY <1>3, <1>5, <2>1 DEF Jobs
    <3> QED
      BY <1>3, <2>1, <3>1, NothingsAre DEF Jobs
  <2>3. /\ fetch' \in Fetches /\ fetch' # NoFetch
        /\ fetch'.part = "month"
        /\ PagesFit' /\ FetchInv'
    <3>1. "month" \in Parts /\ today \in Int /\ MonthStart(today) \in Int
      BY <1>2, TodayIs DEF Parts, MonthStart
    <3>2. Begin("month", MonthStart(today), today)
      BY <1>3, <2>1
    <3> QED
      BY <1>2, <2>2, <3>1, <3>2, Began
  <2>4. TypeOK'
    BY <1>1, <2>1, <2>2, <2>3 DEF TypeOK
  <2>5. ASSUME source = "aws-ce", NEW i \in DOMAIN rows
        PROVE  Billed(rows[i]) /\ rows[i].day \in (today - 14)..(today - 8)
    <3>1. FirstAsked = today - 14 /\ LastAsked = today - 8
      BY <1>3, <1>9 DEF FirstAsked, LastAsked
    <3> QED
      BY <1>7, <2>5, <3>1
  <2>6. ASSUME source = "aws-ce", NEW i \in DOMAIN job.this
        PROVE  /\ Billed(job.this[i]) /\ job.this[i].day \in (today - 7)..today
               /\ "prev" \notin failed => Complete(rows, today - 14, today - 8, job.this[i].day)
    <3>1. /\ Billed(job.this[i]) /\ job.this[i].day \in (today - 7)..today
          /\ job.this[i].day <= fetch.since
      BY <1>1, <1>3, <1>9, <2>6 DEF JobInv
    <3>2. ASSUME "prev" \notin failed PROVE Complete(rows, today - 14, today - 8, job.this[i].day)
      <4>1. rows = fetch.rows /\ fetch.at > fetch.end
        BY <1>9, <3>2
      <4>2. FirstAsked = today - 14 /\ LastAsked = today - 8
        BY <1>3, <1>9 DEF FirstAsked, LastAsked
      <4>3. fetch.at \in FirstAsked..(fetch.end + 1)
        BY <1>1, <2>6 DEF FetchInv
      <4>4. fetch.at - 1 = today - 8
        BY <1>2, <1>4, <1>6, <2>6, <4>1, <4>2, <4>3
      <4>5. Complete(rows, FirstAsked, fetch.at - 1, fetch.since)
        BY <1>1, <2>6, <4>1 DEF FetchInv
      <4>6. Complete(rows, today - 14, today - 8, fetch.since)
        BY <4>2, <4>4, <4>5
      <4>7. today - 14 \in Int /\ today - 8 \in Int /\ job.this[i].day \in Int
        BY <1>2, <3>1
      <4> QED
        BY <1>4, <3>1, <4>6, <4>7, CompleteLess
    <3> QED
      BY <3>1, <3>2
  <2>7. JobInv'
    <3> HIDE DEF Billed, Complete
    <3> QED
      BY <2>2, <2>3, <2>5, <2>6 DEF JobInv
  <2> QED
    BY <2>3, <2>4, <2>7 DEF IInv
<1>10. CASE fetch.part = "month"
  <2>1. Conclude(rows, failed)
    BY <1>10 DEF Answered
  <2>2. job' = NoJob /\ fetch' = NoFetch /\ report'.reader = job.reader
    BY <2>1 DEF Conclude
  <2>3. TypeOK'
    BY <1>1, <1>3, <2>2 DEF TypeOK, Jobs
  <2>4. PagesFit' /\ FetchInv' /\ JobInv'
    BY <2>2 DEF PagesFit, FetchInv, JobInv
  <2> QED
    BY <2>3, <2>4 DEF IInv
<1> QED
  BY <1>4, <1>8, <1>9, <1>10 DEF Parts

-----------------------------------------------------------------------------
(* What a report says.                                                     *)

(* The products behind the comparison of two averages.                     *)
LEMMA Products ==
  ASSUME NEW a \in Int, NEW b \in Int, NEW M \in Int, NEW n \in Nat \ {0}, NEW k \in Nat \ {0},
         a <= M * n, M * k <= b
  PROVE  a * k <= b * n
<1>1. a * k <= (M * n) * k
  OBVIOUS
<1>2. (M * k) * n <= b * n
  OBVIOUS
<1>3. (M * n) * k = (M * k) * n
  OBVIOUS
<1> QED
  BY <1>1, <1>2, <1>3

(* The average of the rows of a service, between bounds.                   *)
LEMMA OfIs ==
  ASSUME NEW x \in Seq(Rows), NEW s
  PROVE  /\ IsFiniteSet(Of(x, s)) /\ Cardinality(Of(x, s)) \in Nat /\ SumOf(x, s) \in Int
         /\ Of(x, s) # {} => Cardinality(Of(x, s)) # 0
         /\ \A hi \in Int : (\A i \in Of(x, s) : x[i].cost <= hi) => SumOf(x, s) <= hi * Cardinality(Of(x, s))
         /\ \A lo \in Int : (\A i \in Of(x, s) : lo <= x[i].cost) => lo * Cardinality(Of(x, s)) <= SumOf(x, s)
<1> DEFINE S == Of(x, s)
<1>1. S \subseteq DOMAIN x
  BY DEF Of
<1>2. IsFiniteSet(S) /\ Cardinality(S) \in Nat /\ (S # {} => Cardinality(S) # 0)
  <2> HIDE DEF S
  <2>1. IsFiniteSet(S)
    BY <1>1, SumOfRows, FS_Subset
  <2> QED
    BY <2>1, FS_CardinalityType, FS_EmptySet
<1>3. \A i \in S : Costs(x)[i] = x[i].cost /\ Costs(x)[i] \in Int
  <2>1. \A i \in DOMAIN x : Costs(x)[i] = x[i].cost
    BY DEF Costs
  <2> QED
    BY <1>1, <2>1, SumOfRows
<1>4. SumOf(x, s) = SumFunctionOnSet(Costs(x), S)
  BY DEF SumOf
<1> HIDE DEF S
<1>5. SumOf(x, s) \in Int
  BY <1>2, <1>3, <1>4, SumType
<1>6. ASSUME NEW hi \in Int, \A i \in S : x[i].cost <= hi
      PROVE  SumOf(x, s) <= hi * Cardinality(S)
  BY <1>2, <1>3, <1>4, <1>6, SumAtMost
<1>7. ASSUME NEW lo \in Int, \A i \in S : lo <= x[i].cost
      PROVE  lo * Cardinality(S) <= SumOf(x, s)
  BY <1>2, <1>3, <1>4, <1>7, SumAtLeast
<1> QED
  BY <1>2, <1>5, <1>6, <1>7 DEF S

(* An average above an average: some day above some day.                   *)
LEMMA GrowingIs ==
  ASSUME NEW now \in Days, NEW this \in Seq(Rows), NEW prev \in Seq(Rows),
         \A i \in DOMAIN prev : Billed(prev[i]) /\ prev[i].day \in (now - 14)..(now - 8),
         \A i \in DOMAIN this : /\ Billed(this[i]) /\ this[i].day \in (now - 7)..now
                               /\ Complete(prev, now - 14, now - 8, this[i].day),
         NEW s \in Growing(this, prev)
  PROVE  \E d \in (now - 7)..now, e \in (now - 14)..(now - 8) : Charge(d, s) > Charge(e, s)
<1> DEFINE W == (now - 7)..now
           P == (now - 14)..(now - 8)
<1>1. now \in 15..LastDay /\ LastDay \in Nat
  BY TodayIs
<1>2. W \subseteq 1..LastDay /\ P \subseteq 1..LastDay /\ now - 8 \in P /\ IsFiniteSet(P)
  <2>1. W \subseteq 1..LastDay /\ P \subseteq 1..LastDay /\ now - 8 \in P
    BY <1>1
  <2>2. IsFiniteSet(P)
    BY <1>1, FS_Interval
  <2> QED
    BY <2>1, <2>2
<1>3. PICK t \in DOMAIN this : this[t].service = s
  BY DEF Growing, Named
<1>4. s \in Services
  BY <1>3 DEF Billed
<1>5. \A d \in 1..LastDay : Charge(d, s) \in Nat
  BY <1>4, ConstantsOK
<1>6. SUFFICES ASSUME \A d \in W, e \in P : Charge(d, s) <= Charge(e, s) PROVE FALSE
  <2>1. \A d \in W, e \in P : Charge(d, s) \in Int /\ Charge(e, s) \in Int
    BY <1>2, <1>5
  <2> QED
    BY <1>6, <2>1
<1>7. PICK A, B : A = Of(this, s) /\ B = Of(prev, s)
  OBVIOUS
<1>8. A # {} /\ (\A i \in A : this[i].cost = Charge(this[i].day, s) /\ this[i].day \in W)
  BY <1>3, <1>7 DEF Of, Billed
<1>9. \A i \in B : prev[i].cost = Charge(prev[i].day, s) /\ prev[i].day \in P
  BY <1>7 DEF Of, Billed
<1>10. /\ Cardinality(A) \in Nat \ {0} /\ SumOf(this, s) \in Int
       /\ \A hi \in Int : (\A i \in A : this[i].cost <= hi) => SumOf(this, s) <= hi * Cardinality(A)
  BY <1>7, <1>8, OfIs
<1>11. /\ Cardinality(B) \in Nat /\ SumOf(prev, s) \in Int /\ (B # {} => Cardinality(B) # 0)
       /\ \A lo \in Int : (\A i \in B : lo <= prev[i].cost) => lo * Cardinality(B) <= SumOf(prev, s)
  BY <1>7, OfIs
<1>12. Daily(this, s) = [num |-> SumOf(this, s), den |-> Cardinality(A)]
  BY <1>7, <1>8 DEF Daily
<1>13. More(Daily(this, s), Daily(prev, s))
  BY DEF Growing
<1>14. CASE B = {}
  <2>1. this[t].day \in W /\ Charge(this[t].day, s) > 0 /\ Complete(prev, now - 14, now - 8, this[t].day)
    BY <1>3 DEF Billed
  <2>2. Charge(this[t].day, s) <= Charge(now - 8, s)
    BY <1>2, <1>6, <2>1
  <2>3. Charge(now - 8, s) > 0
    BY <1>2, <1>5, <2>1, <2>2
  <2>4. now - 8 <= this[t].day
    BY <1>1, <2>1
  <2>5. \E i \in DOMAIN prev : prev[i].day = now - 8 /\ prev[i].service = s
    BY <1>2, <1>4, <2>1, <2>3, <2>4 DEF Complete
  <2> QED
    BY <1>7, <1>14, <2>5 DEF Of
<1>15. CASE B # {}
  <2> DEFINE cost == [e \in P |-> Charge(e, s)]
             all == {cost[e] : e \in P}
  <2>1. cost \in [P -> Int]
    BY <1>2, <1>5
  <2>2. IsFiniteSet(all) /\ all \in SUBSET Int /\ all # {}
    <3>1. IsFiniteSet({cost[e] : e \in P}) /\ {cost[e] : e \in P} \in SUBSET Int
      <4> HIDE DEF cost, P
      <4> QED
        BY <1>2, <2>1, FiniteImage
    <3> QED
      BY <1>2, <3>1
  <2>3. PICK M \in all : \A c \in all : M <= c
    <3> HIDE DEF all
    <3> QED
      BY <2>2, Extremes
  <2>4. PICK m \in P : M = Charge(m, s)
    BY <2>3
  <2>5. M \in Int /\ \A e \in P : M <= Charge(e, s)
    BY <2>2, <2>3
  <2>6. \A i \in A : this[i].cost <= M
    BY <1>6, <1>8, <2>4
  <2>7. \A i \in B : M <= prev[i].cost
    BY <1>9, <2>5
  <2>8. SumOf(this, s) <= M * Cardinality(A) /\ M * Cardinality(B) <= SumOf(prev, s)
    BY <1>10, <1>11, <2>5, <2>6, <2>7
  <2>9. SumOf(this, s) * Cardinality(B) <= SumOf(prev, s) * Cardinality(A)
    BY <1>10, <1>11, <1>15, <2>5, <2>8, Products
  <2>10. Daily(prev, s) = [num |-> SumOf(prev, s), den |-> Cardinality(B)]
    BY <1>7, <1>15 DEF Daily
  <2>11. SumOf(this, s) * Cardinality(B) > SumOf(prev, s) * Cardinality(A)
    BY <1>12, <1>13, <2>10 DEF More
  <2>12. PICK u, v : u = SumOf(this, s) * Cardinality(B) /\ v = SumOf(prev, s) * Cardinality(A)
    OBVIOUS
  <2>13. u \in Int /\ v \in Int
    BY <1>10, <1>11, <2>12
  <2> QED
    BY <2>9, <2>11, <2>12, <2>13
<1> QED
  BY <1>14, <1>15

(* The report of a step that asks for more is the old one; a new one comes *)
(* from the last answer.                                                   *)
LEMMA ReportIs ==
  ASSUME IInv, ProjectionIsReference, GrowthIsReal,
         fetch # NoFetch, NEW rows, NEW failed, Answered(rows, failed),
         \/ fetch.at > fetch.end /\ rows = fetch.rows /\ failed = job.failed
         \/ rows = <<>> /\ failed = job.failed \cup {fetch.part} /\ fetch.part # "this",
         source' = source
  PROVE  ProjectionIsReference' /\ GrowthIsReal'
<1>1. TypeOK /\ PagesFit /\ FetchInv /\ JobInv
  BY DEF IInv
<1>2. /\ today \in Days /\ today \in 15..LastDay /\ LastDay \in Nat
      /\ confirmed \in Int /\ confirmed <= today
  BY <1>1, DaysAre
<1>3. fetch \in Fetches /\ job \in Jobs /\ job # NoJob /\ job.now = today
  BY <1>1 DEF TypeOK
<1>4. /\ fetch.at \in Int /\ fetch.end \in Int /\ fetch.since \in Int /\ fetch.rows \in Seq(Rows)
      /\ fetch.part \in Parts
  BY <1>2, <1>3 DEF Fetches
<1>5. CASE fetch.part \in {"this", "prev"}
  <2>1. report' = report
    BY <1>5 DEF Answered
  <2> QED
    BY <2>1 DEF ProjectionIsReference, GrowthIsReal
<1>6. CASE fetch.part = "month"
  <2>1. report' = [reader |-> job.reader, now |-> today, eom |-> ProjectEOM(rows, today),
                   growing |-> Growing(job.this, job.prev), failed |-> failed,
                   since |-> fetch.since, until |-> confirmed]
    BY <1>3, <1>6 DEF Answered, Conclude
  <2>2. /\ report'.reader = job.reader /\ report'.now = today /\ report'.eom = ProjectEOM(rows, today)
        /\ report'.growing = Growing(job.this, job.prev) /\ report'.failed = failed
        /\ report'.since = fetch.since /\ report'.until = confirmed
    BY <2>1
  <2> DEFINE m == MonthOf[today]
  <2>3. /\ m \in MonthIds /\ First[m] \in 1..today
        /\ First[m + 1] = First[m] + Months[m] /\ First[m + 1] \in (today + 1)..LastDay
        /\ DayOf(today) \in 1..31 /\ DayOf(today) = today - First[m] + 1
        /\ DayOf(today) <= Months[m + 1] => DaysInMonth(today) = Months[m]
        /\ Months[m] \in Nat
    BY <1>2, TodayIs, MonthsAre DEF DayOf
  <2> HIDE DEF m
  <2>4. ProjectEOM(rows, today).mtd = Sum(rows)
    BY DEF ProjectEOM
  <2>5. ASSUME "month" \notin failed
        PROVE  /\ Spent(m, fetch.since) <= Sum(rows) /\ Sum(rows) <= Spent(m, confirmed)
               /\ Sum(rows) \in Int
    <3>1. rows = fetch.rows /\ fetch.at > fetch.end
      BY <1>6, <2>5
    <3>2. /\ Spent(m, Min({fetch.at - 1, fetch.since})) <= Sum(rows)
          /\ Sum(rows) <= Spent(m, Min({fetch.at - 1, confirmed}))
          /\ fetch.since <= confirmed
      BY <1>1, <1>3, <1>6, <3>1 DEF FetchInv, m
    <3>3. fetch.end >= today
      <4>1. FirstAsked = First[m] /\ LastAsked = today
        BY <1>3, <1>6 DEF FirstAsked, LastAsked, MonthStart, m
      <4>2. MonthOf[First[m]] = m
        <5>1. today \in 1..today
          BY <1>2
        <5> QED
          BY <1>2, <5>1, MonthsBefore DEF m
      <4>3. fetch.end = today \/ fetch.end = First[m + 1] - 1
        BY <1>1, <4>1, <4>2 DEF FetchInv
      <4> QED
        BY <1>2, <2>3, <4>3
    <3>4. Min({fetch.at - 1, fetch.since}) = fetch.since /\ Min({fetch.at - 1, confirmed}) = confirmed
      <4>1. fetch.at - 1 \in Int /\ fetch.since <= fetch.at - 1 /\ confirmed <= fetch.at - 1
        BY <1>2, <1>4, <3>1, <3>2, <3>3
      <4>2. ~ (fetch.at - 1 <= fetch.since) \/ fetch.at - 1 = fetch.since
        BY <1>4, <4>1
      <4>3. ~ (fetch.at - 1 <= confirmed) \/ fetch.at - 1 = confirmed
        BY <1>2, <4>1
      <4> QED
        BY <1>2, <1>4, <4>1, <4>2, <4>3, LessOf
    <3> QED
      BY <1>4, <3>1, <3>2, <3>4, SumOfRows
  <2>6. ASSUME Sum(rows) \in Int, DayOf(today) <= Months[m + 1]
        PROVE  ProjectEOM(rows, today).conservative = [num |-> Sum(rows) * Months[m], den |-> DayOf(today)]
    <3>1. PICK mtd, day, left : /\ mtd = Sum(rows) /\ day = DayOf(today)
                               /\ left = Max({0, DaysInMonth(today) - day})
      OBVIOUS
    <3>2. ProjectEOM(rows, today).conservative = [num |-> mtd * day + mtd * left, den |-> day]
      BY <3>1 DEF ProjectEOM
    <3>3. day \in Int /\ day <= Months[m] /\ DaysInMonth(today) = Months[m]
      BY <1>2, <2>3, <2>6, <3>1
    <3>4. left = Months[m] - day
      <4>1. Months[m] - day \in Int /\ Months[m] - day >= 0
        BY <2>3, <3>3
      <4>2. Max({0, Months[m] - day}) = (IF 0 >= Months[m] - day THEN 0 ELSE Months[m] - day)
        BY <4>1, MoreOf
      <4> QED
        BY <3>1, <3>3, <4>1, <4>2
    <3>5. mtd * day + mtd * left = mtd * Months[m]
      <4>1. \A x, a, b \in Int : x * a + x * (b - a) = x * b
        OBVIOUS
      <4> QED
        BY <2>3, <2>6, <3>1, <3>3, <3>4, <4>1
    <3> QED
      BY <3>1, <3>2, <3>5
  <2>7. ProjectionIsReference'
    <3> HIDE DEF Spent, DayOf
    <3>1. report'.eom.mtd = Sum(rows)
      BY <2>2, <2>4
    <3>2. SUFFICES ASSUME "month" \notin report'.failed
                   PROVE  LET n == MonthOf[report'.now] IN
                          /\ Spent(n, report'.since) <= report'.eom.mtd /\ report'.eom.mtd <= Spent(n, report'.until)
                          /\ DayOf(report'.now) <= Months[n + 1] =>
                               report'.eom.conservative = [num |-> report'.eom.mtd * Months[n], den |-> DayOf(report'.now)]
      BY DEF ProjectionIsReference
    <3>3. "month" \notin failed
      BY <2>2, <3>2
    <3> QED
      BY <2>2, <2>5, <2>6, <3>1, <3>3 DEF m
  <2>8. GrowthIsReal'
    <3> SUFFICES ASSUME "prev" \notin failed, source = "aws-ce", NEW s \in Growing(job.this, job.prev)
                 PROVE  \E d \in (today - 7)..today, e \in (today - 14)..(today - 8) : Charge(d, s) > Charge(e, s)
      BY <2>2 DEF GrowthIsReal
    <3>1. "prev" \notin job.failed
      OBVIOUS
    <3>2. job.this \in Seq(Rows) /\ job.prev \in Seq(Rows)
      BY <1>3 DEF Jobs
    <3>3. \A i \in DOMAIN job.prev : Billed(job.prev[i]) /\ job.prev[i].day \in (today - 14)..(today - 8)
      BY <1>1, <1>3 DEF JobInv
    <3>4. \A i \in DOMAIN job.this : /\ Billed(job.this[i]) /\ job.this[i].day \in (today - 7)..today
                                    /\ Complete(job.prev, today - 14, today - 8, job.this[i].day)
      <4> HIDE DEF Billed, Complete
      <4> QED
        BY <1>1, <1>3, <1>6, <3>1 DEF JobInv
    <3> HIDE DEF Growing, Complete, Billed
    <3> QED
      BY <1>2, <3>2, <3>3, <3>4, GrowingIs
  <2> QED
    BY <2>7, <2>8
<1> QED
  BY <1>4, <1>5, <1>6 DEF Parts

LEMMA CostStep == CostInv /\ [Next]_vars => CostInv'
<1> SUFFICES ASSUME CostInv, [Next]_vars PROVE CostInv'
  OBVIOUS
<1>1. IInv /\ ProjectionIsReference /\ GrowthIsReal
  BY DEF CostInv
<1>2. ASSUME source' = source, report' \in {report, NoReport}
      PROVE  ProjectionIsReference' /\ GrowthIsReal'
  BY <1>1, <1>2 DEF ProjectionIsReference, GrowthIsReal, NoReport
<1>3. CASE Confirm
  <2>1. source' = source /\ report' = report
    BY <1>3 DEF Confirm
  <2> QED
    BY <1>1, <1>2, <1>3, <2>1, ConfirmKeeps DEF CostInv
<1>4. CASE CostJSON \/ WeeklyCost
  <2>1. source' = source /\ report' = report
    BY <1>4 DEF CostJSON, WeeklyCost
  <2> QED
    BY <1>1, <1>2, <1>4, <2>1, BeginsKeep DEF CostInv
<1>5. CASE Page
  <2>1. source' = source /\ report' = report
    BY <1>5 DEF Page
  <2> QED
    BY <1>1, <1>2, <1>5, <2>1, PageKeeps DEF CostInv
<1>6. CASE LastPage
  <2>1. /\ fetch # NoFetch /\ fetch.at > fetch.end /\ Answered(fetch.rows, job.failed)
        /\ source' = source /\ today' = today /\ confirmed' = confirmed /\ faults' = faults
    BY <1>6 DEF LastPage
  <2>2. faults' \in Nat
    BY <1>1, <2>1 DEF IInv, TypeOK
  <2>3. IInv'
    BY <1>1, <2>1, <2>2, AnsweredKeeps
  <2>4. ProjectionIsReference' /\ GrowthIsReal'
    BY <1>1, <2>1, ReportIs
  <2> QED
    BY <2>3, <2>4 DEF CostInv
<1>7. CASE FetchFails
  <2>1. /\ fetch # NoFetch /\ faults' = faults + 1
        /\ source' = source /\ today' = today /\ confirmed' = confirmed
    BY <1>7 DEF FetchFails
  <2>2. faults' \in Nat
    BY <1>1, <2>1 DEF IInv, TypeOK
  <2>3. CASE job.reader = "api" \/ fetch.part = "this"
    <3>1. job' = NoJob /\ fetch' = NoFetch /\ report' = NoReport
      BY <1>7, <2>3 DEF FetchFails
    <3>2. TypeOK'
      BY <1>1, <2>1, <2>2, <3>1 DEF IInv, TypeOK
    <3>3. PagesFit' /\ FetchInv' /\ JobInv'
      BY <3>1 DEF PagesFit, FetchInv, JobInv
    <3> QED
      BY <1>2, <2>1, <3>1, <3>2, <3>3 DEF CostInv, IInv
  <2>4. CASE ~ (job.reader = "api" \/ fetch.part = "this")
    <3>1. Answered(<<>>, job.failed \cup {fetch.part}) /\ fetch.part # "this"
      BY <1>7, <2>4 DEF FetchFails
    <3>2. PICK rows, failed : rows = <<>> /\ failed = job.failed \cup {fetch.part}
      OBVIOUS
    <3>3. Answered(rows, failed)
      BY <3>1, <3>2
    <3>4. IInv'
      BY <1>1, <2>1, <2>2, <3>1, <3>2, <3>3, AnsweredKeeps
    <3>5. ProjectionIsReference' /\ GrowthIsReal'
      BY <1>1, <2>1, <3>1, <3>2, <3>3, ReportIs
    <3> QED
      BY <3>4, <3>5 DEF CostInv
  <2> QED
    BY <2>3, <2>4
<1>8. CASE UNCHANGED vars
  <2>1. /\ source' = source /\ today' = today /\ confirmed' = confirmed /\ job' = job /\ fetch' = fetch
        /\ report' = report /\ faults' = faults
    BY <1>8 DEF vars
  <2>2. TypeOK' /\ PagesFit' /\ JobInv'
    BY <1>1, <2>1 DEF IInv, TypeOK, PagesFit, JobInv
  <2>3. FetchInv'
    <3>1. FirstAsked' = FirstAsked /\ LastAsked' = LastAsked
      BY <2>1 DEF FirstAsked, LastAsked
    <3> QED
      BY <1>1, <2>1, <3>1 DEF IInv, FetchInv, MonthStart
  <2> QED
    BY <1>2, <2>1, <2>2, <2>3 DEF CostInv, IInv
<1> QED
  BY <1>3, <1>4, <1>5, <1>6, <1>7, <1>8 DEF Next

(* Whatever the calendar, the services, the charges, the pages and the     *)
(* delays, the rows that a request has gathered are days it asked for, in  *)
(* order, none twice (DailySpend of both sources); they hold what had      *)
(* arrived when the request began and nothing that had not arrived by now, *)
(* and the rows of this week had arrived before last week was asked for.   *)
THEOREM BillsFit == Spec => []IInv
<1>1. Init => CostInv
  BY CostInit
<1>2. CostInv /\ [Next]_vars => CostInv'
  BY CostStep
<1>3. CostInv => IInv
  BY DEF CostInv
<1> QED
  BY <1>1, <1>2, <1>3, PTL DEF Spec

(* ProjectEOM starts from a spend between what had arrived when the        *)
(* request began and what has arrived when it ends, and spreads it over    *)
(* the days of this month where the next month has the day of today.       *)
THEOREM ProjectionsAreRight == Spec => []ProjectionIsReference
<1>1. CostInv => ProjectionIsReference
  BY DEF CostInv
<1> QED
  BY <1>1, CostInit, CostStep, PTL DEF Spec

(* WeeklyTopGrowth names no service that was not dearer on some day of the *)
(* last week than on some day of the week before, whatever arrives between *)
(* the two requests and however many rows each of them finds.              *)
THEOREM GrowthIsNoArtefact == Spec => []GrowthIsReal
<1>1. CostInv => GrowthIsReal
  BY DEF CostInv
<1> QED
  BY <1>1, CostInit, CostStep, PTL DEF Spec

=============================================================================
