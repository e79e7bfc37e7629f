---------------------------- MODULE NumberProofs ----------------------------
(***************************************************************************)
(* Lemmas on finite sets of numbers, and sums over finite sets, which the  *)
(* other proofs share.                                                     *)
(***************************************************************************)
EXTENDS Integers, FiniteSets, Functions, FiniteSetTheorems, WellFoundedInduction, TLAPS

(* Induction over the natural numbers, for a set instead of a predicate.   *)
LEMMA SetInduction ==
  ASSUME NEW S, 0 \in S, \A n \in Nat : n \in S => n + 1 \in S
  PROVE  Nat \subseteq S
<1> DEFINE R == OpToRel(<, Nat)
           T == Nat \ S
<1>1. IsWellFoundedOn(R, Nat)
  BY NatLessThanWellFounded
<1>2. ASSUME T # {} PROVE FALSE
  <2>1. PICK x \in T : \A y \in T : ~(<<y, x>> \in R)
    <3>1. T \subseteq Nat
      OBVIOUS
    <3> HIDE DEF R, T
    <3> QED
      BY <1>1, <1>2, <3>1, WFMin
  <2>2. x # 0 /\ x - 1 \in Nat /\ x - 1 < x
    OBVIOUS
  <2>3. x - 1 \notin S
    OBVIOUS
  <2>4. <<x - 1, x>> \in R
    BY <2>2 DEF OpToRel
  <2> QED
    BY <2>1, <2>2, <2>3, <2>4
<1> QED
  BY <1>2

(* A finite set of numbers has a least and a greatest member.              *)
LEMMA Extremes ==
  ASSUME NEW S \in SUBSET Int, IsFiniteSet(S), S # {}
  PROVE  /\ \E m \in S : \A x \in S : m <= x
         /\ \E m \in S : \A x \in S : x <= m
<1> DEFINE Has(T) == /\ \E m \in T : \A x \in T : m <= x
                     /\ \E m \in T : \A x \in T : x <= m
           I == {n \in Nat : \A T \in SUBSET Int :
                   IsFiniteSet(T) /\ Cardinality(T) = n + 1 => Has(T)}
<1>1. 0 \in I
  <2> SUFFICES ASSUME NEW T \in SUBSET Int, IsFiniteSet(T), Cardinality(T) = 1 PROVE Has(T)
    OBVIOUS
  <2>1. PICK x : T = {x}
    BY FS_Singleton
  <2> QED
    BY <2>1
<1>2. ASSUME NEW n \in Nat, n \in I PROVE n + 1 \in I
  <2> SUFFICES ASSUME NEW T \in SUBSET Int, IsFiniteSet(T), Cardinality(T) = n + 2 PROVE Has(T)
    OBVIOUS
  <2>1. PICK y \in T : TRUE
    <3>1. Cardinality(T) # 0
      OBVIOUS
    <3> QED
      BY <3>1, FS_EmptySet
  <2> DEFINE U == T \ {y}
  <2>2. U \in SUBSET Int /\ IsFiniteSet(U) /\ Cardinality(U) = n + 1
    BY <2>1, FS_RemoveElement
  <2>3. Has(U)
    BY <1>2, <2>2
  <2>4. PICK lo \in U : \A x \in U : lo <= x
    BY <2>3
  <2>5. PICK hi \in U : \A x \in U : x <= hi
    BY <2>3
  <2>6. \E m \in T : \A x \in T : m <= x
    <3>1. CASE y <= lo
      BY <2>4, <3>1
    <3>2. CASE ~(y <= lo)
      BY <2>4, <3>2
    <3> QED
      BY <3>1, <3>2
  <2>7. \E m \in T : \A x \in T : x <= m
    <3>1. CASE hi <= y
      BY <2>5, <3>1
    <3>2. CASE ~(hi <= y)
      BY <2>5, <3>2
    <3> QED
      BY <3>1, <3>2
  <2> QED
    BY <2>6, <2>7
<1> HIDE DEF I
<1>3. Nat \subseteq I
  BY <1>1, <1>2, SetInduction
<1>4. Cardinality(S) \in Nat \ {0}
  BY FS_CardinalityType, FS_EmptySet
<1>5. Cardinality(S) - 1 \in I /\ (Cardinality(S) - 1) + 1 = Cardinality(S)
  BY <1>3, <1>4
<1> QED
  BY <1>5 DEF I

(* The image of a finite set.                                              *)
LEMMA FiniteImage ==
  ASSUME NEW S, IsFiniteSet(S), NEW C, NEW f \in [S -> C]
  PROVE  IsFiniteSet({f[x] : x \in S}) /\ {f[x] : x \in S} \in SUBSET C
<1> DEFINE T == {f[x] : x \in S}
<1>1. f \in Surjection(S, T)
  BY DEF Surjection
<1> QED
  BY <1>1, FS_Surjection

LEMMA UpTo ==
  ASSUME NEW n \in Nat \ {0}
  PROVE  IsFiniteSet(0..(n - 1)) /\ Cardinality(0..(n - 1)) = n
<1>1. n - 1 \in Int /\ 0 \in Int /\ ~(0 > n - 1) /\ n - 1 - 0 + 1 = n
  OBVIOUS
<1> QED
  BY <1>1, FS_Interval

LEMMA TwoMembers ==
  ASSUME NEW x, NEW y, x # y
  PROVE  Cardinality({x, y}) = 2
<1> DEFINE S == {x}
<1>1. IsFiniteSet(S) /\ Cardinality(S) = 1
  BY FS_Singleton
<1>2. {x, y} = S \cup {y} /\ y \notin S
  OBVIOUS
<1> HIDE DEF S
<1>3. Cardinality(S \cup {y}) = Cardinality(S) + 1
  BY <1>1, <1>2, FS_AddElement
<1> QED
  BY <1>1, <1>2, <1>3

LEMMA DisjointUnion ==
  ASSUME NEW S, IsFiniteSet(S), NEW T, IsFiniteSet(T), S \cap T = {}
  PROVE  IsFiniteSet(S \cup T) /\ Cardinality(S \cup T) = Cardinality(S) + Cardinality(T)
<1>1. Cardinality(S) \in Nat /\ Cardinality(T) \in Nat /\ Cardinality(S \cap T) = 0
  BY FS_EmptySet, FS_CardinalityType
<1>2. Cardinality(S \cup T) = Cardinality(S) + Cardinality(T) - Cardinality(S \cap T)
  BY FS_Union
<1> QED
  BY <1>1, <1>2, FS_Union

-----------------------------------------------------------------------------
(* Sums (SumFunctionOnSet).                                                *)

First1(s) == CHOOSE x \in s : TRUE

(* What the sum over S is computed by.                                     *)
Summing(f, S) ==
  CHOOSE iter : iter = [s \in SUBSET S |-> IF s = {} THEN 0 ELSE f[First1(s)] + iter[s \ {First1(s)}]]

LEMMA SumIs ==
  ASSUME NEW f, NEW S
  PROVE  SumFunctionOnSet(f, S) = Summing(f, S)[S]
BY DEF SumFunctionOnSet, FoldFunctionOnSet, MapThenFoldSet, Summing, First1

LEMMA SummingExists ==
  ASSUME NEW S, IsFiniteSet(S), NEW f, \A x \in S : f[x] \in Int
  PROVE  /\ Summing(f, S) \in [SUBSET S -> Int]
         /\ Summing(f, S)[{}] = 0
         /\ \A s \in SUBSET S : s # {} =>
              Summing(f, S)[s] = f[First1(s)] + Summing(f, S)[s \ {First1(s)}]
<1> DEFINE D(n)      == {s \in SUBSET S : Cardinality(s) <= n}
           Next1(g, s) == IF s = {} THEN 0 ELSE f[First1(s)] + g[s \ {First1(s)}]
           Good(g, n) == g \in [D(n) -> Int] /\ \A s \in D(n) : g[s] = Next1(g, s)
           I == {n \in Nat : \E g : Good(g, n)}
<1>1. \A s \in SUBSET S : s # {} => First1(s) \in s /\ f[First1(s)] \in Int /\ s \ {First1(s)} \in SUBSET S
  BY DEF First1
<1>2. \A s \in SUBSET S : IsFiniteSet(s) /\ Cardinality(s) \in Nat /\ Cardinality(s) <= Cardinality(S)
  BY FS_Subset, FS_CardinalityType
<1>3. ASSUME NEW n \in Nat, NEW s \in D(n + 1), s # {} PROVE s \ {First1(s)} \in D(n)
  <2>1. s \in SUBSET S /\ First1(s) \in s
    BY <1>1, <1>3
  <2>2. Cardinality(s \ {First1(s)}) = Cardinality(s) - 1
    BY <1>2, <2>1, FS_RemoveElement
  <2> QED
    BY <1>2, <2>1, <2>2
<1>4. 0 \in I
  <2> DEFINE g == [s \in D(0) |-> 0]
  <2>1. \A s \in D(0) : s = {}
    BY <1>2, FS_EmptySet
  <2>2. Good(g, 0)
    BY <2>1
  <2> QED
    BY <2>2
<1>5. ASSUME NEW n \in Nat, n \in I PROVE n + 1 \in I
  <2>1. PICK g : Good(g, n)
    BY <1>5
  <2> DEFINE h == [s \in D(n + 1) |-> Next1(g, s)]
  <2>2. \A s \in D(n + 1) : s # {} => s \ {First1(s)} \in D(n) /\ f[First1(s)] \in Int
    BY <1>1, <1>3
  <2>3. D(n) \subseteq D(n + 1)
    BY <1>2
  <2>4. \A s \in D(n) : h[s] = g[s]
    BY <2>1, <2>3
  <2>5. h \in [D(n + 1) -> Int]
    <3> SUFFICES ASSUME NEW s \in D(n + 1) PROVE Next1(g, s) \in Int
      OBVIOUS
    <3>1. CASE s = {}
      BY <3>1
    <3>2. CASE s # {}
      <4>1. g[s \ {First1(s)}] \in Int
        BY <2>1, <2>2, <3>2
      <4> QED
        BY <2>2, <3>2, <4>1
    <3> QED
      BY <3>1, <3>2
  <2>6. \A s \in D(n + 1) : h[s] = Next1(h, s)
    <3> SUFFICES ASSUME NEW s \in D(n + 1) PROVE Next1(g, s) = Next1(h, s)
      OBVIOUS
    <3>1. CASE s = {}
      BY <3>1
    <3>2. CASE s # {}
      <4>1. h[s \ {First1(s)}] = g[s \ {First1(s)}]
        BY <2>2, <2>4, <3>2
      <4> QED
        BY <3>2, <4>1
    <3> QED
      BY <3>1, <3>2
  <2>7. Good(h, n + 1)
    BY <2>5, <2>6
  <2> HIDE DEF Good
  <2> QED
    BY <2>7
<1> HIDE DEF I
<1>6. Nat \subseteq I
  BY <1>4, <1>5, SetInduction
<1>7. PICK g : Good(g, Cardinality(S))
  <2>1. Cardinality(S) \in I
    BY <1>2, <1>6
  <2> QED
    BY <2>1 DEF I
<1>8. D(Cardinality(S)) = SUBSET S
  BY <1>2
<1>9. g = [s \in SUBSET S |-> Next1(g, s)]
  BY <1>7, <1>8
<1>10. Summing(f, S) = [s \in SUBSET S |-> Next1(Summing(f, S), s)]
  BY <1>9 DEF Summing
<1>11. ASSUME NEW n \in Nat, \A s \in D(n) : Summing(f, S)[s] \in Int
       PROVE  \A s \in D(n + 1) : Summing(f, S)[s] \in Int
  <2> SUFFICES ASSUME NEW s \in D(n + 1) PROVE Summing(f, S)[s] \in Int
    OBVIOUS
  <2>1. Summing(f, S)[s] = Next1(Summing(f, S), s)
    BY <1>10
  <2>2. CASE s = {}
    BY <2>1, <2>2
  <2>3. CASE s # {}
    <3>1. s \ {First1(s)} \in D(n) /\ f[First1(s)] \in Int
      BY <1>1, <1>3, <2>3
    <3> QED
      BY <1>11, <2>1, <2>3, <3>1
  <2> QED
    BY <2>2, <2>3
<1>12. \A s \in SUBSET S : Summing(f, S)[s] \in Int
  <2> DEFINE J == {n \in Nat : \A s \in D(n) : Summing(f, S)[s] \in Int}
  <2>1. 0 \in J
    <3>1. \A s \in D(0) : s = {}
      BY <1>2, FS_EmptySet
    <3> QED
      BY <1>10, <3>1
  <2>2. \A n \in Nat : n \in J => n + 1 \in J
    BY <1>11
  <2> HIDE DEF J
  <2>3. Nat \subseteq J
    BY <2>1, <2>2, SetInduction
  <2>4. Cardinality(S) \in J
    BY <1>2, <2>3
  <2> QED
    BY <1>8, <2>4 DEF J
<1> QED
  BY <1>10, <1>12

(* A part is summed the same way within the whole.                         *)
LEMMA SummingPart ==
  ASSUME NEW S, IsFiniteSet(S), NEW f, \A x \in S : f[x] \in Int, NEW T \in SUBSET S
  PROVE  Summing(f, S)[T] = Summing(f, T)[T]
<1> DEFINE J == {n \in Nat : \A s \in SUBSET T : Cardinality(s) = n => Summing(f, S)[s] = Summing(f, T)[s]}
<1>1. /\ \A s \in SUBSET T : IsFiniteSet(s) /\ Cardinality(s) \in Nat
      /\ IsFiniteSet(T)
  BY FS_Subset, FS_CardinalityType
<1>2. /\ Summing(f, S)[{}] = 0 /\ Summing(f, T)[{}] = 0
      /\ \A s \in SUBSET T : s # {} =>
           /\ Summing(f, S)[s] = f[First1(s)] + Summing(f, S)[s \ {First1(s)}]
           /\ Summing(f, T)[s] = f[First1(s)] + Summing(f, T)[s \ {First1(s)}]
  <2>1. /\ Summing(f, S)[{}] = 0
        /\ \A s \in SUBSET S : s # {} =>
             Summing(f, S)[s] = f[First1(s)] + Summing(f, S)[s \ {First1(s)}]
    BY SummingExists
  <2>2. /\ Summing(f, T)[{}] = 0
        /\ \A s \in SUBSET T : s # {} =>
             Summing(f, T)[s] = f[First1(s)] + Summing(f, T)[s \ {First1(s)}]
    <3>1. \A x \in T : f[x] \in Int
      OBVIOUS
    <3> QED
      BY <1>1, <3>1, SummingExists
  <2> QED
    BY <2>1, <2>2
<1>3. 0 \in J
  BY <1>1, <1>2, FS_EmptySet
<1>4. ASSUME NEW n \in Nat, n \in J PROVE n + 1 \in J
  <2> SUFFICES ASSUME NEW s \in SUBSET T, Cardinality(s) = n + 1
               PROVE  Summing(f, S)[s] = Summing(f, T)[s]
    OBVIOUS
  <2>1. s # {}
    BY FS_EmptySet
  <2>2. First1(s) \in s
    BY <2>1 DEF First1
  <2>3. Cardinality(s \ {First1(s)}) = n
    <3>1. Cardinality(s \ {First1(s)}) = Cardinality(s) - 1
      BY <1>1, <2>2, FS_RemoveElement
    <3> QED
      BY <3>1
  <2>4. Summing(f, S)[s \ {First1(s)}] = Summing(f, T)[s \ {First1(s)}]
    BY <1>4, <2>3
  <2> QED
    BY <1>2, <2>1, <2>4
<1> HIDE DEF J
<1>5. Nat \subseteq J
  BY <1>3, <1>4, SetInduction
<1>6. Cardinality(T) \in J
  BY <1>1, <1>5
<1> QED
  BY <1>6 DEF J

LEMMA SumEmpty == ASSUME NEW f PROVE SumFunctionOnSet(f, {}) = 0
<1>1. IsFiniteSet({})
  BY FS_EmptySet
<1> QED
  BY <1>1, SumIs, SummingExists

LEMMA SumType ==
  ASSUME NEW S, IsFiniteSet(S), NEW f, \A x \in S : f[x] \in Int
  PROVE  SumFunctionOnSet(f, S) \in Int
BY SumIs, SummingExists

(* Any member may be the one that is added last.                           *)
LEMMA SumRemove ==
  ASSUME NEW S, IsFiniteSet(S), NEW f, \A x \in S : f[x] \in Int, NEW y \in S
  PROVE  SumFunctionOnSet(f, S) = SumFunctionOnSet(f, S \ {y}) + f[y]
<1> DEFINE Total(T) == SumFunctionOnSet(f, T)
           J == {n \in Nat : \A T \in SUBSET S : Cardinality(T) = n
                               => \A x \in T : Total(T) = Total(T \ {x}) + f[x]}
<1>1. \A T \in SUBSET S : IsFiniteSet(T) /\ Cardinality(T) \in Nat /\ Total(T) \in Int
  <2> SUFFICES ASSUME NEW T \in SUBSET S PROVE IsFiniteSet(T) /\ Cardinality(T) \in Nat /\ Total(T) \in Int
    OBVIOUS
  <2>1. IsFiniteSet(T) /\ \A x \in T : f[x] \in Int
    BY FS_Subset
  <2> QED
    BY <2>1, SumType, FS_CardinalityType
<1>2. \A T \in SUBSET S : T # {} => First1(T) \in T /\ Total(T) = f[First1(T)] + Total(T \ {First1(T)})
  <2> SUFFICES ASSUME NEW T \in SUBSET S, T # {}
               PROVE  First1(T) \in T /\ Total(T) = f[First1(T)] + Total(T \ {First1(T)})
    OBVIOUS
  <2>1. First1(T) \in T
    BY DEF First1
  <2>2. IsFiniteSet(T) /\ \A x \in T : f[x] \in Int
    BY <1>1
  <2>3. Summing(f, T)[T] = f[First1(T)] + Summing(f, T)[T \ {First1(T)}]
    <3>1. \A s \in SUBSET T : s # {} =>
            Summing(f, T)[s] = f[First1(s)] + Summing(f, T)[s \ {First1(s)}]
      BY <2>2, SummingExists
    <3> QED
      BY <3>1
  <2>4. Summing(f, T)[T \ {First1(T)}] = Summing(f, T \ {First1(T)})[T \ {First1(T)}]
    BY <2>2, SummingPart
  <2> QED
    BY <2>1, <2>3, <2>4, SumIs
<1> HIDE DEF Total
<1>3. 0 \in J
  BY <1>1, FS_EmptySet
<1>4. ASSUME NEW n \in Nat, n \in J PROVE n + 1 \in J
  <2> SUFFICES ASSUME NEW T \in SUBSET S, Cardinality(T) = n + 1, NEW x \in T
               PROVE  Total(T) = Total(T \ {x}) + f[x]
    OBVIOUS
  <2> DEFINE p == First1(T)
  <2>1. p \in T /\ Total(T) = f[p] + Total(T \ {p}) /\ f[p] \in Int /\ f[x] \in Int
    BY <1>2
  <2> HIDE DEF p
  <2>2. \A z \in T : T \ {z} \in SUBSET S /\ Cardinality(T \ {z}) = n /\ Total(T \ {z}) \in Int
    <3> SUFFICES ASSUME NEW z \in T PROVE Cardinality(T \ {z}) = n
      BY <1>1
    <3>1. Cardinality(T \ {z}) = Cardinality(T) - 1
      BY <1>1, FS_RemoveElement
    <3> QED
      BY <3>1
  <2>3. CASE x = p
    BY <2>1, <2>2, <2>3
  <2>4. CASE x # p
    <3>1. x \in T \ {p} /\ p \in T \ {x} /\ (T \ {p}) \ {x} = (T \ {x}) \ {p}
      BY <2>1, <2>4
    <3>2. Total(T \ {p}) = Total((T \ {p}) \ {x}) + f[x]
      BY <1>4, <2>1, <2>2, <3>1
    <3>3. Total(T \ {x}) = Total((T \ {x}) \ {p}) + f[p]
      BY <1>4, <2>2, <3>1
    <3>4. Total((T \ {x}) \ {p}) \in Int
      BY <1>1
    <3>5. Total((T \ {p}) \ {x}) = Total((T \ {x}) \ {p})
      BY <3>1
    <3>6. \A t, u, v, a, b, c \in Int : t = b + u /\ u = a + c /\ v = a + b => t = v + c
      OBVIOUS
    <3>7. Total(T) \in Int /\ Total(T \ {p}) \in Int /\ Total(T \ {x}) \in Int
      BY <1>1
    <3> QED
      BY <2>1, <3>2, <3>3, <3>4, <3>5, <3>6, <3>7
  <2> QED
    BY <2>3, <2>4
<1> HIDE DEF J
<1>5. Nat \subseteq J
  BY <1>3, <1>4, SetInduction
<1>6. Cardinality(S) \in J
  BY <1>1, <1>5
<1>7. Total(S) = Total(S \ {y}) + f[y]
  BY <1>6 DEF J
<1> QED
  BY <1>7 DEF Total

LEMMA SumAdd ==
  ASSUME NEW S, IsFiniteSet(S), NEW y, y \notin S, NEW f, \A x \in S \cup {y} : f[x] \in Int
  PROVE  SumFunctionOnSet(f, S \cup {y}) = SumFunctionOnSet(f, S) + f[y]
<1>1. IsFiniteSet(S \cup {y}) /\ (S \cup {y}) \ {y} = S
  BY FS_AddElement
<1> QED
  BY <1>1, SumRemove

(* Induction over the parts of a finite set.                               *)
LEMMA PartInduction ==
  ASSUME NEW S, IsFiniteSet(S), NEW J, {} \in J,
         \A T \in SUBSET S : \A x \in S \ T : T \in J => T \cup {x} \in J
  PROVE  S \in J
<1> DEFINE I == {n \in Nat : \A T \in SUBSET S : Cardinality(T) = n => T \in J}
<1>1. \A T \in SUBSET S : IsFiniteSet(T) /\ Cardinality(T) \in Nat
  BY FS_Subset, FS_CardinalityType
<1>2. 0 \in I
  BY <1>1, FS_EmptySet
<1>3. ASSUME NEW n \in Nat, n \in I PROVE n + 1 \in I
  <2> SUFFICES ASSUME NEW T \in SUBSET S, Cardinality(T) = n + 1 PROVE T \in J
    OBVIOUS
  <2>1. PICK x \in T : TRUE
    <3>1. Cardinality(T) # 0
      OBVIOUS
    <3> QED
      BY <3>1, FS_EmptySet
  <2>2. Cardinality(T \ {x}) = n
    <3>1. Cardinality(T \ {x}) = Cardinality(T) - 1
      BY <1>1, <2>1, FS_RemoveElement
    <3> QED
      BY <3>1
  <2>3. T \ {x} \in J
    BY <1>3, <2>2
  <2>4. (T \ {x}) \cup {x} = T /\ x \in S \ (T \ {x}) /\ T \ {x} \in SUBSET S
    BY <2>1
  <2> QED
    BY <2>3, <2>4
<1> HIDE DEF I
<1>4. Nat \subseteq I
  BY <1>2, <1>3, SetInduction
<1>5. Cardinality(S) \in I
  BY <1>1, <1>4
<1> QED
  BY <1>5 DEF I

(* Sums of the same terms under other indices.                             *)
LEMMA SumReindex ==
  ASSUME NEW S, IsFiniteSet(S), NEW T, NEW h \in Bijection(S, T), NEW f, NEW g,
         \A x \in S : f[x] \in Int /\ g[h[x]] = f[x]
  PROVE  SumFunctionOnSet(f, S) = SumFunctionOnSet(g, T)
<1> DEFINE Image(U) == {h[x] : x \in U}
           J == {U \in SUBSET S : SumFunctionOnSet(f, U) = SumFunctionOnSet(g, Image(U))}
<1>1. /\ h \in [S -> T] /\ \A x, y \in S : h[x] = h[y] => x = y
      /\ \A y \in T : \E x \in S : h[x] = y
  BY DEF Bijection, Injection, Surjection, IsInjective
<1>2. {} \in J
  <2>1. Image({}) = {}
    OBVIOUS
  <2> QED
    BY <2>1, SumEmpty
<1>3. ASSUME NEW U \in SUBSET S, NEW x \in S \ U, U \in J PROVE U \cup {x} \in J
  <2>1. IsFiniteSet(U) /\ IsFiniteSet(Image(U))
    <3>1. IsFiniteSet(U)
      BY FS_Subset
    <3>2. [u \in U |-> h[u]] \in Surjection(U, Image(U))
      BY DEF Surjection
    <3> QED
      BY <3>1, <3>2, FS_Surjection
  <2>2. Image(U \cup {x}) = Image(U) \cup {h[x]} /\ h[x] \notin Image(U)
    BY <1>1
  <2>3. SumFunctionOnSet(f, U \cup {x}) = SumFunctionOnSet(f, U) + f[x]
    BY <2>1, SumAdd
  <2>4. SumFunctionOnSet(g, Image(U) \cup {h[x]}) = SumFunctionOnSet(g, Image(U)) + g[h[x]]
    <3> DEFINE V == Image(U)
               y == h[x]
    <3>1. IsFiniteSet(V) /\ y \notin V /\ \A z \in V \cup {y} : g[z] \in Int
      BY <2>1, <2>2
    <3> HIDE DEF V, y
    <3>2. SumFunctionOnSet(g, V \cup {y}) = SumFunctionOnSet(g, V) + g[y]
      BY <3>1, SumAdd
    <3> QED
      BY <3>2 DEF V, y
  <2>5. SumFunctionOnSet(f, U) = SumFunctionOnSet(g, Image(U)) /\ f[x] = g[h[x]]
    BY <1>3
  <2> HIDE DEF Image
  <2>6. SumFunctionOnSet(f, U \cup {x}) = SumFunctionOnSet(g, Image(U \cup {x}))
    BY <2>2, <2>3, <2>4, <2>5
  <2> QED
    BY <2>6
<1> HIDE DEF J
<1>4. S \in J
  BY <1>2, <1>3, PartInduction
<1>5. Image(S) = T
  BY <1>1
<1> HIDE DEF Image
<1> QED
  BY <1>4, <1>5 DEF J

LEMMA SumSame ==
  ASSUME NEW S, IsFiniteSet(S), NEW f, NEW g, \A x \in S : f[x] \in Int /\ g[x] = f[x]
  PROVE  SumFunctionOnSet(f, S) = SumFunctionOnSet(g, S)
<1> DEFINE h == [x \in S |-> x]
<1>1. h \in Bijection(S, S)
  BY DEF Bijection, Injection, Surjection, IsInjective
<1>2. \A x \in S : f[x] \in Int /\ g[h[x]] = f[x]
  OBVIOUS
<1> HIDE DEF h
<1> QED
  BY <1>1, <1>2, SumReindex

LEMMA SumUnion ==
  ASSUME NEW S, IsFiniteSet(S), NEW T, IsFiniteSet(T), S \cap T = {},
         NEW f, \A x \in S \cup T : f[x] \in Int
  PROVE  SumFunctionOnSet(f, S \cup T) = SumFunctionOnSet(f, S) + SumFunctionOnSet(f, T)
<1> DEFINE J == {U \in SUBSET T :
                   SumFunctionOnSet(f, S \cup U) = SumFunctionOnSet(f, S) + SumFunctionOnSet(f, U)}
<1>1. SumFunctionOnSet(f, S) \in Int
  BY SumType
<1>2. {} \in J
  <2>1. S \cup {} = S
    OBVIOUS
  <2> QED
    BY <1>1, <2>1, SumEmpty
<1>3. ASSUME NEW U \in SUBSET T, NEW x \in T \ U, U \in J PROVE U \cup {x} \in J
  <2>1. IsFiniteSet(U) /\ IsFiniteSet(S \cup U)
    BY FS_Subset, FS_Union
  <2>2. S \cup (U \cup {x}) = (S \cup U) \cup {x} /\ x \notin S \cup U
    OBVIOUS
  <2>3. SumFunctionOnSet(f, (S \cup U) \cup {x}) = SumFunctionOnSet(f, S \cup U) + f[x]
    BY <2>1, <2>2, SumAdd
  <2>4. SumFunctionOnSet(f, U \cup {x}) = SumFunctionOnSet(f, U) + f[x]
    BY <2>1, SumAdd
  <2>5. SumFunctionOnSet(f, S \cup U) = SumFunctionOnSet(f, S) + SumFunctionOnSet(f, U)
    BY <1>3
  <2>6. SumFunctionOnSet(f, U) \in Int /\ f[x] \in Int
    BY <2>1, SumType
  <2>7. SumFunctionOnSet(f, S \cup (U \cup {x})) = SumFunctionOnSet(f, (S \cup U) \cup {x})
    BY <2>2, Zenon
  <2>8. SumFunctionOnSet(f, S \cup (U \cup {x}))
          = SumFunctionOnSet(f, S) + SumFunctionOnSet(f, U \cup {x})
    BY <1>1, <2>3, <2>4, <2>5, <2>6, <2>7
  <2> QED
    BY <2>8
<1> HIDE DEF J
<1>4. T \in J
  BY <1>2, <1>3, PartInduction
<1> QED
  BY <1>4 DEF J

LEMMA SumAtMost ==
  ASSUME NEW S, IsFiniteSet(S), NEW f, NEW hi \in Int, \A x \in S : f[x] \in Int /\ f[x] <= hi
  PROVE  SumFunctionOnSet(f, S) <= hi * Cardinality(S)
<1> DEFINE J == {U \in SUBSET S : SumFunctionOnSet(f, U) <= hi * Cardinality(U)}
<1>1. {} \in J
  BY SumEmpty, FS_EmptySet
<1>2. ASSUME NEW U \in SUBSET S, NEW x \in S \ U, U \in J PROVE U \cup {x} \in J
  <2>1. IsFiniteSet(U) /\ Cardinality(U) \in Nat
    BY FS_Subset, FS_CardinalityType
  <2>2. /\ SumFunctionOnSet(f, U \cup {x}) = SumFunctionOnSet(f, U) + f[x]
        /\ SumFunctionOnSet(f, U) \in Int
    BY <2>1, SumAdd, SumType
  <2>3. Cardinality(U \cup {x}) = Cardinality(U) + 1
    BY <2>1, FS_AddElement
  <2>4. \A n \in Nat, a, b \in Int : a <= hi * n /\ b <= hi => a + b <= hi * (n + 1)
    OBVIOUS
  <2>5. SumFunctionOnSet(f, U) <= hi * Cardinality(U) /\ f[x] <= hi /\ f[x] \in Int
    BY <1>2
  <2>6. SumFunctionOnSet(f, U) + f[x] <= hi * (Cardinality(U) + 1)
    BY <2>1, <2>2, <2>4, <2>5
  <2> QED
    BY <2>2, <2>3, <2>6
<1> HIDE DEF J
<1>3. S \in J
  BY <1>1, <1>2, PartInduction
<1> QED
  BY <1>3 DEF J

LEMMA SumAtLeast ==
  ASSUME NEW S, IsFiniteSet(S), NEW f, NEW lo \in Int, \A x \in S : f[x] \in Int /\ lo <= f[x]
  PROVE  lo * Cardinality(S) <= SumFunctionOnSet(f, S)
<1> DEFINE J == {U \in SUBSET S : lo * Cardinality(U) <= SumFunctionOnSet(f, U)}
<1>1. {} \in J
  BY SumEmpty, FS_EmptySet
<1>2. ASSUME NEW U \in SUBSET S, NEW x \in S \ U, U \in J PROVE U \cup {x} \in J
  <2>1. IsFiniteSet(U) /\ Cardinality(U) \in Nat
    BY FS_Subset, FS_CardinalityType
  <2>2. /\ SumFunctionOnSet(f, U \cup {x}) = SumFunctionOnSet(f, U) + f[x]
        /\ SumFunctionOnSet(f, U) \in Int
    BY <2>1, SumAdd, SumType
  <2>3. Cardinality(U \cup {x}) = Cardinality(U) + 1
    BY <2>1, FS_AddElement
  <2>4. \A n \in Nat, a, b \in Int : lo * n <= a /\ lo <= b => lo * (n + 1) <= a + b
    OBVIOUS
  <2>5. lo * Cardinality(U) <= SumFunctionOnSet(f, U) /\ lo <= f[x] /\ f[x] \in Int
    BY <1>2
  <2>6. lo * (Cardinality(U) + 1) <= SumFunctionOnSet(f, U) + f[x]
    BY <2>1, <2>2, <2>4, <2>5
  <2> QED
    BY <2>2, <2>3, <2>6
<1> HIDE DEF J
<1>3. S \in J
  BY <1>1, <1>2, PartInduction
<1> QED
  BY <1>3 DEF J

(* Terms that are none may be left out.                                    *)
LEMMA SumPositive ==
  ASSUME NEW S, IsFiniteSet(S), NEW T \in SUBSET S, NEW f, \A x \in S : f[x] \in Int,
         \A x \in S \ T : f[x] = 0
  PROVE  SumFunctionOnSet(f, S) = SumFunctionOnSet(f, T)
<1> DEFINE R == S \ T
<1>1. IsFiniteSet(T) /\ IsFiniteSet(R)
  BY FS_Subset
<1>2. T \cup R = S /\ T \cap R = {}
  OBVIOUS
<1>3. \A x \in R : f[x] = 0
  OBVIOUS
<1>4. \A x \in T \cup R : f[x] \in Int
  OBVIOUS
<1> HIDE DEF R
<1>5. SumFunctionOnSet(f, R) = 0
  <2>1. Cardinality(R) \in Nat
    BY <1>1, FS_CardinalityType
  <2> DEFINE lo == 0
  <2>z. lo \in Int /\ \A x \in R : f[x] \in Int /\ f[x] <= lo /\ lo <= f[x]
    BY <1>3
  <2> HIDE DEF lo
  <2>2. SumFunctionOnSet(f, R) <= lo * Cardinality(R)
    BY <1>1, <2>z, SumAtMost
  <2>3. lo * Cardinality(R) <= SumFunctionOnSet(f, R)
    BY <1>1, <2>z, SumAtLeast
  <2>4. SumFunctionOnSet(f, R) \in Int
    BY <1>1, <1>3, SumType
  <2> QED
    BY <2>1, <2>2, <2>3, <2>4 DEF lo
<1>6. SumFunctionOnSet(f, T \cup R) = SumFunctionOnSet(f, T) + SumFunctionOnSet(f, R)
  BY <1>1, <1>2, <1>4, SumUnion
<1>7. SumFunctionOnSet(f, T) \in Int
  BY <1>1, <1>4, SumType
<1>8. SumFunctionOnSet(f, S) = SumFunctionOnSet(f, T \cup R)
  BY <1>2, Zenon
<1> QED
  BY <1>5, <1>6, <1>7, <1>8

=============================================================================
