----------------------------- MODULE Arithmetic -----------------------------
(***************************************************************************)
(* Facts the proofs of several modules rest on: counters that wrap, least  *)
(* and greatest positions, induction over numbers and finite sets, and     *)
(* sums.  The induction theorems of the library are about an operator; the *)
(* ones here are about a set, which the provers can instantiate.           *)
(***************************************************************************)
EXTENDS Integers, FiniteSetsExt, FiniteSetTheorems, TLAPS

-----------------------------------------------------------------------------
(* Counters that wrap: % for any modulus, where the code subtracts         *)
(* unsigned sequence numbers and timestamps.                               *)

(* Division with remainder.                                                *)
LEMMA DivMod ==
  ASSUME NEW T \in Nat \ {0}, NEW a \in Int
  PROVE  /\ a % T \in 0 .. T - 1 /\ a \div T \in Int
         /\ a = T * (a \div T) + (a % T)
OBVIOUS

(* The remainder is the only one.                                          *)
LEMMA ModUnique ==
  ASSUME NEW T \in Nat \ {0}, NEW q \in Int, NEW r \in 0 .. T - 1
  PROVE  (T * q + r) % T = r
OBVIOUS

(* The difference of two wrapped counters, wrapped, is the difference of   *)
(* the counters, wrapped.                                                  *)
LEMMA ModDifference ==
  ASSUME NEW T \in Nat \ {0}, NEW a \in Int, NEW b \in Int
  PROVE  ((a % T) - (b % T)) % T = (a - b) % T
<1> DEFINE qa == a \div T
           qb == b \div T
           ra == a % T
           rb == b % T
           c  == ra - rb
           qc == c \div T
           rc == c % T
<1>1. /\ qa \in Int /\ qb \in Int /\ qc \in Int
      /\ ra \in 0 .. T - 1 /\ rb \in 0 .. T - 1 /\ rc \in 0 .. T - 1
      /\ a = T * qa + ra /\ b = T * qb + rb /\ ra - rb = T * qc + rc
  <2>1. c \in Int
    BY DivMod
  <2>2. QED
    BY <2>1, DivMod
<1> HIDE DEF qa, qb, ra, rb, qc, rc
<1>2. a - b = T * (qa - qb + qc) + rc
  <2>1. T * (qa - qb + qc) = T * qa - T * qb + T * qc
    BY <1>1
  <2>2. /\ T * qa \in Int /\ T * qb \in Int /\ T * qc \in Int
    BY <1>1
  <2>3. QED
    BY <1>1, <2>1, <2>2
<1>3. qa - qb + qc \in Int
  BY <1>1
<1>4. (a - b) % T = rc
  BY <1>1, <1>2, <1>3, ModUnique
<1>5. QED
  BY <1>4 DEF rc, ra, rb

(* A number of less than one turn, wrapped.                                *)
LEMMA ModOneTurn ==
  ASSUME NEW T \in Nat \ {0}, NEW d \in Int, d < T, d >= -T
  PROVE  d % T = IF d >= 0 THEN d ELSE d + T
<1>1. CASE d >= 0
  <2>1. T * 0 = 0
    OBVIOUS
  <2>2. (T * 0 + d) % T = d
    BY <1>1, ModUnique
  <2>3. QED
    BY <1>1, <2>1, <2>2
<1>2. CASE d < 0
  <2> DEFINE r == d + T
  <2>1. r \in 0 .. T - 1
    BY <1>2
  <2>2. T * (-1) = -T
    OBVIOUS
  <2>3. (T * (-1) + r) % T = r
    <3> HIDE DEF r
    <3>1. -1 \in Int
      OBVIOUS
    <3>2. QED
      BY <2>1, <3>1, ModUnique
  <2>4. T * (-1) + r = d
    BY <2>2
  <2>5. QED
    BY <1>2, <2>3, <2>4
<1>3. QED
  BY <1>1, <1>2

-----------------------------------------------------------------------------
(* Least and greatest elements.                                            *)

(* A set of natural numbers has a least element.                           *)
LEMMA LeastElement ==
  ASSUME NEW S \in SUBSET Nat, S # {}
  PROVE  \E n \in S : \A k \in S : n <= k
<1> DEFINE less == OpToRel(<, Nat)
<1>1. IsWellFoundedOn(less, Nat)
  BY NatLessThanWellFounded
<1>2. \A a, b \in Nat : a < b => <<a, b>> \in less
  BY DEF OpToRel
<1> HIDE DEF less
<1>3. PICK n \in S : \A k \in S : <<k, n>> \notin less
  BY <1>1, WFMin
<1>4. n \in Nat /\ \A k \in S : k \in Nat /\ ~(k < n)
  BY <1>2, <1>3
<1> QED
  BY <1>4

(* Min is the least element, where there is one.                           *)
LEMMA MinIsLeast ==
  ASSUME NEW S \in SUBSET Nat, NEW n \in S, \A k \in S : n <= k
  PROVE  Min(S) = n
<1>1. \A x \in S : (\A k \in S : x <= k) => x = n
  OBVIOUS
<1>2. Min(S) \in S /\ \A k \in S : Min(S) <= k
  BY DEF Min
<1> QED
  BY <1>1, <1>2

(* Max is the greatest element, where there is one.                        *)
LEMMA MaxIsGreatest ==
  ASSUME NEW S \in SUBSET Nat, NEW n \in S, \A k \in S : n >= k
  PROVE  Max(S) = n
<1>1. \A x \in S : (\A k \in S : x >= k) => x = n
  OBVIOUS
<1>2. Max(S) \in S /\ \A k \in S : Max(S) >= k
  BY DEF Max
<1> QED
  BY <1>1, <1>2

(* A set of numbers up to a bound has a greatest element.                  *)
LEMMA GreatestElement ==
  ASSUME NEW n \in Nat, NEW S \in SUBSET (0 .. n), S # {}
  PROVE  \E m \in S : \A k \in S : m >= k
<1> DEFINE above == {d \in Nat : n - d \in S}
<1>1. above # {}
  <2>1. PICK k \in S : TRUE
    OBVIOUS
  <2>2. n - k \in Nat /\ n - (n - k) = k
    OBVIOUS
  <2> QED
    BY <2>1, <2>2
<1>2. PICK d \in above : \A k \in above : d <= k
  BY <1>1, LeastElement
<1>3. \A k \in S : n - k \in above
  OBVIOUS
<1>4. n - d \in S /\ \A k \in S : n - d >= k
  BY <1>2, <1>3
<1> QED
  BY <1>4

(* The minimum of a set of numbers is one of them.                         *)
LEMMA MinIsElement ==
  ASSUME NEW S \in SUBSET Nat, S # {}
  PROVE  Min(S) \in S /\ \A k \in S : Min(S) <= k
<1>1. PICK l \in S : \A k \in S : l <= k
  BY LeastElement
<1> QED
  BY <1>1, MinIsLeast

(* What a further number does to the minimum.                              *)
LEMMA MinAdd ==
  ASSUME NEW S \in SUBSET Nat, NEW n \in Nat
  PROVE  Min(S \cup {n}) = IF S = {} \/ n < Min(S) THEN n ELSE Min(S)
<1> DEFINE T == S \cup {n}
           l == Min(S)
<1>1. T \in SUBSET Nat
  OBVIOUS
<1>2. S # {} => l \in S /\ l \in Nat /\ \A k \in S : l <= k
  BY MinIsElement
<1>3. CASE S = {} \/ n < l
  <2> HIDE DEF l
  <2>1. n \in T /\ \A k \in T : n <= k
    BY <1>2, <1>3
  <2> HIDE DEF T
  <2>2. Min(T) = n
    BY <1>1, <2>1, MinIsLeast
  <2> QED
    BY <1>3, <2>2 DEF T, l
<1>4. CASE S # {} /\ ~(n < l)
  <2> HIDE DEF l
  <2>1. l \in T /\ \A k \in T : l <= k
    BY <1>2, <1>4
  <2> HIDE DEF T
  <2>2. Min(T) = l
    BY <1>1, <2>1, MinIsLeast
  <2> QED
    BY <1>4, <2>2 DEF T, l
<1> QED
  BY <1>3, <1>4

(* A number above all others becomes the maximum, and the minimum only of  *)
(* a set that was empty.                                                   *)
LEMMA NewGreatest ==
  ASSUME NEW S \in SUBSET Nat, NEW n \in Nat, \A k \in S : k < n
  PROVE  /\ Max(S \cup {n}) = n
         /\ Min(S \cup {n}) = IF S = {} THEN n ELSE Min(S)
<1>1. Max(S \cup {n}) = n
  <2>1. \A k \in S \cup {n} : n >= k
    OBVIOUS
  <2> QED
    BY <2>1, MaxIsGreatest
<1>2. CASE S = {}
  <2>1. S \cup {n} = {n}
    BY <1>2
  <2>2. Min({n}) = n
    BY MinIsLeast
  <2> QED
    BY <1>1, <1>2, <2>1, <2>2
<1>3. CASE S # {}
  <2>1. PICK l \in S : \A k \in S : l <= k
    BY <1>3, LeastElement
  <2>2. Min(S) = l
    BY <2>1, MinIsLeast
  <2>3. \A k \in S \cup {n} : l <= k
    BY <2>1
  <2>4. Min(S \cup {n}) = l
    BY <2>3, MinIsLeast
  <2> QED
    BY <1>1, <1>3, <2>2, <2>4
<1> QED
  BY <1>2, <1>3

-----------------------------------------------------------------------------
(* Induction.                                                              *)

(* A set that holds 0 and every successor holds every number.              *)
LEMMA NumberInduction ==
  ASSUME NEW G, 0 \in G, \A n \in Nat : n \in G => n + 1 \in G
  PROVE  \A n \in Nat : n \in G
<1> SUFFICES ASSUME Nat \ G # {} PROVE FALSE
  OBVIOUS
<1>1. PICK n \in Nat \ G : \A k \in Nat \ G : n <= k
  BY LeastElement
<1>2. n # 0 /\ n - 1 \in Nat
  BY <1>1
<1>3. n - 1 \in G
  BY <1>1, <1>2
<1>4. (n - 1) + 1 = n
  BY <1>1
<1> QED
  BY <1>1, <1>2, <1>3, <1>4

-----------------------------------------------------------------------------
(* Sums over finite sets.  The fold of the library is a recursive function *)
(* on the subsets, that is, a CHOOSE: it has to be shown to exist.         *)

Pick(s) == CHOOSE x \in s : TRUE

SumStep(g, f, s) == IF s = {} THEN 0 ELSE f[Pick(s)] + g[s \ {Pick(s)}]

IsSumTable(g, f, S) == g = [s \in SUBSET S |-> SumStep(g, f, s)]

(* SumFunctionOnSet takes its value from a table of all subsets.           *)
LEMMA SumIsTable ==
  ASSUME NEW f, NEW S
  PROVE  SumFunctionOnSet(f, S) = (CHOOSE g : IsSumTable(g, f, S))[S]
  BY DEF SumFunctionOnSet, FoldFunctionOnSet, MapThenFoldSet, IsSumTable, SumStep, Pick

(* The table exists: it is built up for ever larger subsets.               *)
LEMMA SumTableExists ==
  ASSUME NEW f, NEW S, IsFiniteSet(S)
  PROVE  \E g : IsSumTable(g, f, S)
<1> DEFINE Level(n) == {s \in SUBSET S : Cardinality(s) <= n}
           G == {n \in Nat : \E g : g = [s \in Level(n) |-> SumStep(g, f, s)]}
<1>1. \A s \in SUBSET S : IsFiniteSet(s) /\ Cardinality(s) \in Nat
                          /\ Cardinality(s) <= Cardinality(S)
  BY FS_Subset, FS_CardinalityType
<1>2. \A s \in SUBSET S : s # {} => Pick(s) \in s
  BY DEF Pick
<1>3. 0 \in G
  <2>1. \A s \in Level(0) : s = {}
    BY <1>1, FS_EmptySet
  <2> DEFINE g == [s \in Level(0) |-> 0]
  <2>2. g = [s \in Level(0) |-> SumStep(g, f, s)]
    BY <2>1 DEF SumStep
  <2> QED
    BY <2>2
<1>4. ASSUME NEW n \in Nat, n \in G
      PROVE  n + 1 \in G
  <2>1. PICK g : g = [s \in Level(n) |-> SumStep(g, f, s)]
    BY <1>4
  <2> DEFINE h == [s \in Level(n + 1) |-> SumStep(g, f, s)]
  <2>2. \A s \in Level(n + 1) : s # {} => s \ {Pick(s)} \in Level(n)
    <3> SUFFICES ASSUME NEW s \in Level(n + 1), s # {}
                 PROVE  s \ {Pick(s)} \in Level(n)
      OBVIOUS
    <3>1. Cardinality(s \ {Pick(s)}) = Cardinality(s) - 1
      BY <1>1, <1>2, FS_RemoveElement
    <3> QED
      BY <1>1, <3>1
  <2>3. \A s \in Level(n) : s \in Level(n + 1)
    BY <1>1
  <2>4. \A s \in Level(n) : h[s] = g[s]
    BY <2>1, <2>3
  <2>5. \A s \in Level(n + 1) : SumStep(g, f, s) = SumStep(h, f, s)
    BY <2>2, <2>4 DEF SumStep
  <2>6. h = [s \in Level(n + 1) |-> SumStep(h, f, s)]
    BY <2>5
  <2>7. \E k : k = [s \in Level(n + 1) |-> SumStep(k, f, s)]
    <3> HIDE DEF h
    <3> QED
      BY <2>6
  <2>8. n + 1 \in Nat
    OBVIOUS
  <2> HIDE DEF Level
  <2> QED
    BY <2>7, <2>8
<1>5. Cardinality(S) \in Nat
  BY FS_CardinalityType
<1>6. Cardinality(S) \in G
  <2> HIDE DEF G
  <2> QED
    BY <1>3, <1>4, <1>5, NumberInduction
<1>7. Level(Cardinality(S)) = SUBSET S
  BY <1>1
<1> QED
  BY <1>6, <1>7 DEF IsSumTable

(* Two tables agree where their functions do.                              *)
LEMMA SumTablesAgree ==
  ASSUME NEW f, NEW e, NEW S, IsFiniteSet(S), NEW T, T \subseteq S,
         \A x \in T : f[x] = e[x],
         NEW g, IsSumTable(g, f, S), NEW h, IsSumTable(h, e, T)
  PROVE  \A s \in SUBSET T : g[s] = h[s]
<1> DEFINE Bad   == {s \in SUBSET T : g[s] # h[s]}
           Sizes == {Cardinality(s) : s \in Bad}
<1> SUFFICES ASSUME Bad # {} PROVE FALSE
  OBVIOUS
<1>1. \A s \in SUBSET S : IsFiniteSet(s) /\ Cardinality(s) \in Nat
  BY FS_Subset, FS_CardinalityType
<1>2. Sizes \in SUBSET Nat /\ Sizes # {}
  BY <1>1
<1>3. PICK s \in Bad : \A t \in Bad : Cardinality(s) <= Cardinality(t)
  <2>1. PICK l \in Sizes : \A k \in Sizes : l <= k
    BY <1>2, LeastElement
  <2> QED
    BY <2>1
<1>4. s \in SUBSET T /\ g[s] = SumStep(g, f, s) /\ h[s] = SumStep(h, e, s)
  BY DEF IsSumTable
<1>5. s # {}
  BY <1>3, <1>4 DEF SumStep
<1> DEFINE rest == s \ {Pick(s)}
<1>6. Pick(s) \in s
  BY <1>5 DEF Pick
<1>7. rest \in SUBSET T /\ Cardinality(rest) = Cardinality(s) - 1
  BY <1>1, <1>4, <1>6, FS_RemoveElement
<1>8. g[rest] = h[rest]
  BY <1>1, <1>3, <1>4, <1>7
<1> QED
  BY <1>3, <1>4, <1>6, <1>8 DEF SumStep

(* The sum of nothing.                                                     *)
LEMMA SumEmpty ==
  ASSUME NEW f
  PROVE  SumFunctionOnSet(f, {}) = 0
<1>1. \E g : IsSumTable(g, f, {})
  BY FS_EmptySet, SumTableExists
<1> QED
  BY <1>1, SumIsTable DEF IsSumTable, SumStep

(* The sum depends on the values in the set only.                          *)
LEMMA SumSame ==
  ASSUME NEW f, NEW e, NEW S, IsFiniteSet(S), \A x \in S : f[x] = e[x]
  PROVE  SumFunctionOnSet(f, S) = SumFunctionOnSet(e, S)
<1>1. PICK g : IsSumTable(g, f, S) /\ SumFunctionOnSet(f, S) = g[S]
  BY SumTableExists, SumIsTable
<1>2. PICK h : IsSumTable(h, e, S) /\ SumFunctionOnSet(e, S) = h[S]
  BY SumTableExists, SumIsTable
<1> QED
  BY <1>1, <1>2, SumTablesAgree

(* The element the fold takes first.                                       *)
LEMMA SumPicked ==
  ASSUME NEW f, NEW S, IsFiniteSet(S), S # {}
  PROVE  /\ Pick(S) \in S
         /\ SumFunctionOnSet(f, S) = f[Pick(S)] + SumFunctionOnSet(f, S \ {Pick(S)})
<1> DEFINE T == S \ {Pick(S)}
<1>1. PICK g : IsSumTable(g, f, S) /\ SumFunctionOnSet(f, S) = g[S]
  BY SumTableExists, SumIsTable
<1>2. IsFiniteSet(T)
  BY FS_RemoveElement
<1>3. PICK h : IsSumTable(h, f, T) /\ SumFunctionOnSet(f, T) = h[T]
  BY <1>2, SumTableExists, SumIsTable
<1>4. g[T] = h[T]
  <2>1. T \subseteq S /\ T \in SUBSET T
    OBVIOUS
  <2> HIDE DEF T
  <2>2. PICK e : e = f
    OBVIOUS
  <2>3. IsSumTable(h, e, T) /\ \A x \in T : f[x] = e[x]
    BY <1>3, <2>2
  <2>4. \A s \in SUBSET T : g[s] = h[s]
    BY <1>1, <2>1, <2>3, SumTablesAgree
  <2> QED
    BY <2>1, <2>4
<1>5. g[S] = SumStep(g, f, S)
  BY <1>1 DEF IsSumTable
<1>6. Pick(S) \in S
  BY DEF Pick
<1> QED
  BY <1>1, <1>3, <1>4, <1>5, <1>6 DEF SumStep

(* A sum of integers is an integer, one of natural numbers is natural.     *)
LEMMA SumType ==
  ASSUME NEW V \in {Nat, Int}, NEW f, NEW S, IsFiniteSet(S), \A x \in S : f[x] \in V
  PROVE  SumFunctionOnSet(f, S) \in V
<1> DEFINE G == {n \in Nat : \A s \in SUBSET S :
                    Cardinality(s) = n => SumFunctionOnSet(f, s) \in V}
<1>1. \A s \in SUBSET S : IsFiniteSet(s) /\ Cardinality(s) \in Nat
  BY FS_Subset, FS_CardinalityType
<1>2. 0 \in V /\ \A a, b \in V : a + b \in V
  OBVIOUS
<1>3. 0 \in G
  BY <1>1, <1>2, SumEmpty, FS_EmptySet
<1>4. ASSUME NEW n \in Nat, n \in G
      PROVE  n + 1 \in G
  <2> SUFFICES ASSUME NEW s \in SUBSET S, Cardinality(s) = n + 1
               PROVE  SumFunctionOnSet(f, s) \in V
    OBVIOUS
  <2>1. s # {}
    BY FS_EmptySet
  <2>2. /\ Pick(s) \in s
        /\ SumFunctionOnSet(f, s) = f[Pick(s)] + SumFunctionOnSet(f, s \ {Pick(s)})
    BY <1>1, <2>1, SumPicked
  <2>3. Cardinality(s \ {Pick(s)}) = n
    <3>1. Cardinality(s \ {Pick(s)}) = Cardinality(s) - 1
      BY <1>1, <2>2, FS_RemoveElement
    <3> QED
      BY <3>1
  <2>4. SumFunctionOnSet(f, s \ {Pick(s)}) \in V
    BY <1>4, <2>3
  <2> QED
    BY <1>2, <2>2, <2>4
<1>5. Cardinality(S) \in G
  <2>1. Cardinality(S) \in Nat
    BY FS_CardinalityType
  <2> HIDE DEF G
  <2> QED
    BY <1>3, <1>4, <2>1, NumberInduction
<1> QED
  BY <1>5

(* Any element of the set can be taken out first.                          *)
LEMMA SumTakeOut ==
  ASSUME NEW f, NEW S, IsFiniteSet(S), \A x \in S : f[x] \in Int, NEW y \in S
  PROVE  SumFunctionOnSet(f, S) = f[y] + SumFunctionOnSet(f, S \ {y})
<1> DEFINE Sum(s) == SumFunctionOnSet(f, s)
           G == {n \in Nat : \A s \in SUBSET S : \A x \in s :
                    Cardinality(s) = n => Sum(s) = f[x] + Sum(s \ {x})}
<1>1. \A s \in SUBSET S : IsFiniteSet(s) /\ Cardinality(s) \in Nat /\ Sum(s) \in Int
  <2>1. \A s \in SUBSET S : IsFiniteSet(s) /\ \A x \in s : f[x] \in Int
    BY FS_Subset
  <2> QED
    BY <2>1, FS_CardinalityType, SumType
<1>2. 0 \in G
  BY <1>1, FS_EmptySet
<1>3. ASSUME NEW n \in Nat, n \in G
      PROVE  n + 1 \in G
  <2> SUFFICES ASSUME NEW s \in SUBSET S, NEW x \in s, Cardinality(s) = n + 1
               PROVE  Sum(s) = f[x] + Sum(s \ {x})
    OBVIOUS
  <2> DEFINE p == Pick(s)
  <2>1. p \in s /\ Sum(s) = f[p] + Sum(s \ {p})
    BY <1>1, SumPicked
  <2>2. CASE x = p
    BY <2>1, <2>2
  <2>3. CASE x # p
    <3>1. Cardinality(s \ {p}) = n /\ Cardinality(s \ {x}) = n
      BY <1>1, <2>1, FS_RemoveElement
    <3>2. \A t \in SUBSET S : \A z \in t : Cardinality(t) = n => Sum(t) = f[z] + Sum(t \ {z})
      BY <1>3
    <3>3. /\ Sum(s \ {p}) = f[x] + Sum((s \ {p}) \ {x})
          /\ Sum(s \ {x}) = f[p] + Sum((s \ {x}) \ {p})
      <4> HIDE DEF Sum, p, G
      <4> QED
        BY <2>1, <2>3, <3>1, <3>2
    <3>4. (s \ {p}) \ {x} = (s \ {x}) \ {p}
      OBVIOUS
    <3>5. /\ f[p] \in Int /\ f[x] \in Int
          /\ Sum((s \ {x}) \ {p}) \in Int
      BY <1>1, <2>1
    <3>6. /\ Sum(s) = f[p] + (f[x] + Sum((s \ {x}) \ {p}))
          /\ Sum(s \ {x}) = f[p] + Sum((s \ {x}) \ {p})
      BY <2>1, <3>3, <3>4
    <3>7. \A a, b, c \in Int : a + (b + c) = b + (a + c)
      OBVIOUS
    <3> HIDE DEF Sum, p
    <3> QED
      BY <3>5, <3>6, <3>7
  <2> QED
    BY <2>2, <2>3
<1>4. Cardinality(S) \in G
  <2>1. Cardinality(S) \in Nat
    BY FS_CardinalityType
  <2> HIDE DEF G
  <2> QED
    BY <1>2, <1>3, <2>1, NumberInduction
<1> QED
  BY <1>4

(* The sum over a set that grows by one element.                           *)
LEMMA SumAdd ==
  ASSUME NEW f, NEW S, IsFiniteSet(S), NEW y, y \notin S,
         \A x \in S \cup {y} : f[x] \in Int
  PROVE  SumFunctionOnSet(f, S \cup {y}) = SumFunctionOnSet(f, S) + f[y]
<1>1. IsFiniteSet(S \cup {y}) /\ (S \cup {y}) \ {y} = S /\ y \in S \cup {y}
  BY FS_AddElement
<1>2. SumFunctionOnSet(f, S \cup {y}) = f[y] + SumFunctionOnSet(f, S)
  <2> DEFINE T == S \cup {y}
  <2>1. IsFiniteSet(T) /\ T \ {y} = S /\ y \in T /\ \A x \in T : f[x] \in Int
    BY <1>1
  <2> HIDE DEF T
  <2>2. SumFunctionOnSet(f, T) = f[y] + SumFunctionOnSet(f, S)
    BY <2>1, SumTakeOut
  <2> QED
    BY <2>2 DEF T
<1>3. SumFunctionOnSet(f, S) \in Int /\ f[y] \in Int
  BY SumType
<1> QED
  BY <1>2, <1>3

=============================================================================
