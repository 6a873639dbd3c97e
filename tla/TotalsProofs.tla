---------------------------- MODULE TotalsProofs ----------------------------
(***************************************************************************)
(* Facts about sums and about unsigned machine words that the proofs of    *)
(* the modules with balances cite.                                         *)
(***************************************************************************)
EXTENDS Totals, FiniteSetTheorems, TLAPS

LEMMA UnitsOf ==
  ASSUME NEW S, NEW f \in [S -> Nat]
  PROVE  \A u : u \in Units(f) <=> \E i \in S : \E k \in 1 .. f[i] : u = <<i, k>>
BY DEF Units

LEMMA UnitsFinite ==
  ASSUME NEW S, IsFiniteSet(S), NEW f \in [S -> Nat]
  PROVE  IsFiniteSet(Units(f))
<1> DEFINE Sets == {{i} \X (1 .. f[i]) : i \in S}
           g == [i \in S |-> {i} \X (1 .. f[i])]
<1>1. IsFiniteSet(Sets)
  <2>1. g \in Surjection(S, Sets)
    BY DEF Surjection
  <2> QED
    BY <2>1, FS_Surjection
<1>2. \A T \in Sets : IsFiniteSet(T)
  <2> SUFFICES ASSUME NEW i \in S PROVE IsFiniteSet({i} \X (1 .. f[i]))
    OBVIOUS
  <2>1. IsFiniteSet({i}) /\ IsFiniteSet(1 .. f[i])
    <3>1. 1 \in Int /\ f[i] \in Int
      OBVIOUS
    <3>2. IsFiniteSet(1 .. f[i])
      BY <3>1, FS_Interval
    <3>3. IsFiniteSet({i})
      BY FS_Singleton
    <3> QED
      BY <3>2, <3>3
  <2> QED
    BY <2>1, FS_Product
<1> QED
  BY <1>1, <1>2, FS_UNION DEF Units

LEMMA TotalType ==
  ASSUME NEW S, IsFiniteSet(S), NEW f \in [S -> Nat]
  PROVE  Total(f) \in Nat
BY UnitsFinite, FS_CardinalityType DEF Total

\* The units of one key.
LEMMA KeyUnits ==
  ASSUME NEW i, NEW n \in Nat
  PROVE  IsFiniteSet({i} \X (1 .. n)) /\ Cardinality({i} \X (1 .. n)) = n
<1>1. IsFiniteSet({i}) /\ Cardinality({i}) = 1
  BY FS_Singleton
<1>2. IsFiniteSet(1 .. n) /\ Cardinality(1 .. n) = n
  BY FS_Interval
<1>3. Cardinality({i} \X (1 .. n)) = 1 * n
  BY <1>1, <1>2, FS_Product
<1> QED
  BY <1>1, <1>2, <1>3, FS_Product

\* What is left of the units without those of key i, and the sum split at i.
LEMMA TotalSplit ==
  ASSUME NEW S, IsFiniteSet(S), NEW f \in [S -> Nat], NEW i \in S
  PROVE  LET rest == Units([j \in S \ {i} |-> f[j]]) IN
         /\ IsFiniteSet(rest) /\ Cardinality(rest) \in Nat
         /\ Total(f) = Cardinality(rest) + f[i]
<1> DEFINE g == [j \in S \ {i} |-> f[j]]
           rest == Units(g)
           own == {i} \X (1 .. f[i])
<1>1. g \in [S \ {i} -> Nat] /\ IsFiniteSet(S \ {i})
  BY FS_Difference
<1>2. IsFiniteSet(rest) /\ Cardinality(rest) \in Nat
  BY <1>1, UnitsFinite, FS_CardinalityType
<1>3. IsFiniteSet(own) /\ Cardinality(own) = f[i]
  BY KeyUnits
<1>4. \A u : u \in rest <=> \E j \in S \ {i} : \E k \in 1 .. f[j] : u = <<j, k>>
  <2>1. \A u : u \in Units(g) <=> \E j \in S \ {i} : \E k \in 1 .. g[j] : u = <<j, k>>
    BY <1>1, UnitsOf
  <2> QED
    BY <2>1
<1>5. Units(f) = rest \cup own
  <2>1. \A u : u \in Units(f) <=> \E j \in S : \E k \in 1 .. f[j] : u = <<j, k>>
    BY UnitsOf
  <2> HIDE DEF rest
  <2>2. \A u : u \in own <=> \E k \in 1 .. f[i] : u = <<i, k>>
    OBVIOUS
  <2> HIDE DEF own
  <2> QED
    BY <2>1, <2>2, <1>4
<1>6. rest \cap own = {}
  BY <1>4
<1> HIDE DEF rest, own
<1>7. Cardinality(Units(f)) = Cardinality(rest) + Cardinality(own) - Cardinality(rest \cap own)
  BY <1>2, <1>3, <1>5, FS_Union
<1>8. Cardinality(rest \cap own) = 0
  BY <1>6, FS_EmptySet
<1> QED
  BY <1>2, <1>3, <1>7, <1>8 DEF Total, rest

\* The sum after one value has changed.
LEMMA TotalUpdate ==
  ASSUME NEW S, IsFiniteSet(S), NEW f \in [S -> Nat], NEW i \in S, NEW v \in Nat
  PROVE  Total([f EXCEPT ![i] = v]) = Total(f) - f[i] + v
<1> DEFINE h == [f EXCEPT ![i] = v]
           rest(e) == Units([j \in S \ {i} |-> e[j]])
<1>1. h \in [S -> Nat] /\ h[i] = v
  OBVIOUS
<1>2. [j \in S \ {i} |-> h[j]] = [j \in S \ {i} |-> f[j]]
  OBVIOUS
<1>3. rest(h) = rest(f)
  BY <1>2
<1>4. Cardinality(rest(f)) \in Nat /\ Total(f) = Cardinality(rest(f)) + f[i]
  BY TotalSplit
<1>5. Total(h) = Cardinality(rest(h)) + h[i]
  BY <1>1, TotalSplit
<1>6. f[i] \in Nat
  OBVIOUS
<1> QED
  BY <1>1, <1>3, <1>4, <1>5, <1>6

\* What changes at one key changes the total by as much.
LEMMA TotalChange ==
  ASSUME NEW S, IsFiniteSet(S), NEW f \in [S -> Nat], NEW g \in [S -> Nat],
         NEW i \in S, \A j \in S \ {i} : g[j] = f[j]
  PROVE  /\ Total(f) \in Nat /\ Total(g) \in Nat
         /\ Total(g) = Total(f) - f[i] + g[i]
<1> DEFINE v == g[i]
<1>1. v \in Nat /\ f[i] \in Nat /\ Total(f) \in Nat /\ Total(g) \in Nat
  BY TotalType
<1>2. g = [f EXCEPT ![i] = v]
  OBVIOUS
<1>3. Total([f EXCEPT ![i] = v]) = Total(f) - f[i] + v
  <2> HIDE DEF v
  <2> QED
    BY <1>1, TotalUpdate
<1> QED
  BY <1>1, <1>2, <1>3

\* One more key adds its value.
LEMMA TotalExtend ==
  ASSUME NEW S, IsFiniteSet(S), NEW i, i \notin S,
         NEW f \in [S -> Nat], NEW g \in [S \cup {i} -> Nat], \A j \in S : g[j] = f[j]
  PROVE  /\ Total(f) \in Nat /\ Total(g) \in Nat
         /\ Total(g) = Total(f) + g[i]
<1> DEFINE T == S \cup {i}
           rest == [j \in T \ {i} |-> g[j]]
<1>1. IsFiniteSet(T) /\ i \in T /\ g \in [T -> Nat]
  BY FS_AddElement
<1>2. rest = f
  OBVIOUS
<1>3. Total(g) = Cardinality(Units(rest)) + g[i]
  BY <1>1, TotalSplit
<1>4. Total(f) \in Nat /\ Total(g) \in Nat
  BY <1>1, TotalType
<1> QED
  BY <1>2, <1>3, <1>4 DEF Total

\* No value exceeds the sum.
LEMMA TotalBounds ==
  ASSUME NEW S, IsFiniteSet(S), NEW f \in [S -> Nat], NEW i \in S
  PROVE  f[i] <= Total(f)
<1> DEFINE rest == Units([j \in S \ {i} |-> f[j]])
<1>1. f[i] \in Nat
  OBVIOUS
<1>2. Cardinality(rest) \in Nat /\ Total(f) = Cardinality(rest) + f[i]
  BY TotalSplit
<1> QED
  BY <1>1, <1>2

LEMMA TotalZero ==
  ASSUME NEW S, NEW f \in [S -> Nat], \A i \in S : f[i] = 0
  PROVE  Total(f) = 0
<1>1. Units(f) = {}
  BY UnitsOf
<1> QED
  BY <1>1, FS_EmptySet DEF Total
-----------------------------------------------------------------------------
(***************************************************************************)
(* Remainders: what a sum computed in machine words is.                    *)
(***************************************************************************)
LEMMA MultipleAtLeast ==
  ASSUME NEW w \in Nat \ {0}, NEW k \in Nat \ {0}
  PROVE  k * w >= w
BY SMTT(30)

LEMMA MultipleDiff ==
  ASSUME NEW w \in Nat \ {0}, NEW k \in Int, NEW j \in Int
  PROVE  k * w - j * w = (k - j) * w
BY SMTT(30)

LEMMA RemainderSpec ==
  ASSUME NEW w \in Nat \ {0}, NEW x \in Nat
  PROVE  x % w \in 0 .. w - 1 /\ x \div w \in Nat /\ x = (x \div w) * w + (x % w)
BY SMTT(30)

LEMMA RemainderUnique ==
  ASSUME NEW w \in Nat \ {0}, NEW k \in Int, NEW j \in Int,
         NEW a \in 0 .. w - 1, NEW b \in 0 .. w - 1, k * w + a = j * w + b
  PROVE  a = b
<1>1. CASE k > j
  <2>1. (k - j) * w >= w
    BY <1>1, MultipleAtLeast
  <2> QED
    BY <2>1, MultipleDiff, SMTT(30)
<1>2. CASE k < j
  <2>1. (j - k) * w >= w
    BY <1>2, MultipleAtLeast
  <2> QED
    BY <2>1, MultipleDiff, SMTT(30)
<1>3. CASE k = j
  BY <1>3, SMTT(30)
<1> QED
  BY <1>1, <1>2, <1>3

\* Adding a word to a wrapped sum wraps to the same word as the true sum.
LEMMA RemainderAdd ==
  ASSUME NEW w \in Nat \ {0}, NEW x \in Nat, NEW y \in Nat
  PROVE  ((x % w) + y) % w = (x + y) % w
<1> DEFINE q == x \div w
           r == x % w
<1>1. q \in Nat /\ r \in 0 .. w - 1 /\ x = q * w + r
  BY RemainderSpec
<1> HIDE DEF q, r
<1>2. /\ (r + y) % w \in 0 .. w - 1 /\ (r + y) \div w \in Nat
      /\ r + y = ((r + y) \div w) * w + ((r + y) % w)
  <2>1. r + y \in Nat
    BY <1>1
  <2> QED
    BY <2>1, RemainderSpec, Zenon
<1>3. /\ (x + y) % w \in 0 .. w - 1 /\ (x + y) \div w \in Nat
      /\ x + y = ((x + y) \div w) * w + ((x + y) % w)
  <2>1. x + y \in Nat
    OBVIOUS
  <2> QED
    BY <2>1, RemainderSpec, Zenon
<1> DEFINE s == (r + y) \div w
           t == (x + y) \div w
           a == (r + y) % w
           b == (x + y) % w
<1>4. s \in Nat /\ t \in Nat /\ a \in 0 .. w - 1 /\ b \in 0 .. w - 1
      /\ r + y = s * w + a /\ x + y = t * w + b
  BY <1>2, <1>3
<1> HIDE DEF s, t, a, b
<1>5. (q + s) * w + a = t * w + b
  BY <1>1, <1>4, SMTT(30)
<1>6. a = b
  <2>1. q + s \in Int /\ t \in Int
    BY <1>1, <1>4
  <2> QED
    BY <2>1, <1>4, <1>5, RemainderUnique
<1> QED
  BY <1>6 DEF a, b, r

\* A sum below the word size is its own remainder.
LEMMA RemainderSmall ==
  ASSUME NEW w \in Nat \ {0}, NEW x \in 0 .. w - 1
  PROVE  x % w = x
<1>1. x % w \in 0 .. w - 1 /\ x \div w \in Nat /\ x = (x \div w) * w + (x % w)
  <2>1. x \in Nat
    OBVIOUS
  <2> QED
    BY <2>1, RemainderSpec, Zenon
<1>2. 0 * w + x = x
  OBVIOUS
<1> QED
  BY <1>1, <1>2, RemainderUnique

\* A whole word more or less does not change the remainder.
LEMMA RemainderWrap ==
  ASSUME NEW w \in Nat \ {0}, NEW x \in Nat
  PROVE  (x + w) % w = x % w
<1>1. x % w \in 0 .. w - 1 /\ x \div w \in Nat /\ x = (x \div w) * w + (x % w)
  BY RemainderSpec
<1>2. /\ (x + w) % w \in 0 .. w - 1 /\ (x + w) \div w \in Nat
      /\ x + w = ((x + w) \div w) * w + ((x + w) % w)
  <2>1. x + w \in Nat
    OBVIOUS
  <2> QED
    BY <2>1, RemainderSpec, Zenon
<1> DEFINE q == x \div w
           t == (x + w) \div w
           a == x % w
           b == (x + w) % w
<1>3. /\ q \in Nat /\ t \in Nat /\ a \in 0 .. w - 1 /\ b \in 0 .. w - 1
      /\ x = q * w + a /\ x + w = t * w + b
  BY <1>1, <1>2
<1> HIDE DEF q, t, a, b
<1>4. (q + 1) * w + a = t * w + b
  BY <1>3, SMTT(30)
<1>5. a = b
  <2>1. q + 1 \in Int /\ t \in Int
    BY <1>3
  <2> QED
    BY <2>1, <1>3, <1>4, RemainderUnique
<1> QED
  BY <1>5 DEF a, b

\* The sum of two words in one word.
LEMMA WordSum ==
  ASSUME NEW w \in Nat \ {0}, NEW x \in 0 .. w - 1, NEW y \in 0 .. w - 1
  PROVE  (x + y) % w = IF x + y < w THEN x + y ELSE x + y - w
<1>1. CASE x + y < w
  <2>1. x + y \in 0 .. w - 1
    BY <1>1
  <2> QED
    BY <1>1, <2>1, RemainderSmall
<1>2. CASE x + y >= w
  <2>1. x + y - w \in 0 .. w - 1 /\ x + y - w \in Nat
    BY <1>2
  <2>2. (x + y - w) % w = x + y - w
    BY <2>1, RemainderSmall
  <2>3. ((x + y - w) + w) % w = (x + y - w) % w
    BY <2>1, RemainderWrap
  <2>4. (x + y - w) + w = x + y
    OBVIOUS
  <2> QED
    BY <1>2, <2>2, <2>3, <2>4
<1> QED
  BY <1>1, <1>2
=============================================================================
