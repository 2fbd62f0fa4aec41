----------------------------- MODULE SumsProofs -----------------------------
(***************************************************************************)
(* How a sum changes with its function: the lemmas about SumOf that the    *)
(* proofs about the wallets, the balances and the reports rest on.         *)
(***************************************************************************)
EXTENDS Sums, FiniteSetTheorems, TLAPS

At(f, x) == IF x \in DOMAIN f THEN f[x] ELSE 0
Natural(f) == \A x \in DOMAIN f : f[x] \in Nat

LEMMA UnitsAt ==
  ASSUME NEW f
  PROVE  /\ \A p \in Units(f) : p = <<p[1], p[2]>> /\ p[2] \in 1 .. At(f, p[1])
         /\ \A x : \A i \in 1 .. At(f, x) : <<x, i>> \in Units(f)
<1>1. ASSUME NEW p \in Units(f) PROVE p = <<p[1], p[2]>> /\ p[2] \in 1 .. At(f, p[1])
  <2>1. PICK x \in DOMAIN f : p \in {x} \X (1 .. f[x])
    BY DEF Units
  <2> QED
    BY <2>1 DEF At
<1>2. ASSUME NEW x, NEW i \in 1 .. At(f, x) PROVE <<x, i>> \in Units(f)
  <2>1. x \in DOMAIN f /\ i \in 1 .. f[x]
    BY DEF At
  <2>2. <<x, i>> \in {x} \X (1 .. f[x])
    BY <2>1
  <2> QED
    BY <2>1, <2>2 DEF Units
<1> QED
  BY <1>1, <1>2

LEMMA NaturalSum ==
  ASSUME NEW f, Natural(f), IsFiniteSet(Units(f))
  PROVE  SumOf(f) = Cardinality(Units(f)) /\ SumOf(f) \in Nat
<1> DEFINE g == [x \in DOMAIN f |-> -f[x]]
<1>1. \A x : 1 .. At(g, x) = {}
  BY DEF At, Natural
<1> HIDE DEF g
<1>2. Units(g) = {}
  BY <1>1, UnitsAt
<1>3. Cardinality(Units(g)) = 0 /\ Cardinality(Units(f)) \in Nat
  BY <1>2, FS_EmptySet, FS_CardinalityType
<1> QED
  BY <1>3 DEF SumOf, g

\* The sum of a function of natural numbers that are all zero.
LEMMA ZeroSum ==
  ASSUME NEW f, Natural(f), \A x : At(f, x) = 0
  PROVE  IsFiniteSet(Units(f)) /\ SumOf(f) = 0
<1>1. Units(f) = {}
  BY UnitsAt
<1>2. IsFiniteSet(Units(f)) /\ Cardinality(Units(f)) = 0
  BY <1>1, FS_EmptySet
<1> QED
  BY <1>2, NaturalSum

LEMMA SumGrows ==
  ASSUME NEW f, NEW g, Natural(f), Natural(g), IsFiniteSet(Units(g)),
         \A x : At(f, x) <= At(g, x)
  PROVE  IsFiniteSet(Units(f)) /\ SumOf(f) <= SumOf(g)
<1>1. \A x : At(f, x) \in Nat /\ At(g, x) \in Nat
  BY DEF At, Natural
<1>2. Units(f) \subseteq Units(g)
  <2> SUFFICES ASSUME NEW p \in Units(f) PROVE p \in Units(g)
    OBVIOUS
  <2>1. p = <<p[1], p[2]>> /\ p[2] \in 1 .. At(f, p[1])
    BY UnitsAt
  <2>2. p[2] \in 1 .. At(g, p[1])
    BY <1>1, <2>1
  <2> QED
    BY <2>1, <2>2, UnitsAt
<1>3. IsFiniteSet(Units(f)) /\ Cardinality(Units(f)) <= Cardinality(Units(g))
  BY <1>2, FS_Subset
<1> QED
  BY <1>3, NaturalSum

LEMMA SumChangesAt ==
  ASSUME NEW f, NEW g, NEW x, Natural(f), Natural(g), IsFiniteSet(Units(f)),
         \A y : y # x => At(f, y) = At(g, y)
  PROVE  /\ IsFiniteSet(Units(g)) /\ SumOf(f) \in Nat
         /\ SumOf(g) = SumOf(f) - At(f, x) + At(g, x)
<1> DEFINE rest == {p \in Units(f) : p[1] # x}
           C(n) == {x} \X (1 .. n)
<1>1. At(f, x) \in Nat /\ At(g, x) \in Nat
  BY DEF At, Natural
<1>2. ASSUME NEW h, \A y : y # x => At(h, y) = At(f, y)
      PROVE  Units(h) = rest \cup C(At(h, x)) /\ rest \cap C(At(h, x)) = {}
  <2>1. ASSUME NEW p \in Units(h) PROVE p \in rest \cup C(At(h, x))
    <3>1. p = <<p[1], p[2]>> /\ p[2] \in 1 .. At(h, p[1])
      BY UnitsAt
    <3>2. CASE p[1] = x
      BY <3>1, <3>2
    <3>3. CASE p[1] # x
      <4>1. <<p[1], p[2]>> \in Units(f)
        BY <1>2, <3>1, <3>3, UnitsAt
      <4> QED
        BY <3>1, <3>3, <4>1
    <3> QED
      BY <3>2, <3>3
  <2>2. ASSUME NEW p \in rest PROVE p \in Units(h)
    <3>1. p = <<p[1], p[2]>> /\ p[2] \in 1 .. At(f, p[1]) /\ p[1] # x
      BY UnitsAt
    <3>2. <<p[1], p[2]>> \in Units(h)
      BY <1>2, <3>1, UnitsAt
    <3> QED
      BY <3>1, <3>2
  <2>3. ASSUME NEW p \in C(At(h, x)) PROVE p \in Units(h) /\ p \notin rest
    <3>1. PICK i \in 1 .. At(h, x) : p = <<x, i>>
      OBVIOUS
    <3> QED
      BY <3>1, UnitsAt
  <2> HIDE DEF rest, C
  <2> QED
    BY <2>1, <2>2, <2>3
<1>3. ASSUME NEW n \in Nat PROVE IsFiniteSet(C(n)) /\ Cardinality(C(n)) = n
  <2>1. IsFiniteSet(1 .. n) /\ Cardinality(1 .. n) = n
    BY FS_Interval
  <2>2. IsFiniteSet({x}) /\ Cardinality({x}) = 1
    BY FS_Singleton
  <2>3. /\ IsFiniteSet({x} \X (1 .. n))
        /\ Cardinality({x} \X (1 .. n)) = Cardinality({x}) * Cardinality(1 .. n)
    BY <2>1, <2>2, FS_Product
  <2> QED
    BY <2>1, <2>2, <2>3
<1>4. IsFiniteSet(rest) /\ Cardinality(rest) \in Nat
  BY FS_Subset, FS_CardinalityType
<1> HIDE DEF rest, C
<1>5. ASSUME NEW h, \A y : y # x => At(h, y) = At(f, y), At(h, x) \in Nat
      PROVE  IsFiniteSet(Units(h)) /\ Cardinality(Units(h)) = Cardinality(rest) + At(h, x)
  <2>1. Units(h) = rest \cup C(At(h, x)) /\ rest \cap C(At(h, x)) = {}
    BY <1>2, <1>5
  <2>2. IsFiniteSet(C(At(h, x))) /\ Cardinality(C(At(h, x))) = At(h, x)
    BY <1>3, <1>5
  <2>3. /\ IsFiniteSet(rest \cup C(At(h, x)))
        /\ Cardinality(rest \cup C(At(h, x))) =
             Cardinality(rest) + Cardinality(C(At(h, x))) - Cardinality(rest \cap C(At(h, x)))
    BY <1>4, <2>2, FS_Union
  <2> QED
    BY <1>4, <1>5, <2>1, <2>2, <2>3, FS_EmptySet
<1>6. Cardinality(Units(f)) = Cardinality(rest) + At(f, x)
  BY <1>1, <1>5
<1>7. IsFiniteSet(Units(g)) /\ Cardinality(Units(g)) = Cardinality(rest) + At(g, x)
  BY <1>1, <1>5
<1> QED
  BY <1>1, <1>4, <1>6, <1>7, NaturalSum

\* The sum of finitely many natural numbers.
LEMMA FiniteSum ==
  ASSUME NEW f, Natural(f), IsFiniteSet(DOMAIN f)
  PROVE  IsFiniteSet(Units(f))
<1> DEFINE piles == {{x} \X (1 .. f[x]) : x \in DOMAIN f}
           pile == [x \in DOMAIN f |-> {x} \X (1 .. f[x])]
<1>1. pile \in Surjection(DOMAIN f, piles)
  BY DEF Surjection
<1>2. IsFiniteSet(piles)
  BY <1>1, FS_Surjection
<1>3. ASSUME NEW P \in piles PROVE IsFiniteSet(P)
  <2>1. PICK x \in DOMAIN f : P = {x} \X (1 .. f[x])
    OBVIOUS
  <2>2. IsFiniteSet({x}) /\ IsFiniteSet(1 .. f[x])
    <3>1. 1 \in Int /\ f[x] \in Int
      BY DEF Natural
    <3> QED
      BY <3>1, FS_Singleton, FS_Interval
  <2>3. IsFiniteSet({x} \X (1 .. f[x]))
    BY <2>2, FS_Product
  <2> QED
    BY <2>1, <2>3
<1>4. Units(f) = UNION piles
  BY DEF Units
<1> HIDE DEF piles
<1>5. IsFiniteSet(UNION piles)
  BY <1>2, <1>3, FS_UNION
<1> QED
  BY <1>4, <1>5

\* Two lists of the same amounts.
LEMMA SumReindexed ==
  ASSUME NEW f, NEW g, Natural(f), Natural(g), IsFiniteSet(Units(f)),
         NEW h \in Bijection(DOMAIN f, DOMAIN g), \A x \in DOMAIN f : g[h[x]] = f[x]
  PROVE  IsFiniteSet(Units(g)) /\ SumOf(g) = SumOf(f)
<1> DEFINE b == [p \in Units(f) |-> <<h[p[1]], p[2]>>]
<1>1. /\ \A x \in DOMAIN f : h[x] \in DOMAIN g
      /\ \A x, y \in DOMAIN f : h[x] = h[y] => x = y
      /\ \A y \in DOMAIN g : \E x \in DOMAIN f : h[x] = y
  BY DEF Bijection, Injection, Surjection, IsInjective
<1>2. ASSUME NEW p \in Units(f)
      PROVE  /\ p = <<p[1], p[2]>> /\ p[1] \in DOMAIN f /\ p[2] \in 1 .. f[p[1]]
             /\ <<h[p[1]], p[2]>> \in Units(g)
  <2>1. p = <<p[1], p[2]>> /\ p[2] \in 1 .. At(f, p[1])
    BY UnitsAt
  <2>2. p[1] \in DOMAIN f /\ p[2] \in 1 .. f[p[1]]
    BY <2>1 DEF At
  <2>3. p[2] \in 1 .. At(g, h[p[1]])
    BY <1>1, <2>2 DEF At
  <2> QED
    BY <2>1, <2>2, <2>3, UnitsAt
<1>3. ASSUME NEW p \in Units(f), NEW q \in Units(f), b[p] = b[q] PROVE p = q
  <2>1. h[p[1]] = h[q[1]] /\ p[2] = q[2]
    BY <1>3
  <2>2. p[1] \in DOMAIN f /\ q[1] \in DOMAIN f
    BY <1>2
  <2>3. p[1] = q[1]
    BY <1>1, <2>1, <2>2
  <2> QED
    BY <1>2, <2>1, <2>3
<1>4. ASSUME NEW q \in Units(g) PROVE \E p \in Units(f) : b[p] = q
  <2>1. q = <<q[1], q[2]>> /\ q[2] \in 1 .. At(g, q[1])
    BY UnitsAt
  <2>2. q[1] \in DOMAIN g /\ q[2] \in 1 .. g[q[1]]
    BY <2>1 DEF At
  <2>3. PICK x \in DOMAIN f : h[x] = q[1]
    BY <1>1, <2>2
  <2>4. q[2] \in 1 .. At(f, x)
    BY <2>2, <2>3 DEF At
  <2>5. <<x, q[2]>> \in Units(f)
    BY <2>4, UnitsAt
  <2>6. b[<<x, q[2]>>] = q
    BY <2>1, <2>3, <2>5
  <2> QED
    BY <2>5, <2>6
<1>5. b \in Bijection(Units(f), Units(g))
  <2>1. b \in [Units(f) -> Units(g)]
    BY <1>2
  <2> HIDE DEF b
  <2> QED
    BY <1>3, <1>4, <2>1 DEF Bijection, Injection, Surjection, IsInjective
<1>6. IsFiniteSet(Units(g)) /\ Cardinality(Units(g)) = Cardinality(Units(f))
  BY <1>5, FS_Bijection DEF ExistsBijection
<1> QED
  BY <1>6, NaturalSum

\* The sum of the sums.
LEMMA SumAdded ==
  ASSUME NEW f, NEW g, NEW h, Natural(f), Natural(g),
         IsFiniteSet(Units(f)), IsFiniteSet(Units(g)),
         Natural(h), \A x : At(h, x) = At(f, x) + At(g, x)
  PROVE  IsFiniteSet(Units(h)) /\ SumOf(h) = SumOf(f) + SumOf(g)
<1> DEFINE above == {p \in Units(h) : p[2] > At(f, p[1])}
           b == [p \in Units(g) |-> <<p[1], At(f, p[1]) + p[2]>>]
<1>1. \A x : At(f, x) \in Nat /\ At(g, x) \in Nat
  BY DEF At, Natural
<1>2. ASSUME NEW p \in Units(g)
      PROVE  /\ p = <<p[1], p[2]>> /\ p[2] \in 1 .. At(g, p[1])
             /\ b[p] = <<p[1], At(f, p[1]) + p[2]>> /\ b[p] \in above
  <2>1. p = <<p[1], p[2]>> /\ p[2] \in 1 .. At(g, p[1])
    BY UnitsAt
  <2>2. At(f, p[1]) + p[2] \in 1 .. At(h, p[1]) /\ At(f, p[1]) + p[2] > At(f, p[1])
    BY <1>1, <2>1
  <2>3. <<p[1], At(f, p[1]) + p[2]>> \in Units(h)
    BY <2>2, UnitsAt
  <2> QED
    BY <2>1, <2>2, <2>3
<1>3. ASSUME NEW p \in Units(g), NEW q \in Units(g), b[p] = b[q] PROVE p = q
  <2>1. p[1] = q[1] /\ At(f, p[1]) + p[2] = At(f, q[1]) + q[2]
    BY <1>2, <1>3
  <2>2. p[2] \in 1 .. At(g, p[1]) /\ q[2] \in 1 .. At(g, q[1])
    BY <1>2
  <2> DEFINE n == At(f, p[1])
             m == At(g, p[1])
             l == At(g, q[1])
  <2>4. n \in Nat /\ m \in Nat /\ l \in Nat /\ n + p[2] = n + q[2]
    BY <1>1, <2>1
  <2> HIDE DEF n, m, l
  <2>5. p[2] \in 1 .. m /\ q[2] \in 1 .. l
    BY <2>2 DEF m, l
  <2>3. p[2] = q[2]
    BY <2>4, <2>5
  <2> QED
    BY <1>2, <2>1, <2>3
<1>4. ASSUME NEW q \in above PROVE \E p \in Units(g) : b[p] = q
  <2>1. q = <<q[1], q[2]>> /\ q[2] \in 1 .. At(h, q[1]) /\ q[2] > At(f, q[1])
    BY UnitsAt
  <2> DEFINE i == q[2] - At(f, q[1])
  <2>2. i \in 1 .. At(g, q[1]) /\ At(f, q[1]) + i = q[2]
    BY <1>1, <2>1
  <2> HIDE DEF i
  <2>3. <<q[1], i>> \in Units(g)
    BY <2>2, UnitsAt
  <2>4. b[<<q[1], i>>] = q
    BY <2>1, <2>2, <2>3
  <2> QED
    BY <2>3, <2>4
<1>5. b \in Bijection(Units(g), above)
  <2>1. b \in [Units(g) -> above]
    BY <1>2
  <2> HIDE DEF b, above
  <2> QED
    BY <1>3, <1>4, <2>1 DEF Bijection, Injection, Surjection, IsInjective
<1>6. Units(h) = Units(f) \cup above /\ Units(f) \cap above = {}
  <2>1. ASSUME NEW p \in Units(h), p \notin above PROVE p \in Units(f)
    <3>1. p = <<p[1], p[2]>> /\ p[2] \in 1 .. At(h, p[1]) /\ ~(p[2] > At(f, p[1]))
      BY <2>1, UnitsAt
    <3>2. p[2] \in 1 .. At(f, p[1])
      BY <1>1, <3>1
    <3> QED
      BY <3>1, <3>2, UnitsAt
  <2>2. ASSUME NEW p \in Units(f) PROVE p \in Units(h) /\ p \notin above
    <3>1. p = <<p[1], p[2]>> /\ p[2] \in 1 .. At(f, p[1])
      BY UnitsAt
    <3>2. p[2] \in 1 .. At(h, p[1]) /\ ~(p[2] > At(f, p[1]))
      BY <1>1, <3>1
    <3>3. <<p[1], p[2]>> \in Units(h)
      BY <3>2, UnitsAt
    <3> QED
      BY <3>1, <3>2, <3>3
  <2> QED
    BY <2>1, <2>2
<1> HIDE DEF b, above
<1>7. IsFiniteSet(above) /\ Cardinality(above) = Cardinality(Units(g))
  BY <1>5, FS_Bijection DEF ExistsBijection
<1>8. /\ IsFiniteSet(Units(f) \cup above)
      /\ Cardinality(Units(f) \cup above)
           = Cardinality(Units(f)) + Cardinality(above) - Cardinality(Units(f) \cap above)
  BY <1>7, FS_Union
<1>9. Cardinality(Units(f)) \in Nat /\ Cardinality(Units(g)) \in Nat
  BY FS_CardinalityType
<1>10. IsFiniteSet(Units(h)) /\ Cardinality(Units(h)) = Cardinality(Units(f)) + Cardinality(Units(g))
  <2>1. Cardinality(Units(f) \cap above) = 0
    BY <1>6, FS_EmptySet
  <2> QED
    BY <1>6, <1>7, <1>8, <1>9, <2>1
<1> QED
  BY <1>10, NaturalSum
=============================================================================
