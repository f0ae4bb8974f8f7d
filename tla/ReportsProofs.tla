--------------------------- MODULE ReportsProofs ---------------------------
(***************************************************************************)
(* Proofs about the arithmetic of an order, for any number of lines, any   *)
(* prices, quantities, discounts, rates and tax policies; and about what   *)
(* is left of a sale when its invoice is cancelled, for any history of the *)
(* company.                                                                *)
(***************************************************************************)
EXTENDS Reports, SumTheorems, TLAPS

-----------------------------------------------------------------------------
(* Division and rounding.                                                  *)

\* A division with its rest.
LEMMA Division ==
    ASSUME NEW n \in Nat, NEW d \in Nat \ {0}
    PROVE  /\ n \div d \in Nat /\ n % d \in Nat /\ n % d < d
           /\ n = (n \div d) * d + (n % d)
    OBVIOUS

\* Products grow with their factors.
LEMMA Products ==
    ASSUME NEW a \in Int, NEW b \in Int, NEW c \in Nat, a <= b
    PROVE  a * c <= b * c /\ a * c \in Int /\ b * c \in Int
    OBVIOUS

\* A product of natural numbers is one.
LEMMA ProductNat ==
    ASSUME NEW a \in Nat, NEW b \in Nat
    PROVE  a * b \in Nat /\ (a > 0 /\ b > 0 => a * b > 0)
    OBVIOUS

\* And they shrink with them.
LEMMA Factors ==
    ASSUME NEW a \in Int, NEW b \in Int, NEW c \in Nat \ {0}
    PROVE  (a * c <= b * c => a <= b) /\ (a * c < b * c <=> a < b)
    OBVIOUS

\* Rounding gives the floor or one more, and the floor where nothing is left over.
LEMMA RoundFacts ==
    ASSUME NEW n \in Nat, NEW d \in Nat \ {0}, NEW mode \in Modes
    PROVE  /\ DivRound(n, d, mode) \in {n \div d, n \div d + 1}
           /\ n % d = 0 => DivRound(n, d, mode) = n \div d
<1>1. PICK q, r : q = n \div d /\ r = n % d
    OBVIOUS
<1>2. q \in Nat /\ r \in Nat /\ r < d
    BY <1>1, Division
<1>3. ~(n < 0)
    OBVIOUS
<1>4. CASE mode = "DOWN"
    BY <1>1, <1>2, <1>3, <1>4 DEF DivRound
<1>5. CASE mode = "UP"
    BY <1>1, <1>2, <1>3, <1>5 DEF DivRound
<1>6. CASE mode = "HALF_DOWN"
    BY <1>1, <1>2, <1>3, <1>6 DEF DivRound
<1>7. CASE mode = "HALF_UP"
    BY <1>1, <1>2, <1>3, <1>7 DEF DivRound
<1>8. CASE mode = "HALF_EVEN"
    BY <1>1, <1>2, <1>3, <1>8 DEF DivRound
<1> QED
    BY <1>4, <1>5, <1>6, <1>7, <1>8 DEF Modes

\* Rounding does not pass an integer.
LEMMA RoundBetween ==
    ASSUME NEW n \in Nat, NEW d \in Nat \ {0}, NEW mode \in Modes, NEW k \in Nat
    PROVE  /\ k * d <= n => k <= DivRound(n, d, mode)
           /\ n <= k * d => DivRound(n, d, mode) <= k
<1>1. PICK q, r : q = n \div d /\ r = n % d
    OBVIOUS
<1>2. q \in Nat /\ r \in Nat /\ r < d /\ n = q * d + r
    BY <1>1, Division
<1>3. DivRound(n, d, mode) \in {q, q + 1} /\ (r = 0 => DivRound(n, d, mode) = q)
    BY <1>1, RoundFacts
<1>4. ASSUME k * d <= n PROVE k <= q
    <2>1. SUFFICES ASSUME q + 1 <= k PROVE FALSE
        BY <1>2
    <2>2. (q + 1) * d <= k * d
        BY <1>2, <2>1, Products
    <2>3. (q + 1) * d = q * d + d
        BY <1>2
    <2> QED
        BY <1>2, <1>4, <2>2, <2>3
<1>5. ASSUME n <= k * d PROVE q + (IF r = 0 THEN 0 ELSE 1) <= k
    <2>1. CASE r = 0
        BY <1>2, <1>5, <2>1, Factors
    <2>2. CASE r # 0
        <3>1. q * d < k * d
            BY <1>2, <1>5, <2>2
        <3> QED
            BY <1>2, <2>2, <3>1, Factors
    <2> QED
        BY <2>1, <2>2
<1> QED
    BY <1>2, <1>3, <1>4, <1>5

-----------------------------------------------------------------------------
(* Ranks.  R is a strict order of the finite set D, as a set of pairs.     *)

Orders(R, D) ==
    /\ \A i \in D : <<i, i>> \notin R
    /\ \A i, j \in D : i # j => <<i, j>> \in R \/ <<j, i>> \in R
    /\ \A i, j, k \in D : <<i, j>> \in R /\ <<j, k>> \in R => <<i, k>> \in R

AheadOf(R, D, i) == {j \in D : <<j, i>> \in R}
RankOf(R, D, i)  == Cardinality(AheadOf(R, D, i))

\* Who comes later has the greater rank; the last one's is below the size of the set.
LEMMA RankRises ==
    ASSUME NEW D, IsFiniteSet(D), NEW R, Orders(R, D), NEW j \in D
    PROVE  /\ RankOf(R, D, j) \in 0..(Cardinality(D) - 1)
           /\ \A i \in D : <<i, j>> \in R => RankOf(R, D, i) < RankOf(R, D, j)
<1>1. ASSUME NEW S, NEW T, IsFiniteSet(T), S \subseteq T, NEW x \in T, x \notin S
      PROVE  Cardinality(S) \in Nat /\ Cardinality(T) \in Nat /\ Cardinality(S) < Cardinality(T)
    <2>1. IsFiniteSet(S) /\ Cardinality(S) <= Cardinality(T) /\ Cardinality(S) # Cardinality(T)
        BY <1>1, FS_Subset
    <2> QED
        BY <1>1, <2>1, FS_CardinalityType
<1>2. AheadOf(R, D, j) \subseteq D /\ j \notin AheadOf(R, D, j)
    BY DEF AheadOf, Orders
<1>3. RankOf(R, D, j) \in Nat /\ Cardinality(D) \in Nat /\ RankOf(R, D, j) < Cardinality(D)
    BY <1>1, <1>2 DEF RankOf
<1>4. ASSUME NEW i \in D, <<i, j>> \in R PROVE RankOf(R, D, i) < RankOf(R, D, j)
    <2>1. AheadOf(R, D, i) \subseteq AheadOf(R, D, j)
        BY <1>4 DEF AheadOf, Orders
    <2>2. i \in AheadOf(R, D, j) /\ i \notin AheadOf(R, D, i)
        BY <1>4 DEF AheadOf, Orders
    <2>3. IsFiniteSet(AheadOf(R, D, j))
        BY <1>2, FS_Subset
    <2> QED
        BY <1>1, <2>1, <2>2, <2>3 DEF RankOf
<1> QED
    BY <1>3, <1>4

\* The first k have the ranks below k, and nobody else has.
LEMMA FirstRanks ==
    ASSUME NEW D, IsFiniteSet(D), NEW R, Orders(R, D), NEW k \in 0..Cardinality(D)
    PROVE  Cardinality({i \in D : RankOf(R, D, i) < k}) = k
<1> DEFINE n == Cardinality(D)
           h == [i \in D |-> RankOf(R, D, i)]
           F == {i \in D : RankOf(R, D, i) < k}
           g == [i \in F |-> RankOf(R, D, i)]
<1>1. n \in Nat
    BY FS_CardinalityType
<1>2. \A i \in D : RankOf(R, D, i) \in 0..(n - 1)
    BY RankRises
<1>3. \A i, j \in D : RankOf(R, D, i) = RankOf(R, D, j) => i = j
    <2> SUFFICES ASSUME NEW i \in D, NEW j \in D, i # j PROVE RankOf(R, D, i) # RankOf(R, D, j)
        OBVIOUS
    <2>1. <<i, j>> \in R \/ <<j, i>> \in R
        BY DEF Orders
    <2>2. RankOf(R, D, i) < RankOf(R, D, j) \/ RankOf(R, D, j) < RankOf(R, D, i)
        BY <2>1, RankRises
    <2> QED
        BY <1>1, <1>2, <2>2
<1>4. h \in Injection(D, 0..(n - 1))
    <2>1. h \in [D -> 0..(n - 1)] /\ \A i, j \in D : h[i] = h[j] => i = j
        BY <1>2, <1>3
    <2> HIDE DEF h
    <2> QED
        BY <2>1 DEF Injection, IsInjective
<1>5. IsFiniteSet(0..(n - 1)) /\ Cardinality(0..(n - 1)) = n
    <2> HIDE DEF n
    <2>1. 0 \in Int /\ n - 1 \in Int
        BY <1>1
    <2>2. /\ IsFiniteSet(0..(n - 1))
          /\ Cardinality(0..(n - 1)) = IF 0 > n - 1 THEN 0 ELSE (n - 1) - 0 + 1
        BY <2>1, FS_Interval
    <2> QED
        BY <1>1, <2>2
<1> HIDE DEF h
<1>6. h \in Surjection(D, 0..(n - 1))
    BY <1>4, <1>5, FS_Injection
<1> USE DEF h
<1>7. g \in Surjection(F, 0..(k - 1))
    <2>1. g \in [F -> 0..(k - 1)]
        BY <1>1, <1>2
    <2>2. ASSUME NEW m \in 0..(k - 1) PROVE \E i \in F : g[i] = m
        <3>1. m \in 0..(n - 1)
            BY <1>1
        <3>2. PICK i \in D : h[i] = m
            BY <1>6, <3>1 DEF Surjection
        <3> QED
            BY <1>1, <3>2
    <2> HIDE DEF g, F
    <2> QED
        BY <2>1, <2>2 DEF Surjection
<1>8. g \in Injection(F, 0..(k - 1))
    <2>1. \A i, j \in F : g[i] = g[j] => i = j
        BY <1>3
    <2> HIDE DEF g, F
    <2> QED
        BY <1>7, <2>1 DEF Surjection, Injection, IsInjective
<1>9. IsFiniteSet(F)
    BY FS_Subset
<1> HIDE DEF g, F
<1>10. Cardinality(0..(k - 1)) = Cardinality(F)
    BY <1>7, <1>8, <1>9, FS_Surjection
<1>11. Cardinality(0..(k - 1)) = k
    BY <1>1, FS_Interval
<1> QED
    BY <1>10, <1>11 DEF F

-----------------------------------------------------------------------------
(* Largest remainders.                                                     *)

Fraction(f)  == f.num \in Nat /\ f.den \in Nat \ {0}
Fractions(x) == /\ DOMAIN x \subseteq Nat /\ IsFiniteSet(DOMAIN x)
                /\ \A i \in DOMAIN x : Fraction(x[i])
Floors(x)    == [i \in DOMAIN x |-> Floor(x[i])]
Left(x, all) == all - Total(Floors(x))
Pairs(x)     == {p \in (DOMAIN x) \X (DOMAIN x) : Before(x, p[1], p[2])}

\* Two fractions compare as their cross products do.
LEMMA CrossOrder ==
    ASSUME NEW a \in Nat, NEW b \in Nat \ {0}, NEW c \in Nat, NEW d \in Nat \ {0},
           NEW e \in Nat, NEW f \in Nat \ {0}
    PROVE  /\ a * d >= c * b /\ c * f >= e * d => a * f >= e * b
           /\ a * d > c * b /\ c * f >= e * d => a * f > e * b
           /\ a * d >= c * b /\ c * f > e * d => a * f > e * b
<1>1. /\ (a * d) * f = (a * f) * d /\ (c * b) * f = (c * f) * b /\ (e * d) * b = (e * b) * d
      /\ a * d \in Nat /\ c * b \in Nat /\ c * f \in Nat /\ e * d \in Nat /\ a * f \in Nat /\ e * b \in Nat
    BY ProductNat
<1>2. /\ c * b <= a * d => (c * b) * f <= (a * d) * f
      /\ c * b < a * d => (c * b) * f < (a * d) * f
    BY <1>1, Products, Factors
<1>3. /\ e * d <= c * f => (e * d) * b <= (c * f) * b
      /\ e * d < c * f => (e * d) * b < (c * f) * b
    BY <1>1, Products, Factors
<1>4. /\ (e * b) * d <= (a * f) * d => e * b <= a * f
      /\ (e * b) * d < (a * f) * d => e * b < a * f
    BY <1>1, Factors
<1>5. /\ (c * b) * f \in Int /\ (a * d) * f \in Int /\ (e * d) * b \in Int
    BY <1>1
<1> QED
    BY <1>1, <1>2, <1>3, <1>4, <1>5

\* The floor and the rest of a fraction.
LEMMA FloorFacts ==
    ASSUME NEW f, Fraction(f)
    PROVE  /\ Floor(f) \in Nat /\ Rest(f) \in Nat /\ Rest(f) < f.den
           /\ f.num = Floor(f) * f.den + Rest(f)
    BY Division DEF Fraction, Floor, Rest

\* The pairs of an order.
LEMMA PairsFacts ==
    ASSUME NEW x, NEW i \in DOMAIN x, NEW j \in DOMAIN x
    PROVE  <<i, j>> \in Pairs(x) <=> Before(x, i, j)
<1>1. PICK p : p = <<i, j>>
    OBVIOUS
<1>2. p \in (DOMAIN x) \X (DOMAIN x) /\ p[1] = i /\ p[2] = j
    BY <1>1
<1>3. p \in Pairs(x) <=> Before(x, p[1], p[2])
    BY <1>2, Zenon DEF Pairs
<1> QED
    BY <1>1, <1>2, <1>3

\* The order in which units are handed out is one.
LEMMA BeforeOrders ==
    ASSUME NEW x, Fractions(x)
    PROVE  Orders(Pairs(x), DOMAIN x)
<1> DEFINE D == DOMAIN x
<1>1. \A i \in D : /\ i \in Nat /\ Fraction(x[i]) /\ Rest(x[i]) \in Nat /\ x[i].den \in Nat \ {0}
    BY FloorFacts DEF Fractions, Fraction
<1>2. \A i, j \in D : <<i, j>> \in Pairs(x) <=> Before(x, i, j)
    BY PairsFacts
<1>3. \A i, j \in D : Rest(x[i]) * x[j].den \in Nat
    BY <1>1, ProductNat
<1>4. ASSUME NEW i \in D PROVE ~Before(x, i, i)
    BY <1>1, <1>3 DEF Before
<1>5. ASSUME NEW i \in D, NEW j \in D, i # j PROVE Before(x, i, j) \/ Before(x, j, i)
    BY <1>1, <1>3, <1>5 DEF Before
<1>6. ASSUME NEW i \in D, NEW j \in D, NEW k \in D, Before(x, i, j), Before(x, j, k)
      PROVE  Before(x, i, k)
    <2>1. PICK a, b, c, d, e, f : /\ a = Rest(x[i]) /\ b = x[i].den /\ c = Rest(x[j]) /\ d = x[j].den
                                  /\ e = Rest(x[k]) /\ f = x[k].den
        OBVIOUS
    <2>2. a \in Nat /\ b \in Nat \ {0} /\ c \in Nat /\ d \in Nat \ {0} /\ e \in Nat /\ f \in Nat \ {0}
        BY <1>1, <2>1
    <2>3. a * d > c * b \/ (a * d = c * b /\ i < j)
        BY <1>6, <2>1 DEF Before
    <2>4. c * f > e * d \/ (c * f = e * d /\ j < k)
        BY <1>6, <2>1 DEF Before
    <2>5. /\ a * d >= c * b /\ c * f >= e * d => a * f >= e * b
          /\ a * d > c * b /\ c * f >= e * d => a * f > e * b
          /\ a * d >= c * b /\ c * f > e * d => a * f > e * b
        BY <2>2, CrossOrder
    <2>6. a * d \in Nat /\ c * b \in Nat /\ c * f \in Nat /\ e * d \in Nat /\ a * f \in Nat /\ e * b \in Nat
        BY <2>2, ProductNat
    <2>7. i < j /\ j < k => i < k
        BY <1>1
    <2>8. a * f > e * b \/ (a * f = e * b /\ i < k)
        BY <2>3, <2>4, <2>5, <2>6, <2>7
    <2> QED
        BY <2>1, <2>8 DEF Before
<1> QED
    BY <1>2, <1>4, <1>5, <1>6 DEF Orders

\* Everyone has their floor or one unit more, all have the whole, and of two the one
\* with the larger rest is never the one without.
LEMMA RemaindersFacts ==
    ASSUME NEW x, Fractions(x), NEW all \in Int, Left(x, all) \in 0..Cardinality(DOMAIN x),
           NEW y, y = LargestRemainders(x, all)
    PROVE  /\ DOMAIN y = DOMAIN x
           /\ \A i \in DOMAIN x : y[i] \in {Floor(x[i]), Floor(x[i]) + 1}
           /\ Total(y) = all
           /\ \A i, j \in DOMAIN x :
                 y[i] = Floor(x[i]) + 1 /\ y[j] = Floor(x[j]) =>
                     Rest(x[i]) * x[j].den >= Rest(x[j]) * x[i].den
           /\ \A i \in DOMAIN x : y[i] = Floor(x[i]) + 1 =>
                 RankOf(Pairs(x), DOMAIN x, i) < Left(x, all)
<1> DEFINE D == DOMAIN x
           R == Pairs(x)
           up == [i \in D |-> IF RankOf(R, D, i) < Left(x, all) THEN 1 ELSE 0]
           U == {i \in D : RankOf(R, D, i) < Left(x, all)}
           one == [i \in U |-> 1]
<1>1. IsFiniteSet(D) /\ Orders(R, D)
    BY BeforeOrders DEF Fractions
<1>2. \A i \in D : {j \in D : Before(x, j, i)} = AheadOf(R, D, i)
    <2> SUFFICES ASSUME NEW i \in D, NEW j \in D PROVE Before(x, j, i) <=> <<j, i>> \in R
        BY DEF AheadOf
    <2> QED
        BY PairsFacts
<1>3. y = [i \in D |-> Floor(x[i]) + up[i]]
    BY <1>2 DEF LargestRemainders, RankOf, Left, Floors
<1>4. \A i \in D : Floor(x[i]) \in Nat
    BY FloorFacts DEF Fractions
<1>5. \A i \in D : RankOf(R, D, i) \in Nat
    BY <1>1, RankRises
<1>6. Cardinality(U) = Left(x, all)
    BY <1>1, FirstRanks
<1>7. SumFunctionOnSet(up, D) = Left(x, all)
    <2>1. U \in SUBSET D /\ IsFiniteSet(U)
        BY <1>1, FS_Subset
    <2>2. SumFunctionOnSet(one, U) = 1 * Cardinality(U)
        <3>1. \A i \in U : one[i] = 1
            OBVIOUS
        <3> HIDE DEF one, U
        <3> QED
            BY <2>1, <3>1, SumConstant
    <2>3. \A i \in D : up[i] = IF i \in U THEN one[i] ELSE 0
        OBVIOUS
    <2>4. \A i \in U : one[i] \in Int
        OBVIOUS
    <2> HIDE DEF up, one, U, R
    <2>5. SumFunctionOnSet(up, D) = SumFunctionOnSet(one, U)
        BY <1>1, <2>1, <2>3, <2>4, SumOver
    <2> QED
        BY <1>6, <2>2, <2>5
<1>8. Total(y) = all
    <2>1. \A i \in D : Floors(x)[i] \in Int /\ up[i] \in Int /\ y[i] = Floors(x)[i] + up[i]
        BY <1>3, <1>4 DEF Floors
    <2>2. DOMAIN y = D /\ DOMAIN Floors(x) = D
        BY <1>3 DEF Floors
    <2> HIDE DEF up
    <2>3. SumFunctionOnSet(y, D) = SumFunctionOnSet(Floors(x), D) + SumFunctionOnSet(up, D)
        BY <1>1, <2>1, SumPlus
    <2>4. SumFunctionOnSet(Floors(x), D) \in Int
        BY <1>1, <2>1, SumType
    <2> QED
        BY <1>7, <2>2, <2>3, <2>4 DEF Total, SumFunction, Left
<1>9. ASSUME NEW i \in D, NEW j \in D, y[i] = Floor(x[i]) + 1, y[j] = Floor(x[j])
      PROVE  Rest(x[i]) * x[j].den >= Rest(x[j]) * x[i].den
    <2>1. RankOf(R, D, i) < Left(x, all) /\ ~(RankOf(R, D, j) < Left(x, all))
        BY <1>3, <1>4, <1>9
    <2>2. <<j, i>> \notin R
        BY <1>1, <1>5, <2>1, RankRises
    <2>3. ~Before(x, j, i)
        BY <2>2, PairsFacts
    <2>4. Rest(x[i]) * x[j].den \in Int /\ Rest(x[j]) * x[i].den \in Int
        BY FloorFacts, ProductNat DEF Fractions, Fraction
    <2> QED
        BY <2>3, <2>4 DEF Before
<1>10. \A i \in D : y[i] = Floor(x[i]) + 1 => RankOf(R, D, i) < Left(x, all)
    BY <1>3, <1>4
<1>11. DOMAIN y = D /\ \A i \in D : y[i] \in {Floor(x[i]), Floor(x[i]) + 1}
    BY <1>3, <1>4
<1> QED
    BY <1>8, <1>9, <1>10, <1>11

-----------------------------------------------------------------------------
(* Shares of an amount.                                                    *)

\* The shares add up to the amount, none is a whole unit from its exact part, and none
\* exceeds its weight unless the amount exceeds the weights: those who have nothing
\* left over come after all who have, and no more units are left than those.
LEMMA AllocateFacts ==
    ASSUME NEW w, DOMAIN w \subseteq Nat, IsFiniteSet(DOMAIN w), \A i \in DOMAIN w : w[i] \in Nat,
           NEW T, T = Total(w), T > 0, NEW amount \in 0..T, NEW s, s = Allocate(amount, w)
    PROVE  /\ DOMAIN s = DOMAIN w /\ Total(s) = amount
           /\ \A i \in DOMAIN w : /\ s[i] \in 0..w[i]
                                  /\ s[i] * T - amount * w[i] < T
                                  /\ -(s[i] * T - amount * w[i]) < T
<1> DEFINE D == DOMAIN w
           x == [i \in D |-> [num |-> amount * w[i], den |-> T]]
           nums == [i \in D |-> amount * w[i]]
           base == [i \in D |-> T * Floor(x[i])]
           rests == [i \in D |-> Rest(x[i])]
           P == {i \in D : Rest(x[i]) > 0}
           whole == [i \in D |-> IF i \in P THEN T ELSE 0]
           n == Cardinality(P)
<1>1. IsFiniteSet(D) /\ T \in Nat \ {0} /\ amount \in Nat
    <2>1. T \in Nat
        BY SumNat DEF Total, SumFunction
    <2> QED
        BY <2>1
<1>2. DOMAIN x = D /\ Fractions(x)
    <2>1. \A i \in D : amount * w[i] \in Nat
        BY <1>1, ProductNat
    <2> QED
        BY <1>1, <2>1 DEF Fractions, Fraction
<1>3. s = LargestRemainders(x, amount)
    BY <1>2 DEF Allocate
<1>4. \A i \in D : /\ Floor(x[i]) \in Nat /\ Rest(x[i]) \in Nat /\ Rest(x[i]) < T
                   /\ amount * w[i] = Floor(x[i]) * T + Rest(x[i])
    <2> SUFFICES ASSUME NEW i \in D
                 PROVE  /\ Floor(x[i]) \in Nat /\ Rest(x[i]) \in Nat /\ Rest(x[i]) < T
                        /\ amount * w[i] = Floor(x[i]) * T + Rest(x[i])
        OBVIOUS
    <2>1. Fraction(x[i]) /\ x[i].den = T /\ x[i].num = amount * w[i]
        BY <1>2 DEF Fractions
    <2> HIDE DEF x
    <2> QED
        BY <2>1, FloorFacts
<1>5. P \in SUBSET D /\ IsFiniteSet(P) /\ n \in Nat /\ n <= Cardinality(D)
    BY <1>1, FS_Subset, FS_CardinalityType
<1>6. PICK floors : floors = Total(Floors(x)) /\ floors \in Int
    <2>1. \A i \in D : Floors(x)[i] \in Int
        BY <1>2, <1>4 DEF Floors
    <2>2. DOMAIN Floors(x) = D
        BY <1>2 DEF Floors
    <2> QED
        BY <1>1, <2>1, <2>2, SumType DEF Total, SumFunction
<1>7. SumFunctionOnSet(nums, D) = amount * T
    <2>1. \A i \in D : w[i] \in Int /\ nums[i] = amount * w[i]
        OBVIOUS
    <2> HIDE DEF nums
    <2>2. SumFunctionOnSet(nums, D) = amount * SumFunctionOnSet(w, D)
        BY <1>1, <2>1, SumTimes
    <2> QED
        BY <2>2 DEF Total, SumFunction
<1>8. SumFunctionOnSet(base, D) = T * floors
    <2>1. \A i \in D : Floors(x)[i] \in Int /\ base[i] = T * Floors(x)[i]
        BY <1>2, <1>4 DEF Floors
    <2>2. DOMAIN Floors(x) = D
        BY <1>2 DEF Floors
    <2> HIDE DEF base
    <2> QED
        BY <1>1, <1>6, <2>1, <2>2, SumTimes DEF Total, SumFunction
<1>9. PICK rest \in Nat : rest = SumFunctionOnSet(rests, D)
    <2>1. \A i \in D : rests[i] \in Nat
        BY <1>4
    <2> HIDE DEF rests
    <2> QED
        BY <1>1, <2>1, SumNat
<1>10. amount * T = T * floors + rest
    <2>1. \A i \in D : base[i] \in Int /\ rests[i] \in Int /\ nums[i] = base[i] + rests[i]
        <3>1. \A i \in D : T * Floor(x[i]) = Floor(x[i]) * T /\ T * Floor(x[i]) \in Int
            BY <1>1, <1>4
        <3> HIDE DEF x
        <3> QED
            BY <1>4, <3>1
    <2> HIDE DEF base, rests, nums
    <2> QED
        BY <1>1, <1>7, <1>8, <1>9, <2>1, SumPlus
<1>11. SumFunctionOnSet(whole, D) = T * n
    <2> DEFINE t == [i \in P |-> T]
    <2>1. \A i \in P : t[i] = T /\ t[i] \in Int
        BY <1>1
    <2>2. \A i \in D : whole[i] = IF i \in P THEN t[i] ELSE 0
        OBVIOUS
    <2>3. SumFunctionOnSet(t, P) = T * n
        <3> HIDE DEF P, t
        <3> QED
            BY <1>1, <1>5, <2>1, SumConstant
    <2> HIDE DEF whole, t, P
    <2> QED
        BY <1>1, <1>5, <2>1, <2>2, <2>3, SumOver
<1>12. rest <= T * n
    <2>1. \A i \in D : rests[i] \in Int /\ whole[i] \in Int /\ rests[i] <= whole[i]
        <3> HIDE DEF x
        <3> QED
            BY <1>1, <1>4
    <2> HIDE DEF rests, whole
    <2> QED
        BY <1>1, <1>9, <1>11, <2>1, SumLess
<1>13. Left(x, amount) \in 0..n
    <2>1. PICK left : left = amount - floors /\ left = Left(x, amount) /\ left \in Int
        <3> HIDE DEF x
        <3>1. Left(x, amount) = amount - floors /\ amount - floors \in Int
            BY <1>1, <1>6 DEF Left
        <3> QED
            BY <3>1
    <2>2. left * T = rest
        BY <1>1, <1>6, <1>10, <2>1
    <2>3. 0 * T <= left * T /\ left * T <= n * T
        <3>1. T * n = n * T
            BY <1>1, <1>5
        <3> HIDE DEF n
        <3> QED
            BY <1>1, <1>9, <1>12, <2>2, <3>1
    <2>4. 0 <= left /\ left <= n
        BY <1>1, <1>5, <2>1, <2>3, Factors
    <2> QED
        BY <1>5, <2>1, <2>4
<1>14. Left(x, amount) \in 0..Cardinality(D)
    BY <1>1, <1>5, <1>13, FS_CardinalityType
<1>15. /\ DOMAIN s = D /\ Total(s) = amount
       /\ \A i \in D : s[i] \in {Floor(x[i]), Floor(x[i]) + 1}
       /\ \A i \in D : s[i] = Floor(x[i]) + 1 => RankOf(Pairs(x), D, i) < Left(x, amount)
    <2> HIDE DEF x
    <2> QED
        BY <1>1, <1>2, <1>3, <1>14, RemaindersFacts
<1>16. ASSUME NEW i \in D, s[i] = Floor(x[i]) + 1 PROVE i \in P
    <2>1. SUFFICES ASSUME Rest(x[i]) = 0 PROVE FALSE
        BY <1>4
    <2>2. ASSUME NEW j \in P PROVE <<j, i>> \in Pairs(x)
        <3>1. j \in D /\ Rest(x[j]) > 0 /\ Rest(x[j]) \in Nat /\ x[i].den = T
            BY <1>4
        <3>2. Rest(x[j]) * x[i].den > 0 /\ Rest(x[i]) * x[j].den = 0
            <4>1. x[j].den = T
                BY <3>1
            <4> HIDE DEF x
            <4> QED
                BY <1>1, <2>1, <3>1, <4>1, ProductNat
        <3>3. Before(x, j, i)
            BY <3>2 DEF Before
        <3> QED
            BY <1>2, <3>1, <3>3, PairsFacts
    <2>3. P \subseteq AheadOf(Pairs(x), D, i)
        BY <2>2 DEF AheadOf
    <2>4. AheadOf(Pairs(x), D, i) \in SUBSET D
        BY DEF AheadOf
    <2> HIDE DEF x, P, n
    <2>5. IsFiniteSet(AheadOf(Pairs(x), D, i)) /\ RankOf(Pairs(x), D, i) \in Nat
        BY <1>1, <2>4, FS_Subset, FS_CardinalityType DEF RankOf
    <2>6. n <= RankOf(Pairs(x), D, i)
        BY <2>3, <2>5, FS_Subset DEF RankOf, n
    <2> QED
        BY <1>5, <1>13, <1>15, <1>16, <2>5, <2>6
<1>17. ASSUME NEW i \in D
       PROVE  s[i] \in 0..w[i] /\ s[i] * T - amount * w[i] < T /\ -(s[i] * T - amount * w[i]) < T
    <2>1. PICK f, r : f = Floor(x[i]) /\ r = Rest(x[i])
        OBVIOUS
    <2>2. f \in Nat /\ r \in Nat /\ r < T /\ amount * w[i] = f * T + r
        BY <1>4, <2>1
    <2>3. s[i] \in {f, f + 1} /\ (s[i] = f + 1 => r > 0)
        BY <1>15, <1>16, <2>1
    <2>4. amount * w[i] <= w[i] * T
        <3>1. amount * w[i] <= T * w[i] /\ T * w[i] = w[i] * T
            BY <1>1, Products
        <3> QED
            BY <3>1
    <2>5. f <= w[i] /\ (r > 0 => f + 1 <= w[i])
        <3>1. f * T <= w[i] * T /\ (r > 0 => f * T < w[i] * T)
            BY <1>1, <2>2, <2>4
        <3> QED
            BY <1>1, <2>2, <3>1, Factors
    <2>6. (f + 1) * T = f * T + T
        BY <1>1, <2>2
    <2>7. f * T \in Int /\ (f + 1) * T \in Int /\ amount * w[i] \in Int
        BY <1>1, <2>2
    <2> HIDE DEF x
    <2>8. CASE s[i] = f
        BY <1>1, <2>2, <2>5, <2>7, <2>8
    <2>9. CASE s[i] = f + 1
        BY <1>1, <2>2, <2>3, <2>5, <2>6, <2>7, <2>9
    <2> QED
        BY <2>3, <2>8, <2>9
<1> QED
    BY <1>15, <1>17

-----------------------------------------------------------------------------
(* The tax of a document.                                                  *)

Nothing    == [num |-> 0, den |-> 1]
Plus(f, s) == [num |-> s.num * f.den + f.num * s.den, den |-> s.den * f.den]

\* g adds up the fractions x of the subsets of S, one at a time.
AddsFractions(g, x, S) ==
    g = [s \in SUBSET S |-> IF s = {} THEN Nothing ELSE Plus(x[Pick(s)], g[s \ {Pick(s)}])]
FractionsUpTo(g, x, S, n) ==
    \A s \in SUBSET S : Cardinality(s) <= n =>
        g[s] = IF s = {} THEN Nothing ELSE Plus(x[Pick(s)], g[s \ {Pick(s)}])

\* There is one, by induction on the size of the subsets it adds up.
LEMMA FractionsAdd ==
    ASSUME NEW S, IsFiniteSet(S), NEW x
    PROVE  \E g : AddsFractions(g, x, S)
<1> DEFINE P == {n \in Nat : \E g : FractionsUpTo(g, x, S, n)}
<1>0. ASSUME NEW s \in SUBSET S
      PROVE  IsFiniteSet(s) /\ Cardinality(s) \in Nat /\ (Cardinality(s) = 0 <=> s = {})
    BY FS_Subset, FS_CardinalityType, FS_EmptySet
<1>1. 0 \in P
    <2> DEFINE g == [s \in SUBSET S |-> Nothing]
    <2>1. FractionsUpTo(g, x, S, 0)
        BY <1>0 DEF FractionsUpTo
    <2> QED
        BY <2>1
<1>2. ASSUME NEW n \in P PROVE n + 1 \in P
    <2>1. PICK g : FractionsUpTo(g, x, S, n)
        BY <1>2
    <2> DEFINE h == [s \in SUBSET S |-> IF s = {} THEN Nothing ELSE Plus(x[Pick(s)], g[s \ {Pick(s)}])]
    <2>2. ASSUME NEW s \in SUBSET S, Cardinality(s) <= n + 1, s # {}
          PROVE  h[s \ {Pick(s)}] = g[s \ {Pick(s)}]
        <3> DEFINE u == s \ {Pick(s)}
        <3>1. Cardinality(u) = Cardinality(s) - 1
            BY <1>0, <2>2, PickIn, FS_RemoveElement
        <3>2. u \in SUBSET S /\ Cardinality(u) <= n
            BY <1>0, <2>2, <3>1
        <3> QED
            BY <2>1, <3>2 DEF FractionsUpTo
    <2>3. FractionsUpTo(h, x, S, n + 1)
        BY <2>2 DEF FractionsUpTo
    <2> QED
        BY <2>3
<1>3. Cardinality(S) \in P
    BY <1>1, <1>2, Induct, FS_CardinalityType
<1>4. PICK g : FractionsUpTo(g, x, S, Cardinality(S))
    BY <1>3
<1>5. \A s \in SUBSET S : Cardinality(s) <= Cardinality(S)
    BY FS_Subset
<1> DEFINE h == [s \in SUBSET S |-> g[s]]
<1>6. AddsFractions(h, x, S)
    BY <1>4, <1>5 DEF FractionsUpTo, AddsFractions
<1> QED
    BY <1>6

\* The sum of fractions is what such a function gives.
LEMMA ExactSumIs ==
    ASSUME NEW x, NEW S, S = DOMAIN x, IsFiniteSet(S)
    PROVE  \E g : AddsFractions(g, x, S) /\ ExactSum(x) = g[S]
<1> DEFINE c == CHOOSE h : h = [s \in SUBSET S |-> IF s = {} THEN Nothing
                                                   ELSE Plus(x[Pick(s)], h[s \ {Pick(s)}])]
<1>1. ExactSum(x) = c[S]
    BY DEF ExactSum, FoldFunction, FoldFunctionOnSet, MapThenFoldSet, Pick, Nothing, Plus
<1>2. \E h : h = [s \in SUBSET S |-> IF s = {} THEN Nothing ELSE Plus(x[Pick(s)], h[s \ {Pick(s)}])]
    <2>1. PICK g : AddsFractions(g, x, S)
        BY FractionsAdd
    <2>2. g = [s \in SUBSET S |-> IF s = {} THEN Nothing ELSE Plus(x[Pick(s)], g[s \ {Pick(s)}])]
        BY <2>1 DEF AddsFractions
    <2> QED
        BY <2>2
<1>3. c = [s \in SUBSET S |-> IF s = {} THEN Nothing ELSE Plus(x[Pick(s)], c[s \ {Pick(s)}])]
    BY <1>2
<1>4. AddsFractions(c, x, S)
    BY <1>3 DEF AddsFractions
<1> QED
    BY <1>1, <1>4

\* A fraction between an integer and the integer plus k, and one between its floor and the
\* floor plus 1, have a sum between those integers and k + 1 more.
LEMMA PlusBetween ==
    ASSUME NEW f, Fraction(f), NEW s, Fraction(s), NEW base \in Nat, NEW k \in Nat,
           base * s.den <= s.num, s.num <= (base + k) * s.den
    PROVE  /\ Fraction(Plus(f, s))
           /\ (base + Floor(f)) * Plus(f, s).den <= Plus(f, s).num
           /\ Plus(f, s).num <= ((base + Floor(f)) + (k + 1)) * Plus(f, s).den
<1>1. PICK a, b, c, d, q, r : /\ a = s.num /\ b = s.den /\ c = f.num /\ d = f.den
                              /\ q = Floor(f) /\ r = Rest(f)
    OBVIOUS
<1>2. /\ a \in Nat /\ b \in Nat \ {0} /\ c \in Nat /\ d \in Nat \ {0} /\ q \in Nat /\ r \in Nat
      /\ c = q * d + r /\ r < d
    BY <1>1, FloorFacts DEF Fraction
<1>3. base * b <= a /\ a <= (base + k) * b
    BY <1>1
<1>4. q * d <= c /\ c <= (q + 1) * d
    <2>1. (q + 1) * d = q * d + d /\ q * d \in Int
        BY <1>2
    <2> QED
        BY <1>2, <2>1
<1>5. a * d \in Nat /\ c * b \in Nat /\ b * d \in Nat /\ b * d > 0
    BY <1>2, ProductNat
<1>6. (base * b) * d <= a * d /\ a * d <= ((base + k) * b) * d
    <2>1. base * b \in Int /\ (base + k) * b \in Int
        BY <1>2
    <2> QED
        BY <1>2, <1>3, <2>1, Products
<1>7. (q * d) * b <= c * b /\ c * b <= ((q + 1) * d) * b
    <2>1. q * d \in Int /\ (q + 1) * d \in Int
        BY <1>2
    <2> QED
        BY <1>2, <1>4, <2>1, Products
<1>8. (base + q) * (b * d) = (base * b) * d + (q * d) * b
    BY <1>2
<1>9. ((base + q) + (k + 1)) * (b * d) = ((base + k) * b) * d + ((q + 1) * d) * b
    BY <1>2
<1>10. /\ (base * b) * d \in Int /\ (q * d) * b \in Int
       /\ ((base + k) * b) * d \in Int /\ ((q + 1) * d) * b \in Int
    BY <1>2
<1>11. (base + q) * (b * d) <= a * d + c * b /\ a * d + c * b <= ((base + q) + (k + 1)) * (b * d)
    BY <1>5, <1>6, <1>7, <1>8, <1>9, <1>10
<1>12. Plus(f, s).num = a * d + c * b /\ Plus(f, s).den = b * d
    BY <1>1 DEF Plus
<1> QED
    BY <1>1, <1>5, <1>11, <1>12 DEF Fraction

\* The sum of fractions is between the sum of their floors and one more for each of them.
LEMMA ExactSumBetween ==
    ASSUME NEW x, Fractions(x)
    PROVE  LET e    == ExactSum(x)
               base == Total(Floors(x))
               n    == Cardinality(DOMAIN x)
           IN  Fraction(e) /\ base \in Nat /\ base * e.den <= e.num /\ e.num <= (base + n) * e.den
<1> DEFINE S == DOMAIN x
           F == Floors(x)
<1>0. IsFiniteSet(S) /\ DOMAIN F = S /\ \A i \in S : Fraction(x[i]) /\ F[i] = Floor(x[i]) /\ F[i] \in Nat
    BY FloorFacts DEF Fractions, Floors
<1>1. PICK g : AddsFractions(g, x, S) /\ ExactSum(x) = g[S]
    BY <1>0, ExactSumIs
<1> HIDE DEF F
<1> DEFINE Fine(T) == /\ Fraction(g[T])
                      /\ SumFunctionOnSet(F, T) * g[T].den <= g[T].num
                      /\ g[T].num <= (SumFunctionOnSet(F, T) + Cardinality(T)) * g[T].den
           P == {T \in SUBSET S : Fine(T)}
<1>2. ASSUME NEW T \in SUBSET S, \A U \in SUBSET T : U # T => U \in P
      PROVE  T \in P
    <2>1. IsFiniteSet(T)
        BY <1>0, FS_Subset
    <2>2. CASE T = {}
        <3>1. g[T] = Nothing
            BY <1>1, <2>2 DEF AddsFractions
        <3>2. SumFunctionOnSet(F, T) = 0 /\ Cardinality(T) = 0
            BY <2>1, <2>2, SumStep, FS_EmptySet
        <3>3. Fine(T)
            BY <3>1, <3>2 DEF Nothing, Fraction
        <3> QED
            BY <3>3
    <2>3. CASE T # {}
        <3>1. PICK i, U : i = Pick(T) /\ U = T \ {i}
            OBVIOUS
        <3>2. i \in T /\ U \in SUBSET T /\ U # T /\ U \in SUBSET S /\ IsFiniteSet(U)
            BY <2>1, <2>3, <3>1, PickIn, FS_Subset
        <3>3. Fine(U)
            BY <1>2, <3>2
        <3>4. PICK base \in Nat : base = SumFunctionOnSet(F, U)
            BY <1>0, <3>2, SumNat
        <3>5. PICK k \in Nat : k = Cardinality(U) /\ Cardinality(T) = k + 1
            <4>1. Cardinality(U) = Cardinality(T) - 1 /\ Cardinality(U) \in Nat /\ Cardinality(T) \in Nat
                BY <2>1, <3>1, <3>2, FS_RemoveElement, FS_CardinalityType
            <4> QED
                BY <4>1
        <3>6. SumFunctionOnSet(F, T) = base + Floor(x[i])
            <4>1. SumFunctionOnSet(F, T) = F[i] + SumFunctionOnSet(F, U)
                BY <2>1, <2>3, <3>1, SumStep
            <4> QED
                BY <1>0, <3>2, <3>4, <4>1
        <3>7. g[T] = Plus(x[i], g[U])
            BY <1>1, <2>3, <3>1 DEF AddsFractions
        <3>8. Fraction(x[i]) /\ Fraction(g[U]) /\ base * g[U].den <= g[U].num
                 /\ g[U].num <= (base + k) * g[U].den
            BY <1>0, <3>2, <3>3, <3>4, <3>5
        <3>9. /\ Fraction(Plus(x[i], g[U]))
              /\ (base + Floor(x[i])) * Plus(x[i], g[U]).den <= Plus(x[i], g[U]).num
              /\ Plus(x[i], g[U]).num <= ((base + Floor(x[i])) + (k + 1)) * Plus(x[i], g[U]).den
            BY <3>8, PlusBetween
        <3>10. Fine(T)
            BY <3>5, <3>6, <3>7, <3>9
        <3> QED
            BY <3>10
    <2> QED
        BY <2>2, <2>3
<1>3. S \in P
    <2> HIDE DEF P
    <2> QED
        BY <1>0, <1>2, SubsetInduct
<1>4. Fine(S)
    BY <1>3
<1>5. SumFunctionOnSet(F, S) \in Nat /\ Total(Floors(x)) = SumFunctionOnSet(F, S)
    BY <1>0, SumNat DEF Total, SumFunction, F
<1> QED
    BY <1>1, <1>4, <1>5

\* The document's tax is rounded to what the lines can be given: their floors, and at
\* most one unit more for each of them.  The code throws where it is not.
LEMMA DocumentTaxFits ==
    ASSUME NEW x, Fractions(x), NEW mode \in Modes
    PROVE  /\ RoundExact(ExactSum(x), mode) \in Nat
           /\ Left(x, RoundExact(ExactSum(x), mode)) \in 0..Cardinality(DOMAIN x)
<1>1. PICK e, base, n : e = ExactSum(x) /\ base = Total(Floors(x)) /\ n = Cardinality(DOMAIN x)
    OBVIOUS
<1>2. /\ Fraction(e) /\ base \in Nat /\ n \in Nat
      /\ base * e.den <= e.num /\ e.num <= (base + n) * e.den
    BY <1>1, ExactSumBetween, FS_CardinalityType DEF Fractions
<1>3. PICK a \in Nat, d \in Nat \ {0} : a = e.num /\ d = e.den
    BY <1>2 DEF Fraction
<1>4. PICK r : r = DivRound(a, d, mode) /\ r = RoundExact(ExactSum(x), mode)
    BY <1>1, <1>3 DEF RoundExact
<1>5. a \div d \in Nat /\ r \in {a \div d, a \div d + 1}
    BY <1>4, Division, RoundFacts
<1>6. r \in Nat
    BY <1>5
<1>7. PICK k : k = base + n /\ k \in Nat
    BY <1>2
<1>8. base * d <= a /\ a <= k * d
    BY <1>2, <1>3, <1>7
<1>9. /\ base * d <= a => base <= DivRound(a, d, mode)
      /\ a <= k * d => DivRound(a, d, mode) <= k
    BY <1>2, <1>7, RoundBetween
<1> QED
    BY <1>1, <1>2, <1>4, <1>6, <1>7, <1>8, <1>9 DEF Left

-----------------------------------------------------------------------------
(* An order as it is saved.                                                *)

\* No discount is more than what it is taken off, and no rate more than the whole.
LineOK(l) == /\ l.price \in Nat /\ l.quantity \in Nat /\ l.discount \in 0..Gross(l)
             /\ l.rate \in (0..Whole) \cup {NoRate}

OrderOK(o) ==
    /\ o.lines \in Seq([item : Items, quantity : Nat, price : Nat, discount : Nat,
                        rate : (0..Whole) \cup {NoRate}])
    /\ \A i \in DOMAIN o.lines : LineOK(o.lines[i])
    /\ o.discount \in 0..Total(Weights(o)) /\ o.policy \in TaxPolicies

\* A percentage of an amount is not more than the amount.
LEMMA MulRatioFacts ==
    ASSUME NEW a \in Nat, NEW n \in Nat, NEW d \in Nat \ {0}
    PROVE  MulRatio(a, n, d) \in Nat /\ (n <= d => MulRatio(a, n, d) <= a)
<1>1. PICK p \in Nat : p = a * n
    BY ProductNat
<1>2. MulRatio(a, n, d) = DivRound(p, d, "HALF_UP") /\ "HALF_UP" \in Modes
    BY <1>1 DEF MulRatio, Modes
<1>3. p \div d \in Nat /\ DivRound(p, d, "HALF_UP") \in {p \div d, p \div d + 1}
    BY <1>2, Division, RoundFacts
<1>4. ASSUME n <= d PROVE p <= a * d
    <2>1. n * a <= d * a
        BY <1>4, Products
    <2> QED
        BY <1>1, <2>1
<1>5. p <= a * d => DivRound(p, d, "HALF_UP") <= a
    BY <1>2, RoundBetween
<1> QED
    BY <1>2, <1>3, <1>4, <1>5

\* A discount that is let through is not more than what it is taken off.
LEMMA DiscountFacts ==
    ASSUME NEW asked \in Discounts, NEW gross \in Nat, DiscountAllowed(asked, gross)
    PROVE  ResolveDiscount(asked, gross) \in 0..gross
<1>1. /\ asked.mode \in {"NONE", "AMOUNT", "PERCENT_BPS"} /\ asked.value \in Nat
      /\ asked.mode = "PERCENT_BPS" => asked.value <= Whole
    BY DEF Discounts
<1>2. CASE asked.mode = "NONE"
    BY <1>2 DEF ResolveDiscount
<1>3. CASE asked.mode = "AMOUNT"
    BY <1>1, <1>3 DEF ResolveDiscount, DiscountAllowed
<1>4. CASE asked.mode = "PERCENT_BPS"
    <2>1. Whole \in Nat \ {0}
        BY TotalsAssumption DEF TotalsAssumption
    <2>2. MulRatio(gross, asked.value, Whole) \in Nat /\ MulRatio(gross, asked.value, Whole) <= gross
        BY <1>1, <1>4, <2>1, MulRatioFacts
    <2> QED
        BY <1>4, <2>2 DEF ResolveDiscount
<1> QED
    BY <1>1, <1>2, <1>3, <1>4

\* A line that can be sold is saved with a price, and a discount of no more than it costs.
LEMMA LineFacts ==
    ASSUME NEW asked \in [item : Items, quantity : Nat, discount : Discounts], LineAllowed(asked)
    PROVE  /\ ResolveLine(asked) \in [item : Items, quantity : Nat, price : Nat, discount : Nat,
                                      rate : (0..Whole) \cup {NoRate}]
           /\ LineOK(ResolveLine(asked))
<1>1. PICK offer : offer = Offer[asked.item]
    OBVIOUS
<1>2. offer.price \in Nat /\ offer.rate \in (0..Whole) \cup {NoRate}
    BY <1>1, TotalsAssumption DEF LineAllowed, TotalsAssumption
<1>3. PICK gross : gross = MulRatio(offer.price, asked.quantity, Unit)
    OBVIOUS
<1>4. gross \in Nat
    BY <1>2, <1>3, MulRatioFacts, TotalsAssumption DEF TotalsAssumption
<1>5. DiscountAllowed(asked.discount, gross)
    BY <1>1, <1>3 DEF LineAllowed
<1>6. PICK off \in 0..gross : off = ResolveDiscount(asked.discount, gross)
    BY <1>4, <1>5, DiscountFacts
<1>7. ResolveLine(asked) = [item |-> asked.item, quantity |-> asked.quantity, price |-> offer.price,
                            discount |-> off, rate |-> offer.rate]
    BY <1>1, <1>3, <1>6 DEF ResolveLine
<1>8. Gross(ResolveLine(asked)) = gross
    BY <1>3, <1>7 DEF Gross
<1> QED
    BY <1>2, <1>4, <1>7, <1>8 DEF LineOK

\* What a line weighs is not negative.
LEMMA WeightsFacts ==
    ASSUME NEW o, o.lines \in Seq([item : Items, quantity : Nat, price : Nat, discount : Nat,
                                   rate : (0..Whole) \cup {NoRate}]),
           \A i \in DOMAIN o.lines : LineOK(o.lines[i])
    PROVE  /\ DOMAIN Weights(o) = DOMAIN o.lines /\ IsFiniteSet(DOMAIN o.lines)
           /\ DOMAIN o.lines \subseteq Nat
           /\ \A i \in DOMAIN o.lines : Weights(o)[i] \in Nat
           /\ Total(Weights(o)) \in Nat
<1>1. DOMAIN o.lines = 1..Len(o.lines) /\ Len(o.lines) \in Nat
    OBVIOUS
<1>2. IsFiniteSet(DOMAIN o.lines) /\ DOMAIN o.lines \subseteq Nat
    BY <1>1, FS_Interval
<1>3. DOMAIN Weights(o) = DOMAIN o.lines
    BY DEF Weights
<1>4. ASSUME NEW i \in DOMAIN o.lines PROVE Weights(o)[i] \in Nat
    <2>1. PICK l : l = o.lines[i]
        OBVIOUS
    <2>2. LineOK(l) /\ Weights(o)[i] = Gross(l) - l.discount
        BY <2>1 DEF Weights, AfterLineDiscount
    <2>3. Gross(l) \in Nat
        BY <2>2, MulRatioFacts, TotalsAssumption DEF LineOK, Gross, TotalsAssumption
    <2>4. l.discount \in Nat /\ l.discount <= Gross(l)
        BY <2>2 DEF LineOK
    <2> QED
        BY <2>2, <2>3, <2>4
<1>5. Total(Weights(o)) \in Nat
    BY <1>2, <1>3, <1>4, SumNat DEF Total, SumFunction
<1> QED
    BY <1>2, <1>3, <1>4, <1>5

\* A draft that is allowed is saved as an order.
LEMMA SavedOK ==
    ASSUME NEW asked \in Requests, DraftAllowed(asked), NEW b, NEW c
    PROVE  OrderOK(Saved(b, c, asked))
<1> DEFINE o == Saved(b, c, asked)
           T == [item : Items, quantity : Nat, price : Nat, discount : Nat,
                 rate : (0..Whole) \cup {NoRate}]
           A == [item : Items, quantity : Nat, discount : Discounts]
           off == [i \in DOMAIN asked.lines |-> AfterLineDiscount(ResolveLine(asked.lines[i]))]
<1>1. asked.lines \in Seq(A) /\ asked.discount \in Discounts /\ asked.policy \in TaxPolicies
    BY DEF Requests
<1>2. \A i \in DOMAIN asked.lines : asked.lines[i] \in A /\ LineAllowed(asked.lines[i])
    <2>1. \A i \in DOMAIN asked.lines : LineAllowed(asked.lines[i])
        BY DEF DraftAllowed
    <2>2. \A i \in DOMAIN asked.lines : asked.lines[i] \in A
        <3> HIDE DEF A
        <3> QED
            BY <1>1
    <2> QED
        BY <2>1, <2>2
<1>3. \A i \in DOMAIN asked.lines : ResolveLine(asked.lines[i]) \in T /\ LineOK(ResolveLine(asked.lines[i]))
    BY <1>2, LineFacts
<1>4. o.lines = [i \in DOMAIN asked.lines |-> ResolveLine(asked.lines[i])] /\ o.policy = asked.policy
    BY DEF Saved
<1>5. o.lines \in Seq(T)
    <2>1. DOMAIN asked.lines = 1..Len(asked.lines) /\ Len(asked.lines) \in Nat
        BY <1>1
    <2> HIDE DEF T, o
    <2> QED
        BY <1>3, <1>4, <2>1
<1>6. \A i \in DOMAIN o.lines : LineOK(o.lines[i])
    <2> HIDE DEF o
    <2> QED
        BY <1>3, <1>4
<1>7. Total(Weights(o)) \in Nat
    <2> HIDE DEF o
    <2> QED
        BY <1>5, <1>6, WeightsFacts
<1>8. Weights(o) = off
    <2> HIDE DEF o
    <2> QED
        BY <1>4 DEF Weights
<1>9. o.discount = ResolveDiscount(asked.discount, Total(off))
    BY DEF Saved
<1>10. DiscountAllowed(asked.discount, Total(off))
    BY DEF DraftAllowed
<1>11. o.discount \in 0..Total(Weights(o))
    <2> HIDE DEF o, off
    <2> QED
        BY <1>1, <1>7, <1>8, <1>9, <1>10, DiscountFacts
<1>12. OrderOK(o)
    <2> HIDE DEF o
    <2> QED
        BY <1>1, <1>4, <1>5, <1>6, <1>11 DEF OrderOK
<1> QED
    BY <1>12

-----------------------------------------------------------------------------
(* Its totals.                                                             *)

\* The shares of the document's discount.
LEMMA SharesFacts ==
    ASSUME NEW o, OrderOK(o)
    PROVE  /\ FairShares(o) /\ DOMAIN Shares(o) = DOMAIN o.lines
           /\ \A i \in DOMAIN o.lines : Shares(o)[i] \in 0..Weights(o)[i]
<1>1. PICK w, T, s : w = Weights(o) /\ T = Total(w) /\ s = Shares(o)
    OBVIOUS
<1>2. /\ DOMAIN w = DOMAIN o.lines /\ IsFiniteSet(DOMAIN w) /\ DOMAIN w \subseteq Nat
      /\ \A i \in DOMAIN w : w[i] \in Nat
      /\ T \in Nat
    BY <1>1, WeightsFacts DEF OrderOK
<1>3. o.discount \in 0..T
    BY <1>1 DEF OrderOK
<1>4. /\ DOMAIN s = DOMAIN w /\ Total(s) = o.discount
      /\ \A i \in DOMAIN w : /\ s[i] \in 0..w[i]
                             /\ T > 0 => /\ s[i] * T - o.discount * w[i] < T
                                         /\ -(s[i] * T - o.discount * w[i]) < T
    <2>1. CASE o.discount = 0
        <3>1. s = [i \in DOMAIN w |-> 0]
            BY <1>1, <2>1 DEF Shares, AllocateDocumentDiscount
        <3>2. \A i \in DOMAIN w : s[i] = 0 /\ s[i] * T = 0 /\ o.discount * w[i] = 0
            BY <1>2, <2>1, <3>1
        <3>3. Total(s) = 0
            BY <1>2, <3>1, SumZero DEF Total, SumFunction
        <3> QED
            BY <1>2, <2>1, <3>1, <3>2, <3>3
    <2>2. CASE o.discount # 0
        <3>1. s = Allocate(o.discount, w) /\ T > 0
            BY <1>1, <1>2, <1>3, <2>2 DEF Shares, AllocateDocumentDiscount
        <3>2. PICK d : d = o.discount
            OBVIOUS
        <3>3. /\ DOMAIN s = DOMAIN w /\ Total(s) = d
              /\ \A i \in DOMAIN w : /\ s[i] \in 0..w[i]
                                     /\ s[i] * T - d * w[i] < T
                                     /\ -(s[i] * T - d * w[i]) < T
            <4>1. d \in 0..T /\ s = Allocate(d, w) /\ T = Total(w) /\ T > 0
                BY <1>1, <1>3, <3>1, <3>2
            <4> QED
                BY <1>2, <4>1, AllocateFacts, Zenon
        <3> QED
            BY <3>2, <3>3
    <2> QED
        BY <2>1, <2>2
<1> QED
    BY <1>1, <1>2, <1>4 DEF FairShares

\* The taxes of the lines, and what they come to.
LEMMA TaxesFacts ==
    ASSUME NEW o, OrderOK(o)
    PROVE  /\ FairTaxes(o) /\ DOMAIN Taxes(o) = DOMAIN o.lines
           /\ \A i \in DOMAIN o.lines : Taxes(o)[i] \in Nat
<1>1. PICK x, t, m : x = ExactTaxes(o) /\ t = Taxes(o) /\ m = o.policy.rounding
    OBVIOUS
<1>2. m \in Modes /\ o.policy.scope \in {"LINE", "DOCUMENT"}
    BY <1>1 DEF OrderOK, TaxPolicies
<1>3. DOMAIN x = Rated(o) /\ Rated(o) \subseteq DOMAIN o.lines
    BY <1>1 DEF ExactTaxes, Rated
<1>4. IsFiniteSet(DOMAIN o.lines) /\ DOMAIN o.lines \subseteq Nat
    BY WeightsFacts DEF OrderOK
<1>5. ASSUME NEW i \in Rated(o) PROVE Fraction(x[i])
    <2>1. PICK a, r : a = Weights(o)[i] - Shares(o)[i] /\ r = o.lines[i].rate
        OBVIOUS
    <2>2. a \in Nat
        <3>1. i \in DOMAIN o.lines
            BY <1>3
        <3>2. Weights(o)[i] \in Nat
            BY <3>1, WeightsFacts DEF OrderOK
        <3>3. Shares(o)[i] \in 0..Weights(o)[i]
            BY <3>1, SharesFacts
        <3> QED
            BY <2>1, <3>2, <3>3
    <2>3. r \in 0..Whole
        BY <1>3, <2>1 DEF Rated, OrderOK, LineOK
    <2>4. Whole \in Nat \ {0}
        BY TotalsAssumption DEF TotalsAssumption
    <2>5. a * r \in Nat
        BY <2>2, <2>3, ProductNat
    <2>6. x[i] = ExactLineTax(a, r, o.policy.price)
        BY <1>1, <2>1 DEF ExactTaxes
    <2> QED
        BY <2>3, <2>4, <2>5, <2>6 DEF ExactLineTax, Fraction
<1>6. Fractions(x)
    BY <1>3, <1>4, <1>5, FS_Subset DEF Fractions
<1>7. \A i \in DOMAIN x : Floor(x[i]) \in Nat
    BY <1>6, FloorFacts DEF Fractions
<1>8. PICK y : y = IF o.policy.scope = "LINE" THEN LineRounding(x, m) ELSE ReconcileDocumentTax(x, m)
    OBVIOUS
<1>9. t = [i \in DOMAIN o.lines |-> IF i \in DOMAIN x THEN y[i] ELSE 0]
    BY <1>1, <1>8 DEF Taxes
<1>10. CASE o.policy.scope = "LINE"
    <2>1. \A i \in DOMAIN x : y[i] = RoundExact(x[i], m)
        BY <1>8, <1>10 DEF LineRounding
    <2>2. \A i \in DOMAIN x : y[i] \in {Floor(x[i]), Floor(x[i]) + 1}
        BY <1>2, <1>6, <2>1, RoundFacts DEF RoundExact, Fractions, Fraction, Floor
    <2>3. \A i \in DOMAIN x : t[i] = RoundExact(x[i], m) /\ t[i] \in Floor(x[i])..(Floor(x[i]) + 1)
        BY <1>3, <1>7, <1>9, <2>1, <2>2
    <2>4. FairTaxes(o)
        BY <1>1, <1>10, <2>3 DEF FairTaxes
    <2> QED
        BY <1>1, <1>7, <1>9, <2>2, <2>4
<1>11. CASE o.policy.scope = "DOCUMENT"
    <2>1. PICK all : all = RoundExact(ExactSum(x), m)
        OBVIOUS
    <2>2. all \in Nat /\ Left(x, all) \in 0..Cardinality(DOMAIN x)
        BY <1>2, <1>6, <2>1, DocumentTaxFits
    <2>3. y = LargestRemainders(x, all)
        BY <1>8, <1>11, <2>1 DEF ReconcileDocumentTax
    <2>4. /\ DOMAIN y = DOMAIN x /\ Total(y) = all
          /\ \A i \in DOMAIN x : y[i] \in {Floor(x[i]), Floor(x[i]) + 1}
          /\ \A i, j \in DOMAIN x :
                y[i] = Floor(x[i]) + 1 /\ y[j] = Floor(x[j]) =>
                    Rest(x[i]) * x[j].den >= Rest(x[j]) * x[i].den
        BY <1>6, <2>2, <2>3, RemaindersFacts
    <2>5. Total(t) = all
        <3>1. \A i \in DOMAIN x : y[i] \in Int
            BY <1>7, <2>4
        <3>2. DOMAIN t = DOMAIN o.lines /\ \A i \in DOMAIN o.lines : t[i] = IF i \in DOMAIN x THEN y[i] ELSE 0
            BY <1>9
        <3>3. SumFunctionOnSet(t, DOMAIN o.lines) = SumFunctionOnSet(y, DOMAIN x)
            BY <1>3, <1>4, <3>1, <3>2, SumOver
        <3> QED
            BY <2>4, <3>2, <3>3 DEF Total, SumFunction
    <2>6. \A i \in DOMAIN x : t[i] = y[i] /\ t[i] \in Floor(x[i])..(Floor(x[i]) + 1)
        BY <1>3, <1>7, <1>9, <2>4
    <2>7. \A i, j \in DOMAIN x :
             t[i] > Floor(x[i]) /\ ~(t[j] > Floor(x[j])) =>
                 Rest(x[i]) * x[j].den >= Rest(x[j]) * x[i].den
        BY <1>7, <2>4, <2>6
    <2>8. FairTaxes(o)
        BY <1>1, <1>11, <2>1, <2>5, <2>6, <2>7 DEF FairTaxes
    <2> QED
        BY <1>1, <1>7, <1>9, <2>4, <2>8
<1> QED
    BY <1>2, <1>10, <1>11

\* What the code checks of the totals when it issues the invoice is so, they are not
\* negative, and a credit note over the lines comes to them.
LEMMA TotalsFacts ==
    ASSUME NEW o, OrderOK(o), NEW totals, totals = ComputeCanonicalTotals(o)
    PROVE  /\ TotalsAccepted(o, totals) /\ totals.total \in Nat
           /\ CreditNoteTotals(o, totals.taxes).total = totals.total
           /\ CreditNoteTotals(o, totals.taxes).tax = totals.tax
<1>1. PICK D, w, s, t, off : /\ D = DOMAIN o.lines /\ w = Weights(o) /\ s = Shares(o)
                             /\ t = Taxes(o) /\ off = o.discount
    OBVIOUS
<1>2. /\ IsFiniteSet(D) /\ DOMAIN w = D /\ DOMAIN s = D /\ DOMAIN t = D
      /\ \A i \in D : w[i] \in Nat /\ s[i] \in 0..w[i] /\ t[i] \in Nat
    BY <1>1, WeightsFacts, SharesFacts, TaxesFacts DEF OrderOK
<1>3. PICK sub, tax : /\ sub = Total(w) /\ sub = SumFunctionOnSet(w, D)
                      /\ tax = Total(t) /\ tax = SumFunctionOnSet(t, D)
    BY <1>2 DEF Total, SumFunction
<1>4. sub \in Nat /\ tax \in Nat /\ off \in 0..sub
    <2>1. sub \in Nat /\ tax \in Nat
        BY <1>2, <1>3, SumNat
    <2> QED
        BY <1>1, <1>3, <2>1 DEF OrderOK
<1>5. SumFunctionOnSet(s, D) = off
    BY <1>1, <1>2, SharesFacts DEF FairShares, Total, SumFunction
<1>6. PICK p : p = o.policy.price
    OBVIOUS
<1>7. totals = [taxes |-> t, subtotal |-> sub, discount |-> off, tax |-> tax,
                total |-> TotalOf(sub, off, tax, p)]
    BY <1>1, <1>3, <1>6 DEF ComputeCanonicalTotals
<1>8. TotalsAccepted(o, totals)
    <2>1. /\ totals.taxes = t /\ totals.subtotal = sub /\ totals.discount = off /\ totals.tax = tax
          /\ totals.total = TotalOf(sub, off, tax, p)
        BY <1>7
    <2> QED
        BY <1>1, <1>2, <1>3, <1>6, <2>1 DEF TotalsAccepted
<1>9. totals.total = IF p = "TAX_EXCLUSIVE" THEN sub - off + tax ELSE sub - off
    BY <1>7 DEF TotalOf
<1>10. PICK lines : lines = CreditNoteLines(o, t)
    OBVIOUS
<1>11. /\ DOMAIN lines = D
       /\ \A i \in D : /\ lines[i].net = w[i] - s[i] /\ lines[i].tax = t[i]
                       /\ lines[i].total = IF p = "TAX_EXCLUSIVE" THEN (w[i] - s[i]) + t[i] ELSE w[i] - s[i]
    BY <1>1, <1>6, <1>10 DEF CreditNoteLines
<1>12. PICK net, taxed, whole : /\ net = [i \in D |-> w[i] - s[i]]
                                /\ taxed = [i \in D |-> lines[i].tax]
                                /\ whole = [i \in D |-> lines[i].total]
    OBVIOUS
<1>13. PICK note : note = CreditNoteTotals(o, t)
    OBVIOUS
<1>14. note.tax = Total(taxed) /\ note.total = Total(whole)
    BY <1>10, <1>11, <1>12, <1>13 DEF CreditNoteTotals
<1>15. note.tax = tax
    <2>1. \A i \in D : taxed[i] = t[i]
        BY <1>11, <1>12
    <2>2. SumFunctionOnSet(taxed, D) = SumFunctionOnSet(t, D)
        BY <1>2, <2>1, SumSame
    <2> QED
        BY <1>3, <1>12, <1>14, <2>2 DEF Total, SumFunction
<1>16. SumFunctionOnSet(net, D) = sub - off
    <2>1. \A i \in D : net[i] \in Int /\ s[i] \in Int /\ w[i] = net[i] + s[i]
        BY <1>2, <1>12
    <2>2. SumFunctionOnSet(w, D) = SumFunctionOnSet(net, D) + SumFunctionOnSet(s, D)
        BY <1>2, <2>1, SumPlus
    <2>3. SumFunctionOnSet(net, D) \in Int
        BY <1>2, <2>1, SumType
    <2> QED
        BY <1>3, <1>4, <1>5, <2>2, <2>3
<1>17. note.total = totals.total
    <2>1. Total(whole) = SumFunctionOnSet(whole, D)
        BY <1>12 DEF Total, SumFunction
    <2>2. CASE p = "TAX_EXCLUSIVE"
        <3>1. \A i \in D : net[i] \in Int /\ t[i] \in Int /\ whole[i] = net[i] + t[i]
            BY <1>2, <1>11, <1>12, <2>2
        <3>2. SumFunctionOnSet(whole, D) = SumFunctionOnSet(net, D) + SumFunctionOnSet(t, D)
            BY <1>2, <3>1, SumPlus
        <3> QED
            BY <1>3, <1>9, <1>14, <1>16, <2>1, <2>2, <3>2
    <2>3. CASE p # "TAX_EXCLUSIVE"
        <3>1. \A i \in D : whole[i] = net[i]
            BY <1>11, <1>12, <2>3
        <3>2. SumFunctionOnSet(whole, D) = SumFunctionOnSet(net, D)
            BY <1>2, <3>1, SumSame
        <3> QED
            BY <1>9, <1>14, <1>16, <2>1, <2>3, <3>2
    <2> QED
        BY <2>2, <2>3
<1>18. totals.taxes = t /\ totals.tax = tax /\ totals.total \in Nat
    BY <1>4, <1>7, <1>9
<1> QED
    BY <1>8, <1>13, <1>15, <1>17, <1>18

-----------------------------------------------------------------------------
(* The counter.                                                            *)

\* Whatever is on the counter was saved.
Counter == order = None \/ OrderOK(order)

\* An order gets on the counter only as it is saved, and nothing else changes it.
LEMMA CounterKeeps ==
    ASSUME Counter, [Next]_vars
    PROVE  Counter'
<1>1. CASE SaveDraft
    <2>1. PICK asked \in Drafts, b \in Branches : DraftAllowed(asked) /\ order' = Saved(b, None, asked)
        BY <1>1 DEF SaveDraft
    <2>2. asked \in Requests
        BY HistoryAssumption DEF HistoryAssumption
    <2>3. OrderOK(order')
        BY <2>1, <2>2, SavedOK
    <2> QED
        BY <2>3 DEF Counter, OrderOK, LineOK
<1>2. CASE DiscardDraft
    BY <1>2 DEF DiscardDraft, Counter
<1>3. ASSUME order' = order PROVE Counter'
    BY <1>3 DEF Counter, OrderOK, LineOK
<1> QED
    BY <1>1, <1>2, <1>3 DEF Next, Quiet, NextDay, vars

\* The arithmetic of every order is exact: of any number of lines, at any prices, rates
\* and discounts, under every tax policy.
THEOREM OrdersAreExact == Spec => []TotalsAreExact
<1>1. Init => Counter
    BY DEF Init, Counter
<1>2. Counter /\ [Next]_vars => Counter'
    BY CounterKeeps
<1>3. Counter => TotalsAreExact
    <2> SUFFICES ASSUME OrderOK(order) PROVE TotalsAreExact
        BY DEF Counter, TotalsAreExact
    <2>1. PICK totals : totals = ComputeCanonicalTotals(order)
        OBVIOUS
    <2>2. FairShares(order) /\ FairTaxes(order)
        BY SharesFacts, TaxesFacts
    <2>3. /\ TotalsAccepted(order, totals) /\ totals.total \in Nat
          /\ CreditNoteTotals(order, totals.taxes).total = totals.total
          /\ CreditNoteTotals(order, totals.taxes).tax = totals.tax
        BY <2>1, TotalsFacts
    <2> QED
        BY <2>1, <2>2, <2>3 DEF TotalsAreExact
<1> QED
    BY <1>1, <1>2, <1>3, PTL DEF Spec

-----------------------------------------------------------------------------
(* A sound database.                                                       *)

Shaped(d) == /\ DOMAIN d = Tables
             /\ \A t \in Tables : d[t] \in Seq(Range(d[t]))

\* Amounts are integers, and who owns a row exists.
RowsOK(d) ==
    /\ \A i \in Ids(d, "invoices") :
          LET row == d.invoices[i]
          IN  /\ DOMAIN row = {"order", "totals", "fingerprint", "status"}
              /\ OrderOK(row.order) /\ row.totals = ComputeCanonicalTotals(row.order)
    /\ \A n \in Ids(d, "notes") :
          d.notes[n].invoice \in Ids(d, "invoices") /\ d.notes[n].reduction \in Int
    /\ \A r \in Ids(d, "receivables") :
          LET row == d.receivables[r]
          IN  row.amount \in Int /\ (row.kind = "INVOICE" => row.source \in Ids(d, "invoices"))
    /\ \A t \in {"allocations", "coverings", "draws"} : \A k \in Ids(d, t) : d[t][k].amount \in Int
    /\ \A j \in Ids(d, "journals") :
          LET row == d.journals[j]
          IN  /\ row.kind = "invoice_ar" => row.source \in Ids(d, "invoices")
              /\ row.kind = "credit_note" => row.source \in Ids(d, "notes")

\* The lines of a journal, as Post writes them.
Sealed(j, branch, lines) ==
    {[journal |-> j, branch |-> branch, account |-> l.account, debit |-> l.debit,
      credit |-> l.credit] : l \in lines}
\* The journal of that kind and source, and its lines.
BookedOnce(d, kind, source, branch, lines) ==
    \E j \in Ids(d, "journals") : /\ Posted(d, kind, source) = {j}
                                  /\ d.journals[j].lines = Sealed(j, branch, lines)

\* An invoice of a customer has one receivable and one journal.
Opened(d, i) ==
    LET invoice == d.invoices[i]
        totals  == invoice.totals
    IN  /\ \E r \in Ids(d, "receivables") : /\ ReceivableOf(d, i) = {r}
                                            /\ d.receivables[r].amount = totals.total
        /\ BookedOnce(d, "invoice_ar", i, invoice.order.branch,
                      Dr("AR", totals.total) \cup Revenue(totals.total, totals.tax))

\* A note is the only one of its invoice, repeats its totals, leaves nothing of it open,
\* and has one journal.
Credited(d, n) ==
    LET note   == d.notes[n]
        totals == d.invoices[note.invoice].totals
    IN  /\ d.invoices[note.invoice].order.customer # None
        /\ NotesOf(d, note.invoice) = {n}
        /\ note.total = totals.total /\ note.tax = totals.tax
        /\ note.reduction + note.excess = totals.total
        /\ \A r \in ReceivableOf(d, note.invoice) : Outstanding(d, r) = 0
        /\ BookedOnce(d, "credit_note", n, note.branch,
                      Dr("REVENUE.SALES", note.total - note.tax) \cup Dr("TAX_PAYABLE", note.tax)
                      \cup Cr("AR", note.reduction) \cup Cr("CUSTOMER_ADVANCES", note.excess))

Sound(d) ==
    /\ Shaped(d) /\ RowsOK(d)
    /\ \A i \in Ids(d, "invoices") : d.invoices[i].order.customer # None => Opened(d, i)
    /\ \A n \in Ids(d, "notes") : Credited(d, n)

StandingIn(d, i) == d.invoices[i].status \in {"UNPAID", "PARTIAL", "PAID"}
\* An invoice with a note no longer stands.
Closed(d) == \A n \in Ids(d, "notes") : ~StandingIn(d, d.notes[n].invoice)

-----------------------------------------------------------------------------
(* A row more.                                                             *)

\* A sequence is one of its own elements.
LEMMA SeqOfItsOwn ==
    ASSUME NEW S, NEW s \in Seq(S)
    PROVE  s \in Seq(Range(s))
<1>1. Len(s) \in Nat /\ s \in [1..Len(s) -> S] /\ DOMAIN s = 1..Len(s)
    OBVIOUS
<1>2. s \in [1..Len(s) -> Range(s)]
    BY <1>1 DEF Range
<1> QED
    BY <1>1, <1>2

\* A row is added at the end.
LEMMA AppendFacts ==
    ASSUME NEW s, s \in Seq(Range(s)), NEW e, NEW z, z = Append(s, e)
    PROVE  /\ z \in Seq(Range(z)) /\ Len(s) \in Nat
           /\ DOMAIN s = 1..Len(s) /\ DOMAIN z = 1..(Len(s) + 1)
           /\ \A k \in DOMAIN s : z[k] = s[k]
           /\ z[Len(s) + 1] = e
<1>1. s \in Seq(Range(s) \cup {e})
    BY DEF Range
<1>2. z \in Seq(Range(s) \cup {e})
    BY <1>1
<1>3. z \in Seq(Range(z))
    BY <1>2, SeqOfItsOwn
<1> QED
    BY <1>1, <1>3

\* The id of the next row.
NextId(d, t) == Len(d[t]) + 1

\* The table gets one row, the others stay.
LEMMA AddFacts ==
    ASSUME NEW d, Shaped(d), NEW t \in Tables, NEW row, NEW e, e = Add(d, t, row)
    PROVE  /\ Shaped(e) /\ NextId(d, t) \in Nat /\ NextId(d, t) \notin Ids(d, t)
           /\ \A u \in Tables \ {t} : e[u] = d[u]
           /\ Ids(e, t) = Ids(d, t) \cup {NextId(d, t)}
           /\ \A k \in Ids(d, t) : e[t][k] = d[t][k]
           /\ e[t][NextId(d, t)] = row
<1>1. DOMAIN e = Tables /\ e[t] = Append(d[t], row) /\ \A u \in Tables \ {t} : e[u] = d[u]
    BY DEF Shaped, Add
<1>2. PICK s, z : s = d[t] /\ z = e[t]
    OBVIOUS
<1>3. s \in Seq(Range(s)) /\ z = Append(s, row)
    BY <1>1, <1>2 DEF Shaped
<1>4. /\ z \in Seq(Range(z)) /\ Len(s) \in Nat
      /\ DOMAIN s = 1..Len(s) /\ DOMAIN z = 1..(Len(s) + 1)
      /\ \A k \in DOMAIN s : z[k] = s[k]
      /\ z[Len(s) + 1] = row
    <2>1. \A x, y : y = Append(s, x) =>
             /\ y \in Seq(Range(y)) /\ Len(s) \in Nat
             /\ DOMAIN s = 1..Len(s) /\ DOMAIN y = 1..(Len(s) + 1)
             /\ \A k \in DOMAIN s : y[k] = s[k]
             /\ y[Len(s) + 1] = x
        BY <1>3, AppendFacts
    <2> QED
        BY <1>3, <2>1, ZenonT(60)
<1>5. Shaped(e)
    BY <1>1, <1>2, <1>4 DEF Shaped
<1>6. NextId(d, t) = Len(s) + 1 /\ Ids(d, t) = DOMAIN s /\ Ids(e, t) = DOMAIN z
    BY <1>2 DEF NextId, Ids
<1>7. Len(s) + 1 \in Nat /\ Len(s) + 1 \notin DOMAIN s /\ DOMAIN z = DOMAIN s \cup {Len(s) + 1}
    BY <1>4
<1> QED
    BY <1>1, <1>2, <1>4, <1>5, <1>6, <1>7

\* Ids are numbers.
LEMMA IdsNat ==
    ASSUME NEW d, Shaped(d), NEW t \in Tables
    PROVE  Ids(d, t) \subseteq Nat /\ IsFiniteSet(Ids(d, t)) /\ Ids(d, t) = 1..Len(d[t]) /\ Len(d[t]) \in Nat
<1>1. PICK s : s = d[t]
    OBVIOUS
<1>2. s \in Seq(Range(s))
    BY <1>1 DEF Shaped
<1>3. DOMAIN s = 1..Len(s) /\ Len(s) \in Nat
    BY <1>2
<1>4. IsFiniteSet(DOMAIN s)
    BY <1>3, FS_Interval
<1> QED
    BY <1>1, <1>3, <1>4 DEF Ids

-----------------------------------------------------------------------------
(* Growing.                                                                *)

New(d, e, t) == Ids(e, t) \ Ids(d, t)

InvoiceOK(row) ==
    /\ DOMAIN row = {"order", "totals", "fingerprint", "status"}
    /\ OrderOK(row.order) /\ row.totals = ComputeCanonicalTotals(row.order)

\* e has the rows of d, but for the status of invoices, and more: nothing more is paid
\* of an invoice that has a note, and what is new is sound.
Grows(d, e) ==
    /\ Shaped(e)
    /\ \A t \in Tables \ {"advances"} : Ids(d, t) \subseteq Ids(e, t)
    /\ \A t \in {"notes", "receivables", "allocations", "coverings", "draws", "journals"} :
          \A k \in Ids(d, t) : e[t][k] = d[t][k]
    /\ \A i \in Ids(d, "invoices") : /\ DOMAIN e.invoices[i] = DOMAIN d.invoices[i]
                                     /\ e.invoices[i].order = d.invoices[i].order
                                     /\ e.invoices[i].totals = d.invoices[i].totals
    /\ \A i \in New(d, e, "invoices") :
          InvoiceOK(e.invoices[i]) /\ (e.invoices[i].order.customer # None => Opened(e, i))
    /\ \A n \in New(d, e, "notes") :
          LET note == e.notes[n]
          IN  /\ note.invoice \in Ids(d, "invoices") /\ note.reduction \in Int
              /\ NotesOf(d, note.invoice) = {} /\ Credited(e, n)
    /\ \A r \in New(d, e, "receivables") :
          LET row == e.receivables[r]
          IN  row.amount \in Int /\ (row.kind = "INVOICE" => row.source \in New(d, e, "invoices"))
    /\ \A j \in New(d, e, "journals") :
          LET row == e.journals[j]
          IN  /\ row.kind = "invoice_ar" => row.source \in New(d, e, "invoices")
              /\ row.kind = "credit_note" => row.source \in New(d, e, "notes")
    /\ \A t \in {"allocations", "coverings", "draws"} : \A k \in New(d, e, t) : e[t][k].amount \in Int
    /\ \A k \in New(d, e, "allocations") : NotesOf(d, e.allocations[k].invoice) = {}
    /\ \A k \in New(d, e, "draws") :
          LET r == e.draws[k].receivable
          IN  r \in Ids(d, "receivables") /\ NotesOf(d, InvoiceOf(d, r)) = {}

\* An old invoice has the receivables it had.
LEMMA ReceivableStays ==
    ASSUME NEW d, NEW e, Sound(d), Grows(d, e), NEW i \in Ids(d, "invoices")
    PROVE  /\ ReceivableOf(e, i) = ReceivableOf(d, i)
           /\ \A r \in ReceivableOf(d, i) : /\ r \in Ids(d, "receivables") /\ InvoiceOf(d, r) = i
                                            /\ InvoiceOf(e, r) = i
           /\ i # None /\ i \in Nat
<1>1. i \in Nat /\ i # None
    BY IdsNat, HistoryAssumption DEF Sound, Tables, HistoryAssumption
<1>2. \A r \in Ids(d, "receivables") : r \in Ids(e, "receivables") /\ e.receivables[r] = d.receivables[r]
    BY DEF Grows, Tables
<1>3. \A r \in Ids(d, "receivables") : InvoiceOf(e, r) = InvoiceOf(d, r)
    BY <1>2 DEF InvoiceOf
<1>4. \A r \in New(d, e, "receivables") : InvoiceOf(e, r) # i
    BY <1>1 DEF Grows, InvoiceOf, New
<1> QED
    BY <1>1, <1>2, <1>3, <1>4 DEF ReceivableOf, New

\* An old document has the journals it had.
LEMMA BookedStays ==
    ASSUME NEW d, NEW e, Sound(d), Grows(d, e), NEW kind, NEW x, NEW b, NEW lines,
           \/ kind = "invoice_ar" /\ x \in Ids(d, "invoices")
           \/ kind = "credit_note" /\ x \in Ids(d, "notes"),
           BookedOnce(d, kind, x, b, lines)
    PROVE  BookedOnce(e, kind, x, b, lines)
<1>1. \A j \in Ids(d, "journals") : j \in Ids(e, "journals") /\ e.journals[j] = d.journals[j]
    BY DEF Grows, Tables
<1>2. \A j \in New(d, e, "journals") : ~(e.journals[j].kind = kind /\ e.journals[j].source = x)
    BY DEF Grows, New
<1>3. Posted(e, kind, x) = Posted(d, kind, x)
    BY <1>1, <1>2 DEF Posted, New
<1> QED
    BY <1>1, <1>3 DEF BookedOnce

\* Nothing more is paid of an old invoice with a note.
LEMMA OutstandingStays ==
    ASSUME NEW d, NEW e, Sound(d), Grows(d, e), NEW n \in Ids(d, "notes"),
           NEW i, i = d.notes[n].invoice, NEW r \in ReceivableOf(d, i)
    PROVE  Outstanding(e, r) = Outstanding(d, r) /\ NotesOf(e, i) = NotesOf(d, i)
<1>1. i \in Ids(d, "invoices") /\ NotesOf(d, i) = {n}
    BY DEF Sound, RowsOK, Credited
<1>2. r \in Ids(d, "receivables") /\ InvoiceOf(d, r) = i /\ InvoiceOf(e, r) = i /\ i # None
    BY <1>1, ReceivableStays
<1>3. e.receivables[r] = d.receivables[r]
    BY <1>2 DEF Grows
<1>4. \A t \in {"notes", "allocations", "draws"} :
          \A k \in Ids(d, t) : k \in Ids(e, t) /\ e[t][k] = d[t][k]
    BY DEF Grows, Tables
<1>5. NotesOf(e, i) = NotesOf(d, i)
    <2>1. \A m \in New(d, e, "notes") : e.notes[m].invoice # i
        BY <1>1 DEF Grows
    <2> QED
        BY <1>4, <2>1 DEF NotesOf, New
<1>6. AllocationsOf(e, i) = AllocationsOf(d, i)
    <2>1. \A k \in New(d, e, "allocations") : e.allocations[k].invoice # i
        BY <1>1 DEF Grows
    <2> QED
        BY <1>4, <2>1 DEF AllocationsOf, New
<1>7. DrawsOn(e, r) = DrawsOn(d, r)
    <2>1. \A k \in New(d, e, "draws") : e.draws[k].receivable # r
        BY <1>1, <1>2 DEF Grows
    <2> QED
        BY <1>4, <2>1 DEF DrawsOn, New
<1>8. Sum(e, "draws", DrawsOn(d, r)) = Sum(d, "draws", DrawsOn(d, r))
    <2>1. \A k \in DrawsOn(d, r) : e["draws"][k] = d["draws"][k]
        BY <1>4 DEF DrawsOn
    <2>2. [k \in DrawsOn(d, r) |-> e["draws"][k].amount] = [k \in DrawsOn(d, r) |-> d["draws"][k].amount]
        BY <2>1
    <2> QED
        BY <2>2 DEF Sum
<1>9. Sum(e, "allocations", AllocationsOf(d, i)) = Sum(d, "allocations", AllocationsOf(d, i))
    <2>1. \A k \in AllocationsOf(d, i) : e["allocations"][k] = d["allocations"][k]
        BY <1>4 DEF AllocationsOf
    <2>2. [k \in AllocationsOf(d, i) |-> e["allocations"][k].amount]
             = [k \in AllocationsOf(d, i) |-> d["allocations"][k].amount]
        BY <2>1
    <2> QED
        BY <2>2 DEF Sum
<1>10. [k \in NotesOf(d, i) |-> e.notes[k].reduction] = [k \in NotesOf(d, i) |-> d.notes[k].reduction]
    BY <1>4 DEF NotesOf
<1> QED
    BY <1>2, <1>3, <1>5, <1>6, <1>7, <1>8, <1>9, <1>10 DEF Outstanding

\* A sound database that grows stays sound.
LEMMA GrowsSound ==
    ASSUME NEW d, NEW e, Sound(d), Grows(d, e)
    PROVE  Sound(e)
<1>1. \A t \in Tables : \A k \in Ids(e, t) : k \in Ids(d, t) \/ k \in New(d, e, t)
    BY DEF New
<1>2. \A t \in {"notes", "receivables", "allocations", "coverings", "draws", "journals"} :
          t \in Tables /\ \A k \in Ids(d, t) : k \in Ids(e, t) /\ e[t][k] = d[t][k]
    BY DEF Grows, Tables
<1>3. \A i \in Ids(e, "invoices") : InvoiceOK(e.invoices[i])
    BY DEF Sound, RowsOK, Grows, InvoiceOK, New
<1>4. Ids(d, "invoices") \subseteq Ids(e, "invoices")
    BY DEF Grows, Tables
<1>5. \A n \in Ids(e, "notes") : e.notes[n].invoice \in Ids(e, "invoices") /\ e.notes[n].reduction \in Int
    BY <1>2, <1>4 DEF Sound, RowsOK, Grows, New
<1>6. \A r \in Ids(e, "receivables") :
          LET row == e.receivables[r]
          IN  row.amount \in Int /\ (row.kind = "INVOICE" => row.source \in Ids(e, "invoices"))
    BY <1>2, <1>4 DEF Sound, RowsOK, Grows, New
<1>7. \A t \in {"allocations", "coverings", "draws"} : \A k \in Ids(e, t) : e[t][k].amount \in Int
    BY <1>2 DEF Sound, RowsOK, Grows, New
<1>8. \A j \in Ids(e, "journals") :
          LET row == e.journals[j]
          IN  /\ row.kind = "invoice_ar" => row.source \in Ids(e, "invoices")
              /\ row.kind = "credit_note" => row.source \in Ids(e, "notes")
    BY <1>2, <1>4 DEF Sound, RowsOK, Grows, New
<1>9. Shaped(e) /\ RowsOK(e)
    BY <1>3, <1>5, <1>6, <1>7, <1>8 DEF RowsOK, InvoiceOK, Grows
<1>10. ASSUME NEW i \in Ids(e, "invoices"), e.invoices[i].order.customer # None
       PROVE  Opened(e, i)
    <2>1. CASE i \in New(d, e, "invoices")
        BY <1>10, <2>1 DEF Grows
    <2>2. CASE i \in Ids(d, "invoices")
        <3>1. e.invoices[i].order = d.invoices[i].order /\ e.invoices[i].totals = d.invoices[i].totals
            BY <2>2 DEF Grows
        <3>2. Opened(d, i)
            BY <1>10, <2>2, <3>1 DEF Sound
        <3>3. PICK r \in Ids(d, "receivables") : /\ ReceivableOf(d, i) = {r}
                                                 /\ d.receivables[r].amount = d.invoices[i].totals.total
            BY <3>2 DEF Opened
        <3>4. ReceivableOf(e, i) = {r} /\ e.receivables[r] = d.receivables[r] /\ r \in Ids(e, "receivables")
            BY <1>2, <2>2, <3>3, ReceivableStays
        <3>5. PICK b, lines : /\ b = d.invoices[i].order.branch
                              /\ lines = Dr("AR", d.invoices[i].totals.total)
                                         \cup Revenue(d.invoices[i].totals.total, d.invoices[i].totals.tax)
            OBVIOUS
        <3>6. BookedOnce(d, "invoice_ar", i, b, lines)
            BY <3>2, <3>5 DEF Opened
        <3>7. BookedOnce(e, "invoice_ar", i, b, lines)
            BY <2>2, <3>6, BookedStays
        <3> QED
            BY <3>1, <3>3, <3>4, <3>5, <3>7 DEF Opened
    <2> QED
        BY <2>1, <2>2 DEF New
<1>11. ASSUME NEW n \in Ids(e, "notes")
       PROVE  Credited(e, n)
    <2>1. CASE n \in New(d, e, "notes")
        BY <2>1 DEF Grows
    <2>2. CASE n \in Ids(d, "notes")
        <3>1. PICK note, i : note = d.notes[n] /\ i = note.invoice
            OBVIOUS
        <3>2. e.notes[n] = note /\ i \in Ids(d, "invoices")
            BY <1>2, <2>2, <3>1 DEF Sound, RowsOK
        <3>3. e.invoices[i].order = d.invoices[i].order /\ e.invoices[i].totals = d.invoices[i].totals
            BY <3>2 DEF Grows
        <3>4. Credited(d, n)
            BY <2>2 DEF Sound
        <3>5. ReceivableOf(e, i) = ReceivableOf(d, i)
            BY <3>2, ReceivableStays
        <3>6. \A r \in ReceivableOf(d, i) : Outstanding(e, r) = Outstanding(d, r)
            BY <2>2, <3>1, OutstandingStays
        <3>7. NotesOf(e, i) = {n}
            <4>1. NotesOf(d, i) = {n}
                BY <3>1, <3>4 DEF Credited
            <4>2. \A m \in New(d, e, "notes") : e.notes[m].invoice # i
                BY <4>1 DEF Grows
            <4> QED
                BY <1>2, <4>1, <4>2 DEF NotesOf, New
        <3>8. PICK lines : lines = Dr("REVENUE.SALES", note.total - note.tax) \cup Dr("TAX_PAYABLE", note.tax)
                                   \cup Cr("AR", note.reduction) \cup Cr("CUSTOMER_ADVANCES", note.excess)
            OBVIOUS
        <3>9. BookedOnce(d, "credit_note", n, note.branch, lines)
            BY <3>1, <3>4, <3>8 DEF Credited
        <3>10. BookedOnce(e, "credit_note", n, note.branch, lines)
            BY <2>2, <3>9, BookedStays
        <3>11. /\ d.invoices[i].order.customer # None
               /\ note.total = d.invoices[i].totals.total /\ note.tax = d.invoices[i].totals.tax
               /\ note.reduction + note.excess = d.invoices[i].totals.total
               /\ \A r \in ReceivableOf(d, i) : Outstanding(d, r) = 0
            BY <3>1, <3>4 DEF Credited
        <3> QED
            BY <3>1, <3>2, <3>3, <3>5, <3>6, <3>7, <3>8, <3>10, <3>11 DEF Credited
    <2> QED
        BY <2>1, <2>2 DEF New
<1> QED
    BY <1>9, <1>10, <1>11 DEF Sound

-----------------------------------------------------------------------------
(* Writes that do no harm.                                                 *)

Harmless(d, t, row) ==
    /\ t # "notes"
    /\ t = "invoices" => InvoiceOK(row) /\ row.order.customer = None
    /\ t = "receivables" => row.amount \in Int /\ row.kind # "INVOICE"
    /\ t \in {"allocations", "coverings", "draws"} => row.amount \in Int
    /\ t = "allocations" => NotesOf(d, row.invoice) = {}
    /\ t = "draws" => /\ row.receivable \in Ids(d, "receivables")
                      /\ NotesOf(d, InvoiceOf(d, row.receivable)) = {}
    /\ t = "journals" => row.kind \notin {"invoice_ar", "credit_note"}

\* Where the notes stay and the invoices that have one keep their status, these remain closed.
LEMMA ClosedStays ==
    ASSUME NEW d, NEW e, Sound(d), Closed(d), e.notes = d.notes,
           \A i \in Ids(d, "invoices") : NotesOf(d, i) # {} => e.invoices[i].status = d.invoices[i].status
    PROVE  Closed(e)
<1> SUFFICES ASSUME NEW n \in Ids(d, "notes") PROVE ~StandingIn(e, d.notes[n].invoice)
    BY DEF Closed, Ids
<1>1. d.notes[n].invoice \in Ids(d, "invoices") /\ n \in NotesOf(d, d.notes[n].invoice)
    BY DEF Sound, RowsOK, NotesOf
<1>2. ~StandingIn(d, d.notes[n].invoice)
    BY DEF Closed
<1> QED
    BY <1>1, <1>2 DEF StandingIn

Good(d) == Sound(d) /\ Closed(d)

\* A harmless row keeps the database sound.
LEMMA AddSound ==
    ASSUME NEW d, Sound(d), NEW t \in Tables, NEW row, Harmless(d, t, row), NEW e, e = Add(d, t, row)
    PROVE  Sound(e) /\ (Closed(d) => Closed(e))
<1>1. /\ Shaped(e) /\ NextId(d, t) \in Nat /\ NextId(d, t) \notin Ids(d, t)
      /\ \A u \in Tables \ {t} : e[u] = d[u]
      /\ Ids(e, t) = Ids(d, t) \cup {NextId(d, t)}
      /\ \A k \in Ids(d, t) : e[t][k] = d[t][k]
      /\ e[t][NextId(d, t)] = row
    BY AddFacts DEF Sound
<1>2. \A u \in Tables : /\ Ids(d, u) \subseteq Ids(e, u)
                        /\ \A k \in Ids(d, u) : e[u][k] = d[u][k]
                        /\ \A k \in New(d, e, u) : u = t /\ e[u][k] = row
    BY <1>1 DEF Ids, New
<1>3. \A u \in {"notes", "receivables", "allocations", "coverings", "draws", "journals", "invoices"} :
          u \in Tables
    BY DEF Tables
<1>4. Grows(d, e)
    <2>1. New(d, e, "notes") = {}
        BY <1>2, <1>3 DEF Harmless
    <2>2. \A i \in New(d, e, "invoices") : InvoiceOK(e.invoices[i]) /\ e.invoices[i].order.customer = None
        BY <1>2, <1>3 DEF Harmless
    <2>3. \A r \in New(d, e, "receivables") : e.receivables[r].amount \in Int /\ e.receivables[r].kind # "INVOICE"
        BY <1>2, <1>3 DEF Harmless
    <2>4. \A j \in New(d, e, "journals") : e.journals[j].kind \notin {"invoice_ar", "credit_note"}
        BY <1>2, <1>3 DEF Harmless
    <2>5. \A u \in {"allocations", "coverings", "draws"} : \A k \in New(d, e, u) : e[u][k].amount \in Int
        BY <1>2, <1>3 DEF Harmless
    <2>6. \A k \in New(d, e, "allocations") : NotesOf(d, e.allocations[k].invoice) = {}
        BY <1>2, <1>3 DEF Harmless
    <2>7. \A k \in New(d, e, "draws") : /\ e.draws[k].receivable \in Ids(d, "receivables")
                                        /\ NotesOf(d, InvoiceOf(d, e.draws[k].receivable)) = {}
        BY <1>2, <1>3 DEF Harmless
    <2> QED
        BY <1>1, <1>2, <1>3, <2>1, <2>2, <2>3, <2>4, <2>5, <2>6, <2>7 DEF Grows
<1>5. Sound(e)
    BY <1>4, GrowsSound
<1>6. e.notes = d.notes
    BY <1>1, <1>3 DEF Harmless
<1>7. \A i \in Ids(d, "invoices") : e.invoices[i] = d.invoices[i]
    BY <1>2, <1>3
<1> QED
    BY <1>5, <1>6, <1>7, ClosedStays

\* So it keeps it sound, with its cancelled invoices closed.
LEMMA AddKeeps ==
    ASSUME NEW d, Good(d), NEW t \in Tables, NEW row, Harmless(d, t, row), NEW e, e = Add(d, t, row)
    PROVE  Good(e)
    BY AddSound DEF Good

\* The status of an invoice changes nothing else.
LEMMA StatusFacts ==
    ASSUME NEW d, Sound(d), NEW i \in Ids(d, "invoices"), NEW s,
           NEW e, e = [d EXCEPT !.invoices[i].status = s]
    PROVE  /\ Sound(e) /\ e.invoices[i].status = s
           /\ \A u \in Tables \ {"invoices"} : e[u] = d[u]
           /\ Ids(e, "invoices") = Ids(d, "invoices")
           /\ \A j \in Ids(d, "invoices") \ {i} : e.invoices[j] = d.invoices[j]
           /\ \A j \in Ids(d, "invoices") : /\ e.invoices[j].order = d.invoices[j].order
                                            /\ e.invoices[j].totals = d.invoices[j].totals
<1>1. PICK v : v = [d.invoices[i] EXCEPT !.status = s]
    OBVIOUS
<1>2. /\ DOMAIN v = DOMAIN d.invoices[i] /\ v.order = d.invoices[i].order
      /\ v.totals = d.invoices[i].totals /\ v.status = s
    BY <1>1 DEF Sound, RowsOK
<1>3. /\ DOMAIN e = Tables /\ e.invoices = [d.invoices EXCEPT ![i] = v]
      /\ \A u \in Tables \ {"invoices"} : e[u] = d[u]
    BY <1>1 DEF Sound, Shaped, Tables
<1>4. /\ DOMAIN e.invoices = DOMAIN d.invoices /\ e.invoices[i] = v
      /\ \A j \in Ids(d, "invoices") \ {i} : e.invoices[j] = d.invoices[j]
    BY <1>3 DEF Ids
<1>5. e.invoices \in Seq(Range(e.invoices))
    <2>1. PICK w : w = d.invoices
        OBVIOUS
    <2>2. w \in Seq(Range(w))
        BY <2>1 DEF Sound, Shaped, Tables
    <2>3. w \in Seq(Range(w) \cup {v}) /\ i \in DOMAIN w
        BY <2>1, <2>2 DEF Ids
    <2>4. [w EXCEPT ![i] = v] \in Seq(Range(w) \cup {v})
        BY <2>3
    <2> QED
        BY <1>3, <2>1, <2>4, SeqOfItsOwn
<1>6. Shaped(e)
    BY <1>3, <1>5 DEF Sound, Shaped
<1>7. \A u \in Tables : Ids(e, u) = Ids(d, u) /\ New(d, e, u) = {}
    BY <1>3, <1>4 DEF Ids, New
<1>8. \A j \in Ids(d, "invoices") : /\ DOMAIN e.invoices[j] = DOMAIN d.invoices[j]
                                    /\ e.invoices[j].order = d.invoices[j].order
                                    /\ e.invoices[j].totals = d.invoices[j].totals
    BY <1>2, <1>4
<1>9. \A u \in {"notes", "receivables", "allocations", "coverings", "draws", "journals"} :
          u \in Tables /\ e[u] = d[u]
    BY <1>3 DEF Tables
<1>10. Grows(d, e)
    <2>1. /\ New(d, e, "notes") = {} /\ New(d, e, "invoices") = {} /\ New(d, e, "receivables") = {}
          /\ New(d, e, "journals") = {} /\ New(d, e, "allocations") = {} /\ New(d, e, "draws") = {}
          /\ New(d, e, "coverings") = {}
        BY <1>7 DEF Tables
    <2> QED
        BY <1>6, <1>7, <1>8, <1>9, <2>1 DEF Grows
<1> QED
    BY <1>2, <1>3, <1>4, <1>7, <1>8, <1>10, GrowsSound DEF Tables

\* What no payment changes.
Kept(d, e) ==
    /\ e.notes = d.notes /\ e.receivables = d.receivables
    /\ Ids(e, "invoices") = Ids(d, "invoices")
    /\ \A i \in Ids(d, "invoices") : e.invoices[i].order = d.invoices[i].order

\* Two such changes are one.
LEMMA KeptTwice ==
    ASSUME NEW d, NEW e, NEW f, Kept(d, e), Kept(e, f)
    PROVE  Kept(d, f)
    BY DEF Kept

\* Invoices keep their notes and their receivables.
LEMMA KeptFacts ==
    ASSUME NEW d, NEW e, Kept(d, e)
    PROVE  /\ \A i : NotesOf(e, i) = NotesOf(d, i) /\ ReceivableOf(e, i) = ReceivableOf(d, i)
           /\ \A r : InvoiceOf(e, r) = InvoiceOf(d, r)
    BY DEF Kept, NotesOf, ReceivableOf, InvoiceOf, Ids

\* A row elsewhere is such a change.
LEMMA AddKept ==
    ASSUME NEW d, Good(d), NEW t \in Tables \ {"invoices", "notes", "receivables"}, NEW row,
           Harmless(d, t, row), NEW e, e = Add(d, t, row)
    PROVE  Good(e) /\ Kept(d, e)
<1>1. Good(e)
    BY AddKeeps
<1>2. \A u \in Tables \ {t} : e[u] = d[u]
    BY AddFacts DEF Good, Sound
<1>3. e.invoices = d.invoices /\ e.notes = d.notes /\ e.receivables = d.receivables
    BY <1>2 DEF Tables
<1> QED
    BY <1>1, <1>3 DEF Kept, Ids

\* So is a journal of another kind.
LEMMA PostKept ==
    ASSUME NEW d, Good(d), NEW kind, kind \notin {"invoice_ar", "credit_note"}, NEW source, NEW branch,
           NEW on, NEW lines, NEW e, e = Post(d, kind, source, branch, on, lines)
    PROVE  Good(e) /\ Kept(d, e)
<1>1. PICK row : row = [kind |-> kind, source |-> source, day |-> on,
                        lines |-> Sealed(Len(d.journals) + 1, branch, lines)]
    OBVIOUS
<1>2. e = Add(d, "journals", row) /\ row.kind = kind
    BY <1>1 DEF Post, Sealed
<1>3. Harmless(d, "journals", row) /\ "journals" \in Tables \ {"invoices", "notes", "receivables"}
    BY <1>2 DEF Harmless, Tables
<1> QED
    BY <1>2, <1>3, AddKept

\* Invoices that are settled were paid, so they have no note.
LEMMA PromoteKept ==
    ASSUME NEW d, Good(d), NEW invoices, NEW e, e = Promote(d, invoices)
    PROVE  Good(e) /\ Kept(d, e)
<1>1. PICK P : P = {i \in Ids(d, "invoices") :
                       /\ i \in invoices /\ d.invoices[i].status = "PAID"
                       /\ \A s \in CoverageSources(d, i) : SettlementFinal(d, s.payment)}
    OBVIOUS
<1>2. PICK w : w = [i \in Ids(d, "invoices") |-> IF i \in P THEN [d.invoices[i] EXCEPT !.status = "SETTLED"]
                                                 ELSE d.invoices[i]]
    OBVIOUS
<1>3. e = [d EXCEPT !.invoices = w]
    BY <1>1, <1>2 DEF Promote, Ids
<1>4. DOMAIN e = Tables /\ e.invoices = w /\ \A u \in Tables \ {"invoices"} : e[u] = d[u]
    BY <1>3 DEF Good, Sound, Shaped, Tables
<1>5. DOMAIN w = Ids(d, "invoices") /\ \A i \in Ids(d, "invoices") \ P : w[i] = d.invoices[i]
    BY <1>2
<1>6. ASSUME NEW i \in Ids(d, "invoices")
      PROVE  /\ DOMAIN w[i] = DOMAIN d.invoices[i] /\ w[i].order = d.invoices[i].order
             /\ w[i].totals = d.invoices[i].totals
    <2>1. PICK row : row = d.invoices[i]
        OBVIOUS
    <2>2. DOMAIN row = {"order", "totals", "fingerprint", "status"}
        BY <2>1 DEF Good, Sound, RowsOK
    <2>3. w[i] = row \/ w[i] = [row EXCEPT !.status = "SETTLED"]
        BY <1>2, <2>1
    <2> QED
        BY <2>1, <2>2, <2>3
<1>7. w \in Seq(Range(w))
    <2>1. PICK n : n = Len(d.invoices)
        OBVIOUS
    <2>2. n \in Nat /\ DOMAIN w = 1..n
        BY <1>5, <2>1, IdsNat DEF Good, Sound, Tables
    <2>3. w \in [1..n -> Range(w)]
        <3>1. w = [i \in 1..n |-> w[i]]
            BY <1>2, <1>5, <2>2
        <3> QED
            BY <2>2, <3>1 DEF Range
    <2> QED
        BY <2>2, <2>3
<1>8. Shaped(e)
    BY <1>4, <1>7 DEF Good, Sound, Shaped
<1>9. \A u \in Tables : Ids(e, u) = Ids(d, u) /\ New(d, e, u) = {}
    BY <1>4, <1>5 DEF Ids, New
<1>10. \A u \in {"notes", "receivables", "allocations", "coverings", "draws", "journals"} :
           u \in Tables /\ e[u] = d[u]
    BY <1>4 DEF Tables
<1>11. Grows(d, e)
    <2>1. /\ New(d, e, "notes") = {} /\ New(d, e, "invoices") = {} /\ New(d, e, "receivables") = {}
          /\ New(d, e, "journals") = {} /\ New(d, e, "allocations") = {} /\ New(d, e, "draws") = {}
          /\ New(d, e, "coverings") = {}
        BY <1>9 DEF Tables
    <2> QED
        BY <1>4, <1>6, <1>8, <1>9, <1>10, <2>1 DEF Grows
<1>12. Sound(e)
    BY <1>11, GrowsSound DEF Good
<1>13. ASSUME NEW i \in Ids(d, "invoices"), NotesOf(d, i) # {} PROVE e.invoices[i].status = d.invoices[i].status
    <2>1. ~StandingIn(d, i)
        BY <1>13 DEF Good, Closed, NotesOf
    <2>2. i \notin P
        BY <1>1, <2>1 DEF StandingIn
    <2> QED
        BY <1>4, <1>5, <2>2
<1>14. Closed(e)
    BY <1>10, <1>13, ClosedStays DEF Good
<1>15. Kept(d, e)
    BY <1>4, <1>6, <1>9, <1>10 DEF Kept, Tables
<1> QED
    BY <1>12, <1>14, <1>15 DEF Good

\* And the status of an invoice that has no note.
LEMMA RecomputeKept ==
    ASSUME NEW d, Good(d), NEW i \in Ids(d, "invoices"), NotesOf(d, i) = {}, NEW e, e = Recompute(d, i)
    PROVE  Good(e) /\ Kept(d, e)
<1>1. PICK s, x : x = [d EXCEPT !.invoices[i].status = s] /\ e = Promote(x, {i})
    BY DEF Recompute
<1>2. /\ Sound(x)
      /\ \A u \in Tables \ {"invoices"} : x[u] = d[u]
      /\ Ids(x, "invoices") = Ids(d, "invoices")
      /\ \A j \in Ids(d, "invoices") \ {i} : x.invoices[j] = d.invoices[j]
      /\ \A j \in Ids(d, "invoices") : x.invoices[j].order = d.invoices[j].order
    BY <1>1, StatusFacts DEF Good
<1>3. x.notes = d.notes /\ x.receivables = d.receivables
    BY <1>2 DEF Tables
<1>4. Closed(x)
    <2>1. \A j \in Ids(d, "invoices") : NotesOf(d, j) # {} => x.invoices[j].status = d.invoices[j].status
        BY <1>2
    <2> QED
        BY <1>3, <2>1, ClosedStays DEF Good
<1>5. Good(x) /\ Kept(d, x)
    BY <1>2, <1>3, <1>4 DEF Good, Kept
<1>6. Good(e) /\ Kept(x, e)
    BY <1>1, <1>5, PromoteKept
<1> QED
    BY <1>5, <1>6, KeptTwice

\* The record of a payment.
LEMMA PayKept ==
    ASSUME NEW d, Good(d), NEW purpose, NEW target, NEW branch, NEW method, NEW amount,
           NEW e, e = Pay(d, purpose, target, branch, method, amount)
    PROVE  Good(e) /\ Kept(d, e)
<1>1. PICK row : e = Add(d, "payments", row)
    BY DEF Pay
<1>2. Harmless(d, "payments", row) /\ "payments" \in Tables \ {"invoices", "notes", "receivables"}
    BY DEF Harmless, Tables
<1> QED
    BY <1>1, <1>2, AddKept

\* The posting of a receipt.
LEMMA ReceiptKept ==
    ASSUME NEW d, Good(d), NEW on, NEW e, e = PostReceipt(d, on)
    PROVE  Good(e) /\ Kept(d, e)
<1>1. PICK source, branch, lines : e = Post(d, "customer_receipt_payment", source, branch, on, lines)
    BY DEF PostReceipt
<1> QED
    BY <1>1, PostKept

\* It is allocated to an invoice that has no note.
LEMMA CoverInvoiceKept ==
    ASSUME NEW d, Good(d), NEW p, NEW i \in Ids(d, "invoices"), NotesOf(d, i) = {}, NEW amount \in Int,
           NEW e, e = CoverInvoice(d, p, i, amount)
    PROVE  Good(e) /\ Kept(d, e)
<1>1. PICK x, row : /\ x = Add(d, "allocations", row) /\ row.invoice = i /\ row.amount = amount
                    /\ e = Recompute(x, i)
    BY DEF CoverInvoice
<1>2. Harmless(d, "allocations", row) /\ "allocations" \in Tables \ {"invoices", "notes", "receivables"}
    BY <1>1 DEF Harmless, Tables
<1>3. Good(x) /\ Kept(d, x)
    BY <1>1, <1>2, AddKept
<1>4. i \in Ids(x, "invoices") /\ NotesOf(x, i) = {}
    BY <1>3, KeptFacts DEF Kept
<1>5. Good(e) /\ Kept(x, e)
    BY <1>1, <1>3, <1>4, RecomputeKept
<1> QED
    BY <1>3, <1>5, KeptTwice

\* It pays a receivable whose invoice has no note.
LEMMA CoverKept ==
    ASSUME NEW d, Good(d), NEW p, NEW r \in Ids(d, "receivables"), NotesOf(d, InvoiceOf(d, r)) = {},
           NEW amount \in Int, NEW on, NEW e, e = CoverByPayment(d, p, r, amount, on)
    PROVE  Good(e) /\ Kept(d, e)
<1>1. PICK i : i = InvoiceOf(d, r)
    OBVIOUS
<1>2. CASE i # None
    <2>1. i \in Ids(d, "invoices")
        BY <1>1, <1>2 DEF Good, Sound, RowsOK, InvoiceOf
    <2>2. PICK x, source, branch, lines :
              /\ x = CoverInvoice(d, p, i, amount)
              /\ e = Post(x, "payment_allocation", source, branch, on, lines)
        BY <1>1, <1>2 DEF CoverByPayment
    <2>3. Good(x) /\ Kept(d, x)
        BY <1>1, <2>1, <2>2, CoverInvoiceKept
    <2>4. Good(e) /\ Kept(x, e)
        BY <2>2, <2>3, PostKept
    <2> QED
        BY <2>3, <2>4, KeptTwice
<1>3. CASE i = None
    <2>1. PICK x, row, kind, source, branch, lines :
              /\ x = Add(d, "coverings", row) /\ row.amount = amount
              /\ e = Post(x, kind, source, branch, on, lines)
              /\ kind \in {"opening_receivable_payment_application",
                           "cancellation_charge_payment_application"}
        BY <1>1, <1>3 DEF CoverByPayment
    <2>2. Harmless(d, "coverings", row) /\ "coverings" \in Tables \ {"invoices", "notes", "receivables"}
        BY <2>1 DEF Harmless, Tables
    <2>3. Good(x) /\ Kept(d, x)
        BY <2>1, <2>2, AddKept
    <2>4. kind \notin {"invoice_ar", "credit_note"}
        BY <2>1
    <2>5. Good(e) /\ Kept(x, e)
        BY <2>1, <2>3, <2>4, PostKept
    <2> QED
        BY <2>3, <2>5, KeptTwice
<1> QED
    BY <1>2, <1>3

-----------------------------------------------------------------------------
(* Writes one after the other.                                             *)

\* A finite set of numbers has a largest one.
LEMMA MaxIn ==
    ASSUME NEW S, IsFiniteSet(S), S \subseteq Nat, S # {}
    PROVE  Max(S) \in S
<1> DEFINE P == {T \in SUBSET S : T # {} => \E x \in T : \A y \in T : x >= y}
<1>1. ASSUME NEW T \in SUBSET S, \A U \in SUBSET T : U # T => U \in P
      PROVE  T \in P
    <2>1. SUFFICES ASSUME T # {} PROVE \E x \in T : \A y \in T : x >= y
        OBVIOUS
    <2>2. PICK z \in T : z \in Nat
        BY <2>1
    <2>3. CASE T = {z}
        BY <2>2, <2>3
    <2>4. CASE T # {z}
        <3>1. T \ {z} \in P /\ T \ {z} # {}
            BY <1>1, <2>2, <2>4
        <3>2. PICK x \in T \ {z} : \A y \in T \ {z} : x >= y
            BY <3>1
        <3>3. x \in Nat
            BY <3>2
        <3>4. CASE x >= z
            BY <3>2, <3>4
        <3>5. CASE z >= x
            <4>1. \A y \in T : y \in Nat /\ (y = z \/ x >= y)
                BY <3>2
            <4> QED
                BY <2>2, <3>3, <3>5, <4>1
        <3> QED
            BY <2>2, <3>3, <3>4, <3>5
    <2> QED
        BY <2>3, <2>4
<1> HIDE DEF P
<1>2. S \in P
    BY <1>1, SubsetInduct
<1>3. \E x \in S : \A y \in S : x >= y
    BY <1>2 DEF P
<1> QED
    BY <1>3 DEF Max

\* The smallest first: every position has its member.
LEMMA AscendingIn ==
    ASSUME NEW S, IsFiniteSet(S), S \subseteq Nat
    PROVE  /\ DOMAIN Ascending(S) = 1..Cardinality(S) /\ Cardinality(S) \in Nat
           /\ \A k \in DOMAIN Ascending(S) : Ascending(S)[k] \in S
<1> DEFINE R == {p \in S \X S : p[1] < p[2]}
           n == Cardinality(S)
           First(k) == {x \in S : RankOf(R, S, x) < k}
<1>1. n \in Nat /\ DOMAIN Ascending(S) = 1..n
    BY FS_CardinalityType DEF Ascending
<1>2. \A x, y \in S : <<x, y>> \in R <=> x < y
    OBVIOUS
<1>3. Orders(R, S)
    <2> HIDE DEF R
    <2> QED
        BY <1>2 DEF Orders
<1>4. \A x \in S : AheadOf(R, S, x) = {y \in S : y < x}
    <2> HIDE DEF R
    <2> QED
        BY <1>2 DEF AheadOf
<1> HIDE DEF R
<1>5. ASSUME NEW k \in 1..n PROVE \E x \in S : Cardinality({y \in S : y < x}) = k - 1
    <2>1. k \in 0..n /\ k - 1 \in 0..n /\ k # k - 1
        BY <1>1
    <2>2. Cardinality(First(k)) = k /\ Cardinality(First(k - 1)) = k - 1
        BY <1>3, <2>1, FirstRanks
    <2>3. PICK x \in S : (x \in First(k)) # (x \in First(k - 1))
        BY <2>1, <2>2
    <2>4. RankOf(R, S, x) \in Nat
        BY <1>1, <1>3, RankRises
    <2>5. RankOf(R, S, x) = k - 1
        BY <1>1, <2>3, <2>4
    <2> QED
        BY <1>4, <2>5 DEF RankOf
<1>6. ASSUME NEW k \in 1..n PROVE Ascending(S)[k] \in S
    <2>1. Ascending(S)[k] = CHOOSE x \in S : Cardinality({y \in S : y < x}) = k - 1
        BY DEF Ascending
    <2> QED
        BY <1>5, <2>1
<1> QED
    BY <1>1, <1>6

\* The writes that operations repeat: a tender of an anonymous sale, a payment of a
\* customer's invoice, the share of a receivable, an advance that a note releases.
Write(kind, a, x, e) ==
    CASE kind = "tender"  -> LET paid == Pay(x, "INVOICE_COLLECTION", a.invoice, a.branch, e.method, e.amount)
                             IN  CoverInvoice(paid, LastPayment(paid), a.invoice, e.amount)
      [] kind = "collect" -> Collect(x, a.invoice, e.method, e.amount, a.on)
      [] kind = "share"   -> IF a.share[e] = 0 THEN x
                             ELSE CoverByPayment(x, a.payment, e, a.share[e], a.on)
      [] kind = "release" -> Add(x, "advances", AdvanceRow("CREDIT_NOTE", a.note, e.payment, a.customer,
                                                           a.branch, e.amount))

\* h does them on the positions of every subset of S, from the first to the last.
Writes(h, kind, a, base, seq, S) ==
    h = [s \in SUBSET S |-> IF s = {} THEN base ELSE Write(kind, a, h[s \ {Max(s)}], seq[Max(s)])]
WritesUpTo(h, kind, a, base, seq, S, n) ==
    \A s \in SUBSET S : Cardinality(s) <= n =>
        h[s] = IF s = {} THEN base ELSE Write(kind, a, h[s \ {Max(s)}], seq[Max(s)])

\* Such a function exists, by induction on the size of the subsets.
LEMMA WritesExist ==
    ASSUME NEW S, IsFiniteSet(S), S \subseteq Nat, NEW kind, NEW a, NEW base, NEW seq
    PROVE  \E h : Writes(h, kind, a, base, seq, S)
<1> DEFINE P == {n \in Nat : \E g : WritesUpTo(g, kind, a, base, seq, S, n)}
<1>0. ASSUME NEW s \in SUBSET S
      PROVE  /\ IsFiniteSet(s) /\ Cardinality(s) \in Nat /\ (Cardinality(s) = 0 <=> s = {})
             /\ s # {} => Max(s) \in s
    BY FS_Subset, FS_CardinalityType, FS_EmptySet, MaxIn
<1>1. 0 \in P
    <2> DEFINE g == [s \in SUBSET S |-> base]
    <2>1. WritesUpTo(g, kind, a, base, seq, S, 0)
        BY <1>0 DEF WritesUpTo
    <2> QED
        BY <2>1
<1>2. ASSUME NEW n \in P PROVE n + 1 \in P
    <2>1. PICK g : WritesUpTo(g, kind, a, base, seq, S, n)
        BY <1>2
    <2> DEFINE h == [s \in SUBSET S |-> IF s = {} THEN base ELSE Write(kind, a, g[s \ {Max(s)}], seq[Max(s)])]
    <2>2. ASSUME NEW s \in SUBSET S, Cardinality(s) <= n + 1, s # {}
          PROVE  h[s \ {Max(s)}] = g[s \ {Max(s)}]
        <3> DEFINE u == s \ {Max(s)}
        <3>1. Cardinality(u) = Cardinality(s) - 1
            BY <1>0, <2>2, FS_RemoveElement
        <3>2. Cardinality(s) \in Nat /\ n \in Nat
            BY <1>0
        <3>3. u \in SUBSET S /\ Cardinality(u) <= n
            <4> HIDE DEF u
            <4>1. Cardinality(u) <= n
                BY <2>2, <3>1, <3>2
            <4> QED
                BY <4>1 DEF u
        <3> QED
            BY <2>1, <3>3 DEF WritesUpTo
    <2>3. WritesUpTo(h, kind, a, base, seq, S, n + 1)
        BY <2>2 DEF WritesUpTo
    <2> QED
        BY <2>3
<1>3. Cardinality(S) \in P
    BY <1>1, <1>2, Induct, FS_CardinalityType
<1>4. PICK g : WritesUpTo(g, kind, a, base, seq, S, Cardinality(S))
    BY <1>3
<1>5. \A s \in SUBSET S : Cardinality(s) <= Cardinality(S)
    BY FS_Subset
<1> DEFINE h == [s \in SUBSET S |-> g[s]]
<1>6. Writes(h, kind, a, base, seq, S)
    BY <1>4, <1>5 DEF WritesUpTo, Writes
<1> QED
    BY <1>6

\* What every write keeps, all of them keep.
LEMMA WritesKeep ==
    ASSUME NEW S, IsFiniteSet(S), S \subseteq Nat, NEW kind, NEW a, NEW base, NEW seq, Good(base),
           \A x, k : Good(x) /\ Kept(base, x) /\ k \in S =>
                        Good(Write(kind, a, x, seq[k])) /\ Kept(x, Write(kind, a, x, seq[k])),
           NEW h, Writes(h, kind, a, base, seq, S)
    PROVE  Good(h[S]) /\ Kept(base, h[S])
<1> DEFINE P == {T \in SUBSET S : Good(h[T]) /\ Kept(base, h[T])}
<1>1. ASSUME NEW T \in SUBSET S, \A U \in SUBSET T : U # T => U \in P
      PROVE  T \in P
    <2>1. h[T] = IF T = {} THEN base ELSE Write(kind, a, h[T \ {Max(T)}], seq[Max(T)])
        BY DEF Writes
    <2>2. CASE T = {}
        BY <2>1, <2>2 DEF Kept
    <2>3. CASE T # {}
        <3>1. Max(T) \in T /\ Max(T) \in S
            BY <2>3, MaxIn, FS_Subset
        <3>2. PICK x : x = h[T \ {Max(T)}]
            OBVIOUS
        <3>3. Good(x) /\ Kept(base, x)
            BY <1>1, <3>1, <3>2
        <3>4. Good(h[T]) /\ Kept(x, h[T])
            BY <2>1, <2>3, <3>1, <3>2, <3>3
        <3> QED
            BY <3>3, <3>4, KeptTwice
    <2> QED
        BY <2>2, <2>3
<1> HIDE DEF P
<1>2. S \in P
    BY <1>1, SubsetInduct
<1> QED
    BY <1>2 DEF P

\* The domain of a sequence.
Positions(seq) == IsFiniteSet(DOMAIN seq) /\ DOMAIN seq \subseteq Nat

\* An anonymous sale is such a row of writes, and a journal.
LEMMA SellAnonymouslyIs ==
    ASSUME NEW d, NEW invoice, NEW tenders, Positions(tenders), NEW on, NEW S, S = DOMAIN tenders,
           NEW base, base = Issue(d, invoice)
    PROVE  \E h, lines :
              /\ Writes(h, "tender", [invoice |-> Len(d.invoices) + 1, branch |-> invoice.order.branch],
                        base, tenders, S)
              /\ SellAnonymously(d, invoice, tenders, on)
                    = Post(h[S], "walk_in_sale", Len(d.invoices) + 1, invoice.order.branch, on, lines)
<1> DEFINE i == Len(d.invoices) + 1
           b == invoice.order.branch
           a == [invoice |-> i, branch |-> b]
           W(x, t) == LET paid == Pay(x, "INVOICE_COLLECTION", i, b, t.method, t.amount)
                      IN  CoverInvoice(paid, LastPayment(paid), i, t.amount)
           c == CHOOSE h : h = [s \in SUBSET S |-> IF s = {} THEN base
                                                   ELSE W(h[s \ {Max(s)}], tenders[Max(s)])]
<1>1. \E lines : SellAnonymously(d, invoice, tenders, on) = Post(c[S], "walk_in_sale", i, b, on, lines)
    BY DEF SellAnonymously, FoldLeft, MapThenFoldSet
<1>2. \A x, t : Write("tender", a, x, t) = W(x, t)
    BY DEF Write
<1>3. PICK h : Writes(h, "tender", a, base, tenders, S)
    BY WritesExist DEF Positions
<1>4. h = [s \in SUBSET S |-> IF s = {} THEN base ELSE W(h[s \ {Max(s)}], tenders[Max(s)])]
    <2> HIDE DEF W, a
    <2> QED
        BY <1>2, <1>3 DEF Writes
<1>5. c = [s \in SUBSET S |-> IF s = {} THEN base ELSE W(c[s \ {Max(s)}], tenders[Max(s)])]
    BY <1>4
<1>6. Writes(c, "tender", a, base, tenders, S)
    <2> HIDE DEF W, a, c
    <2> QED
        BY <1>2, <1>5 DEF Writes
<1> QED
    BY <1>1, <1>6

\* So is a sale to a customer.
LEMMA SellToCustomerIs ==
    ASSUME NEW d, NEW invoice, NEW tenders, Positions(tenders), NEW on, NEW S, S = DOMAIN tenders,
           NEW base, base = OpenInvoiceAr(Issue(d, invoice), Len(d.invoices) + 1, on)
    PROVE  \E h : /\ Writes(h, "collect", [invoice |-> Len(d.invoices) + 1, on |-> on], base, tenders, S)
                  /\ SellToCustomer(d, invoice, tenders, on) = h[S]
<1> DEFINE i == Len(d.invoices) + 1
           a == [invoice |-> i, on |-> on]
           W(x, t) == Collect(x, i, t.method, t.amount, on)
           c == CHOOSE h : h = [s \in SUBSET S |-> IF s = {} THEN base
                                                   ELSE W(h[s \ {Max(s)}], tenders[Max(s)])]
<1>1. SellToCustomer(d, invoice, tenders, on) = c[S]
    BY DEF SellToCustomer, FoldLeft, MapThenFoldSet
<1>2. \A x, t : Write("collect", a, x, t) = W(x, t)
    BY DEF Write
<1>3. PICK h : Writes(h, "collect", a, base, tenders, S)
    BY WritesExist DEF Positions
<1>4. h = [s \in SUBSET S |-> IF s = {} THEN base ELSE W(h[s \ {Max(s)}], tenders[Max(s)])]
    <2> HIDE DEF W, a
    <2> QED
        BY <1>2, <1>3 DEF Writes
<1>5. c = [s \in SUBSET S |-> IF s = {} THEN base ELSE W(c[s \ {Max(s)}], tenders[Max(s)])]
    BY <1>4
<1>6. Writes(c, "collect", a, base, tenders, S)
    <2> HIDE DEF W, a, c
    <2> QED
        BY <1>2, <1>5 DEF Writes
<1> QED
    BY <1>1, <1>6

\* So is the money of a customer.
LEMMA ReceiveMoneyIs ==
    ASSUME NEW d, NEW k, NEW b, NEW method, NEW amount, NEW on,
           NEW base, base = PostReceipt(Pay(d, "CUSTOMER_RECEIPT", k, b, method, amount), on),
           NEW share, share = Fifo(d, Open(d, k, b), amount),
           NEW seq, seq = Ascending(DOMAIN share), Positions(seq), NEW S, S = DOMAIN seq
    PROVE  \E h : /\ Writes(h, "share", [share |-> share, payment |-> LastPayment(base), on |-> on],
                            base, seq, S)
                  /\ ReceiveMoney(d, k, b, method, amount, on) = h[S]
<1> DEFINE a == [share |-> share, payment |-> LastPayment(base), on |-> on]
           W(x, r) == IF share[r] = 0 THEN x
                      ELSE CoverByPayment(x, LastPayment(base), r, share[r], on)
           c == CHOOSE h : h = [s \in SUBSET S |-> IF s = {} THEN base
                                                   ELSE W(h[s \ {Max(s)}], seq[Max(s)])]
<1>1. ReceiveMoney(d, k, b, method, amount, on) = c[S]
    BY DEF ReceiveMoney, FoldLeft, MapThenFoldSet
<1>2. \A x, r : Write("share", a, x, r) = W(x, r)
    BY DEF Write
<1>3. PICK h : Writes(h, "share", a, base, seq, S)
    BY WritesExist DEF Positions
<1>4. h = [s \in SUBSET S |-> IF s = {} THEN base ELSE W(h[s \ {Max(s)}], seq[Max(s)])]
    <2> HIDE DEF W, a
    <2> QED
        BY ONLY <1>2, <1>3 DEF Writes
<1>5. c = [s \in SUBSET S |-> IF s = {} THEN base ELSE W(c[s \ {Max(s)}], seq[Max(s)])]
    BY <1>4
<1>6. Writes(c, "share", a, base, seq, S)
    <2> HIDE DEF W, a, c
    <2> QED
        BY ONLY <1>2, <1>5 DEF Writes
<1> QED
    BY <1>1, <1>6

\* The lines of a note's journal.
NoteLines(note) == Dr("REVENUE.SALES", note.total - note.tax) \cup Dr("TAX_PAYABLE", note.tax)
                   \cup Cr("AR", note.reduction) \cup Cr("CUSTOMER_ADVANCES", note.excess)

\* And a note releases its advances one by one, before its journal.
LEMMA IssueCreditNoteIs ==
    ASSUME NEW d, NEW note, NEW on, NEW base, base = Add(d, "notes", note),
           NEW seq, seq = SetToSeq(CoverageSources(d, note.invoice)), Positions(seq), NEW S, S = DOMAIN seq
    PROVE  \E h, a : /\ Writes(h, "release", a, base, seq, S)
                     /\ IssueCreditNote(d, note, on)
                           = Post(h[S], "credit_note", Len(d.notes) + 1, note.branch, on, NoteLines(note))
<1> DEFINE k == d.invoices[note.invoice].order.customer
           n == Len(d.notes) + 1
           a == [note |-> n, customer |-> k, branch |-> note.branch]
           W(x, s) == Add(x, "advances", AdvanceRow("CREDIT_NOTE", n, s.payment, k, note.branch, s.amount))
           c == CHOOSE h : h = [s \in SUBSET S |-> IF s = {} THEN base
                                                   ELSE W(h[s \ {Max(s)}], seq[Max(s)])]
<1>1. IssueCreditNote(d, note, on) = Post(c[S], "credit_note", n, note.branch, on, NoteLines(note))
    BY DEF IssueCreditNote, FoldLeft, MapThenFoldSet, NoteLines
<1>2. \A x, s : Write("release", a, x, s) = W(x, s)
    BY DEF Write
<1>3. PICK h : Writes(h, "release", a, base, seq, S)
    BY WritesExist DEF Positions
<1>4. h = [s \in SUBSET S |-> IF s = {} THEN base ELSE W(h[s \ {Max(s)}], seq[Max(s)])]
    <2> HIDE DEF W, a
    <2> QED
        BY ONLY <1>2, <1>3 DEF Writes
<1>5. c = [s \in SUBSET S |-> IF s = {} THEN base ELSE W(c[s \ {Max(s)}], seq[Max(s)])]
    BY <1>4
<1>6. Writes(c, "release", a, base, seq, S)
    <2> HIDE DEF W, a, c
    <2> QED
        BY ONLY <1>2, <1>5 DEF Writes
<1> QED
    BY <1>1, <1>6

\* It changes the advances and nothing else.
LEMMA ReleasesKeep ==
    ASSUME NEW S, IsFiniteSet(S), S \subseteq Nat, NEW a, NEW base, Shaped(base), NEW seq,
           NEW h, Writes(h, "release", a, base, seq, S)
    PROVE  Shaped(h[S]) /\ \A u \in Tables \ {"advances"} : h[S][u] = base[u]
<1> DEFINE P == {T \in SUBSET S : Shaped(h[T]) /\ \A u \in Tables \ {"advances"} : h[T][u] = base[u]}
<1>1. ASSUME NEW T \in SUBSET S, \A U \in SUBSET T : U # T => U \in P
      PROVE  T \in P
    <2>1. h[T] = IF T = {} THEN base ELSE Write("release", a, h[T \ {Max(T)}], seq[Max(T)])
        BY DEF Writes
    <2>2. CASE T = {}
        BY <2>1, <2>2
    <2>3. CASE T # {}
        <3>1. Max(T) \in T
            BY <2>3, MaxIn, FS_Subset
        <3>2. PICK x, row : x = h[T \ {Max(T)}] /\ h[T] = Add(x, "advances", row)
            BY <2>1, <2>3 DEF Write
        <3>3. Shaped(x) /\ \A u \in Tables \ {"advances"} : x[u] = base[u]
            BY <1>1, <3>1, <3>2
        <3>4. Shaped(h[T]) /\ \A u \in Tables \ {"advances"} : h[T][u] = x[u]
            <4>1. PICK e : e = h[T]
                OBVIOUS
            <4>2. "advances" \in Tables /\ e = Add(x, "advances", row)
                BY <3>2, <4>1 DEF Tables
            <4>3. Shaped(e) /\ \A u \in Tables \ {"advances"} : e[u] = x[u]
                BY <3>3, <4>2, AddFacts
            <4> QED
                BY <4>1, <4>3
        <3> QED
            BY <3>3, <3>4
    <2> QED
        BY <2>2, <2>3
<1> HIDE DEF P
<1>2. S \in P
    BY <1>1, SubsetInduct
<1> QED
    BY <1>2 DEF P

\* A finite set as a sequence.
LEMMA SetToSeqPositions ==
    ASSUME NEW S, IsFiniteSet(S)
    PROVE  Positions(SetToSeq(S))
<1>1. Cardinality(S) \in Nat /\ ExistsBijection(1..Cardinality(S), S)
    BY FS_CardinalityType
<1>2. \E f \in [1..Cardinality(S) -> S] : IsInjective(f)
    BY <1>1 DEF ExistsBijection, Bijection, Injection
<1>3. SetToSeq(S) \in [1..Cardinality(S) -> S]
    BY <1>2 DEF SetToSeq
<1>4. DOMAIN SetToSeq(S) = 1..Cardinality(S)
    BY <1>3
<1> QED
    BY <1>1, <1>4, FS_Interval DEF Positions

\* There are finitely many sources of what covers an invoice.
LEMMA SourcesPositions ==
    ASSUME NEW d, Shaped(d), NEW i
    PROVE  Positions(SetToSeq(CoverageSources(d, i)))
<1> DEFINE A == AllocationsOf(d, i)
           D == UNION {DrawsOn(d, r) : r \in ReceivableOf(d, i)}
           F(k) == [payment |-> d.allocations[k].payment, amount |-> d.allocations[k].amount, via |-> <<"A", k>>]
           G(k) == [payment |-> d.advances[d.draws[k].advance].payment, amount |-> d.draws[k].amount,
                    via |-> <<"D", k>>]
<1>1. IsFiniteSet(A) /\ IsFiniteSet(D)
    <2>1. A \in SUBSET Ids(d, "allocations") /\ D \in SUBSET Ids(d, "draws")
        BY DEF AllocationsOf, DrawsOn
    <2>2. IsFiniteSet(Ids(d, "allocations")) /\ IsFiniteSet(Ids(d, "draws"))
        BY IdsNat DEF Tables
    <2> HIDE DEF A, D
    <2> QED
        BY <2>1, <2>2, FS_Subset
<1>2. IsFiniteSet({F(k) : k \in A})
    <2> DEFINE f == [k \in A |-> F(k)]
    <2>1. f \in Surjection(A, {F(k) : k \in A})
        BY DEF Surjection
    <2> HIDE DEF A, F, f
    <2> QED
        BY <1>1, <2>1, FS_Surjection
<1>3. IsFiniteSet({G(k) : k \in D})
    <2> DEFINE g == [k \in D |-> G(k)]
    <2>1. g \in Surjection(D, {G(k) : k \in D})
        BY DEF Surjection
    <2> HIDE DEF D, G, g
    <2> QED
        BY <1>1, <2>1, FS_Surjection
<1>4. CoverageSources(d, i) = {F(k) : k \in A} \cup {G(k) : k \in D}
    BY DEF CoverageSources
<1>5. IsFiniteSet(CoverageSources(d, i))
    <2> HIDE DEF A, D, F, G
    <2> QED
        BY <1>2, <1>3, <1>4, FS_Union
<1> QED
    BY <1>5, SetToSeqPositions

-----------------------------------------------------------------------------
(* An invoice is opened.                                                   *)

\* A row of Post.
JournalRow(d, kind, source, branch, on, lines) ==
    [kind |-> kind, source |-> source, day |-> on, lines |-> Sealed(NextId(d, "journals"), branch, lines)]

\* Post adds such a row.
LEMMA PostIs ==
    ASSUME NEW d, NEW kind, NEW source, NEW branch, NEW on, NEW lines
    PROVE  Post(d, kind, source, branch, on, lines)
              = Add(d, "journals", JournalRow(d, kind, source, branch, on, lines))
    BY DEF Post, JournalRow, Sealed, NextId

\* It gets its receivable and its journal, and keeps the database sound.
LEMMA OpenKeeps ==
    ASSUME NEW d, Good(d), NEW invoice, InvoiceOK(invoice), NEW on, NEW i, i = NextId(d, "invoices"),
           NEW e, e = OpenInvoiceAr(Issue(d, invoice), i, on)
    PROVE  /\ Good(e) /\ i \in Ids(e, "invoices") /\ NotesOf(e, i) = {}
           /\ \E r \in Ids(e, "receivables") : ReceivableOf(e, i) = {r}
<1>1. PICK b, totals : b = invoice.order.branch /\ totals = invoice.totals
    OBVIOUS
<1>2. PICK x : x = Add(d, "invoices", invoice)
    OBVIOUS
<1>3. /\ Shaped(x) /\ i \in Nat /\ i \notin Ids(d, "invoices")
      /\ \A u \in Tables \ {"invoices"} : x[u] = d[u]
      /\ Ids(x, "invoices") = Ids(d, "invoices") \cup {i}
      /\ \A k \in Ids(d, "invoices") : x["invoices"][k] = d["invoices"][k]
      /\ x["invoices"][i] = invoice
    BY <1>2, AddFacts DEF Good, Sound, Tables
<1>4. PICK row : row = [kind |-> "INVOICE", source |-> i, branch |-> b,
                        customer |-> invoice.order.customer, amount |-> totals.total]
    OBVIOUS
<1>5. PICK y : y = Add(x, "receivables", row)
    OBVIOUS
<1>6. PICK r : r = NextId(x, "receivables")
    OBVIOUS
<1>7. /\ Shaped(y) /\ r \notin Ids(x, "receivables")
      /\ \A u \in Tables \ {"receivables"} : y[u] = x[u]
      /\ Ids(y, "receivables") = Ids(x, "receivables") \cup {r}
      /\ \A k \in Ids(x, "receivables") : y["receivables"][k] = x["receivables"][k]
      /\ y["receivables"][r] = row
    BY <1>3, <1>5, <1>6, AddFacts DEF Tables
<1>8. PICK lines, j, booked : /\ lines = Dr("AR", totals.total) \cup Revenue(totals.total, totals.tax)
                              /\ j = NextId(y, "journals")
                              /\ booked = JournalRow(y, "invoice_ar", i, b, on, lines)
    OBVIOUS
<1>9. e = Add(y, "journals", booked)
    <2>1. e = Post(y, "invoice_ar", i, b, on, lines)
        BY <1>1, <1>2, <1>3, <1>4, <1>5, <1>8 DEF OpenInvoiceAr, Issue
    <2> QED
        BY <1>8, <2>1, PostIs
<1>10. /\ Shaped(e) /\ j \notin Ids(y, "journals")
       /\ \A u \in Tables \ {"journals"} : e[u] = y[u]
       /\ Ids(e, "journals") = Ids(y, "journals") \cup {j}
       /\ \A k \in Ids(y, "journals") : e["journals"][k] = y["journals"][k]
       /\ e["journals"][j] = booked
    BY <1>7, <1>8, <1>9, AddFacts DEF Tables
<1>11. /\ \A u \in Tables \ {"invoices", "receivables", "journals"} : e[u] = d[u]
       /\ e["invoices"] = x["invoices"] /\ e["receivables"] = y["receivables"]
       /\ x["receivables"] = d["receivables"] /\ y["journals"] = d["journals"]
    BY <1>3, <1>7, <1>10 DEF Tables
<1>12. /\ Ids(e, "invoices") = Ids(d, "invoices") \cup {i}
       /\ \A k \in Ids(d, "invoices") : e["invoices"][k] = d["invoices"][k]
       /\ e["invoices"][i] = invoice
    BY <1>3, <1>11 DEF Ids
<1>13. /\ Ids(e, "receivables") = Ids(d, "receivables") \cup {r} /\ r \notin Ids(d, "receivables")
       /\ \A k \in Ids(d, "receivables") : e["receivables"][k] = d["receivables"][k]
       /\ e["receivables"][r] = row
    BY <1>7, <1>11 DEF Ids
<1>14. /\ Ids(e, "journals") = Ids(d, "journals") \cup {j} /\ j \notin Ids(d, "journals")
       /\ \A k \in Ids(d, "journals") : e["journals"][k] = d["journals"][k]
       /\ e["journals"][j] = booked
    BY <1>10, <1>11 DEF Ids
<1>15. /\ booked.kind = "invoice_ar" /\ booked.source = i /\ booked.lines = Sealed(j, b, lines)
       /\ row.kind = "INVOICE" /\ row.source = i /\ row.amount = totals.total
    BY <1>4, <1>8 DEF JournalRow
<1>16. totals.total \in Int
    BY <1>1, TotalsFacts DEF InvoiceOK
<1>17. \A u \in {"notes", "allocations", "coverings", "draws"} : e[u] = d[u] /\ Ids(e, u) = Ids(d, u)
    BY <1>11 DEF Tables, Ids
<1>18. i # None
    BY <1>3, HistoryAssumption DEF HistoryAssumption
<1>19. ReceivableOf(e, i) = {r}
    <2>1. InvoiceOf(e, r) = i
        BY <1>13, <1>15 DEF InvoiceOf
    <2>2. ASSUME NEW k \in Ids(d, "receivables") PROVE InvoiceOf(e, k) # i
        <3>1. e.receivables[k] = d.receivables[k]
            BY <1>13
        <3>2. d.receivables[k].kind = "INVOICE" => d.receivables[k].source \in Ids(d, "invoices")
            BY DEF Good, Sound, RowsOK
        <3> QED
            BY <1>3, <1>18, <3>1, <3>2 DEF InvoiceOf
    <2> QED
        BY <1>13, <2>1, <2>2 DEF ReceivableOf
<1>20. Posted(e, "invoice_ar", i) = {j}
    <2>1. ASSUME NEW k \in Ids(d, "journals") PROVE ~(e.journals[k].kind = "invoice_ar" /\ e.journals[k].source = i)
        <3>1. e.journals[k] = d.journals[k]
            BY <1>14
        <3>2. d.journals[k].kind = "invoice_ar" => d.journals[k].source \in Ids(d, "invoices")
            BY DEF Good, Sound, RowsOK
        <3> QED
            BY <1>3, <3>1, <3>2
    <2> QED
        BY <1>14, <1>15, <2>1 DEF Posted
<1>21. BookedOnce(e, "invoice_ar", i, b, lines)
    BY <1>14, <1>15, <1>20 DEF BookedOnce
<1>22. Opened(e, i)
    BY <1>1, <1>8, <1>12, <1>13, <1>15, <1>19, <1>21 DEF Opened
<1>23. /\ New(d, e, "invoices") = {i} /\ New(d, e, "receivables") = {r} /\ New(d, e, "journals") = {j}
       /\ New(d, e, "notes") = {} /\ New(d, e, "allocations") = {} /\ New(d, e, "coverings") = {}
       /\ New(d, e, "draws") = {}
    BY <1>3, <1>12, <1>13, <1>14, <1>17 DEF New
<1>24. \A u \in Tables : Ids(d, u) \subseteq Ids(e, u)
    BY <1>11, <1>12, <1>13, <1>14 DEF Ids
<1>25. \A u \in {"notes", "receivables", "allocations", "coverings", "draws", "journals"} :
          \A k \in Ids(d, u) : e[u][k] = d[u][k]
    BY <1>13, <1>14, <1>17
<1>26. Grows(d, e)
    BY <1>10, <1>12, <1>13, <1>14, <1>15, <1>16, <1>22, <1>23, <1>24, <1>25 DEF Grows
<1>27. Sound(e)
    BY <1>26, GrowsSound DEF Good
<1>28. Closed(e)
    <2>1. e.notes = d.notes
        BY <1>17
    <2>2. \A k \in Ids(d, "invoices") : e.invoices[k].status = d.invoices[k].status
        BY <1>12
    <2> QED
        BY <2>1, <2>2, ClosedStays DEF Good
<1>29. NotesOf(e, i) = {}
    <2>1. \A n \in Ids(d, "notes") : e.notes[n].invoice \in Ids(d, "invoices")
        BY <1>17 DEF Good, Sound, RowsOK
    <2> QED
        BY <1>3, <1>17, <2>1 DEF NotesOf
<1> QED
    BY <1>12, <1>13, <1>19, <1>27, <1>28, <1>29 DEF Good

-----------------------------------------------------------------------------
(* A note is issued.                                                       *)

\* One number adds up to itself.
LEMMA TotalOfOne ==
    ASSUME NEW x, NEW f, DOMAIN f = {x}, f[x] \in Int
    PROVE  Total(f) = f[x]
<1>1. IsFiniteSet({x}) /\ IsFiniteSet({}) /\ {x} \ {x} = {}
    BY FS_Singleton, FS_EmptySet
<1>2. SumFunctionOnSet(f, {x}) = f[x] + SumFunctionOnSet(f, {x} \ {x})
    BY <1>1, SumRemove
<1>3. SumFunctionOnSet(f, {}) = 0
    BY <1>1, SumStep
<1> QED
    BY <1>1, <1>2, <1>3 DEF Total, SumFunction

\* Sums of amounts are integers.
LEMMA SumInt ==
    ASSUME NEW d, Sound(d), NEW t \in {"receivables", "allocations", "coverings", "draws"},
           NEW S, S \subseteq Ids(d, t)
    PROVE  Sum(d, t, S) \in Int
<1> DEFINE f == [k \in S |-> d[t][k].amount]
<1>1. t \in Tables /\ Shaped(d)
    BY DEF Tables, Sound
<1>2. IsFiniteSet(S)
    BY <1>1, IdsNat, FS_Subset
<1>3. \A k \in S : f[k] \in Int
    BY DEF Sound, RowsOK
<1>4. SumFunctionOnSet(f, S) \in Int
    <2> HIDE DEF f
    <2> QED
        BY <1>2, <1>3, SumType
<1>5. Sum(d, t, S) = Total(f) /\ DOMAIN f = S
    BY DEF Sum
<1> QED
    BY <1>4, <1>5 DEF Total, SumFunction

\* The note is the first of its invoice, which has one receivable: what was open is taken
\* off, so that nothing is left.
LEMMA NoteKeeps ==
    ASSUME NEW d, Good(d), NEW i \in Ids(d, "invoices"), NotesOf(d, i) = {},
           d.invoices[i].order.customer # None, NEW note, note = CreditNote(d, i), NEW on,
           NEW n, n = NextId(d, "notes"), NEW e, e = IssueCreditNote(d, note, on)
    PROVE  /\ Sound(e) /\ Ids(e, "notes") = Ids(d, "notes") \cup {n}
           /\ \A m \in Ids(d, "notes") : e.notes[m] = d.notes[m]
           /\ e.notes[n] = note /\ note.invoice = i /\ e.invoices = d.invoices
<1>1. PICK invoice, totals, covered : /\ invoice = d.invoices[i] /\ totals = invoice.totals
                                      /\ covered = Covered(d, i)
    OBVIOUS
<1>2. InvoiceOK(invoice)
    BY <1>1 DEF Good, Sound, RowsOK, InvoiceOK
<1>3. /\ CreditNoteTotals(invoice.order, totals.taxes).total = totals.total
      /\ CreditNoteTotals(invoice.order, totals.taxes).tax = totals.tax
      /\ totals.total \in Int
    BY <1>1, <1>2, TotalsFacts DEF InvoiceOK
<1>4. /\ note.invoice = i /\ note.branch = invoice.order.branch /\ note.tax = totals.tax
      /\ note.total = totals.total /\ note.reduction = totals.total - covered /\ note.excess = covered
    BY <1>1, <1>3 DEF CreditNote
<1>5. PICK r \in Ids(d, "receivables") : ReceivableOf(d, i) = {r} /\ d.receivables[r].amount = totals.total
    BY <1>1 DEF Good, Sound, Opened
<1>6. PICK A, D : /\ A = Sum(d, "allocations", AllocationsOf(d, i)) /\ D = Sum(d, "draws", DrawsOn(d, r))
    OBVIOUS
<1>7. A \in Int /\ D \in Int
    BY <1>6, SumInt DEF Good, AllocationsOf, DrawsOn
<1>8. covered = A + D
    <2>1. UNION {DrawsOn(d, q) : q \in ReceivableOf(d, i)} = DrawsOn(d, r)
        BY <1>5
    <2> QED
        BY <1>1, <1>6, <2>1 DEF Covered
<1>9. PICK x : x = Add(d, "notes", note)
    OBVIOUS
<1>10. /\ Shaped(x) /\ n \in Nat /\ n \notin Ids(d, "notes")
       /\ \A u \in Tables \ {"notes"} : x[u] = d[u]
       /\ Ids(x, "notes") = Ids(d, "notes") \cup {n}
       /\ \A k \in Ids(d, "notes") : x["notes"][k] = d["notes"][k]
       /\ x["notes"][n] = note
    BY <1>9, AddFacts DEF Good, Sound, Tables
<1>11. PICK seq, S : seq = SetToSeq(CoverageSources(d, note.invoice)) /\ S = DOMAIN seq
    OBVIOUS
<1>12. Positions(seq)
    BY <1>11, SourcesPositions DEF Good, Sound
<1>13. PICK h, a : /\ Writes(h, "release", a, x, seq, S)
                   /\ e = Post(h[S], "credit_note", Len(d.notes) + 1, note.branch, on, NoteLines(note))
    BY <1>9, <1>11, <1>12, IssueCreditNoteIs
<1>14. PICK y, j, booked : /\ y = h[S] /\ j = NextId(y, "journals")
                           /\ booked = JournalRow(y, "credit_note", n, note.branch, on, NoteLines(note))
    OBVIOUS
<1>15. Shaped(y) /\ \A u \in Tables \ {"advances"} : y[u] = x[u]
    BY <1>10, <1>11, <1>12, <1>13, <1>14, ReleasesKeep DEF Positions
<1>16. e = Add(y, "journals", booked)
    BY <1>13, <1>14, PostIs DEF NextId
<1>17. /\ Shaped(e) /\ j \notin Ids(y, "journals")
       /\ \A u \in Tables \ {"journals"} : e[u] = y[u]
       /\ Ids(e, "journals") = Ids(y, "journals") \cup {j}
       /\ \A k \in Ids(y, "journals") : e["journals"][k] = y["journals"][k]
       /\ e["journals"][j] = booked
    BY <1>14, <1>15, <1>16, AddFacts DEF Tables
<1>18. /\ \A u \in Tables \ {"notes", "advances", "journals"} : e[u] = d[u]
       /\ e["notes"] = x["notes"] /\ y["journals"] = d["journals"]
    BY <1>10, <1>15, <1>17 DEF Tables
<1>19. /\ Ids(e, "notes") = Ids(d, "notes") \cup {n}
       /\ \A k \in Ids(d, "notes") : e["notes"][k] = d["notes"][k]
       /\ e["notes"][n] = note
    BY <1>10, <1>18 DEF Ids
<1>20. /\ Ids(e, "journals") = Ids(d, "journals") \cup {j} /\ j \notin Ids(d, "journals")
       /\ \A k \in Ids(d, "journals") : e["journals"][k] = d["journals"][k]
       /\ e["journals"][j] = booked
    BY <1>17, <1>18 DEF Ids
<1>21. booked.kind = "credit_note" /\ booked.source = n /\ booked.lines = Sealed(j, note.branch, NoteLines(note))
    BY <1>14 DEF JournalRow
<1>22. \A u \in {"invoices", "receivables", "allocations", "coverings", "draws"} : e[u] = d[u] /\ Ids(e, u) = Ids(d, u)
    BY <1>18 DEF Tables, Ids
<1>23. NotesOf(e, i) = {n}
    BY <1>4, <1>19 DEF NotesOf
<1>24. ReceivableOf(e, i) = {r} /\ InvoiceOf(e, r) = i /\ i # None
    <2>1. ReceivableOf(e, i) = ReceivableOf(d, i)
        BY <1>22 DEF ReceivableOf, InvoiceOf
    <2>2. i \in Nat
        BY IdsNat DEF Good, Sound, Tables
    <2> QED
        BY <1>5, <2>1, <2>2, HistoryAssumption DEF ReceivableOf, HistoryAssumption
<1>25. Outstanding(e, r) = 0
    <2>1. /\ AllocationsOf(e, i) = AllocationsOf(d, i) /\ DrawsOn(e, r) = DrawsOn(d, r)
          /\ e.receivables[r].amount = totals.total
        BY <1>5, <1>22 DEF AllocationsOf, DrawsOn
    <2>2. Sum(e, "allocations", AllocationsOf(e, i)) = A /\ Sum(e, "draws", DrawsOn(e, r)) = D
        BY <1>6, <1>22, <2>1 DEF Sum
    <2>3. PICK f : f = [k \in NotesOf(e, i) |-> e.notes[k].reduction]
        OBVIOUS
    <2>4. DOMAIN f = {n} /\ f[n] = totals.total - (A + D) /\ f[n] \in Int
        BY <1>3, <1>4, <1>7, <1>8, <1>19, <1>23, <2>3
    <2>5. Total(f) = totals.total - (A + D)
        BY <2>4, TotalOfOne
    <2>6. Outstanding(e, r) = totals.total - D - (A + Total(f))
        BY <1>24, <2>1, <2>2, <2>3 DEF Outstanding
    <2> QED
        BY <1>3, <1>7, <2>5, <2>6
<1>26. Posted(e, "credit_note", n) = {j}
    <2>1. ASSUME NEW k \in Ids(d, "journals") PROVE ~(e.journals[k].kind = "credit_note" /\ e.journals[k].source = n)
        <3>1. e.journals[k] = d.journals[k]
            BY <1>20
        <3>2. d.journals[k].kind = "credit_note" => d.journals[k].source \in Ids(d, "notes")
            BY DEF Good, Sound, RowsOK
        <3> QED
            BY <1>10, <3>1, <3>2
    <2> QED
        BY <1>20, <1>21, <2>1 DEF Posted
<1>27. BookedOnce(e, "credit_note", n, note.branch, NoteLines(note))
    BY <1>20, <1>21, <1>26 DEF BookedOnce
<1>28. note.reduction + note.excess = totals.total /\ note.reduction \in Int
    BY <1>3, <1>4, <1>7, <1>8
<1>29. Credited(e, n)
    <2>1. e.notes[n] = note /\ e.invoices[i] = invoice
        BY <1>1, <1>19, <1>22
    <2> QED
        BY <1>1, <1>4, <1>23, <1>24, <1>25, <1>27, <1>28, <2>1 DEF Credited, NoteLines
<1>30. /\ New(d, e, "notes") = {n} /\ New(d, e, "journals") = {j}
       /\ New(d, e, "invoices") = {} /\ New(d, e, "receivables") = {}
       /\ New(d, e, "allocations") = {} /\ New(d, e, "coverings") = {} /\ New(d, e, "draws") = {}
    BY <1>10, <1>19, <1>20, <1>22 DEF New
<1>31. \A u \in Tables \ {"advances"} : Ids(d, u) \subseteq Ids(e, u)
    BY <1>18, <1>19, <1>20 DEF Ids
<1>32. \A u \in {"notes", "receivables", "allocations", "coverings", "draws", "journals"} :
          \A k \in Ids(d, u) : e[u][k] = d[u][k]
    BY <1>19, <1>20, <1>22
<1>33. Grows(d, e)
    BY <1>4, <1>17, <1>19, <1>20, <1>21, <1>22, <1>28, <1>29, <1>30, <1>31, <1>32 DEF Grows
<1> QED
    BY <1>4, <1>19, <1>22, <1>33, GrowsSound DEF Good

-----------------------------------------------------------------------------
(* An invoice is cancelled.                                                *)

\* A charge is an integer.
LEMMA ChargeFacts ==
    ASSUME NEW asked \in Nat, NEW rate \in (0..Whole) \cup {NoRate}, NEW policy \in TaxPolicies
    PROVE  ChargeTotals(asked, rate, policy).total \in Int
<1>1. PICK tax : tax = IF rate = NoRate THEN 0
                       ELSE ComputeLineTax(asked, rate, policy.price, policy.rounding)
    OBVIOUS
<1>2. tax \in Nat
    <2>1. CASE rate = NoRate
        BY <1>1, <2>1
    <2>2. CASE rate # NoRate
        <3>1. rate \in Nat /\ Whole \in Nat \ {0} /\ policy.rounding \in Modes
            BY <2>2, TotalsAssumption DEF TotalsAssumption, TaxPolicies
        <3>2. PICK n \in Nat : n = asked * rate
            BY <3>1, ProductNat
        <3>3. PICK x : x = ExactLineTax(asked, rate, policy.price)
            OBVIOUS
        <3>4. x.num = n /\ x.den \in Nat \ {0}
            BY <3>1, <3>2, <3>3 DEF ExactLineTax
        <3>5. DivRound(n, x.den, policy.rounding) \in {n \div x.den, n \div x.den + 1}
            BY <3>1, <3>4, RoundFacts
        <3>6. n \div x.den \in Nat
            BY <3>4, Division
        <3>7. tax = DivRound(n, x.den, policy.rounding)
            BY <1>1, <2>2, <3>3, <3>4 DEF ComputeLineTax, RoundExact
        <3> QED
            BY <3>5, <3>6, <3>7
    <2> QED
        BY <2>1, <2>2
<1>3. ChargeTotals(asked, rate, policy).total = IF policy.price = "TAX_EXCLUSIVE" THEN asked + tax ELSE asked
    BY <1>1 DEF ChargeTotals
<1> QED
    BY <1>2, <1>3

\* A charge leaves the database sound, and its invoices and notes alone.
LEMMA ChargeKeeps ==
    ASSUME NEW d, Sound(d), NEW c, NEW b, NEW fee, fee.total \in Int, NEW on,
           NEW e, e = IssueCharge(d, c, b, fee, on)
    PROVE  Sound(e) /\ e.invoices = d.invoices /\ e.notes = d.notes
<1>1. PICK x, y, charge, row, source, lines :
          /\ x = Add(d, "charges", charge) /\ y = Add(x, "receivables", row)
          /\ row.kind = "CANCELLATION_CHARGE" /\ row.amount = fee.total
          /\ e = Post(y, "cancellation_charge", source, b, on, lines)
    BY DEF IssueCharge
<1>2. PICK booked : e = Add(y, "journals", booked) /\ booked.kind = "cancellation_charge"
    <2>1. PICK posted : posted = JournalRow(y, "cancellation_charge", source, b, on, lines)
        OBVIOUS
    <2>2. e = Add(y, "journals", posted)
        BY <1>1, <2>1, PostIs
    <2>3. posted.kind = "cancellation_charge"
        BY <2>1 DEF JournalRow
    <2> QED
        BY <2>2, <2>3
<1>3. "charges" \in Tables /\ "receivables" \in Tables /\ "journals" \in Tables
    BY DEF Tables
<1>4. Harmless(d, "charges", charge)
    BY DEF Harmless
<1>5. Sound(x) /\ \A u \in Tables \ {"charges"} : x[u] = d[u]
    BY <1>1, <1>3, <1>4, AddSound, AddFacts DEF Sound
<1>6. Harmless(x, "receivables", row)
    BY <1>1 DEF Harmless
<1>7. Sound(y) /\ \A u \in Tables \ {"receivables"} : y[u] = x[u]
    BY <1>1, <1>3, <1>5, <1>6, AddSound, AddFacts DEF Sound
<1>8. Harmless(y, "journals", booked)
    BY <1>2 DEF Harmless
<1>9. Sound(e) /\ \A u \in Tables \ {"journals"} : e[u] = y[u]
    BY <1>2, <1>3, <1>7, <1>8, AddSound, AddFacts DEF Sound
<1> QED
    BY <1>5, <1>7, <1>9 DEF Tables

\* A cancellation closes its invoice and leaves the others as they were.
LEMMA CancelKeeps ==
    ASSUME NEW d, Good(d), NEW i \in Ids(d, "invoices"), StandingIn(d, i),
           d.invoices[i].order.customer # None, NEW note, note = CreditNote(d, i),
           NEW fee, fee # None => fee.total \in Int, NEW on, NEW e, e = Cancel(d, note, fee, on)
    PROVE  Good(e)
<1>1. PICK n, x : n = NextId(d, "notes") /\ x = IssueCreditNote(d, note, on)
    OBVIOUS
<1>2. NotesOf(d, i) = {}
    BY DEF Good, Closed, NotesOf
<1>3. /\ Sound(x) /\ Ids(x, "notes") = Ids(d, "notes") \cup {n}
      /\ \A m \in Ids(d, "notes") : x.notes[m] = d.notes[m]
      /\ x.notes[n] = note /\ note.invoice = i /\ x.invoices = d.invoices
    BY <1>1, <1>2, NoteKeeps
<1>4. PICK y : y = IF fee = None THEN x ELSE IssueCharge(x, d.invoices[i].order.customer, note.branch, fee, on)
    OBVIOUS
<1>5. Sound(y) /\ y.invoices = x.invoices /\ y.notes = x.notes
    BY <1>3, <1>4, ChargeKeeps
<1>6. PICK s : s = CancelledStatus(note.excess, note.total)
    OBVIOUS
<1>7. e = [y EXCEPT !.invoices[i].status = s]
    BY <1>1, <1>3, <1>4, <1>6 DEF Cancel
<1>8. i \in Ids(y, "invoices")
    BY <1>3, <1>5 DEF Ids
<1>9. /\ Sound(e) /\ e.invoices[i].status = s /\ \A u \in Tables \ {"invoices"} : e[u] = y[u]
      /\ \A j \in Ids(y, "invoices") \ {i} : e.invoices[j] = y.invoices[j]
    <2>1. Sound(e)
        BY <1>5, <1>7, <1>8, StatusFacts
    <2>3. e.invoices[i].status = s
        <3>1. /\ "invoices" \in DOMAIN y
              /\ DOMAIN y.invoices[i] = {"order", "totals", "fingerprint", "status"}
            BY <1>5, <1>8 DEF Sound, Shaped, RowsOK, Tables
        <3>2. PICK v : v = [y.invoices[i] EXCEPT !.status = s]
            OBVIOUS
        <3>3. v.status = s
            BY <3>1, <3>2
        <3>4. e.invoices = [y.invoices EXCEPT ![i] = v]
            BY <1>7, <3>1, <3>2
        <3> QED
            BY <1>8, <3>3, <3>4 DEF Ids
    <2>4. \A u \in Tables \ {"invoices"} : e[u] = y[u]
        BY <1>5, <1>7, <1>8, StatusFacts
    <2>2. \A j \in Ids(y, "invoices") \ {i} : e.invoices[j] = y.invoices[j]
        BY <1>5, <1>7, <1>8, StatusFacts
    <2> QED
        BY <2>1, <2>2, <2>3, <2>4
<1>10. e.notes = x.notes
    BY <1>5, <1>9 DEF Tables
<1>11. ASSUME NEW m \in Ids(e, "notes") PROVE ~StandingIn(e, e.notes[m].invoice)
    <2>1. CASE m = n
        BY <1>3, <1>6, <1>9, <1>10, <2>1 DEF StandingIn, CancelledStatus
    <2>2. CASE m # n
        <3>1. m \in Ids(d, "notes") /\ e.notes[m] = d.notes[m]
            BY <1>3, <1>10, <2>2 DEF Ids
        <3>2. PICK j : j = d.notes[m].invoice
            OBVIOUS
        <3>3. j # i
            BY <1>2, <3>1, <3>2 DEF NotesOf
        <3>4. j \in Ids(d, "invoices") /\ ~StandingIn(d, j)
            BY <3>1, <3>2 DEF Good, Sound, RowsOK, Closed
        <3>5. e.invoices[j] = d.invoices[j]
            BY <1>3, <1>5, <1>9, <3>3, <3>4 DEF Ids
        <3> QED
            BY <3>1, <3>2, <3>4, <3>5 DEF StandingIn
    <2> QED
        BY <2>1, <2>2
<1> QED
    BY <1>9, <1>11 DEF Good, Closed

-----------------------------------------------------------------------------
(* The operations.                                                         *)

\* What is open of a receivable is an integer.
LEMMA OutstandingInt ==
    ASSUME NEW d, Sound(d), NEW r \in Ids(d, "receivables")
    PROVE  Outstanding(d, r) \in Int
<1>1. PICK i, D, C, A : /\ i = InvoiceOf(d, r) /\ D = Sum(d, "draws", DrawsOn(d, r))
                        /\ C = Sum(d, "coverings", CoveringsOf(d, r))
                        /\ A = Sum(d, "allocations", AllocationsOf(d, i))
    OBVIOUS
<1>2. D \in Int /\ C \in Int /\ A \in Int
    BY <1>1, SumInt DEF DrawsOn, CoveringsOf, AllocationsOf
<1>3. PICK f : f = [k \in NotesOf(d, i) |-> d.notes[k].reduction]
    OBVIOUS
<1>4. Total(f) \in Int
    <2>1. IsFiniteSet(Ids(d, "notes")) /\ NotesOf(d, i) \subseteq Ids(d, "notes")
        BY IdsNat DEF Sound, Tables, NotesOf
    <2>2. \A k \in NotesOf(d, i) : f[k] \in Int
        BY <1>3 DEF Sound, RowsOK, NotesOf
    <2>3. DOMAIN f = NotesOf(d, i)
        BY <1>3
    <2>4. SumFunctionOnSet(f, NotesOf(d, i)) \in Int
        BY <2>1, <2>2, SumType, FS_Subset
    <2> QED
        BY <2>3, <2>4 DEF Total, SumFunction
<1>5. d.receivables[r].amount \in Int
    BY DEF Sound, RowsOK
<1>6. Outstanding(d, r) = d.receivables[r].amount - D - (IF i = None THEN C ELSE A + Total(f))
    BY <1>1, <1>3 DEF Outstanding
<1> QED
    BY <1>2, <1>4, <1>5, <1>6

\* Nothing is open of an invoice that has a note.
LEMMA Unnoted ==
    ASSUME NEW d, Good(d), NEW r \in Ids(d, "receivables"), Outstanding(d, r) # 0
    PROVE  NotesOf(d, InvoiceOf(d, r)) = {}
<1>1. PICK i : i = InvoiceOf(d, r)
    OBVIOUS
<1> SUFFICES ASSUME NEW n \in NotesOf(d, i) PROVE FALSE
    BY <1>1
<1>2. n \in Ids(d, "notes") /\ d.notes[n].invoice = i
    BY DEF NotesOf
<1>3. r \in ReceivableOf(d, i)
    BY <1>1 DEF ReceivableOf
<1> QED
    BY <1>2, <1>3 DEF Good, Sound, Credited

\* A tender of an anonymous sale.
LEMMA TenderKept ==
    ASSUME NEW x, Good(x), NEW a, a.invoice \in Ids(x, "invoices"), NotesOf(x, a.invoice) = {},
           NEW t, t.amount \in Int, NEW e, e = Write("tender", a, x, t)
    PROVE  Good(e) /\ Kept(x, e)
<1>1. PICK y, p : /\ y = Pay(x, "INVOICE_COLLECTION", a.invoice, a.branch, t.method, t.amount)
                  /\ e = CoverInvoice(y, p, a.invoice, t.amount)
    BY DEF Write
<1>2. Good(y) /\ Kept(x, y)
    BY <1>1, PayKept
<1>3. a.invoice \in Ids(y, "invoices") /\ NotesOf(y, a.invoice) = {}
    BY <1>2, KeptFacts DEF Kept
<1>4. Good(e) /\ Kept(y, e)
    BY <1>1, <1>2, <1>3, CoverInvoiceKept
<1> QED
    BY <1>2, <1>4, KeptTwice

\* An anonymous sale.
LEMMA SellAnonymouslyKeeps ==
    ASSUME NEW d, Good(d), NEW invoice, InvoiceOK(invoice), invoice.order.customer = None,
           NEW tenders, Positions(tenders), \A k \in DOMAIN tenders : tenders[k].amount \in Int, NEW on,
           NEW e, e = SellAnonymously(d, invoice, tenders, on)
    PROVE  Good(e)
<1>1. PICK base, i, S : base = Issue(d, invoice) /\ i = NextId(d, "invoices") /\ S = DOMAIN tenders
    OBVIOUS
<1>2. base = Add(d, "invoices", invoice) /\ Harmless(d, "invoices", invoice) /\ "invoices" \in Tables
    BY <1>1 DEF Issue, Harmless, Tables
<1>3. Good(base)
    BY <1>2, AddKeeps
<1>4. /\ i \in Ids(base, "invoices") /\ i \notin Ids(d, "invoices")
      /\ \A u \in Tables \ {"invoices"} : base[u] = d[u]
    BY <1>1, <1>2, AddFacts DEF Good, Sound
<1>5. NotesOf(base, i) = {}
    <2>1. base.notes = d.notes
        BY <1>4 DEF Tables
    <2>2. \A n \in Ids(d, "notes") : d.notes[n].invoice \in Ids(d, "invoices")
        BY DEF Good, Sound, RowsOK
    <2> QED
        BY <1>4, <2>1, <2>2 DEF NotesOf, Ids
<1>6. PICK a : a = [invoice |-> i, branch |-> invoice.order.branch]
    OBVIOUS
<1>7. PICK h, lines : /\ Writes(h, "tender", a, base, tenders, S)
                      /\ e = Post(h[S], "walk_in_sale", i, invoice.order.branch, on, lines)
    <2>1. i = Len(d.invoices) + 1
        BY <1>1 DEF NextId
    <2>2. PICK h, lines :
              /\ Writes(h, "tender", [invoice |-> Len(d.invoices) + 1, branch |-> invoice.order.branch],
                        base, tenders, S)
              /\ SellAnonymously(d, invoice, tenders, on)
                    = Post(h[S], "walk_in_sale", Len(d.invoices) + 1, invoice.order.branch, on, lines)
        BY <1>1, SellAnonymouslyIs, SMTT(30)
    <2> QED
        BY <1>6, <2>1, <2>2
<1>8. ASSUME NEW x, NEW k, Good(x), Kept(base, x), k \in S
      PROVE  Good(Write("tender", a, x, tenders[k])) /\ Kept(x, Write("tender", a, x, tenders[k]))
    <2>1. a.invoice \in Ids(x, "invoices") /\ NotesOf(x, a.invoice) = {}
        BY <1>4, <1>5, <1>6, <1>8, KeptFacts DEF Kept
    <2>2. tenders[k].amount \in Int
        BY <1>1, <1>8
    <2> QED
        BY <1>8, <2>1, <2>2, TenderKept
<1>9. Good(h[S])
    BY <1>1, <1>3, <1>7, <1>8, WritesKeep DEF Positions
<1> QED
    BY <1>7, <1>9, PostKept

\* One payment of an invoice that has no note and one receivable.
LEMMA CollectKept ==
    ASSUME NEW d, Good(d), NEW i \in Ids(d, "invoices"), NotesOf(d, i) = {},
           NEW r \in Ids(d, "receivables"), ReceivableOf(d, i) = {r}, NEW method, NEW amount \in Int,
           NEW on, NEW e, e = Collect(d, i, method, amount, on)
    PROVE  Good(e) /\ Kept(d, e)
<1>1. PICK x, y, p : /\ x = Pay(d, "INVOICE_COLLECTION", i, d.invoices[i].order.branch, method, amount)
                     /\ y = PostReceipt(x, on) /\ e = CoverByPayment(y, p, r, amount, on)
    BY DEF Collect
<1>2. Good(x) /\ Kept(d, x)
    BY <1>1, PayKept
<1>3. Good(y) /\ Kept(x, y)
    BY <1>1, <1>2, ReceiptKept
<1>4. Kept(d, y)
    BY <1>2, <1>3, KeptTwice
<1>5. r \in Ids(y, "receivables") /\ NotesOf(y, InvoiceOf(y, r)) = {}
    <2>1. InvoiceOf(d, r) = i
        BY DEF ReceivableOf
    <2> QED
        BY <1>4, <2>1, KeptFacts DEF Kept, Ids
<1>6. Good(e) /\ Kept(y, e)
    BY <1>1, <1>3, <1>5, CoverKept
<1> QED
    BY <1>4, <1>6, KeptTwice

\* A sale to a customer.
LEMMA SellToCustomerKeeps ==
    ASSUME NEW d, Good(d), NEW invoice, InvoiceOK(invoice),
           NEW tenders, Positions(tenders), \A k \in DOMAIN tenders : tenders[k].amount \in Int, NEW on,
           NEW e, e = SellToCustomer(d, invoice, tenders, on)
    PROVE  Good(e)
<1>1. PICK base, i, S : /\ base = OpenInvoiceAr(Issue(d, invoice), i, on)
                        /\ i = NextId(d, "invoices") /\ S = DOMAIN tenders
    OBVIOUS
<1>2. /\ Good(base) /\ i \in Ids(base, "invoices") /\ NotesOf(base, i) = {}
      /\ \E r \in Ids(base, "receivables") : ReceivableOf(base, i) = {r}
    BY <1>1, OpenKeeps
<1>3. PICK r \in Ids(base, "receivables") : ReceivableOf(base, i) = {r}
    BY <1>2
<1>4. PICK a : a = [invoice |-> i, on |-> on]
    OBVIOUS
<1>5. PICK h : Writes(h, "collect", a, base, tenders, S) /\ e = h[S]
    BY <1>1, <1>4, SellToCustomerIs DEF NextId
<1>6. ASSUME NEW x, NEW k, Good(x), Kept(base, x), k \in S
      PROVE  Good(Write("collect", a, x, tenders[k])) /\ Kept(x, Write("collect", a, x, tenders[k]))
    <2>1. i \in Ids(x, "invoices") /\ NotesOf(x, i) = {} /\ r \in Ids(x, "receivables") /\ ReceivableOf(x, i) = {r}
        BY <1>2, <1>3, <1>6, KeptFacts DEF Kept, Ids
    <2>2. tenders[k].amount \in Int
        BY <1>1, <1>6
    <2>3. Write("collect", a, x, tenders[k]) = Collect(x, i, tenders[k].method, tenders[k].amount, on)
        BY <1>4 DEF Write
    <2> QED
        BY <1>6, <2>1, <2>2, <2>3, CollectKept
<1> QED
    BY <1>1, <1>2, <1>5, <1>6, WritesKeep DEF Positions

\* The shares of a receipt are integers.
LEMMA FifoInt ==
    ASSUME NEW d, Sound(d), NEW open, open \subseteq Ids(d, "receivables"), NEW amount \in Int, NEW r \in open
    PROVE  Fifo(d, open, amount)[r] \in Int
<1>1. PICK f : f = [q \in {x \in open : x < r} |-> Outstanding(d, q)]
    OBVIOUS
<1>2. Total(f) \in Int
    <2>1. PICK S : S = {x \in open : x < r}
        OBVIOUS
    <2>2. IsFiniteSet(S)
        BY <2>1, IdsNat, FS_Subset DEF Sound, Tables
    <2>3. DOMAIN f = S /\ \A q \in S : f[q] \in Int
        BY <1>1, <2>1, OutstandingInt
    <2> QED
        BY <2>2, <2>3, SumType DEF Total, SumFunction
<1>3. Outstanding(d, r) \in Int
    BY OutstandingInt
<1>4. Fifo(d, open, amount)[r] \in {0, amount - Total(f), Outstanding(d, r)}
    BY <1>1 DEF Fifo
<1> QED
    BY <1>2, <1>3, <1>4

\* A customer's money.
LEMMA ReceiveMoneyKeeps ==
    ASSUME NEW d, Good(d), NEW c, NEW b, NEW method, NEW amount \in Int, NEW on,
           NEW e, e = ReceiveMoney(d, c, b, method, amount, on)
    PROVE  Good(e)
<1>1. PICK x, base, open, share, seq, S :
          /\ x = Pay(d, "CUSTOMER_RECEIPT", c, b, method, amount) /\ base = PostReceipt(x, on)
          /\ open = Open(d, c, b) /\ share = Fifo(d, open, amount)
          /\ seq = Ascending(DOMAIN share) /\ S = DOMAIN seq
    OBVIOUS
<1>2. Good(x) /\ Kept(d, x)
    BY <1>1, PayKept
<1>3. Good(base) /\ Kept(x, base)
    BY <1>1, <1>2, ReceiptKept
<1>4. Kept(d, base)
    BY <1>2, <1>3, KeptTwice
<1>5. /\ open \subseteq Ids(d, "receivables") /\ open \subseteq Nat /\ IsFiniteSet(open)
      /\ \A r \in open : Outstanding(d, r) > 0
    <2>1. open \subseteq Ids(d, "receivables") /\ \A r \in open : Outstanding(d, r) > 0
        BY <1>1 DEF Open
    <2>2. Ids(d, "receivables") \subseteq Nat /\ IsFiniteSet(Ids(d, "receivables"))
        BY IdsNat DEF Good, Sound, Tables
    <2> QED
        BY <2>1, <2>2, FS_Subset
<1>6. DOMAIN share = open
    BY <1>1 DEF Fifo
<1>7. Positions(seq) /\ \A k \in S : seq[k] \in open
    <2>1. /\ DOMAIN seq = 1..Cardinality(open) /\ Cardinality(open) \in Nat
          /\ \A k \in DOMAIN seq : seq[k] \in open
        BY <1>1, <1>5, <1>6, AscendingIn
    <2>2. IsFiniteSet(DOMAIN seq) /\ DOMAIN seq \subseteq Nat
        BY <2>1, FS_Interval
    <2> QED
        BY <1>1, <2>1, <2>2 DEF Positions
<1>8. PICK a : a = [share |-> share, payment |-> LastPayment(base), on |-> on]
    OBVIOUS
<1>9. PICK h : Writes(h, "share", a, base, seq, S) /\ e = h[S]
    BY <1>1, <1>7, <1>8, ReceiveMoneyIs
<1>10. ASSUME NEW y, NEW k, Good(y), Kept(base, y), k \in S
       PROVE  Good(Write("share", a, y, seq[k])) /\ Kept(y, Write("share", a, y, seq[k]))
    <2>1. PICK r : r = seq[k]
        OBVIOUS
    <2>2. r \in open /\ r \in Ids(d, "receivables") /\ Outstanding(d, r) > 0 /\ Outstanding(d, r) \in Int
        BY <1>5, <1>7, <1>10, <2>1, OutstandingInt DEF Good
    <2>3. NotesOf(d, InvoiceOf(d, r)) = {}
        BY <2>2, Unnoted
    <2>4. Kept(d, y)
        BY <1>4, <1>10, KeptTwice
    <2>5. r \in Ids(y, "receivables") /\ NotesOf(y, InvoiceOf(y, r)) = {}
        BY <2>2, <2>3, <2>4, KeptFacts DEF Kept, Ids
    <2>6. share[r] \in Int
        BY <1>1, <1>5, <2>2, FifoInt DEF Good
    <2>7. Write("share", a, y, r) = IF share[r] = 0 THEN y ELSE CoverByPayment(y, LastPayment(base), r, share[r], on)
        BY <1>8 DEF Write
    <2>8. CASE share[r] = 0
        BY <1>10, <2>1, <2>7, <2>8 DEF Kept
    <2>9. CASE share[r] # 0
        BY <1>10, <2>1, <2>5, <2>6, <2>7, <2>9, CoverKept
    <2> QED
        BY <2>8, <2>9
<1> QED
    BY <1>3, <1>7, <1>9, <1>10, <1>1, WritesKeep DEF Positions

\* An opening balance, of either kind.
LEMMA OpenReceivableKeeps ==
    ASSUME NEW d, Good(d), NEW c, NEW b, NEW amount \in Int, NEW on,
           NEW e, e = OpenReceivable(d, c, b, amount, on)
    PROVE  Good(e)
<1>1. PICK x, row, source, lines :
          /\ x = Add(d, "receivables", row) /\ row.kind = "OPENING" /\ row.amount = amount
          /\ e = Post(x, "opening_receivable", source, b, on, lines)
    BY DEF OpenReceivable
<1>2. Harmless(d, "receivables", row) /\ "receivables" \in Tables
    BY <1>1 DEF Harmless, Tables
<1>3. Good(x)
    BY <1>1, <1>2, AddKeeps
<1> QED
    BY <1>1, <1>3, PostKept

\* An advance, from wherever it comes.
LEMMA AdvanceKept ==
    ASSUME NEW d, Good(d), NEW row, NEW kind, kind \notin {"invoice_ar", "credit_note"}, NEW source,
           NEW b, NEW on, NEW lines, NEW e, e = Post(Add(d, "advances", row), kind, source, b, on, lines)
    PROVE  Good(e)
<1>1. Harmless(d, "advances", row) /\ "advances" \in Tables
    BY DEF Harmless, Tables
<1>2. Good(Add(d, "advances", row))
    BY <1>1, AddKeeps
<1> QED
    BY <1>2, PostKept

\* One that a customer had before.
LEMMA OpenAdvanceKeeps ==
    ASSUME NEW d, Good(d), NEW c, NEW b, NEW amount, NEW on, NEW e, e = OpenAdvance(d, c, b, amount, on)
    PROVE  Good(e)
<1>1. PICK row, source, lines : e = Post(Add(d, "advances", row), "opening_advance", source, b, on, lines)
    BY DEF OpenAdvance
<1> QED
    BY <1>1, AdvanceKept

\* One made of a payment.
LEMMA ConvertKeeps ==
    ASSUME NEW d, Good(d), NEW p, NEW amount, NEW on, NEW e, e = Convert(d, p, amount, on)
    PROVE  Good(e)
<1>1. PICK row, source, b, lines : e = Post(Add(d, "advances", row), "customer_advance", source, b, on, lines)
    BY DEF Convert
<1> QED
    BY <1>1, AdvanceKept

\* An advance pays a receivable of which something is open.
LEMMA ApplyAdvanceKeeps ==
    ASSUME NEW d, Good(d), NEW a, NEW r \in Ids(d, "receivables"), Outstanding(d, r) # 0,
           NEW amount \in Int, NEW on, NEW e, e = ApplyAdvance(d, a, r, amount, on)
    PROVE  Good(e)
<1>1. PICK i : i = InvoiceOf(d, r)
    OBVIOUS
<1>2. PICK x, y, row, source, b, lines :
          /\ x = Add(d, "draws", row) /\ row.receivable = r /\ row.amount = amount
          /\ y = Post(x, "customer_advance_application", source, b, on, lines)
          /\ e = IF i = None THEN y ELSE Recompute(y, i)
    BY <1>1 DEF ApplyAdvance
<1>3. NotesOf(d, i) = {}
    BY <1>1, Unnoted
<1>4. Harmless(d, "draws", row) /\ "draws" \in Tables \ {"invoices", "notes", "receivables"}
    BY <1>1, <1>2, <1>3 DEF Harmless, Tables
<1>5. Good(x) /\ Kept(d, x)
    BY <1>2, <1>4, AddKept
<1>6. Good(y) /\ Kept(x, y)
    BY <1>2, <1>5, PostKept
<1>7. CASE i = None
    BY <1>2, <1>6, <1>7
<1>8. CASE i # None
    <2>1. i \in Ids(d, "invoices")
        BY <1>1, <1>8 DEF Good, Sound, RowsOK, InvoiceOf
    <2>2. Kept(d, y)
        BY <1>5, <1>6, KeptTwice
    <2>3. i \in Ids(y, "invoices") /\ NotesOf(y, i) = {}
        BY <1>3, <2>1, <2>2, KeptFacts DEF Kept
    <2> QED
        BY <1>2, <1>6, <1>8, <2>3, RecomputeKept
<1> QED
    BY <1>7, <1>8

\* A refund is paid.
LEMMA PayOutKeeps ==
    ASSUME NEW d, Good(d), NEW a, NEW method, NEW attempt, NEW amount, NEW on,
           NEW e, e = PayOut(d, a, method, attempt, amount, on)
    PROVE  Good(e)
<1>1. PICK x, row, source, b, lines :
          x = Add(d, "refunds", row) /\ e = Post(x, "refund", source, b, on, lines)
    BY DEF PayOut
<1>2. Harmless(d, "refunds", row) /\ "refunds" \in Tables
    BY DEF Harmless, Tables
<1>3. Good(x)
    BY <1>1, <1>2, AddKeeps
<1> QED
    BY <1>1, <1>3, PostKept

\* A refund is held.
LEMMA ReserveKeeps ==
    ASSUME NEW d, Good(d), NEW a, NEW amount, NEW e, e = Reserve(d, a, amount)
    PROVE  Good(e)
<1>1. PICK row : e = Add(d, "attempts", row)
    BY DEF Reserve
<1>2. Harmless(d, "attempts", row) /\ "attempts" \in Tables
    BY DEF Harmless, Tables
<1> QED
    BY <1>1, <1>2, AddKeeps

\* The state of an attempt changes nothing else.
LEMMA AttemptKeeps ==
    ASSUME NEW d, Good(d), NEW k \in Ids(d, "attempts"), NEW s,
           NEW e, e = [d EXCEPT !.attempts[k].state = s]
    PROVE  Good(e)
<1>1. PICK v : v = [d.attempts[k] EXCEPT !.state = s]
    OBVIOUS
<1>2. /\ DOMAIN e = Tables /\ e.attempts = [d.attempts EXCEPT ![k] = v]
      /\ \A u \in Tables \ {"attempts"} : e[u] = d[u]
    BY <1>1 DEF Good, Sound, Shaped, Tables
<1>3. e.attempts \in Seq(Range(e.attempts)) /\ DOMAIN e.attempts = DOMAIN d.attempts
    <2>1. PICK w : w = d.attempts
        OBVIOUS
    <2>2. w \in Seq(Range(w))
        BY <2>1 DEF Good, Sound, Shaped, Tables
    <2>3. w \in Seq(Range(w) \cup {v}) /\ k \in DOMAIN w
        BY <2>1, <2>2 DEF Ids
    <2>4. [w EXCEPT ![k] = v] \in Seq(Range(w) \cup {v}) /\ DOMAIN [w EXCEPT ![k] = v] = DOMAIN w
        BY <2>3
    <2> QED
        BY <1>2, <2>1, <2>4, SeqOfItsOwn
<1>4. Shaped(e)
    BY <1>2, <1>3 DEF Good, Sound, Shaped
<1>5. \A u \in Tables : Ids(e, u) = Ids(d, u) /\ New(d, e, u) = {}
    BY <1>2, <1>3 DEF Ids, New
<1>6. \A u \in {"notes", "receivables", "allocations", "coverings", "draws", "journals", "invoices"} :
          u \in Tables /\ e[u] = d[u]
    BY <1>2 DEF Tables
<1>7. Grows(d, e)
    <2>1. /\ New(d, e, "notes") = {} /\ New(d, e, "invoices") = {} /\ New(d, e, "receivables") = {}
          /\ New(d, e, "journals") = {} /\ New(d, e, "allocations") = {} /\ New(d, e, "draws") = {}
          /\ New(d, e, "coverings") = {}
        BY <1>5 DEF Tables
    <2> QED
        BY <1>4, <1>5, <1>6, <2>1 DEF Grows
<1>8. Sound(e)
    BY <1>7, GrowsSound DEF Good
<1>9. e.notes = d.notes /\ e.invoices = d.invoices
    BY <1>6
<1> QED
    BY <1>8, <1>9 DEF Good, Closed, StandingIn, Ids

\* The provider's answer.
LEMMA AnswerKeeps ==
    ASSUME NEW d, Good(d), NEW k \in Ids(d, "attempts"), NEW result, NEW on,
           NEW e, e = Answer(d, k, result, on)
    PROVE  Good(e)
<1>1. PICK x : x = [d EXCEPT !.attempts[k].state = result]
    OBVIOUS
<1>2. Good(x)
    BY <1>1, AttemptKeeps
<1>3. e = x \/ \E a, method, amount : e = PayOut(x, a, method, k, amount, on)
    BY <1>1 DEF Answer
<1> QED
    BY <1>2, <1>3, PayOutKeeps

\* A settlement.
LEMMA FinalizeKeeps ==
    ASSUME NEW d, Good(d), NEW batch, NEW e, e = FinalizeSettlement(d, batch)
    PROVE  Good(e)
<1>1. PICK x, y, affected, source, b, on, lines :
          /\ x = Add(d, "settlements", batch) /\ y = Post(x, "SETTLEMENT_BATCH", source, b, on, lines)
          /\ e = Promote(y, affected)
    BY DEF FinalizeSettlement
<1>2. Harmless(d, "settlements", batch) /\ "settlements" \in Tables
    BY DEF Harmless, Tables
<1>3. Good(x)
    BY <1>1, <1>2, AddKeeps
<1>4. Good(y)
    BY <1>1, <1>3, PostKept
<1> QED
    BY <1>1, <1>4, PromoteKept

-----------------------------------------------------------------------------
(* Every step.                                                             *)

\* The empty database is sound.
LEMMA EmptyGood == Good(Empty)
<1>1. Shaped(Empty)
    BY DEF Shaped, Empty
<1>2. \A t \in Tables : Ids(Empty, t) = {}
    BY DEF Ids, Empty
<1>3. \A t \in {"invoices", "notes", "receivables", "allocations", "coverings", "draws", "journals"} :
          Ids(Empty, t) = {}
    BY <1>2 DEF Tables
<1>4. RowsOK(Empty)
    BY <1>3 DEF RowsOK
<1> QED
    BY <1>1, <1>3, <1>4 DEF Good, Sound, Closed

\* The tenders of an amount.
LEMMA TendersFacts ==
    ASSUME NEW amount \in Int, NEW t \in Tenders(amount)
    PROVE  Positions(t) /\ \A k \in DOMAIN t : t[k].amount \in Int
<1>1. \/ \E m : t = <<[method |-> m, amount |-> amount]>>
      \/ \E m : t = <<[method |-> m, amount |-> amount - 1], [method |-> SecondMethod, amount |-> 1]>>
    BY DEF Tenders
<1>2. CASE \E m : t = <<[method |-> m, amount |-> amount]>>
    <2>1. PICK m : t = <<[method |-> m, amount |-> amount]>>
        BY <1>2
    <2>2. DOMAIN t = 1..1 /\ t[1].amount = amount
        BY <2>1
    <2>3. PICK n \in Nat : n = 1
        OBVIOUS
    <2>4. DOMAIN t = 1..n
        BY <2>2, <2>3
    <2>5. IsFiniteSet(DOMAIN t) /\ DOMAIN t \subseteq Nat
        BY <2>4, FS_Interval
    <2> QED
        BY <2>2, <2>5 DEF Positions
<1>3. CASE \E m : t = <<[method |-> m, amount |-> amount - 1], [method |-> SecondMethod, amount |-> 1]>>
    <2>1. PICK m : t = <<[method |-> m, amount |-> amount - 1], [method |-> SecondMethod, amount |-> 1]>>
        BY <1>3
    <2>2. DOMAIN t = 1..2 /\ t[1].amount = amount - 1 /\ t[2].amount = 1
        BY <2>1
    <2>3. PICK n \in Nat : n = 2
        OBVIOUS
    <2>4. DOMAIN t = 1..n
        BY <2>2, <2>3
    <2>5. IsFiniteSet(DOMAIN t) /\ DOMAIN t \subseteq Nat
        BY <2>4, FS_Interval
    <2> QED
        BY <2>2, <2>5 DEF Positions
<1> QED
    BY <1>1, <1>2, <1>3

\* A sale.
LEMMA SaleKeeps ==
    ASSUME Good(db), CompleteSale
    PROVE  Good(db')
<1>1. PICK invoice \in Saleable :
          IF invoice.order.customer = None
          THEN \E t \in Tenders(invoice.totals.total) : Becomes(SellAnonymously(db, invoice, t, day))
          ELSE \E t \in {<<>>} \cup UNION {Tenders(x) : x \in {1, invoice.totals.total}} :
                  Becomes(SellToCustomer(db, invoice, t, day))
    BY DEF CompleteSale
<1>2. InvoiceOK(invoice)
    <2>1. PICK b \in Branches, c \in Buyers \cup {None}, asked \in SoldDrafts :
              DraftAllowed(asked) /\ invoice = Invoice(Saved(b, c, asked))
        BY DEF Saleable
    <2>2. asked \in Requests
        BY HistoryAssumption DEF HistoryAssumption
    <2>3. OrderOK(Saved(b, c, asked))
        BY <2>1, <2>2, SavedOK
    <2>4. PICK o : o = Saved(b, c, asked)
        OBVIOUS
    <2> QED
        BY <2>1, <2>3, <2>4 DEF InvoiceOK, Invoice
<1>3. invoice.totals.total \in Int
    BY <1>2, TotalsFacts DEF InvoiceOK
<1>4. CASE invoice.order.customer = None
    <2>1. PICK t \in Tenders(invoice.totals.total) : db' = SellAnonymously(db, invoice, t, day)
        BY <1>1, <1>4 DEF Becomes
    <2>2. Positions(t) /\ \A k \in DOMAIN t : t[k].amount \in Int
        BY <1>3, TendersFacts
    <2> QED
        BY <1>2, <1>4, <2>1, <2>2, SellAnonymouslyKeeps
<1>5. CASE invoice.order.customer # None
    <2>1. PICK t \in {<<>>} \cup UNION {Tenders(x) : x \in {1, invoice.totals.total}} :
              db' = SellToCustomer(db, invoice, t, day)
        BY <1>1, <1>5 DEF Becomes
    <2>2. Positions(t) /\ \A k \in DOMAIN t : t[k].amount \in Int
        <3>1. CASE t = <<>>
            BY <3>1, FS_EmptySet DEF Positions
        <3>2. CASE t \in Tenders(1) \/ t \in Tenders(invoice.totals.total)
            BY <1>3, <3>2, TendersFacts
        <3> QED
            BY <3>1, <3>2
    <2> QED
        BY <1>2, <2>1, <2>2, SellToCustomerKeeps
<1> QED
    BY <1>4, <1>5

\* A provider's capture.
LEMMA CaptureKeeps ==
    ASSUME Good(db), CaptureByProvider
    PROVE  Good(db')
<1>1. PICK i \in Ids(db, "invoices") : \E q, amount :
          /\ db.invoices[i].order.customer # None /\ Standing(i)
          /\ amount \in 1..Outstanding(db, q)
          /\ db' = Collect(db, i, "ONLINE_GATEWAY", amount, day)
    BY DEF CaptureByProvider, Becomes
<1>2. NotesOf(db, i) = {}
    BY <1>1 DEF Good, Closed, NotesOf, Standing, StandingIn
<1>3. PICK r \in Ids(db, "receivables") : ReceivableOf(db, i) = {r}
    BY <1>1 DEF Good, Sound, Opened
<1>4. PICK amount \in Int : db' = Collect(db, i, "ONLINE_GATEWAY", amount, day)
    BY <1>1
<1> QED
    BY <1>2, <1>3, <1>4, CollectKept

\* An opening balance.
LEMMA OpenBalanceKeeps ==
    ASSUME Good(db), OpenBalance
    PROVE  Good(db')
<1>1. PICK c \in Customers, b \in Branches, amount \in Amounts :
          db' = OpenReceivable(db, c, b, amount, day) \/ db' = OpenAdvance(db, c, b, amount, day)
    BY DEF OpenBalance, Becomes
<1>2. amount \in Int
    BY HistoryAssumption DEF HistoryAssumption
<1> QED
    BY <1>1, <1>2, OpenReceivableKeeps, OpenAdvanceKeeps

\* The use of an advance.
LEMMA UseAdvanceKeeps ==
    ASSUME Good(db), UseAdvance
    PROVE  Good(db')
<1>1. PICK a \in Ids(db, "advances"), r \in Ids(db, "receivables"), amount \in Amounts :
          /\ amount <= Outstanding(db, r) /\ db' = ApplyAdvance(db, a, r, amount, day)
    BY DEF UseAdvance, Becomes
<1>2. amount \in Nat \ {0}
    BY HistoryAssumption DEF HistoryAssumption
<1>3. Outstanding(db, r) # 0
    BY <1>1, <1>2, OutstandingInt DEF Good
<1> QED
    BY <1>1, <1>2, <1>3, ApplyAdvanceKeeps

\* A cancellation.
LEMMA CancelInvoiceKeeps ==
    ASSUME Good(db), CancelInvoice
    PROVE  Good(db')
<1>1. PICK note \in {CreditNote(db, x) : x \in {y \in Ids(db, "invoices") : Standing(y)}},
           fee \in {ChargeTotals(asked, FeeRate, Policy) : asked \in Fees} \cup {None}, on \in 1..day :
               db.invoices[note.invoice].order.customer # None /\ db' = Cancel(db, note, fee, on)
    BY DEF CancelInvoice, Becomes
<1>2. PICK i \in Ids(db, "invoices") : Standing(i) /\ note = CreditNote(db, i)
    OBVIOUS
<1>3. note.invoice = i
    BY <1>2 DEF CreditNote
<1>4. ASSUME fee # None PROVE fee.total \in Int
    <2>1. PICK asked \in Fees : fee = ChargeTotals(asked, FeeRate, Policy)
        BY <1>4
    <2>2. asked \in Nat /\ FeeRate \in (0..Whole) \cup {NoRate} /\ Policy \in TaxPolicies
        BY HistoryAssumption DEF HistoryAssumption
    <2> QED
        BY <2>1, <2>2, ChargeFacts
<1>5. StandingIn(db, i)
    BY <1>2 DEF Standing, StandingIn
<1> QED
    BY <1>1, <1>2, <1>3, <1>4, <1>5, CancelKeeps

\* The database stays sound whatever happens.
LEMMA HistoryKeeps ==
    ASSUME Good(db), [Next]_vars
    PROVE  Good(db')
<1>1. CASE SaveDraft \/ DiscardDraft \/ NextDay \/ UNCHANGED vars
    BY <1>1 DEF SaveDraft, DiscardDraft, NextDay, vars
<1>2. CASE CompleteSale
    BY <1>2, SaleKeeps
<1>3. CASE CaptureByProvider
    BY <1>3, CaptureKeeps
<1>4. CASE Receive
    <2>1. PICK c \in Buyers, b \in Branches, m \in Methods \ {"ONLINE_GATEWAY"}, amount \in Amounts :
              db' = ReceiveMoney(db, c, b, m, amount, day)
        BY <1>4 DEF Receive, Becomes
    <2>2. amount \in Int
        BY HistoryAssumption DEF HistoryAssumption
    <2> QED
        BY <2>1, <2>2, ReceiveMoneyKeeps
<1>5. CASE OpenBalance
    BY <1>5, OpenBalanceKeeps
<1>6. CASE ConvertToAdvance
    <2>1. PICK p, amount : db' = Convert(db, p, amount, day)
        BY <1>6 DEF ConvertToAdvance, Becomes
    <2> QED
        BY <2>1, ConvertKeeps
<1>7. CASE UseAdvance
    BY <1>7, UseAdvanceKeeps
<1>8. CASE CancelInvoice
    BY <1>8, CancelInvoiceKeeps
<1>9. CASE RefundLocally
    <2>1. PICK a, m, amount : db' = PayOut(db, a, m, None, amount, day)
        BY <1>9 DEF RefundLocally, Becomes
    <2> QED
        BY <2>1, PayOutKeeps
<1>10. CASE ReserveRefund
    <2>1. PICK a, amount : db' = Reserve(db, a, amount)
        BY <1>10 DEF ReserveRefund, Becomes
    <2> QED
        BY <2>1, ReserveKeeps
<1>11. CASE RefundResult
    <2>1. PICK k \in Ids(db, "attempts"), result \in {"SUCCEEDED", "FAILED"} :
              db' = Answer(db, k, result, day)
        BY <1>11 DEF RefundResult, Becomes
    <2> QED
        BY <2>1, AnswerKeeps
<1>12. CASE SettleBatch
    <2>1. PICK batch : db' = FinalizeSettlement(db, batch)
        BY <1>12 DEF SettleBatch, Becomes
    <2> QED
        BY <2>1, FinalizeKeeps
<1> QED
    BY <1>1, <1>2, <1>3, <1>4, <1>5, <1>6, <1>7, <1>8, <1>9, <1>10, <1>11, <1>12 DEF Next

-----------------------------------------------------------------------------
(* What is left in the books.                                              *)

\* Two numbers add up.
LEMMA TotalOfTwo ==
    ASSUME NEW p, NEW q, p # q, NEW f, DOMAIN f = {p, q}, f[p] \in Int, f[q] \in Int
    PROVE  Total(f) = f[p] + f[q]
<1>1. IsFiniteSet({p}) /\ q \notin {p} /\ {p} \cup {q} = {p, q} /\ {p} \ {p} = {} /\ IsFiniteSet({})
    BY FS_Singleton, FS_EmptySet
<1>2. SumFunctionOnSet(f, {p} \cup {q}) = SumFunctionOnSet(f, {p}) + f[q]
    BY <1>1, SumAdd
<1>3. SumFunctionOnSet(f, {p}) = f[p] + SumFunctionOnSet(f, {p} \ {p})
    BY <1>1, SumRemove
<1>4. SumFunctionOnSet(f, {}) = 0
    BY <1>1, SumStep
<1>5. Total(f) = SumFunctionOnSet(f, {p} \cup {q})
    BY <1>1 DEF Total, SumFunction
<1>6. SumFunctionOnSet(f, {p}) = f[p]
    <2>1. SumFunctionOnSet(f, {p}) = f[p] + SumFunctionOnSet(f, {})
        BY <1>1, <1>3, Zenon
    <2> QED
        BY <1>4, <2>1
<1> QED
    BY <1>2, <1>5, <1>6

\* A credit and the same debit leave nothing.
LEMMA NetOfTwo ==
    ASSUME NEW p, NEW q, p # q, NEW x \in Int, p.debit = 0, p.credit = x, q.debit = x, q.credit = 0
    PROVE  Net({p, q}) = 0
<1>1. PICK f, g : f = [l \in {p, q} |-> l.debit] /\ g = [l \in {p, q} |-> l.credit]
    OBVIOUS
<1>2. DOMAIN f = {p, q} /\ f[p] = 0 /\ f[q] = x /\ DOMAIN g = {p, q} /\ g[p] = x /\ g[q] = 0
    BY <1>1
<1>3. Total(f) = x /\ Total(g) = x
    <2>1. f[p] \in Int /\ f[q] \in Int /\ g[p] \in Int /\ g[q] \in Int
        BY <1>2
    <2>2. Total(f) = f[p] + f[q]
        BY <1>2, <2>1, TotalOfTwo, Zenon
    <2>3. Total(g) = g[p] + g[q]
        BY <1>2, <2>1, TotalOfTwo, Zenon
    <2> QED
        BY <1>2, <2>2, <2>3
<1> QED
    BY <1>1, <1>3 DEF Net, Debits, Credits

\* Nothing adds up to nothing.
LEMMA NetOfNone == Net({}) = 0
<1>1. PICK f : f = [l \in {} |-> l.debit]
    OBVIOUS
<1>2. PICK g : g = [l \in {} |-> l.credit]
    OBVIOUS
<1>3. IsFiniteSet({}) /\ DOMAIN f = {} /\ DOMAIN g = {}
    BY <1>1, <1>2, FS_EmptySet
<1>4. Total(f) = 0 /\ Total(g) = 0
    BY <1>3, SumStep DEF Total, SumFunction
<1> QED
    BY <1>1, <1>2, <1>4 DEF Net, Debits, Credits

\* Two journals of which one credits an account what the other debits.
LEMMA CancelsOut ==
    ASSUME NEW j, NEW k, j # k, NEW b, NEW c, NEW m, NEW n, NEW a, NEW x \in Int,
           On(m, a) = Cr(a, x), On(n, a) = Dr(a, x)
    PROVE  Net(On(Sealed(j, b, m) \cup Sealed(k, c, n), a)) = 0
<1>1. PICK L : L = On(Sealed(j, b, m) \cup Sealed(k, c, n), a)
    OBVIOUS
<1>2. L = Sealed(j, b, On(m, a)) \cup Sealed(k, c, On(n, a))
    BY <1>1 DEF On, Sealed
<1>3. L = Sealed(j, b, Cr(a, x)) \cup Sealed(k, c, Dr(a, x))
    BY <1>2
<1>4. CASE x = 0
    <2>1. L = {}
        BY <1>3, <1>4 DEF Cr, Dr, Sealed
    <2> QED
        BY <1>1, <2>1, NetOfNone
<1>5. CASE x # 0
    <2>1. PICK p, q : /\ p = [journal |-> j, branch |-> b, account |-> a, debit |-> 0, credit |-> x]
                      /\ q = [journal |-> k, branch |-> c, account |-> a, debit |-> x, credit |-> 0]
        OBVIOUS
    <2>2. Sealed(j, b, Cr(a, x)) = {p} /\ Sealed(k, c, Dr(a, x)) = {q}
        BY <1>5, <2>1 DEF Cr, Dr, Sealed
    <2>3. L = {p, q}
        BY <1>3, <2>2
    <2>4. p # q /\ p.debit = 0 /\ p.credit = x /\ q.debit = x /\ q.credit = 0
        BY <2>1
    <2> QED
        BY <1>1, <2>3, <2>4, NetOfTwo
<1> QED
    BY <1>4, <1>5

\* The lines of a sale and of its credit note, on the accounts of the sale.
SaleLines(t, x) == Dr("AR", t) \cup Revenue(t, x)
LEMMA LinesOfSale ==
    ASSUME NEW t, NEW x, NEW note
    PROVE  /\ On(SaleLines(t, x), "REVENUE.SALES") = Cr("REVENUE.SALES", t - x)
           /\ On(SaleLines(t, x), "TAX_PAYABLE") = Cr("TAX_PAYABLE", x)
           /\ On(NoteLines(note), "REVENUE.SALES") = Dr("REVENUE.SALES", note.total - note.tax)
           /\ On(NoteLines(note), "TAX_PAYABLE") = Dr("TAX_PAYABLE", note.tax)
<1>1. \A a, w : \A l \in Dr(a, w) \cup Cr(a, w) : l.account = a
    BY DEF Dr, Cr
<1>2. PICK ar, rs, rt, ds, dt, ca, cc :
          /\ ar = Dr("AR", t) /\ rs = Cr("REVENUE.SALES", t - x) /\ rt = Cr("TAX_PAYABLE", x)
          /\ ds = Dr("REVENUE.SALES", note.total - note.tax) /\ dt = Dr("TAX_PAYABLE", note.tax)
          /\ ca = Cr("AR", note.reduction) /\ cc = Cr("CUSTOMER_ADVANCES", note.excess)
    OBVIOUS
<1>3. /\ \A l \in ar \cup ca : l.account = "AR"
      /\ \A l \in rs \cup ds : l.account = "REVENUE.SALES"
      /\ \A l \in rt \cup dt : l.account = "TAX_PAYABLE"
      /\ \A l \in cc : l.account = "CUSTOMER_ADVANCES"
    BY <1>1, <1>2
<1>4. /\ On(ar \cup (rs \cup rt), "REVENUE.SALES") = rs
      /\ On(ar \cup (rs \cup rt), "TAX_PAYABLE") = rt
      /\ On(ds \cup dt \cup ca \cup cc, "REVENUE.SALES") = ds
      /\ On(ds \cup dt \cup ca \cup cc, "TAX_PAYABLE") = dt
    BY <1>3 DEF On
<1>5. SaleLines(t, x) = ar \cup (rs \cup rt) /\ NoteLines(note) = ds \cup dt \cup ca \cup cc
    BY <1>2 DEF SaleLines, NoteLines, Revenue
<1> QED
    BY <1>2, <1>4, <1>5

\* A sound database has nothing left of a sale that is cancelled.
LEMMA SoundUndoes ==
    ASSUME Good(db)
    PROVE  CancellationUndoesSale
<1> SUFFICES ASSUME NEW n \in Ids(db, "notes"), NEW note, note = db.notes[n], NEW i, i = note.invoice,
                    NEW totals, totals = db.invoices[i].totals
             PROVE  /\ note.total = totals.total /\ note.tax = totals.tax
                    /\ note.reduction + note.excess = totals.total
                    /\ \A a \in {"REVENUE.SALES", "TAX_PAYABLE"} :
                          Net(On(LinesOf(db, Posted(db, "invoice_ar", i) \cup Posted(db, "credit_note", n)), a)) = 0
                    /\ Outstanding(db, CHOOSE r \in ReceivableOf(db, i) : TRUE) = 0
    BY DEF CancellationUndoesSale
<1>1. Credited(db, n) /\ i \in Ids(db, "invoices")
    BY DEF Good, Sound, RowsOK
<1>2. /\ note.total = totals.total /\ note.tax = totals.tax /\ note.reduction + note.excess = totals.total
      /\ \A r \in ReceivableOf(db, i) : Outstanding(db, r) = 0
      /\ db.invoices[i].order.customer # None
    BY <1>1 DEF Credited
<1>3. Opened(db, i)
    BY <1>1, <1>2 DEF Good, Sound
<1>4. Outstanding(db, CHOOSE r \in ReceivableOf(db, i) : TRUE) = 0
    BY <1>2, <1>3 DEF Opened
<1>5. totals.total \in Int /\ totals.tax \in Int
    <2>1. PICK o : o = db.invoices[i].order
        OBVIOUS
    <2>2. OrderOK(o) /\ totals = ComputeCanonicalTotals(o)
        BY <1>1, <2>1 DEF Good, Sound, RowsOK
    <2>3. PICK f : f = Taxes(o)
        OBVIOUS
    <2>4. /\ DOMAIN f = DOMAIN o.lines /\ IsFiniteSet(DOMAIN o.lines)
          /\ \A l \in DOMAIN o.lines : f[l] \in Int
        <3>1. DOMAIN Taxes(o) = DOMAIN o.lines /\ \A l \in DOMAIN o.lines : Taxes(o)[l] \in Nat
            BY <2>2, TaxesFacts
        <3>2. IsFiniteSet(DOMAIN o.lines)
            BY <2>2, WeightsFacts DEF OrderOK
        <3> QED
            BY <2>3, <3>1, <3>2
    <2>5. totals.tax = Total(f)
        BY <2>2, <2>3 DEF ComputeCanonicalTotals
    <2>6. Total(f) \in Int
        BY <2>4, SumType DEF Total, SumFunction
    <2> QED
        BY <2>2, <2>5, <2>6, TotalsFacts
<1>6. PICK m, w : m = SaleLines(totals.total, totals.tax) /\ w = NoteLines(note)
    OBVIOUS
<1>7. PICK j, b : /\ j \in Ids(db, "journals")
                  /\ Posted(db, "invoice_ar", i) = {j}
                  /\ db.journals[j].lines = Sealed(j, b, m)
    BY <1>3, <1>6 DEF Opened, BookedOnce, SaleLines
<1>8. PICK k, c : /\ k \in Ids(db, "journals")
                  /\ Posted(db, "credit_note", n) = {k}
                  /\ db.journals[k].lines = Sealed(k, c, w)
    BY <1>1, <1>6 DEF Credited, BookedOnce, NoteLines
<1>9. j # k
    BY <1>7, <1>8 DEF Posted
<1>10. LinesOf(db, Posted(db, "invoice_ar", i) \cup Posted(db, "credit_note", n)) = Sealed(j, b, m) \cup Sealed(k, c, w)
    <2>1. LinesOf(db, {j} \cup {k}) = db.journals[j].lines \cup db.journals[k].lines
        BY DEF LinesOf
    <2> QED
        BY <1>7, <1>8, <2>1
<1>11. /\ On(m, "REVENUE.SALES") = Cr("REVENUE.SALES", totals.total - totals.tax)
       /\ On(w, "REVENUE.SALES") = Dr("REVENUE.SALES", totals.total - totals.tax)
       /\ On(m, "TAX_PAYABLE") = Cr("TAX_PAYABLE", totals.tax)
       /\ On(w, "TAX_PAYABLE") = Dr("TAX_PAYABLE", totals.tax)
    <2>1. PICK t, x : t = totals.total /\ x = totals.tax
        OBVIOUS
    <2>2. m = SaleLines(t, x)
        BY <1>6, <2>1
    <2>3. On(m, "REVENUE.SALES") = Cr("REVENUE.SALES", t - x) /\ On(m, "TAX_PAYABLE") = Cr("TAX_PAYABLE", x)
        BY <2>2, LinesOfSale
    <2>4. /\ On(w, "REVENUE.SALES") = Dr("REVENUE.SALES", note.total - note.tax)
          /\ On(w, "TAX_PAYABLE") = Dr("TAX_PAYABLE", note.tax)
        BY <1>6, LinesOfSale
    <2>5. note.total = t /\ note.tax = x
        BY <1>2, <2>1
    <2> QED
        BY <2>1, <2>3, <2>4, <2>5
<1>12. totals.total - totals.tax \in Int
    BY <1>5
<1>13. /\ Net(On(Sealed(j, b, m) \cup Sealed(k, c, w), "REVENUE.SALES")) = 0
       /\ Net(On(Sealed(j, b, m) \cup Sealed(k, c, w), "TAX_PAYABLE")) = 0
    BY <1>5, <1>9, <1>11, <1>12, CancelsOut
<1> QED
    BY <1>2, <1>4, <1>10, <1>13

\* A credit note takes its sale out of the books to the last unit, in every company with
\* any customers, drafts and amounts.
THEOREM SalesAreUndone == Spec => []CancellationUndoesSale
<1>1. Init => Good(db)
    BY EmptyGood DEF Init
<1>2. Good(db) /\ [Next]_vars => Good(db)'
    BY HistoryKeeps
<1>3. Good(db) => CancellationUndoesSale
    BY SoundUndoes
<1> QED
    BY <1>1, <1>2, <1>3, PTL DEF Spec
=============================================================================
