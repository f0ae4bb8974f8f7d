----------------------------- MODULE SumTheorems -----------------------------
(***************************************************************************)
(* Sums of integers over finite sets, as the specifications write them:    *)
(* SumFunctionOnSet(f, S) of the module Functions.                         *)
(***************************************************************************)
EXTENDS Integers, FiniteSets, Functions, FiniteSetTheorems, WellFoundedInduction, TLAPS

Pick(s) == CHOOSE x \in s : TRUE

\* g adds up f on the subsets of S, an element at a time.
Adds(g, f, S) ==
    g = [s \in SUBSET S |-> IF s = {} THEN 0 ELSE f[Pick(s)] + g[s \ {Pick(s)}]]

-----------------------------------------------------------------------------
(* Two forms of induction.                                                 *)

\* What holds of 0 and of the successor of every number it holds of holds of all numbers.
LEMMA Induct ==
    ASSUME NEW P, P \subseteq Nat, 0 \in P, \A n \in P : n + 1 \in P
    PROVE  P = Nat
<1>1. SUFFICES ASSUME NEW n \in Nat, n \notin P PROVE FALSE
    OBVIOUS
<1> DEFINE h == [x \in 0..n |-> IF x \in P THEN x + 1 ELSE x]
<1>2. h \in [0..n -> 1..n]
    BY <1>1
<1>3. IsFiniteSet(0..n) /\ IsFiniteSet(1..n) /\ Cardinality(1..n) < Cardinality(0..n)
    BY FS_Interval, 0 \in Int, 1 \in Int, n \in Int
<1> HIDE DEF h
<1>4. PICK x \in 0..n, y \in 0..n : x # y /\ h[x] = h[y]
    BY <1>2, <1>3, FS_PigeonHole
<1> USE DEF h
<1> QED
    BY <1>4

\* Of the subsets of a finite set that have a property one is minimal.
LEMMA MinimalSubset ==
    ASSUME NEW S, IsFiniteSet(S), NEW B, B \subseteq SUBSET S, B # {}
    PROVE  \E T \in B : \A U \in SUBSET T : U # T => U \notin B
<1>1. IsWellFoundedOn(StrictSubsetOrdering(S), SUBSET S)
    BY FS_StrictSubsetOrderingWellFounded, FS_FiniteSubsetsOfFinite
<1>2. PICK T \in B : \A U \in B : <<U, T>> \notin StrictSubsetOrdering(S)
    BY <1>1, WFMin
<1> QED
    BY <1>2 DEF StrictSubsetOrdering

\* What holds of a subset whenever it holds of the smaller ones holds of the whole set.
LEMMA SubsetInduct ==
    ASSUME NEW S, IsFiniteSet(S), NEW P,
           \A T \in SUBSET S : (\A U \in SUBSET T : U # T => U \in P) => T \in P
    PROVE  S \in P
<1> DEFINE B == {T \in SUBSET S : T \notin P}
<1>1. SUFFICES ASSUME S \notin P PROVE FALSE
    OBVIOUS
<1>2. S \in B /\ B \subseteq SUBSET S
    BY <1>1
<1> HIDE DEF B
<1>3. PICK T \in B : \A U \in SUBSET T : U # T => U \notin B
    BY <1>2, MinimalSubset
<1> QED
    BY <1>3 DEF B

-----------------------------------------------------------------------------
(* The recursion has a solution, and only one.                             *)

\* The element that is taken first.
LEMMA PickIn == ASSUME NEW s, s # {} PROVE Pick(s) \in s
    BY DEF Pick

\* A function that adds up the subsets of at most n elements.
AddsUpTo(g, f, S, n) ==
    \A s \in SUBSET S : Cardinality(s) <= n =>
        g[s] = IF s = {} THEN 0 ELSE f[Pick(s)] + g[s \ {Pick(s)}]

\* There is one, by induction on the size of the subsets it adds up.
LEMMA AddsExists ==
    ASSUME NEW S, IsFiniteSet(S), NEW f
    PROVE  \E g : Adds(g, f, S)
<1> DEFINE P == {n \in Nat : \E g : AddsUpTo(g, f, S, n)}
<1>0. ASSUME NEW s \in SUBSET S
      PROVE  IsFiniteSet(s) /\ Cardinality(s) \in Nat /\ (Cardinality(s) = 0 <=> s = {})
    BY FS_Subset, FS_CardinalityType, FS_EmptySet
<1>1. 0 \in P
    <2> DEFINE g == [s \in SUBSET S |-> 0]
    <2>1. AddsUpTo(g, f, S, 0)
        BY <1>0 DEF AddsUpTo
    <2> QED
        BY <2>1
<1>2. ASSUME NEW n \in P PROVE n + 1 \in P
    <2>1. PICK g : AddsUpTo(g, f, S, n)
        BY <1>2
    <2> DEFINE h == [s \in SUBSET S |-> IF s = {} THEN 0 ELSE f[Pick(s)] + g[s \ {Pick(s)}]]
    <2>2. ASSUME NEW s \in SUBSET S, Cardinality(s) <= n + 1, s # {}
          PROVE  h[s \ {Pick(s)}] = g[s \ {Pick(s)}]
        <3> DEFINE u == s \ {Pick(s)}
        <3>1. Cardinality(u) = Cardinality(s) - 1
            BY <1>0, <2>2, PickIn, FS_RemoveElement
        <3>2. u \in SUBSET S /\ Cardinality(u) <= n
            BY <1>0, <2>2, <3>1
        <3> QED
            BY <2>1, <3>2 DEF AddsUpTo
    <2>3. AddsUpTo(h, f, S, n + 1)
        BY <2>2 DEF AddsUpTo
    <2> QED
        BY <2>3
<1>3. Cardinality(S) \in P
    BY <1>1, <1>2, Induct, FS_CardinalityType
<1>4. PICK g : AddsUpTo(g, f, S, Cardinality(S))
    BY <1>3
<1>5. \A s \in SUBSET S : Cardinality(s) <= Cardinality(S)
    BY FS_Subset
<1> DEFINE h == [s \in SUBSET S |-> g[s]]
<1>6. Adds(h, f, S)
    BY <1>4, <1>5 DEF AddsUpTo, Adds
<1> QED
    BY <1>6

\* Two of them agree.
LEMMA AddsOnce ==
    ASSUME NEW S, IsFiniteSet(S), NEW T \in SUBSET S, NEW f, NEW g, NEW h, Adds(g, f, S), Adds(h, f, T)
    PROVE  g[T] = h[T]
<1>1. SUFFICES ASSUME g[T] # h[T] PROVE FALSE
    OBVIOUS
<1> DEFINE B == {U \in SUBSET T : g[U] # h[U]}
<1>2. IsFiniteSet(T) /\ B \subseteq SUBSET T /\ B # {}
    BY <1>1, FS_Subset
<1> HIDE DEF B
<1>3. PICK U \in B : \A V \in SUBSET U : V # U => V \notin B
    BY <1>2, MinimalSubset
<1> USE DEF B
<1>4. U # {}
    BY <1>3 DEF Adds
<1>5. g[U \ {Pick(U)}] = h[U \ {Pick(U)}]
    BY <1>3, <1>4, PickIn
<1> QED
    BY <1>3, <1>4, <1>5 DEF Adds

\* The sum is what such a function gives.
LEMMA SumIs ==
    ASSUME NEW S, IsFiniteSet(S), NEW f, NEW g, Adds(g, f, S)
    PROVE  SumFunctionOnSet(f, S) = g[S]
<1> DEFINE c == CHOOSE h : h = [s \in SUBSET S |-> IF s = {} THEN 0 ELSE f[Pick(s)] + h[s \ {Pick(s)}]]
<1>1. SumFunctionOnSet(f, S) = c[S]
    BY DEF SumFunctionOnSet, FoldFunctionOnSet, MapThenFoldSet, Pick
<1>2. Adds(c, f, S)
    BY AddsExists DEF Adds
<1> QED
    BY <1>1, <1>2, AddsOnce

-----------------------------------------------------------------------------
(* What a sum is.                                                          *)

\* Nothing adds up to 0, anything else to its first element and the rest.
LEMMA SumStep ==
    ASSUME NEW S, IsFiniteSet(S), NEW f
    PROVE  SumFunctionOnSet(f, S) =
              IF S = {} THEN 0 ELSE f[Pick(S)] + SumFunctionOnSet(f, S \ {Pick(S)})
<1>1. PICK g : Adds(g, f, S)
    BY AddsExists
<1>2. SumFunctionOnSet(f, S) = g[S]
    BY <1>1, SumIs
<1>3. CASE S = {}
    BY <1>1, <1>2, <1>3 DEF Adds
<1>4. CASE S # {}
    <2> DEFINE T == S \ {Pick(S)}
    <2>1. IsFiniteSet(T) /\ T \in SUBSET S
        BY FS_Subset
    <2>2. PICK h : Adds(h, f, T)
        BY <2>1, AddsExists
    <2>3. SumFunctionOnSet(f, T) = h[T] /\ g[T] = h[T]
        BY <1>1, <2>1, <2>2, SumIs, AddsOnce
    <2> QED
        BY <1>1, <1>2, <1>4, <2>3 DEF Adds
<1> QED
    BY <1>3, <1>4

\* A sum of integers is an integer.
LEMMA SumType ==
    ASSUME NEW S, IsFiniteSet(S), NEW f, \A x \in S : f[x] \in Int
    PROVE  SumFunctionOnSet(f, S) \in Int
<1> DEFINE P == {T \in SUBSET S : SumFunctionOnSet(f, T) \in Int}
<1>1. ASSUME NEW T \in SUBSET S, \A U \in SUBSET T : U # T => U \in P
      PROVE  T \in P
    <2>1. IsFiniteSet(T)
        BY FS_Subset
    <2>2. CASE T = {}
        BY <2>1, <2>2, SumStep
    <2>3. CASE T # {}
        <3>1. Pick(T) \in T /\ T \ {Pick(T)} \in SUBSET T /\ T \ {Pick(T)} # T
            BY <2>3, PickIn
        <3>2. SumFunctionOnSet(f, T \ {Pick(T)}) \in Int /\ f[Pick(T)] \in Int
            BY <1>1, <3>1
        <3>3. SumFunctionOnSet(f, T) = f[Pick(T)] + SumFunctionOnSet(f, T \ {Pick(T)})
            BY <2>1, <2>3, SumStep
        <3> QED
            BY <3>2, <3>3
    <2> QED
        BY <2>2, <2>3
<1> HIDE DEF P
<1>2. S \in P
    BY <1>1, SubsetInduct
<1> QED
    BY <1>2 DEF P

\* Any element may be taken first.
LEMMA SumRemove ==
    ASSUME NEW S, IsFiniteSet(S), NEW f, \A x \in S : f[x] \in Int, NEW x \in S
    PROVE  SumFunctionOnSet(f, S) = f[x] + SumFunctionOnSet(f, S \ {x})
<1> DEFINE P == {T \in SUBSET S :
                    \A y \in T : SumFunctionOnSet(f, T) = f[y] + SumFunctionOnSet(f, T \ {y})}
<1>1. ASSUME NEW T \in SUBSET S, \A U \in SUBSET T : U # T => U \in P
      PROVE  T \in P
    <2>1. SUFFICES ASSUME NEW y \in T
                   PROVE  SumFunctionOnSet(f, T) = f[y] + SumFunctionOnSet(f, T \ {y})
        OBVIOUS
    <2>2. PICK c \in T : c = Pick(T)
        BY PickIn
    <2>3. IsFiniteSet(T)
        BY FS_Subset
    <2>4. SumFunctionOnSet(f, T) = f[c] + SumFunctionOnSet(f, T \ {c})
        BY <2>2, <2>3, SumStep
    <2>5. CASE y = c
        BY <2>4, <2>5
    <2>6. CASE y # c
        <3> DEFINE V == T \ {c, y}
        <3>1. T \ {c} \in P /\ y \in T \ {c} /\ T \ {y} \in P /\ c \in T \ {y}
            BY <1>1, <2>6
        <3>2. (T \ {c}) \ {y} = V /\ (T \ {y}) \ {c} = V
            OBVIOUS
        <3>3. SumFunctionOnSet(f, T \ {c}) = f[y] + SumFunctionOnSet(f, V)
            BY <3>1, <3>2
        <3>4. SumFunctionOnSet(f, T \ {y}) = f[c] + SumFunctionOnSet(f, V)
            BY <3>1, <3>2
        <3>5. IsFiniteSet(V)
            BY <2>3, FS_Subset
        <3>6. SumFunctionOnSet(f, V) \in Int /\ f[c] \in Int /\ f[y] \in Int
            BY <3>5, SumType
        <3> QED
            BY <2>4, <3>3, <3>4, <3>6
    <2> QED
        BY <2>5, <2>6
<1> HIDE DEF P
<1>2. S \in P
    BY <1>1, SubsetInduct
<1> QED
    BY <1>2 DEF P

\* Functions that agree have the same sum.
LEMMA SumSame ==
    ASSUME NEW S, IsFiniteSet(S), NEW f, NEW g, \A x \in S : f[x] = g[x]
    PROVE  SumFunctionOnSet(f, S) = SumFunctionOnSet(g, S)
<1> DEFINE P == {T \in SUBSET S : SumFunctionOnSet(f, T) = SumFunctionOnSet(g, T)}
<1>1. ASSUME NEW T \in SUBSET S, \A U \in SUBSET T : U # T => U \in P
      PROVE  T \in P
    <2>1. IsFiniteSet(T)
        BY FS_Subset
    <2>2. CASE T = {}
        BY <2>1, <2>2, SumStep
    <2>3. CASE T # {}
        <3>1. Pick(T) \in T /\ T \ {Pick(T)} \in SUBSET T /\ T \ {Pick(T)} # T
            BY <2>3, PickIn
        <3>2. SumFunctionOnSet(f, T \ {Pick(T)}) = SumFunctionOnSet(g, T \ {Pick(T)})
                 /\ f[Pick(T)] = g[Pick(T)]
            BY <1>1, <3>1
        <3>3. SumFunctionOnSet(f, T) = f[Pick(T)] + SumFunctionOnSet(f, T \ {Pick(T)})
            BY <2>1, <2>3, SumStep
        <3>4. SumFunctionOnSet(g, T) = g[Pick(T)] + SumFunctionOnSet(g, T \ {Pick(T)})
            BY <2>1, <2>3, SumStep
        <3> QED
            BY <3>2, <3>3, <3>4
    <2> QED
        BY <2>2, <2>3
<1> HIDE DEF P
<1>2. S \in P
    BY <1>1, SubsetInduct
<1> QED
    BY <1>2 DEF P

\* The sum of a sum is the sum of the sums.
LEMMA SumPlus ==
    ASSUME NEW S, IsFiniteSet(S), NEW f, NEW g, NEW h,
           \A x \in S : f[x] \in Int /\ g[x] \in Int /\ h[x] = f[x] + g[x]
    PROVE  SumFunctionOnSet(h, S) = SumFunctionOnSet(f, S) + SumFunctionOnSet(g, S)
<1> DEFINE P == {T \in SUBSET S :
                    SumFunctionOnSet(h, T) = SumFunctionOnSet(f, T) + SumFunctionOnSet(g, T)}
<1>1. ASSUME NEW T \in SUBSET S, \A U \in SUBSET T : U # T => U \in P
      PROVE  T \in P
    <2>1. IsFiniteSet(T)
        BY FS_Subset
    <2>2. CASE T = {}
        <3>1. SumFunctionOnSet(h, T) = 0
            BY <2>1, <2>2, SumStep
        <3>2. SumFunctionOnSet(f, T) = 0
            BY <2>1, <2>2, SumStep
        <3>3. SumFunctionOnSet(g, T) = 0
            BY <2>1, <2>2, SumStep
        <3> QED
            BY <3>1, <3>2, <3>3
    <2>3. CASE T # {}
        <3> DEFINE U == T \ {Pick(T)}
        <3>1. Pick(T) \in T /\ U \in SUBSET T /\ U # T
            BY <2>3, PickIn
        <3>2. IsFiniteSet(U)
            BY <2>1, FS_Subset
        <3>3. SumFunctionOnSet(h, U) = SumFunctionOnSet(f, U) + SumFunctionOnSet(g, U)
            BY <1>1, <3>1
        <3>4. SumFunctionOnSet(f, U) \in Int /\ SumFunctionOnSet(g, U) \in Int
            BY <3>1, <3>2, SumType
        <3>5. f[Pick(T)] \in Int /\ g[Pick(T)] \in Int /\ h[Pick(T)] = f[Pick(T)] + g[Pick(T)]
            BY <3>1
        <3>6. SumFunctionOnSet(h, T) = h[Pick(T)] + SumFunctionOnSet(h, U)
            BY <2>1, <2>3, SumStep
        <3>7. SumFunctionOnSet(f, T) = f[Pick(T)] + SumFunctionOnSet(f, U)
            BY <2>1, <2>3, SumStep
        <3>8. SumFunctionOnSet(g, T) = g[Pick(T)] + SumFunctionOnSet(g, U)
            BY <2>1, <2>3, SumStep
        <3> HIDE DEF U
        <3> QED
            BY <3>3, <3>4, <3>5, <3>6, <3>7, <3>8
    <2> QED
        BY <2>2, <2>3
<1> HIDE DEF P
<1>2. S \in P
    BY <1>1, SubsetInduct
<1> QED
    BY <1>2 DEF P

\* Zeros add up to 0.
LEMMA SumZero ==
    ASSUME NEW S, IsFiniteSet(S), NEW f, \A x \in S : f[x] = 0
    PROVE  SumFunctionOnSet(f, S) = 0
<1> DEFINE P == {T \in SUBSET S : SumFunctionOnSet(f, T) = 0}
<1>1. ASSUME NEW T \in SUBSET S, \A U \in SUBSET T : U # T => U \in P
      PROVE  T \in P
    <2>1. IsFiniteSet(T)
        BY FS_Subset
    <2>2. CASE T = {}
        BY <2>1, <2>2, SumStep
    <2>3. CASE T # {}
        <3>1. Pick(T) \in T /\ T \ {Pick(T)} \in SUBSET T /\ T \ {Pick(T)} # T
            BY <2>3, PickIn
        <3>2. SumFunctionOnSet(f, T \ {Pick(T)}) = 0 /\ f[Pick(T)] = 0
            BY <1>1, <3>1
        <3>3. SumFunctionOnSet(f, T) = f[Pick(T)] + SumFunctionOnSet(f, T \ {Pick(T)})
            BY <2>1, <2>3, SumStep
        <3> QED
            BY <3>2, <3>3
    <2> QED
        BY <2>2, <2>3
<1> HIDE DEF P
<1>2. S \in P
    BY <1>1, SubsetInduct
<1> QED
    BY <1>2 DEF P

\* One element changes.
LEMMA SumChange ==
    ASSUME NEW S, IsFiniteSet(S), NEW f, NEW g, NEW x \in S, \A y \in S : f[y] \in Int, g[x] \in Int,
           \A y \in S \ {x} : g[y] = f[y]
    PROVE  SumFunctionOnSet(g, S) = SumFunctionOnSet(f, S) - f[x] + g[x]
<1> DEFINE T == S \ {x}
<1>1. IsFiniteSet(T) /\ T \in SUBSET S
    BY FS_Subset
<1>2. SumFunctionOnSet(f, S) = f[x] + SumFunctionOnSet(f, T)
         /\ SumFunctionOnSet(g, S) = g[x] + SumFunctionOnSet(g, T)
    BY SumRemove
<1>3. SumFunctionOnSet(f, T) = SumFunctionOnSet(g, T) /\ SumFunctionOnSet(f, T) \in Int
    BY <1>1, SumSame, SumType
<1> QED
    BY <1>2, <1>3

\* An element is added.
LEMMA SumAdd ==
    ASSUME NEW S, IsFiniteSet(S), NEW f, NEW x, x \notin S, \A y \in S \cup {x} : f[y] \in Int
    PROVE  SumFunctionOnSet(f, S \cup {x}) = SumFunctionOnSet(f, S) + f[x]
<1>1. IsFiniteSet(S \cup {x}) /\ (S \cup {x}) \ {x} = S
    BY FS_AddElement
<1>2. SumFunctionOnSet(f, S \cup {x}) = f[x] + SumFunctionOnSet(f, S)
    BY <1>1, SumRemove
<1> QED
    BY <1>2, SumType

\* What is 0 outside a subset adds up to what the subset does.
LEMMA SumOver ==
    ASSUME NEW S, IsFiniteSet(S), NEW T \in SUBSET S, NEW f, \A x \in T : f[x] \in Int,
           NEW g, \A x \in S : g[x] = IF x \in T THEN f[x] ELSE 0
    PROVE  SumFunctionOnSet(g, S) = SumFunctionOnSet(f, T)
<1> DEFINE P == {U \in SUBSET S : SumFunctionOnSet(g, U) = SumFunctionOnSet(f, U \cap T)}
<1>1. ASSUME NEW U \in SUBSET S, \A V \in SUBSET U : V # U => V \in P
      PROVE  U \in P
    <2>1. IsFiniteSet(U) /\ IsFiniteSet(U \cap T)
        BY FS_Subset
    <2>2. CASE U = {}
        <3>1. U \cap T = {}
            BY <2>2
        <3> QED
            BY <2>1, <2>2, <3>1, SumStep
    <2>3. CASE U # {}
        <3>1. PICK x, V : x = Pick(U) /\ V = U \ {x}
            OBVIOUS
        <3>2. x \in U /\ V \in SUBSET U /\ V # U /\ x \in S
            BY <2>3, <3>1, PickIn
        <3>3. SumFunctionOnSet(g, V) = SumFunctionOnSet(f, V \cap T)
            BY <1>1, <3>2
        <3>4. SumFunctionOnSet(g, U) = g[x] + SumFunctionOnSet(g, V)
            BY <2>1, <2>3, <3>1, SumStep
        <3>5. CASE x \in T
            <4>1. V \cap T = (U \cap T) \ {x} /\ x \in U \cap T
                BY <3>1, <3>2, <3>5
            <4>2. SumFunctionOnSet(f, U \cap T) = f[x] + SumFunctionOnSet(f, (U \cap T) \ {x})
                BY <2>1, <4>1, SumRemove
            <4>3. g[x] = f[x]
                BY <3>2, <3>5
            <4>4. SumFunctionOnSet(f, (U \cap T) \ {x}) = SumFunctionOnSet(f, V \cap T)
                BY <4>1
            <4> QED
                BY <3>3, <3>4, <4>2, <4>3, <4>4
        <3>6. CASE x \notin T
            <4>1. V \cap T = U \cap T /\ g[x] = 0
                BY <3>1, <3>2, <3>6
            <4>2. SumFunctionOnSet(f, U \cap T) \in Int
                BY <2>1, SumType
            <4>3. SumFunctionOnSet(f, V \cap T) = SumFunctionOnSet(f, U \cap T)
                BY <4>1
            <4> QED
                BY <3>3, <3>4, <4>1, <4>2, <4>3
        <3> QED
            BY <3>5, <3>6
    <2> QED
        BY <2>2, <2>3
<1> HIDE DEF P
<1>2. S \in P
    BY <1>1, SubsetInduct
<1>3. S \cap T = T
    OBVIOUS
<1> QED
    BY <1>2, <1>3 DEF P

\* The same number adds up to as many times that number.
LEMMA SumConstant ==
    ASSUME NEW S, IsFiniteSet(S), NEW k \in Int, NEW f, \A x \in S : f[x] = k
    PROVE  SumFunctionOnSet(f, S) = k * Cardinality(S)
<1> DEFINE P == {T \in SUBSET S : SumFunctionOnSet(f, T) = k * Cardinality(T)}
<1>1. ASSUME NEW T \in SUBSET S, \A U \in SUBSET T : U # T => U \in P
      PROVE  T \in P
    <2>1. IsFiniteSet(T)
        BY FS_Subset
    <2>2. CASE T = {}
        <3>1. Cardinality(T) = 0 /\ SumFunctionOnSet(f, T) = 0
            BY <2>1, <2>2, SumStep, FS_EmptySet
        <3> QED
            BY <3>1
    <2>3. CASE T # {}
        <3>1. PICK x, U : x = Pick(T) /\ U = T \ {x}
            OBVIOUS
        <3>2. x \in T /\ U \in SUBSET T /\ U # T
            BY <2>3, <3>1, PickIn
        <3>3. SumFunctionOnSet(f, U) = k * Cardinality(U) /\ f[x] = k
            BY <1>1, <3>2
        <3>4. SumFunctionOnSet(f, T) = f[x] + SumFunctionOnSet(f, U)
            BY <2>1, <2>3, <3>1, SumStep
        <3>5. PICK n \in Nat : n = Cardinality(U) /\ Cardinality(T) = n + 1
            <4>1. IsFiniteSet(U) /\ Cardinality(U) = Cardinality(T) - 1
                BY <2>1, <3>1, <3>2, FS_RemoveElement
            <4>2. Cardinality(U) \in Nat /\ Cardinality(T) \in Nat
                BY <2>1, <4>1, FS_CardinalityType
            <4> QED
                BY <4>1, <4>2
        <3>6. k * (n + 1) = k + k * n
            OBVIOUS
        <3> QED
            BY <3>3, <3>4, <3>5, <3>6
    <2> QED
        BY <2>2, <2>3
<1> HIDE DEF P
<1>2. S \in P
    BY <1>1, SubsetInduct
<1> QED
    BY <1>2 DEF P

\* A multiple of everything adds up to the multiple.
LEMMA SumTimes ==
    ASSUME NEW S, IsFiniteSet(S), NEW k \in Int, NEW f, NEW g, \A x \in S : f[x] \in Int /\ g[x] = k * f[x]
    PROVE  SumFunctionOnSet(g, S) = k * SumFunctionOnSet(f, S)
<1> DEFINE P == {T \in SUBSET S : SumFunctionOnSet(g, T) = k * SumFunctionOnSet(f, T)}
<1>1. ASSUME NEW T \in SUBSET S, \A U \in SUBSET T : U # T => U \in P
      PROVE  T \in P
    <2>1. IsFiniteSet(T)
        BY FS_Subset
    <2>2. CASE T = {}
        <3>1. SumFunctionOnSet(g, T) = 0 /\ SumFunctionOnSet(f, T) = 0
            BY <2>1, <2>2, SumStep
        <3> QED
            BY <3>1
    <2>3. CASE T # {}
        <3>1. PICK x, U : x = Pick(T) /\ U = T \ {x}
            OBVIOUS
        <3>2. x \in T /\ U \in SUBSET T /\ U # T /\ IsFiniteSet(U)
            BY <2>1, <2>3, <3>1, PickIn, FS_Subset
        <3>3. PICK a, b : a = f[x] /\ b = SumFunctionOnSet(f, U) /\ a \in Int /\ b \in Int
            BY <3>2, SumType
        <3>4. SumFunctionOnSet(g, U) = k * b /\ g[x] = k * a
            BY <1>1, <3>2, <3>3
        <3>5. SumFunctionOnSet(f, T) = a + b
            BY <2>1, <2>3, <3>1, <3>3, SumStep
        <3>6. SumFunctionOnSet(g, T) = k * a + k * b
            BY <2>1, <2>3, <3>1, <3>4, SumStep
        <3>7. k * (a + b) = k * a + k * b
            BY <3>3
        <3> QED
            BY <3>5, <3>6, <3>7
    <2> QED
        BY <2>2, <2>3
<1> HIDE DEF P
<1>2. S \in P
    BY <1>1, SubsetInduct
<1> QED
    BY <1>2 DEF P

\* A sum of natural numbers is one.
LEMMA SumNat ==
    ASSUME NEW S, IsFiniteSet(S), NEW f, \A x \in S : f[x] \in Nat
    PROVE  SumFunctionOnSet(f, S) \in Nat
<1> DEFINE P == {T \in SUBSET S : SumFunctionOnSet(f, T) \in Nat}
<1>1. ASSUME NEW T \in SUBSET S, \A U \in SUBSET T : U # T => U \in P
      PROVE  T \in P
    <2>1. IsFiniteSet(T)
        BY FS_Subset
    <2>2. CASE T = {}
        <3>1. SumFunctionOnSet(f, T) = 0
            BY <2>1, <2>2, SumStep
        <3> QED
            BY <3>1
    <2>3. CASE T # {}
        <3>1. Pick(T) \in T /\ T \ {Pick(T)} \in SUBSET T /\ T \ {Pick(T)} # T
            BY <2>3, PickIn
        <3>2. SumFunctionOnSet(f, T \ {Pick(T)}) \in Nat /\ f[Pick(T)] \in Nat
            BY <1>1, <3>1
        <3>3. SumFunctionOnSet(f, T) = f[Pick(T)] + SumFunctionOnSet(f, T \ {Pick(T)})
            BY <2>1, <2>3, SumStep
        <3> QED
            BY <3>2, <3>3
    <2> QED
        BY <2>2, <2>3
<1> HIDE DEF P
<1>2. S \in P
    BY <1>1, SubsetInduct
<1> QED
    BY <1>2 DEF P

\* A sum over a set is the sum over a part of it and the sum over the rest.
LEMMA SumSplit ==
    ASSUME NEW S, IsFiniteSet(S), NEW T \in SUBSET S, NEW f, \A x \in S : f[x] \in Int
    PROVE  SumFunctionOnSet(f, S) = SumFunctionOnSet(f, T) + SumFunctionOnSet(f, S \ T)
<1> DEFINE g == [x \in S |-> IF x \in T THEN f[x] ELSE 0]
           h == [x \in S |-> IF x \in S \ T THEN f[x] ELSE 0]
<1>1. \A x \in S : g[x] \in Int /\ h[x] \in Int /\ f[x] = g[x] + h[x]
    OBVIOUS
<1>2. /\ \A x \in S : g[x] = IF x \in T THEN f[x] ELSE 0
      /\ \A x \in S : h[x] = IF x \in S \ T THEN f[x] ELSE 0
    OBVIOUS
<1> HIDE DEF g, h
<1>3. SumFunctionOnSet(f, S) = SumFunctionOnSet(g, S) + SumFunctionOnSet(h, S)
    BY <1>1, SumPlus
<1>4. SumFunctionOnSet(g, S) = SumFunctionOnSet(f, T)
    BY <1>2, SumOver
<1>5. SumFunctionOnSet(h, S) = SumFunctionOnSet(f, S \ T)
    <2>1. S \ T \in SUBSET S /\ \A x \in S \ T : f[x] \in Int
        OBVIOUS
    <2> QED
        BY <1>2, <2>1, SumOver
<1> QED
    BY <1>3, <1>4, <1>5

\* A part of natural numbers adds up to no more than all of them.
LEMMA SumPart ==
    ASSUME NEW S, IsFiniteSet(S), NEW T \in SUBSET S, NEW f, \A x \in S : f[x] \in Nat
    PROVE  SumFunctionOnSet(f, T) <= SumFunctionOnSet(f, S)
<1>1. IsFiniteSet(T) /\ IsFiniteSet(S \ T) /\ S \ T \subseteq S
    BY FS_Subset
<1>2. SumFunctionOnSet(f, T) \in Nat /\ SumFunctionOnSet(f, S \ T) \in Nat
    BY <1>1, SumNat
<1>3. \A x \in S : f[x] \in Int
    OBVIOUS
<1>4. SumFunctionOnSet(f, S) = SumFunctionOnSet(f, T) + SumFunctionOnSet(f, S \ T)
    BY <1>3, SumSplit
<1> QED
    BY <1>2, <1>4

\* Each of them is no more than their sum.
LEMMA SumMember ==
    ASSUME NEW S, IsFiniteSet(S), NEW x \in S, NEW f, \A y \in S : f[y] \in Nat
    PROVE  f[x] <= SumFunctionOnSet(f, S)
<1>1. \A y \in S : f[y] \in Int
    OBVIOUS
<1>2. SumFunctionOnSet(f, S) = f[x] + SumFunctionOnSet(f, S \ {x})
    BY <1>1, SumRemove
<1>3. IsFiniteSet(S \ {x})
    BY FS_Subset
<1>4. SumFunctionOnSet(f, S \ {x}) \in Nat
    BY <1>3, SumNat
<1> QED
    BY <1>2, <1>4

\* Smaller numbers have a smaller sum.
LEMMA SumLess ==
    ASSUME NEW S, IsFiniteSet(S), NEW f, NEW g,
           \A x \in S : f[x] \in Int /\ g[x] \in Int /\ f[x] <= g[x]
    PROVE  SumFunctionOnSet(f, S) <= SumFunctionOnSet(g, S)
<1> DEFINE d == [x \in S |-> g[x] - f[x]]
<1>1. \A x \in S : f[x] \in Int /\ d[x] \in Int /\ g[x] = f[x] + d[x] /\ d[x] \in Nat
    OBVIOUS
<1> HIDE DEF d
<1>2. SumFunctionOnSet(g, S) = SumFunctionOnSet(f, S) + SumFunctionOnSet(d, S)
    BY <1>1, SumPlus
<1>3. SumFunctionOnSet(d, S) \in Nat /\ SumFunctionOnSet(f, S) \in Int
    BY <1>1, SumNat, SumType
<1> QED
    BY <1>2, <1>3

\* What is added up may be renamed.
LEMMA SumRename ==
    ASSUME NEW S, IsFiniteSet(S), NEW h, \A x, y \in S : h[x] = h[y] => x = y,
           NEW f, NEW g, \A x \in S : f[x] \in Int /\ g[h[x]] = f[x]
    PROVE  /\ IsFiniteSet({h[x] : x \in S})
           /\ SumFunctionOnSet(g, {h[x] : x \in S}) = SumFunctionOnSet(f, S)
<1> DEFINE Image(U) == {h[x] : x \in U}
           P == {U \in SUBSET S : /\ IsFiniteSet(Image(U))
                                  /\ SumFunctionOnSet(g, Image(U)) = SumFunctionOnSet(f, U)}
<1>1. ASSUME NEW T \in SUBSET S, \A U \in SUBSET T : U # T => U \in P
      PROVE  T \in P
    <2>1. IsFiniteSet(T)
        BY FS_Subset
    <2>2. CASE T = {}
        <3>1. Image(T) = {}
            BY <2>2
        <3>2. IsFiniteSet({})
            BY FS_EmptySet
        <3> QED
            BY <2>2, <3>1, <3>2, SumStep
    <2>3. CASE T # {}
        <3>1. PICK x, U : x = Pick(T) /\ U = T \ {x}
            OBVIOUS
        <3>2. x \in T /\ U \in SUBSET T /\ U # T /\ x \in S /\ T = U \cup {x} /\ x \notin U
            BY <2>3, <3>1, PickIn
        <3>3. IsFiniteSet(Image(U)) /\ SumFunctionOnSet(g, Image(U)) = SumFunctionOnSet(f, U)
            BY <1>1, <3>2
        <3>4. Image(T) = Image(U) \cup {h[x]} /\ h[x] \notin Image(U)
            BY <3>2
        <3>5. \A z \in Image(U) \cup {h[x]} : g[z] \in Int
            BY <3>2
        <3> DEFINE V == Image(U)
                   z == h[x]
        <3>6. IsFiniteSet(V) /\ z \notin V /\ \A y \in V \cup {z} : g[y] \in Int
            BY <3>3, <3>4, <3>5
        <3> HIDE DEF Image, P, V, z
        <3>7. /\ IsFiniteSet(V \cup {z})
              /\ SumFunctionOnSet(g, V \cup {z}) = SumFunctionOnSet(g, V) + g[z]
            <4>1. IsFiniteSet(V \cup {z})
                BY <3>6, FS_AddElement
            <4>2. IsFiniteSet(V)
                BY <3>6
            <4>3. z \notin V
                BY <3>6
            <4>4. \A y \in V \cup {z} : g[y] \in Int
                BY <3>6
            <4>5. SumFunctionOnSet(g, V \cup {z}) = SumFunctionOnSet(g, V) + g[z]
                BY ONLY <4>2, <4>3, <4>4, SumAdd, Zenon
            <4> QED
                BY <4>1, <4>5
        <3>8. IsFiniteSet(U) /\ \A y \in U \cup {x} : f[y] \in Int
            BY <2>1, <3>2, FS_Subset
        <3>9. SumFunctionOnSet(f, U \cup {x}) = SumFunctionOnSet(f, U) + f[x]
            <4>1. x \notin U
                BY <3>2
            <4> QED
                BY <3>8, <4>1, SumAdd
        <3>10. g[z] = f[x]
            BY <3>2 DEF z
        <3>11. Image(T) = V \cup {z}
            BY <3>4 DEF V, z
        <3>12. IsFiniteSet(Image(T)) /\ SumFunctionOnSet(g, Image(T)) = SumFunctionOnSet(f, T)
            BY <3>2, <3>3, <3>7, <3>9, <3>10, <3>11 DEF V
        <3> QED
            BY <3>12 DEF P
    <2> QED
        BY <2>2, <2>3
<1>2. ASSUME S \in P
      PROVE  /\ IsFiniteSet({h[x] : x \in S})
             /\ SumFunctionOnSet(g, {h[x] : x \in S}) = SumFunctionOnSet(f, S)
    BY <1>2
<1> HIDE DEF P
<1> QED
    BY <1>1, <1>2, SubsetInduct

\* g[x] is the sum of row x of F, for the rows in S and the columns in T.
AddsRows(g, F, S, T) ==
    /\ \A x \in S, y \in T : F[x][y] \in Int
    /\ \A x \in S : g[x] = SumFunctionOnSet(F[x], T)
\* The rows of G are the columns of F.
Transposed(G, F, S, T) == \A x \in S, y \in T : G[y][x] = F[x][y]

\* Rows first or columns first.
LEMMA SumSwap ==
    ASSUME NEW S, IsFiniteSet(S), NEW T, IsFiniteSet(T),
           NEW F, NEW C, Transposed(C, F, S, T),
           NEW g, AddsRows(g, F, S, T), NEW h, AddsRows(h, C, T, S)
    PROVE  SumFunctionOnSet(g, S) = SumFunctionOnSet(h, T)
<1> USE DEF Transposed, AddsRows
<1> DEFINE k(U) == [y \in T |-> SumFunctionOnSet(C[y], U)]
           P == {U \in SUBSET S : SumFunctionOnSet(g, U) = SumFunctionOnSet(k(U), T)}
<1>0. \A x \in S : g[x] \in Int
    BY SumType
<1>1. ASSUME NEW U \in SUBSET S, \A V \in SUBSET U : V # U => V \in P
      PROVE  U \in P
    <2>1. IsFiniteSet(U)
        BY FS_Subset
    <2>2. CASE U = {}
        <3>1. \A y \in T : k(U)[y] = 0
            BY <2>1, <2>2, SumStep
        <3> DEFINE K == k(U)
        <3>2. \A y \in T : K[y] = 0
            BY <3>1
        <3> HIDE DEF K
        <3>3. SumFunctionOnSet(K, T) = 0
            BY <3>2, SumZero
        <3>4. SumFunctionOnSet(g, U) = 0
            BY <2>1, <2>2, SumStep
        <3> QED
            BY <3>3, <3>4 DEF K
    <2>3. CASE U # {}
        <3>1. PICK x, V : x = Pick(U) /\ V = U \ {x}
            OBVIOUS
        <3>2. x \in U /\ V \in SUBSET U /\ V # U /\ x \in S /\ IsFiniteSet(V)
            BY <2>1, <2>3, <3>1, PickIn, FS_Subset
        <3>3. SumFunctionOnSet(g, V) = SumFunctionOnSet(k(V), T)
            BY <1>1, <3>2
        <3>4. SumFunctionOnSet(g, U) = g[x] + SumFunctionOnSet(g, V)
            BY <2>1, <2>3, <3>1, SumStep
        <3>5. ASSUME NEW y \in T
              PROVE  F[x][y] \in Int /\ k(V)[y] \in Int /\ k(U)[y] = F[x][y] + k(V)[y]
            <4> DEFINE c == C[y]
            <4>1. (\A z \in V : c[z] \in Int) /\ c[x] = F[x][y] /\ F[x][y] \in Int
                BY <3>2
            <4> HIDE DEF c
            <4>2. SumFunctionOnSet(c, V) \in Int
                BY <3>2, <4>1, SumType
            <4>3. SumFunctionOnSet(c, U) = c[x] + SumFunctionOnSet(c, V)
                BY <2>1, <2>3, <3>1, SumStep
            <4> QED
                BY <4>1, <4>2, <4>3 DEF c
        <3> DEFINE K == k(U)
                   L == k(V)
                   G == F[x]
        <3>6. \A y \in T : G[y] \in Int /\ L[y] \in Int /\ K[y] = G[y] + L[y]
            BY <3>5
        <3> HIDE DEF K, L, G
        <3>7. SumFunctionOnSet(K, T) = SumFunctionOnSet(G, T) + SumFunctionOnSet(L, T)
            BY <3>6, SumPlus
        <3> QED
            BY <3>2, <3>3, <3>4, <3>7 DEF K, L, G
    <2> QED
        BY <2>2, <2>3
<1>2. ASSUME S \in P PROVE SumFunctionOnSet(g, S) = SumFunctionOnSet(h, T)
    <2> DEFINE K == k(S)
    <2>1. \A y \in T : K[y] = h[y]
        OBVIOUS
    <2>2. SumFunctionOnSet(g, S) = SumFunctionOnSet(K, T)
        BY <1>2
    <2> HIDE DEF K, P
    <2> QED
        BY <2>1, <2>2, SumSame
<1> HIDE DEF P
<1> QED
    BY <1>1, <1>2, SubsetInduct

\* A sum over pairs.
LEMMA SumPairs ==
    ASSUME NEW S, IsFiniteSet(S), NEW T, IsFiniteSet(T),
           NEW F, NEW f, \A x \in S, y \in T : f[<<x, y>>] = F[x][y],
           NEW g, AddsRows(g, F, S, T)
    PROVE  SumFunctionOnSet(f, S \X T) = SumFunctionOnSet(g, S)
<1> USE DEF AddsRows
<1> DEFINE P == {U \in SUBSET S : /\ IsFiniteSet(U \X T)
                                  /\ SumFunctionOnSet(f, U \X T) = SumFunctionOnSet(g, U)}
<1>1. ASSUME NEW U \in SUBSET S, \A V \in SUBSET U : V # U => V \in P
      PROVE  U \in P
    <2>1. IsFiniteSet(U)
        BY FS_Subset
    <2>2. CASE U = {}
        <3>1. U \X T = {} /\ IsFiniteSet({})
            BY <2>2, FS_EmptySet
        <3> QED
            BY <2>2, <3>1, SumStep
    <2>3. CASE U # {}
        <3>1. PICK x, V : x = Pick(U) /\ V = U \ {x}
            OBVIOUS
        <3>2. x \in U /\ V \in SUBSET U /\ V # U /\ x \in S /\ IsFiniteSet(V)
            BY <2>1, <2>3, <3>1, PickIn, FS_Subset
        <3>3. IsFiniteSet(V \X T) /\ SumFunctionOnSet(f, V \X T) = SumFunctionOnSet(g, V)
            BY <1>1, <3>2
        <3>4. SumFunctionOnSet(g, U) = g[x] + SumFunctionOnSet(g, V)
            BY <2>1, <2>3, <3>1, SumStep
        <3> DEFINE h == [y \in T |-> <<x, y>>]
                   e == F[x]
                   R == {h[y] : y \in T}
        <3>5. /\ \A y, z \in T : h[y] = h[z] => y = z
              /\ \A y \in T : e[y] \in Int /\ f[h[y]] = e[y]
            BY <3>2
        <3>6. U \X T = (V \X T) \cup R /\ (V \X T) \cap R = {}
            BY <3>1, <3>2
        <3>7. g[x] = SumFunctionOnSet(e, T)
            BY <3>2
        <3>8. \A z \in U \X T : f[z] \in Int
            BY <3>2
        <3>9. R = {h[y] : y \in T}
            OBVIOUS
        <3> HIDE DEF h, e, R
        <3>10. IsFiniteSet(R) /\ SumFunctionOnSet(f, R) = SumFunctionOnSet(e, T)
            BY ONLY <3>5, <3>9, IsFiniteSet(T), SumRename
        <3> DEFINE W == U \X T
                   X == V \X T
        <3>11. IsFiniteSet(W) /\ X \in SUBSET W /\ W \ X = R /\ \A z \in W : f[z] \in Int
            <4>1. IsFiniteSet(X) /\ IsFiniteSet(R) /\ W = X \cup R
                BY <3>3, <3>6, <3>10
            <4>2. IsFiniteSet(W)
                <5> HIDE DEF W, X
                <5> QED
                    BY <4>1, FS_Union
            <4>3. W \ X = R /\ X \in SUBSET W
                BY <3>6, <4>1
            <4> QED
                BY <3>8, <4>2, <4>3
        <3>12. SumFunctionOnSet(f, X) = SumFunctionOnSet(g, V) /\ IsFiniteSet(X)
            BY <3>3
        <3>15. W = U \X T
            OBVIOUS
        <3> HIDE DEF W, X
        <3>13. SumFunctionOnSet(f, W) = SumFunctionOnSet(f, X) + SumFunctionOnSet(f, R)
            BY <3>11, SumSplit
        <3>14. SumFunctionOnSet(f, X) \in Int /\ SumFunctionOnSet(f, R) \in Int
            <4>1. X \subseteq W /\ R \subseteq W
                BY <3>11
            <4>2. \A z \in X : f[z] \in Int
                BY <3>11, <4>1
            <4>3. \A z \in R : f[z] \in Int
                BY <3>11, <4>1
            <4> QED
                BY <3>10, <3>12, <4>2, <4>3, SumType
        <3>16. SumFunctionOnSet(f, W) = SumFunctionOnSet(g, U)
            BY <3>4, <3>7, <3>10, <3>12, <3>13, <3>14
        <3> QED
            BY <3>11, <3>15, <3>16
    <2> QED
        BY <2>2, <2>3
<1>2. ASSUME S \in P PROVE SumFunctionOnSet(f, S \X T) = SumFunctionOnSet(g, S)
    BY <1>2
<1> HIDE DEF P
<1> QED
    BY <1>1, <1>2, SubsetInduct

=============================================================================
