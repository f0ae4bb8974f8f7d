-------------------------- MODULE SettlementsProofs --------------------------
(***************************************************************************)
(* Proofs about settlements, for any number of transactions, batches,      *)
(* lines, invoices, payments and advances: what is finalized is what was   *)
(* reviewed, no payment is settled beyond its amount, an invoice is        *)
(* SETTLED exactly when its sources are final, and nothing deadlocks if    *)
(* the age of receivables orders invoices as their ids do.                 *)
(***************************************************************************)
EXTENDS Settlements, SumTheorems, SequenceTheorems, TLAPS

-----------------------------------------------------------------------------
(* The invariant.                                                          *)

Claims(x) == x.have \cup Range(x.want)
Full(i)   == Covered(i) = TotalOf[i]

\* The rows are what the transactions have made of them: nothing leads to a payment
\* that does not exist, no invoice is covered beyond its total, and one that counts
\* as paid is covered in full.
RowsOK ==
    /\ \A q \in Payments \ received :
          /\ \A i \in Invoices : alloc[i][q] = 0
          /\ \A a \in DOMAIN advances : advances[a].payment # q
          /\ \A b \in Batches : q \notin Matched(Lines(b))
    /\ \A a \in Advances \ DOMAIN advances : used[a] = None
    /\ \A i \in Invoices : Covered(i) <= TotalOf[i]
    /\ \A i \in Invoices : status[i] \in {"PAID", "SETTLED"} => Full(i)

\* No row is locked twice, and no payment is collected twice.
Exclusive ==
    \A s, t \in Slots : s # t /\ Open(s) /\ Open(t) => tx[s].have \cap tx[t].have = {}
PaysOnce ==
    \A s, t \in Slots : /\ s # t /\ Open(s) /\ Open(t)
                        /\ tx[s].op.kind = "PAY" /\ tx[t].op.kind = "PAY"
                       => tx[s].op.payment # tx[t].op.payment

\* What an open transaction relies on.  It claims every row that it will change, and
\* what it has read of the rows it holds is still so when it commits: a finalization
\* has its batch as it was reviewed, and knows every invoice that its payments reach.
FinalizeOK(x) ==
    LET b == x.op.batch
        Q == Matched(Lines(b))
    IN  /\ x.phase # "READ"
        /\ batch[b].state # None
        /\ batch[b].version >= x.op.view.version
        /\ batch[b].version = x.op.view.version => batch[b] = x.op.view
        /\ b \in Claims(x)
        /\ x.phase # "BATCH" =>
              /\ b \in x.have /\ batch[b] = x.op.view /\ batch[b].state = "DRAFT"
              /\ None \notin Q /\ x.found \subseteq Claims(x)
        /\ x.phase \in {"PAYMENTS", "ADVANCES", "COMMIT"} => Q \subseteq Claims(x)
        /\ x.phase \in {"ADVANCES", "COMMIT"} => Q \subseteq x.have /\ Funded(Q) \subseteq Claims(x)
        /\ x.phase = "COMMIT" =>
              /\ x.want = <<>> /\ Capacity(b) /\ Discover(Q) \subseteq x.found
              /\ x.verdict = {i \in x.found : status[i] = "PAID" /\ AllFinal(i, Finalized \cup {b})}

PayOK(x) ==
    LET q == x.op.payment
    IN  /\ x.phase \in {"READ", "COMMIT"}
        /\ q \notin received \cup DOMAIN Inherited
        /\ Range(x.op.targets) \cup {Account} \subseteq Claims(x)
        /\ x.phase = "COMMIT" =>
              /\ x.want = <<>>
              /\ x.verdict \in [Invoices -> [amount : Nat, status : Statuses]]
              /\ \A i \in Invoices : x.verdict[i].amount > 0 =>
                    /\ i \in x.have
                    /\ x.verdict[i].amount <= Room(i)
                    /\ x.verdict[i].status = StatusWith(i, x.verdict[i].amount, q)

ApplyOK(x) ==
    LET a == x.op.advance
        i == x.op.invoice
    IN  /\ x.phase \in {"READ", "COMMIT"}
        /\ a \in DOMAIN advances
        /\ {i, Account, a} \subseteq Claims(x)
        /\ x.phase = "COMMIT" =>
              /\ x.want = <<>> /\ used[a] = None /\ advances[a].amount <= Room(i)
              /\ x.verdict = StatusWith(i, advances[a].amount, advances[a].payment)

ConvertOK(x) ==
    x.phase = "COMMIT" /\ x.op.payment \in received /\ {Account, x.op.payment} \subseteq Claims(x)
RefundOK(x) ==
    x.phase = "COMMIT" /\ x.op.advance \in DOMAIN advances /\ {Account, x.op.advance} \subseteq Claims(x)

CancelOK(x) ==
    LET i == x.op.invoice
    IN  /\ x.phase \in {"READ", "COMMIT"}
        /\ {i, Account} \subseteq Claims(x)
        /\ x.phase = "COMMIT" =>
              /\ {i, Account} \subseteq x.have /\ SourcesOf(i) \subseteq Claims(x)
              /\ Len(advances) + Cardinality(Releases(i)) <= MaxAdvances

ReconcileOK(x) ==
    LET i == x.op.invoice
    IN  /\ x.phase \in {"READ", "COMMIT"} /\ Full(i)
        /\ x.phase = "COMMIT" => i \in Claims(x) /\ AllFinal(i, Finalized)

TxOK(x) ==
    /\ x.op.kind = "FINALIZE" => FinalizeOK(x)
    /\ x.op.kind = "PAY" => PayOK(x)
    /\ x.op.kind = "APPLY" => ApplyOK(x)
    /\ x.op.kind = "CONVERT" => ConvertOK(x)
    /\ x.op.kind = "REFUND" => RefundOK(x)
    /\ x.op.kind = "CANCEL" => CancelOK(x)
    /\ x.op.kind = "RECONCILE" => ReconcileOK(x)
TxsOK == \A s \in Slots : Open(s) => TxOK(tx[s])

IInv == TypeOK /\ RowsOK /\ Exclusive /\ PaysOnce /\ TxsOK /\ NeverOversettled /\ PromotionIsExact

-----------------------------------------------------------------------------
(* Sequences made of sets.                                                 *)

Lower(S, key, x) == {y \in S : key[y] < key[x]}

\* An element with a smaller key has fewer elements below it.
LEMMA LowerGrows ==
    ASSUME NEW S, IsFiniteSet(S), NEW key, \A x \in S : key[x] \in Nat,
           NEW x \in S, NEW y \in S, key[x] < key[y]
    PROVE  Cardinality(Lower(S, key, x)) < Cardinality(Lower(S, key, y))
<1> DEFINE L == Lower(S, key, x)
           M == Lower(S, key, y)
<1>1. L \cup {x} \subseteq M /\ x \notin L /\ L \subseteq S /\ M \subseteq S
    BY DEF Lower
<1> HIDE DEF L, M
<1>2. IsFiniteSet(L) /\ IsFiniteSet(M)
    BY <1>1, FS_Subset
<1>3. Cardinality(L \cup {x}) = Cardinality(L) + 1
    BY <1>1, <1>2, FS_AddElement
<1>4. Cardinality(L \cup {x}) <= Cardinality(M)
    BY <1>1, <1>2, FS_Subset
<1>5. Cardinality(L) \in Nat /\ Cardinality(M) \in Nat
    BY <1>2, FS_CardinalityType
<1>6. Cardinality(L) < Cardinality(M)
    BY <1>3, <1>4, <1>5
<1> QED
    BY <1>6 DEF L, M

\* The members of a set in the order of their keys.
LEMMA SortedIs ==
    ASSUME NEW S, IsFiniteSet(S), NEW key, \A x \in S : key[x] \in Nat,
           \A x, y \in S : key[x] = key[y] => x = y
    PROVE  /\ Sorted(S, key) \in Seq(S) /\ Range(Sorted(S, key)) = S
           /\ \A j, k \in DOMAIN Sorted(S, key) : j < k =>
                 key[Sorted(S, key)[j]] < key[Sorted(S, key)[k]]
<1>1. PICK n : n = Cardinality(S)
    OBVIOUS
<1>2. n \in Nat
    BY <1>1, FS_CardinalityType
<1> DEFINE rank == [x \in S |-> Cardinality(Lower(S, key, x))]
<1>3. \A x \in S : rank[x] \in 0..(n - 1)
    <2> SUFFICES ASSUME NEW x \in S PROVE rank[x] \in 0..(n - 1)
        OBVIOUS
    <2>1. Lower(S, key, x) \in SUBSET (S \ {x})
        BY DEF Lower
    <2>2. IsFiniteSet(S \ {x}) /\ Cardinality(S \ {x}) = n - 1
        BY <1>1, FS_RemoveElement
    <2>3. PICK T : T = Lower(S, key, x)
        OBVIOUS
    <2>4. IsFiniteSet(T) /\ Cardinality(T) <= n - 1
        BY <2>1, <2>2, <2>3, FS_Subset
    <2>5. Cardinality(T) \in Nat
        BY <2>4, FS_CardinalityType
    <2> QED
        BY <1>2, <2>3, <2>4, <2>5
<1>4. \A x, y \in S : key[x] < key[y] => rank[x] < rank[y]
    BY LowerGrows
<1>5. rank \in Injection(S, 0..(n - 1))
    <2>1. \A x, y \in S : rank[x] = rank[y] => x = y
        <3> SUFFICES ASSUME NEW x \in S, NEW y \in S, rank[x] = rank[y], x # y PROVE FALSE
            OBVIOUS
        <3>1. key[x] < key[y] \/ key[y] < key[x]
            OBVIOUS
        <3>2. rank[x] \in Int /\ rank[y] \in Int
            BY <1>3
        <3> QED
            BY <1>4, <3>1, <3>2
    <2>2. rank \in [S -> 0..(n - 1)] /\ DOMAIN rank = S
        BY <1>3
    <2> QED
        BY <2>1, <2>2, Zenon DEF Injection, IsInjective
<1>6. rank \in Surjection(S, 0..(n - 1))
    <2>1. IsFiniteSet(0..(n - 1)) /\ Cardinality(0..(n - 1)) = n
        BY <1>2, FS_Interval, 0 \in Int, n - 1 \in Int
    <2> HIDE DEF rank
    <2> QED
        BY <1>1, <1>5, <2>1, FS_Injection
<1>7. \A k \in 1..n : \E x \in S : rank[x] = k - 1
    <2>1. \A m \in 0..(n - 1) : \E x \in S : rank[x] = m
        BY <1>6, Zenon DEF Surjection
    <2> QED
        BY <1>2, <2>1
<1>8. PICK w : w = Sorted(S, key)
    OBVIOUS
<1>9. /\ \A k \in 1..n : \E x \in S : Cardinality({y \in S : key[y] < key[x]}) = k - 1
      /\ \A x \in S : rank[x] = Cardinality({y \in S : key[y] < key[x]})
    BY <1>7 DEF Lower
<1> HIDE DEF rank
<1>10. /\ w \in [1..n -> S]
       /\ \A k \in 1..n : w[k] \in S /\ rank[w[k]] = k - 1
    <2> DEFINE Nth(k) == CHOOSE x \in S : Cardinality({y \in S : key[y] < key[x]}) = k - 1
    <2>1. w = [k \in 1..n |-> Nth(k)]
        BY <1>1, <1>8, Zenon DEF Sorted
    <2>2. \A k \in 1..n : Nth(k) \in S /\ rank[Nth(k)] = k - 1
        <3> SUFFICES ASSUME NEW k \in 1..n PROVE Nth(k) \in S /\ rank[Nth(k)] = k - 1
            OBVIOUS
        <3>1. Nth(k) \in S /\ Cardinality({y \in S : key[y] < key[Nth(k)]}) = k - 1
            BY <1>9, Zenon
        <3> HIDE DEF Nth
        <3> QED
            BY <1>9, <3>1
    <2> HIDE DEF Nth
    <2> QED
        BY <2>1, <2>2
<1>11. w \in Seq(S) /\ DOMAIN w = 1..n
    BY <1>2, <1>10
<1>12. \A j, k \in 1..n : j < k => key[w[j]] < key[w[k]]
    <2> SUFFICES ASSUME NEW j \in 1..n, NEW k \in 1..n, j < k PROVE key[w[j]] < key[w[k]]
        OBVIOUS
    <2>1. w[j] \in S /\ w[k] \in S /\ rank[w[j]] = j - 1 /\ rank[w[k]] = k - 1
        BY <1>10
    <2>2. j \in Int /\ k \in Int
        BY <1>2
    <2>3. ~(key[w[k]] < key[w[j]]) /\ w[j] # w[k]
        BY <1>4, <2>1, <2>2
    <2>4. key[w[j]] \in Nat /\ key[w[k]] \in Nat /\ key[w[j]] # key[w[k]]
        BY <2>1, <2>3
    <2> QED
        BY <2>3, <2>4
<1>13. Range(w) = S
    <2>1. \A x \in S : \E k \in 1..n : w[k] = x
        <3> SUFFICES ASSUME NEW x \in S PROVE \E k \in 1..n : w[k] = x
            OBVIOUS
        <3>1. PICK k \in 1..n : k = rank[x] + 1
            BY <1>2, <1>3
        <3>2. w[k] \in S /\ rank[w[k]] = rank[x]
            BY <1>2, <1>3, <1>10, <3>1
        <3>3. w[k] = x
            BY <1>5, <3>2, Zenon DEF Injection, IsInjective
        <3> QED
            BY <3>3
    <2> QED
        BY <1>10, <1>11, <2>1 DEF Range
<1> QED
    BY <1>8, <1>11, <1>12, <1>13

\* A finite set put in some order.
LEMMA Listed ==
    ASSUME NEW S, IsFiniteSet(S)
    PROVE  /\ SetToSeq(S) \in Seq(S) /\ Len(SetToSeq(S)) = Cardinality(S)
           /\ Cardinality(S) \in Nat
<1>1. PICK n : n = Cardinality(S)
    OBVIOUS
<1>2. n \in Nat /\ ExistsBijection(1..n, S)
    BY <1>1, FS_CardinalityType
<1>3. \E f \in [1..n -> S] : IsInjective(f)
    BY <1>2 DEF ExistsBijection, Bijection, Injection
<1>4. PICK w : w = SetToSeq(S)
    OBVIOUS
<1>5. w \in [1..n -> S]
    BY <1>1, <1>3, <1>4 DEF SetToSeq
<1>6. w \in Seq(S) /\ Len(w) = n
    BY <1>2, <1>5
<1> QED
    BY <1>1, <1>2, <1>4, <1>6

-----------------------------------------------------------------------------
(* The constants.                                                          *)

\* The sets that are added over are finite.
LEMMA Finite ==
    /\ IsFiniteSet(Slots) /\ IsFiniteSet(Batches) /\ IsFiniteSet(Invoices)
    /\ IsFiniteSet(Payments) /\ IsFiniteSet(Advances)
    BY SettlementsAssumption, FS_Interval DEF SettlementsAssumption, Advances

\* Totals and amounts are numbers, a payment is of more than nothing and has a tender.
LEMMA Amounts ==
    /\ \A i \in Invoices : TotalOf[i] \in Nat
    /\ \A q \in Payments : AmountOf[q] \in Nat /\ AmountOf[q] > 0
    /\ \A q \in Payments : MethodOf[q] \in Methods
    BY SettlementsAssumption DEF SettlementsAssumption

\* No row is of two kinds.
LEMMA KindsOfRows ==
    /\ \A b \in Batches : b \notin Invoices /\ b # Account /\ b \notin Payments /\ b \notin Advances
    /\ \A i \in Invoices : i # Account /\ i \notin Payments /\ i \notin Advances /\ i # "REFUNDED" /\ i # None
    /\ \A q \in Payments : q # Account /\ q \notin Advances /\ q # None
    /\ Account \notin Advances /\ None # "DRAFT" /\ None # "FINALIZED" /\ None # "REFUNDED"
    /\ None \notin Transactions
    BY SettlementsAssumption DEF SettlementsAssumption

\* Everything that is locked is a row.
LEMMA RowKinds ==
    /\ Batches \subseteq Rows /\ Invoices \subseteq Rows /\ Account \in Rows
    /\ Payments \subseteq Rows /\ Advances \subseteq Rows
    BY DEF Rows

-----------------------------------------------------------------------------
(* What batches settle.                                                    *)

\* What a batch of these lines settles of payment q.
PartOf(lines, q) == Total(lines, {k \in DOMAIN lines : lines[k].match = q})

\* What the batches in B settle of payment q, when the rows are bt.
SettledIn(bt, q, B) == SumFunctionOnSet([b \in B |-> PartOf(bt[b].lines, q)], B)

\* What batches settle, as a function of the batches' rows alone, before and after a step.
LEMMA SettledByIs ==
    ASSUME NEW q, NEW B
    PROVE  SettledBy(q, B) = SettledIn(batch, q, B) /\ SettledBy(q, B)' = SettledIn(batch', q, B)
    BY DEF SettledBy, SettledIn, PartOf, Lines, SumFunction

\* What lines settle of a payment is a number, and nothing if no line is matched to it.
LEMMA PartNat ==
    ASSUME NEW lines \in Seq(LineRows), NEW q
    PROVE  PartOf(lines, q) \in Nat /\ (q \notin Matched(lines) => PartOf(lines, q) = 0)
<1> DEFINE S == {k \in DOMAIN lines : lines[k].match = q}
           f == [k \in S |-> lines[k].amount]
<1>1. IsFiniteSet(S)
    <2>1. IsFiniteSet(1..Len(lines))
        BY FS_Interval, 1 \in Int, Len(lines) \in Int
    <2> QED
        BY <2>1, FS_Subset, S \subseteq 1..Len(lines)
<1>2. \A k \in S : f[k] \in Nat
    <2>1. \A k \in DOMAIN lines : lines[k] \in LineRows
        OBVIOUS
    <2>2. \A x \in LineRows : x.amount \in Nat
        BY DEF LineRows
    <2> QED
        BY <2>1, <2>2
<1>3. PartOf(lines, q) = SumFunctionOnSet(f, S)
    BY DEF PartOf, Total, SumFunction
<1>4. q \notin Matched(lines) => \A k \in S : f[k] = 0
    BY DEF Matched
<1> HIDE DEF f, S
<1>5. SumFunctionOnSet(f, S) \in Nat
    BY <1>1, <1>2, SumNat
<1>6. q \notin Matched(lines) => SumFunctionOnSet(f, S) = 0
    BY <1>1, <1>4, SumZero
<1> QED
    BY <1>3, <1>5, <1>6

\* So is what batches settle.
LEMMA SettledNat ==
    ASSUME NEW B \in SUBSET Batches, NEW bt, \A b \in B : bt[b].lines \in Seq(LineRows), NEW q
    PROVE  SettledIn(bt, q, B) \in Nat
<1> DEFINE f == [b \in B |-> PartOf(bt[b].lines, q)]
<1>1. \A b \in B : f[b] \in Nat
    BY PartNat
<1>2. IsFiniteSet(B)
    BY Finite, FS_Subset
<1> HIDE DEF f
<1>3. SumFunctionOnSet(f, B) \in Nat
    BY <1>1, <1>2, SumNat
<1> QED
    BY <1>3 DEF f, SettledIn

\* Lines that are the same settle the same.
LEMMA SettledSame ==
    ASSUME NEW B \in SUBSET Batches, NEW bt, NEW ct, \A b \in B : bt[b].lines = ct[b].lines, NEW q
    PROVE  SettledIn(bt, q, B) = SettledIn(ct, q, B)
    BY DEF SettledIn

\* One more batch.
LEMMA SettledAdd ==
    ASSUME NEW B \in SUBSET Batches, NEW b \in Batches \ B, NEW q,
           NEW bt, \A c \in Batches : bt[c].lines \in Seq(LineRows)
    PROVE  SettledIn(bt, q, B \cup {b}) = SettledIn(bt, q, B) + PartOf(bt[b].lines, q)
<1> DEFINE f == [c \in B \cup {b} |-> PartOf(bt[c].lines, q)]
           g == [c \in B |-> PartOf(bt[c].lines, q)]
<1>1. \A c \in B \cup {b} : f[c] \in Nat
    BY PartNat
<1>2. IsFiniteSet(B)
    BY Finite, FS_Subset
<1>3. (\A c \in B : f[c] = g[c]) /\ f[b] = PartOf(bt[b].lines, q) /\ b \notin B
    OBVIOUS
<1>4. /\ SettledIn(bt, q, B \cup {b}) = SumFunctionOnSet(f, B \cup {b})
      /\ SettledIn(bt, q, B) = SumFunctionOnSet(g, B)
    BY DEF SettledIn
<1> HIDE DEF f, g
<1>5. SumFunctionOnSet(f, B) = SumFunctionOnSet(g, B)
    BY <1>2, <1>3, SumSame
<1>6. \A c \in B \cup {b} : f[c] \in Int
    BY <1>1
<1>7. SumFunctionOnSet(f, B \cup {b}) = SumFunctionOnSet(f, B) + f[b]
    BY <1>2, <1>3, <1>6, SumAdd
<1> QED
    BY <1>3, <1>4, <1>5, <1>7

-----------------------------------------------------------------------------
(* What the rows say.                                                      *)

FinalizedIn(bt) == {b \in Batches : bt[b].state = "FINALIZED"}

\* What finalized batches settle of payment q.
Settled(q) == SettledBy(q, Finalized)

\* What the finalized batches settle, in the same terms.
LEMMA SettledIs ==
    ASSUME NEW q
    PROVE  /\ Settled(q) = SettledIn(batch, q, FinalizedIn(batch))
           /\ Settled(q)' = SettledIn(batch', q, FinalizedIn(batch'))
    BY DEF Settled, Finalized, FinalizedIn, SettledBy, SettledIn, PartOf, Lines, SumFunction

\* What they settle together with one more.
LEMMA SettledWithIs ==
    ASSUME NEW q, NEW b
    PROVE  /\ SettledBy(q, Finalized \cup {b}) = SettledIn(batch, q, FinalizedIn(batch) \cup {b})
           /\ SettledBy(q, Finalized \cup {b})'
                 = SettledIn(batch', q, FinalizedIn(batch') \cup {b})
    BY DEF Finalized, FinalizedIn, SettledBy, SettledIn, PartOf, Lines, SumFunction

\* A batch has lines, a version, and lines matched to payments or to nothing.
LEMMA BatchFacts ==
    ASSUME NEW bt \in [Batches -> BatchRows], NEW b \in Batches
    PROVE  /\ bt[b] \in BatchRows /\ bt[b].lines \in Seq(LineRows) /\ bt[b].version \in Nat
           /\ Matched(bt[b].lines) \subseteq Payments \cup {None}
<1>1. bt[b] \in BatchRows
    OBVIOUS
<1>2. PICK lines : lines = bt[b].lines
    OBVIOUS
<1>3. lines \in Seq(LineRows) /\ bt[b].version \in Nat
    BY <1>1, <1>2 DEF BatchRows
<1>4. \A k \in DOMAIN lines : lines[k] \in LineRows
    BY <1>3
<1>5. \A x \in LineRows : x.match \in Payments \cup {None}
    BY DEF LineRows
<1>6. Matched(lines) \subseteq Payments \cup {None}
    BY <1>4, <1>5 DEF Matched
<1> QED
    BY <1>1, <1>2, <1>3, <1>6

\* Batches that are rows settle a number.
LEMMA SettledIsNat ==
    ASSUME NEW bt \in [Batches -> BatchRows], NEW q, NEW B \in SUBSET Batches
    PROVE  SettledIn(bt, q, B) \in Nat
    BY BatchFacts, SettledNat

\* A draft adds what it settles itself.
LEMMA DraftAdds ==
    ASSUME NEW bt \in [Batches -> BatchRows], NEW b \in Batches, bt[b].state = "DRAFT", NEW q
    PROVE  SettledIn(bt, q, FinalizedIn(bt) \cup {b})
              = SettledIn(bt, q, FinalizedIn(bt)) + PartOf(bt[b].lines, q)
<1>1. FinalizedIn(bt) \in SUBSET Batches /\ b \in Batches \ FinalizedIn(bt)
    BY DEF FinalizedIn
<1>2. \A c \in Batches : bt[c].lines \in Seq(LineRows)
    BY BatchFacts
<1> HIDE DEF FinalizedIn
<1> QED
    BY <1>1, <1>2, SettledAdd

\* An advance has a number, a payment and an amount.
LEMMA AdvanceFacts ==
    ASSUME TypeOK
    PROVE  /\ DOMAIN advances = 1..Len(advances) /\ Len(advances) \in Nat
           /\ \A a \in DOMAIN advances : /\ a \in Advances /\ advances[a].payment \in Payments
                                         /\ advances[a].amount \in Nat /\ advances[a].amount > 0
<1>1. advances \in Seq(AdvanceRows) /\ Len(advances) <= MaxAdvances
    BY DEF TypeOK
<1>2. MaxAdvances \in Nat
    BY SettlementsAssumption DEF SettlementsAssumption
<1>3. DOMAIN advances = 1..Len(advances) /\ Len(advances) \in Nat
    BY <1>1
<1>4. \A a \in DOMAIN advances : advances[a] \in AdvanceRows
    BY <1>1
<1>5. \A x \in AdvanceRows : x.payment \in Payments /\ x.amount \in Nat /\ x.amount > 0
    BY DEF AdvanceRows
<1> QED
    BY <1>1, <1>2, <1>3, <1>4, <1>5 DEF Advances

\* The sources of an invoice are payments.
LEMMA SourcesType ==
    ASSUME TypeOK, NEW i
    PROVE  SourcesOf(i) \in SUBSET Payments
    BY AdvanceFacts DEF SourcesOf, AppliedTo

\* A payment that leads somewhere exists.
LEMMA Exists ==
    ASSUME TypeOK, RowsOK
    PROVE  /\ \A i \in Invoices : SourcesOf(i) \subseteq received
           /\ \A a \in DOMAIN advances : advances[a].payment \in received
           /\ \A b \in Batches : Matched(Lines(b)) \subseteq received \cup {None}
<1>1. \A q \in Payments \ received :
          /\ \A i \in Invoices : alloc[i][q] = 0
          /\ \A a \in DOMAIN advances : advances[a].payment # q
          /\ \A b \in Batches : q \notin Matched(Lines(b))
    BY DEF RowsOK
<1>2. \A a \in DOMAIN advances : advances[a].payment \in Payments
    BY AdvanceFacts
<1>3. \A b \in Batches : Matched(Lines(b)) \subseteq Payments \cup {None}
    BY BatchFacts DEF TypeOK, Lines
<1>4. \A i \in Invoices : SourcesOf(i) \subseteq received
    BY <1>1, <1>2 DEF SourcesOf, AppliedTo
<1> QED
    BY <1>1, <1>2, <1>3, <1>4

-----------------------------------------------------------------------------
(* What a transaction may do to the rows.                                  *)

\* A step of a transaction that holds the rows in H leaves to the others what they
\* rely on.  Batches, invoices and the account it does not hold stay as they are; it
\* adds no advance of a payment it does not hold and no coverage of an invoice that is
\* paid; what it settles are payments it holds, and it holds all that they reach.
Frame(H) ==
    /\ \A b \in Batches :
          \/ batch'[b] = batch[b] \/ batch[b].state = None
          \/ b \in H /\ batch'[b].state # None /\ batch'[b].version > batch[b].version
    /\ received \subseteq received'
    /\ \A a \in DOMAIN advances : a \in DOMAIN advances' /\ advances'[a] = advances[a]
    /\ Account \notin H => advances' = advances
    /\ \A a \in DOMAIN advances' \ DOMAIN advances : advances'[a].payment \in H
    /\ \A a \in Advances \ H : used'[a] = used[a]
    /\ \A i \in Invoices \ H : /\ status'[i] = status[i] /\ Covered(i)' = Covered(i)
                               /\ SourcesOf(i)' = SourcesOf(i) /\ Releases(i)' = Releases(i)
    /\ \A i \in Invoices : \A q \in SourcesOf(i)' \ SourcesOf(i) :
          q \notin received \/ \E a \in DOMAIN advances \cap H : advances[a].payment = q
    /\ \A i \in Invoices : Full(i) => Full(i)' /\ SourcesOf(i)' = SourcesOf(i)
    /\ \A q \in Payments :
          \/ Settled(q)' = Settled(q)
          \/ /\ q \in H /\ q \in received
             /\ PaymentFinal(q, Finalized) => PaymentFinal(q, Finalized)'
             /\ \A a \in DOMAIN advances \ H : advances[a].payment # q
             /\ \A i \in Invoices \ H : q \notin SourcesOf(i)

\* A payment that is settled as much as before is as final as before.
LEMMA FinalSame ==
    ASSUME NEW q \in Payments, Settled(q)' = Settled(q)
    PROVE  PaymentFinal(q, Finalized)' <=> PaymentFinal(q, Finalized)
    BY DEF PaymentFinal, Settled

\* So it is with a draft that has not changed.
LEMMA DraftSame ==
    ASSUME TypeOK, TypeOK', NEW b \in Batches, batch[b].state = "DRAFT", batch'[b] = batch[b],
           NEW q \in Payments, Settled(q)' = Settled(q)
    PROVE  /\ SettledBy(q, Finalized \cup {b})' = SettledBy(q, Finalized \cup {b})
           /\ PaymentFinal(q, Finalized \cup {b})' <=> PaymentFinal(q, Finalized \cup {b})
<1>1. batch \in [Batches -> BatchRows] /\ batch' \in [Batches -> BatchRows]
    BY DEF TypeOK
<1>2. /\ Settled(q) = SettledIn(batch, q, FinalizedIn(batch))
      /\ Settled(q)' = SettledIn(batch', q, FinalizedIn(batch'))
    BY SettledIs
<1>3. SettledBy(q, Finalized \cup {b}) = SettledIn(batch, q, FinalizedIn(batch) \cup {b})
    BY SettledWithIs
<1>4. SettledBy(q, Finalized \cup {b})' = SettledIn(batch', q, FinalizedIn(batch') \cup {b})
    BY SettledWithIs
<1>5. /\ SettledIn(batch, q, FinalizedIn(batch) \cup {b})
            = SettledIn(batch, q, FinalizedIn(batch)) + PartOf(batch[b].lines, q)
      /\ SettledIn(batch', q, FinalizedIn(batch') \cup {b})
            = SettledIn(batch', q, FinalizedIn(batch')) + PartOf(batch'[b].lines, q)
    BY <1>1, DraftAdds
<1>6. SettledBy(q, Finalized \cup {b})' = SettledBy(q, Finalized \cup {b})
    BY <1>2, <1>3, <1>4, <1>5
<1>7. PaymentFinal(q, Finalized \cup {b})' <=> PaymentFinal(q, Finalized \cup {b})
    BY <1>6 DEF PaymentFinal
<1> QED
    BY <1>6, <1>7

\* An invoice with the same sources, settled as before, is as final as before.
LEMMA AllSame ==
    ASSUME TypeOK, NEW i, SourcesOf(i)' = SourcesOf(i),
           \A q \in SourcesOf(i) : Settled(q)' = Settled(q)
    PROVE  AllFinal(i, Finalized)' <=> AllFinal(i, Finalized)
<1>1. SourcesOf(i) \subseteq Payments
    BY SourcesType
<1>2. \A q \in SourcesOf(i) : PaymentFinal(q, Finalized)' <=> PaymentFinal(q, Finalized)
    BY <1>1, FinalSame
<1> QED
    BY <1>2 DEF AllFinal

\* The sources of an invoice stay final with a draft that stays as it is, if what is
\* settled of them stays.
LEMMA AllSameWithDraft ==
    ASSUME TypeOK, TypeOK', NEW b \in Batches, batch[b].state = "DRAFT", batch'[b] = batch[b],
           NEW i, SourcesOf(i)' = SourcesOf(i), \A q \in SourcesOf(i) : Settled(q)' = Settled(q)
    PROVE  AllFinal(i, Finalized \cup {b})' <=> AllFinal(i, Finalized \cup {b})
<1>1. SourcesOf(i) \subseteq Payments
    BY SourcesType
<1>2. \A q \in SourcesOf(i) :
         PaymentFinal(q, Finalized \cup {b})' <=> PaymentFinal(q, Finalized \cup {b})
    BY <1>1, DraftSame
<1> QED
    BY <1>2 DEF AllFinal

\* The status that coverage gives an invoice stays, if the invoice and what is settled of
\* its sources stay.
LEMMA StatusSame ==
    ASSUME TypeOK, NEW i, NEW n, NEW p \in Payments,
           status'[i] = status[i], Covered(i)' = Covered(i), SourcesOf(i)' = SourcesOf(i),
           \A q \in SourcesOf(i) \cup {p} : Settled(q)' = Settled(q)
    PROVE  StatusWith(i, n, p)' = StatusWith(i, n, p)
<1>1. AllFinal(i, Finalized)' <=> AllFinal(i, Finalized)
    BY AllSame
<1>2. PaymentFinal(p, Finalized)' <=> PaymentFinal(p, Finalized)
    BY FinalSame
<1> QED
    BY <1>1, <1>2 DEF StatusWith

\* What a request is about.
LEMMA RequestFacts ==
    ASSUME NEW r \in Requests
    PROVE  /\ r.kind = "FINALIZE" => r.batch \in Batches /\ r.view \in BatchRows
           /\ r.kind = "PAY" => r.payment \in Payments /\ r.targets \in Seq(Invoices)
           /\ r.kind = "APPLY" => r.advance \in Advances /\ r.invoice \in Invoices
           /\ r.kind = "CONVERT" => r.payment \in Payments
           /\ r.kind = "REFUND" => r.advance \in Advances
           /\ r.kind \in {"CANCEL", "RECONCILE"} => r.invoice \in Invoices
           /\ r.kind \in {"FINALIZE", "PAY", "APPLY", "CONVERT", "REFUND", "CANCEL", "RECONCILE"}
    BY DEF Requests

\* The parts of an open transaction are of their types.
LEMMA TransactionFacts ==
    ASSUME NEW x \in Transactions
    PROVE  /\ x.op \in Requests /\ x.phase \in Phases /\ x.want \in Seq(Rows)
           /\ x.have \in SUBSET Rows /\ x.found \in SUBSET Invoices /\ x.verdict \in Verdicts
           /\ x # None
    BY KindsOfRows DEF Transactions

\* What is not of a row that others hold stays for an invoice that they do not hold.
LEMMA AlikeInvoice ==
    ASSUME TypeOK, NEW H, Frame(H), NEW i \in Invoices, i \notin H
    PROVE  /\ status'[i] = status[i] /\ Covered(i)' = Covered(i)
           /\ SourcesOf(i)' = SourcesOf(i) /\ Releases(i)' = Releases(i)
           /\ \A q \in SourcesOf(i) : Settled(q)' = Settled(q)
<1>1. SourcesOf(i) \subseteq Payments
    BY SourcesType
<1> QED
    BY <1>1 DEF Frame

\* A transaction that wants nothing more holds all it claims.
LEMMA Claimed == ASSUME NEW x, x.want = <<>> PROVE Claims(x) = x.have
    BY DEF Claims, Range

\* What an application of an advance relies on.
LEMMA ApplyStays ==
    ASSUME TypeOK, NEW H, Frame(H), NEW x \in Transactions, x.op.kind = "APPLY",
           ApplyOK(x), x.have \cap H = {}
    PROVE  ApplyOK(x)'
<1>1. PICK a : a = x.op.advance
    OBVIOUS
<1>2. PICK i : i = x.op.invoice
    OBVIOUS
<1>3. a \in Advances /\ i \in Invoices
    BY <1>1, <1>2, RequestFacts, TransactionFacts
<1>4. /\ x.phase \in {"READ", "COMMIT"} /\ a \in DOMAIN advances /\ {i, Account, a} \subseteq Claims(x)
      /\ x.phase = "COMMIT" =>
            /\ x.want = <<>> /\ used[a] = None /\ advances[a].amount <= Room(i)
            /\ x.verdict = StatusWith(i, advances[a].amount, advances[a].payment)
    BY <1>1, <1>2 DEF ApplyOK
<1>5. a \in DOMAIN advances' /\ advances'[a] = advances[a]
    BY <1>4 DEF Frame
<1>6. ASSUME x.phase = "COMMIT"
      PROVE  /\ used'[a] = None /\ advances'[a].amount <= Room(i)'
             /\ x.verdict = StatusWith(i, advances[a].amount, advances[a].payment)'
    <2>1. a \in x.have /\ i \in x.have
        BY <1>4, <1>6, Claimed
    <2>2. a \notin H /\ i \notin H
        BY <2>1
    <2>3. used'[a] = None
        BY <1>3, <1>4, <1>6, <2>2 DEF Frame
    <2>4. /\ status'[i] = status[i] /\ Covered(i)' = Covered(i) /\ SourcesOf(i)' = SourcesOf(i)
          /\ \A q \in SourcesOf(i) : Settled(q)' = Settled(q)
        BY <1>3, <2>2, AlikeInvoice
    <2>5. PICK p \in Payments : p = advances[a].payment
        BY <1>4, AdvanceFacts
    <2>6. Settled(p)' = Settled(p)
        BY <1>4, <2>2, <2>5 DEF Frame
    <2>7. PICK n : n = advances[a].amount
        OBVIOUS
    <2>8. StatusWith(i, n, p)' = StatusWith(i, n, p)
        BY <2>4, <2>6, StatusSame
    <2>9. Room(i)' = Room(i)
        BY <2>4 DEF Room
    <2>10. advances'[a].amount = n /\ advances'[a].payment = p
        BY <1>5, <2>5, <2>7
    <2>11. x.verdict = StatusWith(i, n, p)'
        BY <1>4, <1>6, <2>5, <2>7, <2>8
    <2> QED
        BY <1>4, <1>6, <2>3, <2>7, <2>9, <2>10, <2>11
<1> QED
    BY <1>1, <1>2, <1>4, <1>5, <1>6 DEF ApplyOK, Claims

\* What a payment relies on: that nobody else collects it, above all.
LEMMA PayStays ==
    ASSUME TypeOK, NEW H, Frame(H), NEW x \in Transactions, x.op.kind = "PAY",
           PayOK(x), x.have \cap H = {}, x.op.payment \notin received'
    PROVE  PayOK(x)'
<1>1. PICK q : q = x.op.payment
    OBVIOUS
<1>2. q \in Payments
    BY <1>1, RequestFacts, TransactionFacts
<1>3. /\ x.phase \in {"READ", "COMMIT"} /\ q \notin received \cup DOMAIN Inherited
      /\ Range(x.op.targets) \cup {Account} \subseteq Claims(x)
      /\ x.phase = "COMMIT" =>
            /\ x.want = <<>>
            /\ x.verdict \in [Invoices -> [amount : Nat, status : Statuses]]
            /\ \A i \in Invoices : x.verdict[i].amount > 0 =>
                  /\ i \in x.have
                  /\ x.verdict[i].amount <= Room(i)
                  /\ x.verdict[i].status = StatusWith(i, x.verdict[i].amount, q)
    BY <1>1 DEF PayOK
<1>4. Settled(q)' = Settled(q)
    BY <1>2, <1>3 DEF Frame
<1>5. ASSUME x.phase = "COMMIT", NEW i \in Invoices, x.verdict[i].amount > 0
      PROVE  /\ i \in x.have
             /\ x.verdict[i].amount <= Room(i)'
             /\ x.verdict[i].status = StatusWith(i, x.verdict[i].amount, q)'
    <2>1. i \in x.have /\ i \notin H
        BY <1>3, <1>5
    <2>2. /\ status'[i] = status[i] /\ Covered(i)' = Covered(i) /\ SourcesOf(i)' = SourcesOf(i)
          /\ \A p \in SourcesOf(i) : Settled(p)' = Settled(p)
        BY <2>1, AlikeInvoice
    <2>3. PICK n : n = x.verdict[i].amount
        OBVIOUS
    <2>4. StatusWith(i, n, q)' = StatusWith(i, n, q)
        BY <1>2, <1>4, <2>2, StatusSame
    <2>5. Room(i)' = Room(i)
        BY <2>2 DEF Room
    <2> QED
        BY <1>3, <1>5, <2>1, <2>3, <2>4, <2>5
<1>6. x.phase = "COMMIT" =>
         \A i \in Invoices : x.verdict[i].amount > 0 =>
            /\ i \in x.have
            /\ x.verdict[i].amount <= Room(i)'
            /\ x.verdict[i].status = StatusWith(i, x.verdict[i].amount, q)'
    BY <1>5
<1>7. q \notin received' \cup DOMAIN Inherited
    BY <1>1, <1>3
<1> QED
    BY <1>1, <1>3, <1>6, <1>7 DEF PayOK, Claims

\* A conversion's knowledge outlives the commits of others.
LEMMA ConvertStays ==
    ASSUME NEW H, Frame(H), NEW x, ConvertOK(x)
    PROVE  ConvertOK(x)'
    BY DEF Frame, ConvertOK, Claims

\* So does a refund's.
LEMMA RefundStays ==
    ASSUME NEW H, Frame(H), NEW x, RefundOK(x)
    PROVE  RefundOK(x)'
    BY DEF Frame, RefundOK, Claims

\* What a cancellation relies on: that the coverage it releases fits.
LEMMA CancelStays ==
    ASSUME TypeOK, NEW H, Frame(H), NEW x \in Transactions, x.op.kind = "CANCEL",
           CancelOK(x), x.have \cap H = {}
    PROVE  CancelOK(x)'
<1>1. PICK i : i = x.op.invoice
    OBVIOUS
<1>2. i \in Invoices
    BY <1>1, RequestFacts, TransactionFacts
<1>3. /\ x.phase \in {"READ", "COMMIT"} /\ {i, Account} \subseteq Claims(x)
      /\ x.phase = "COMMIT" =>
            /\ {i, Account} \subseteq x.have /\ SourcesOf(i) \subseteq Claims(x)
            /\ Len(advances) + Cardinality(Releases(i)) <= MaxAdvances
    BY <1>1 DEF CancelOK
<1>4. ASSUME x.phase = "COMMIT"
      PROVE  /\ SourcesOf(i)' = SourcesOf(i) /\ Releases(i)' = Releases(i) /\ advances' = advances
    <2>1. i \notin H /\ Account \notin H
        BY <1>3, <1>4
    <2> QED
        BY <1>2, <2>1 DEF Frame
<1>5. x.phase = "COMMIT" =>
         /\ {i, Account} \subseteq x.have /\ SourcesOf(i)' \subseteq Claims(x)
         /\ Len(advances') + Cardinality(Releases(i)') <= MaxAdvances
    BY <1>3, <1>4
<1> QED
    BY <1>1, <1>3, <1>5 DEF CancelOK, Claims

\* What is final for an invoice with the same sources is final for it after a step.
LEMMA StaysFinal ==
    ASSUME TypeOK, NEW H, Frame(H), NEW i, SourcesOf(i)' = SourcesOf(i), AllFinal(i, Finalized)
    PROVE  AllFinal(i, Finalized)'
<1>1. SourcesOf(i) \subseteq Payments
    BY SourcesType
<1>2. \A q \in SourcesOf(i) : PaymentFinal(q, Finalized)
    BY DEF AllFinal
<1>3. \A q \in SourcesOf(i) : PaymentFinal(q, Finalized)'
    <2> SUFFICES ASSUME NEW q \in SourcesOf(i) PROVE PaymentFinal(q, Finalized)'
        OBVIOUS
    <2>1. q \in Payments /\ PaymentFinal(q, Finalized)
        BY <1>1, <1>2
    <2>2. CASE Settled(q)' = Settled(q)
        BY <2>1, <2>2, FinalSame
    <2>3. CASE Settled(q)' # Settled(q)
        BY <2>1, <2>3 DEF Frame
    <2> QED
        BY <2>2, <2>3
<1> QED
    BY <1>3 DEF AllFinal

\* What the reconciliation relies on without a lock: that an invoice which is covered
\* in full by final payments stays so.
LEMMA ReconcileStays ==
    ASSUME TypeOK, NEW H, Frame(H), NEW x \in Transactions, x.op.kind = "RECONCILE", ReconcileOK(x)
    PROVE  ReconcileOK(x)'
<1>1. PICK i : i = x.op.invoice
    OBVIOUS
<1>2. i \in Invoices
    BY <1>1, RequestFacts, TransactionFacts
<1>3. /\ x.phase \in {"READ", "COMMIT"} /\ Full(i)
      /\ x.phase = "COMMIT" => i \in Claims(x) /\ AllFinal(i, Finalized)
    BY <1>1 DEF ReconcileOK
<1>4. Full(i)' /\ SourcesOf(i)' = SourcesOf(i)
    BY <1>2, <1>3 DEF Frame
<1>5. AllFinal(i, Finalized) => AllFinal(i, Finalized)'
    BY <1>4, StaysFinal
<1> QED
    BY <1>1, <1>3, <1>4, <1>5 DEF ReconcileOK, Claims

\* What a finalization relies on.
LEMMA FinalizeStays ==
    ASSUME TypeOK, TypeOK', RowsOK, NEW H, Frame(H), NEW x \in Transactions, x.op.kind = "FINALIZE",
           FinalizeOK(x), x.have \cap H = {}
    PROVE  FinalizeOK(x)'
<1>1. PICK b : b = x.op.batch
    OBVIOUS
<1>2. PICK Q : Q = Matched(Lines(b))
    OBVIOUS
<1>3. PICK v : v = x.op.view
    OBVIOUS
<1>4. b \in Batches /\ v \in BatchRows /\ x.found \subseteq Invoices
    BY <1>1, <1>3, RequestFacts, TransactionFacts
<1>5. /\ x.phase # "READ" /\ batch[b].state # None
      /\ batch[b].version >= v.version
      /\ batch[b].version = v.version => batch[b] = v
      /\ b \in Claims(x)
    BY <1>1, <1>3 DEF FinalizeOK
<1>6. x.phase # "BATCH" =>
         /\ b \in x.have /\ batch[b] = v /\ batch[b].state = "DRAFT"
         /\ None \notin Q /\ x.found \subseteq Claims(x)
    BY <1>1, <1>2, <1>3 DEF FinalizeOK
<1>7. /\ x.phase \in {"PAYMENTS", "ADVANCES", "COMMIT"} => Q \subseteq Claims(x)
      /\ x.phase \in {"ADVANCES", "COMMIT"} => Q \subseteq x.have /\ Funded(Q) \subseteq Claims(x)
    BY <1>1, <1>2 DEF FinalizeOK
<1>8. x.phase = "COMMIT" =>
         /\ x.want = <<>> /\ Capacity(b) /\ Discover(Q) \subseteq x.found
         /\ x.verdict = {i \in x.found : status[i] = "PAID" /\ AllFinal(i, Finalized \cup {b})}
    BY <1>1, <1>2 DEF FinalizeOK
<1>9. /\ batch'[b].state # None /\ batch'[b].version >= v.version
      /\ batch'[b].version = v.version => batch'[b] = v
    <2>1. batch[b].version \in Nat /\ batch'[b].version \in Nat /\ v.version \in Nat
        BY <1>4, BatchFacts DEF TypeOK, BatchRows
    <2>2. CASE batch'[b] = batch[b]
        BY <1>5, <2>2
    <2>3. CASE batch'[b].state # None /\ batch'[b].version > batch[b].version
        BY <1>5, <2>1, <2>3
    <2> QED
        BY <1>4, <1>5, <2>2, <2>3 DEF Frame
<1>10. x.phase # "BATCH" => batch'[b] = batch[b] /\ Matched(Lines(b))' = Q
    BY <1>2, <1>4, <1>5, <1>6 DEF Frame, Lines, Matched
<1>11. x.phase \in {"ADVANCES", "COMMIT"} => Funded(Q)' = Funded(Q)
    <2>1. x.phase \in {"ADVANCES", "COMMIT"} => Q \cap H = {}
        BY <1>7
    <2> QED
        BY <2>1 DEF Frame, Funded
<1>12. ASSUME x.phase = "COMMIT"
       PROVE  /\ Capacity(b)' /\ Discover(Q)' \subseteq x.found
              /\ x.verdict = {i \in x.found : status'[i] = "PAID" /\ AllFinal(i, Finalized \cup {b})'}
    <2>1. /\ b \in x.have /\ Q \subseteq x.have /\ Funded(Q) \subseteq x.have /\ x.found \subseteq x.have
        BY <1>5, <1>6, <1>7, <1>8, <1>12, Claimed
    <2>2. b \notin H /\ Q \cap H = {} /\ Funded(Q) \cap H = {} /\ x.found \cap H = {}
        BY <2>1
    <2>3. batch'[b] = batch[b] /\ batch[b].state = "DRAFT" /\ None \notin Q /\ Matched(Lines(b))' = Q
        BY <1>6, <1>10, <1>12
    <2>4. Q \subseteq Payments /\ Q \subseteq received
        <3>1. Q \subseteq received \cup {None}
            BY <1>2, <1>4, Exists
        <3> QED
            BY <2>3, <3>1 DEF TypeOK
    <2>5. \A q \in Q : Settled(q)' = Settled(q)
        BY <2>2, <2>4 DEF Frame
    <2>6. \A q \in Q : SettledBy(q, Finalized \cup {b})' <= AmountOf[q]
        <3>1. \A q \in Q : SettledBy(q, Finalized \cup {b})' = SettledBy(q, Finalized \cup {b})
            BY <1>4, <2>3, <2>4, <2>5, DraftSame
        <3>2. \A q \in Q : SettledBy(q, Finalized \cup {b}) <= AmountOf[q]
            BY <1>2, <1>8, <1>12 DEF Capacity
        <3> QED
            BY <3>1, <3>2
    <2>7. Capacity(b)'
        BY <2>3, <2>6 DEF Capacity
    <2>8. \A i \in Invoices : SourcesOf(i)' \cap Q # {} => SourcesOf(i) \cap Q # {}
        <3> SUFFICES ASSUME NEW i \in Invoices, NEW q \in SourcesOf(i)', q \in Q
                     PROVE  SourcesOf(i) \cap Q # {}
            OBVIOUS
        <3>1. CASE q \in SourcesOf(i)
            BY <3>1
        <3>2. CASE q \notin SourcesOf(i)
            <4>1. q \in received
                BY <2>4
            <4>2. PICK a \in DOMAIN advances \cap H : advances[a].payment = q
                BY <3>2, <4>1 DEF Frame
            <4>3. a \in Funded(Q)
                BY <4>2 DEF Funded
            <4> QED
                BY <2>2, <4>2, <4>3
        <3> QED
            BY <3>1, <3>2
    <2>9. Discover(Q)' \subseteq x.found
        BY <1>8, <1>12, <2>8 DEF Discover
    <2>10. \A i \in x.found : /\ status'[i] = status[i]
                              /\ AllFinal(i, Finalized \cup {b})' <=> AllFinal(i, Finalized \cup {b})
        <3> SUFFICES ASSUME NEW i \in x.found
                     PROVE  /\ status'[i] = status[i]
                            /\ AllFinal(i, Finalized \cup {b})' <=> AllFinal(i, Finalized \cup {b})
            OBVIOUS
        <3>1. i \in Invoices /\ i \notin H
            BY <1>4, <2>2
        <3>2. /\ status'[i] = status[i] /\ SourcesOf(i)' = SourcesOf(i)
              /\ \A q \in SourcesOf(i) : Settled(q)' = Settled(q)
            BY <3>1, AlikeInvoice
        <3>3. AllFinal(i, Finalized \cup {b})' <=> AllFinal(i, Finalized \cup {b})
            BY <1>4, <2>3, <3>2, AllSameWithDraft
        <3> QED
            BY <3>2, <3>3
    <2>11. x.verdict = {i \in x.found : status'[i] = "PAID" /\ AllFinal(i, Finalized \cup {b})'}
        BY <1>8, <1>12, <2>10
    <2> QED
        BY <2>7, <2>9, <2>11
<1> QED
    BY <1>1, <1>2, <1>3, <1>5, <1>6, <1>7, <1>8, <1>9, <1>10, <1>11, <1>12 DEF FinalizeOK, Claims

\* So does any transaction's, as long as the rows it holds are not among those that others
\* write.
LEMMA TxStays ==
    ASSUME TypeOK, TypeOK', RowsOK, NEW H, Frame(H), NEW x \in Transactions, TxOK(x), x.have \cap H = {},
           x.op.kind = "PAY" => x.op.payment \notin received'
    PROVE  TxOK(x)'
<1>1. x.op.kind \in {"FINALIZE", "PAY", "APPLY", "CONVERT", "REFUND", "CANCEL", "RECONCILE"}
    BY RequestFacts, TransactionFacts
<1>2. CASE x.op.kind = "FINALIZE"
    BY <1>2, FinalizeStays DEF TxOK
<1>3. CASE x.op.kind = "PAY"
    BY <1>3, PayStays DEF TxOK
<1>4. CASE x.op.kind = "APPLY"
    BY <1>4, ApplyStays DEF TxOK
<1>5. CASE x.op.kind = "CONVERT"
    BY <1>5, ConvertStays DEF TxOK
<1>6. CASE x.op.kind = "REFUND"
    BY <1>6, RefundStays DEF TxOK
<1>7. CASE x.op.kind = "CANCEL"
    BY <1>7, CancelStays DEF TxOK
<1>8. CASE x.op.kind = "RECONCILE"
    BY <1>8, ReconcileStays DEF TxOK
<1> QED
    BY <1>1, <1>2, <1>3, <1>4, <1>5, <1>6, <1>7, <1>8

-----------------------------------------------------------------------------
(* Steps that change no row.                                               *)

Quiet == UNCHANGED <<batch, status, money>>

\* A step that writes no row changes no coverage, no source and nothing that is settled.
LEMMA QuietRows ==
    ASSUME Quiet, NEW i, NEW q
    PROVE  /\ Settled(q)' = Settled(q) /\ Covered(i)' = Covered(i) /\ SourcesOf(i)' = SourcesOf(i)
           /\ Releases(i)' = Releases(i) /\ (PaymentFinal(q, Finalized)' <=> PaymentFinal(q, Finalized))
           /\ (AllFinal(i, Finalized)' <=> AllFinal(i, Finalized))
<1>1. /\ batch' = batch /\ status' = status /\ alloc' = alloc /\ received' = received
      /\ advances' = advances /\ used' = used
    BY DEF Quiet, money
<1>2. \A p : Settled(p)' = Settled(p)
    <2> SUFFICES ASSUME NEW p PROVE Settled(p)' = Settled(p)
        OBVIOUS
    <2>1. /\ Settled(p) = SettledIn(batch, p, FinalizedIn(batch))
          /\ Settled(p)' = SettledIn(batch', p, FinalizedIn(batch'))
        BY SettledIs
    <2> QED
        BY <1>1, <2>1
<1>3. Covered(i)' = Covered(i)
    BY <1>1 DEF Covered, Allocated, AppliedTo
<1>4. SourcesOf(i)' = SourcesOf(i) /\ Releases(i)' = Releases(i)
    BY <1>1 DEF SourcesOf, Releases, AppliedTo
<1>5. \A p : PaymentFinal(p, Finalized)' <=> PaymentFinal(p, Finalized)
    BY <1>2 DEF PaymentFinal, Settled
<1>6. AllFinal(i, Finalized)' <=> AllFinal(i, Finalized)
    BY <1>4, <1>5 DEF AllFinal
<1> QED
    BY <1>2, <1>3, <1>4, <1>5, <1>6

\* It writes nothing of any row.
LEMMA QuietFrame ==
    ASSUME Quiet, NEW H
    PROVE  Frame(H)
<1>1. /\ batch' = batch /\ status' = status /\ alloc' = alloc /\ received' = received
      /\ advances' = advances /\ used' = used
    BY DEF Quiet, money
<1>2. \A i : /\ Covered(i)' = Covered(i) /\ SourcesOf(i)' = SourcesOf(i) /\ Releases(i)' = Releases(i)
             /\ Full(i)' <=> Full(i)
    BY QuietRows DEF Full
<1>3. \A q : Settled(q)' = Settled(q)
    BY QuietRows
<1> QED
    BY <1>1, <1>2, <1>3 DEF Frame

\* It leaves what every transaction knows.
LEMMA QuietTx ==
    ASSUME TypeOK, TypeOK', RowsOK, Quiet, NEW x \in Transactions, TxOK(x)
    PROVE  TxOK(x)'
<1>1. Frame({})
    BY QuietFrame
<1>2. x.op.kind = "PAY" => x.op.payment \notin received'
    BY DEF TxOK, PayOK, Quiet, money
<1> QED
    BY <1>1, <1>2, TxStays

\* What the rows are by themselves.
Books == RowsOK /\ NeverOversettled /\ PromotionIsExact

\* It leaves the books as they are.
LEMMA QuietBooks ==
    ASSUME Books, Quiet
    PROVE  Books'
<1>1. /\ batch' = batch /\ status' = status /\ alloc' = alloc /\ received' = received
      /\ advances' = advances /\ used' = used
    BY DEF Quiet, money
<1>2. RowsOK'
    <2>1. \A i \in Invoices : Covered(i)' <= TotalOf[i] /\ (status'[i] \in {"PAID", "SETTLED"} => Full(i)')
        BY <1>1, QuietRows DEF Books, RowsOK, Full
    <2> QED
        BY <1>1, <2>1 DEF Books, RowsOK, Lines, Matched
<1>3. NeverOversettled'
    BY QuietRows DEF Books, NeverOversettled, Settled
<1>4. PromotionIsExact'
    <2> SUFFICES ASSUME NEW i \in Invoices
                 PROVE  /\ status'[i] = "SETTLED" => Covered(i)' = TotalOf[i] /\ AllFinal(i, Finalized)'
                        /\ status'[i] = "PAID" /\ SourcesOf(i)' \cap DOMAIN Inherited = {}
                              => ~AllFinal(i, Finalized)'
        BY DEF PromotionIsExact
    <2>1. /\ status[i] = "SETTLED" => Covered(i) = TotalOf[i] /\ AllFinal(i, Finalized)
          /\ status[i] = "PAID" /\ SourcesOf(i) \cap DOMAIN Inherited = {} => ~AllFinal(i, Finalized)
        BY DEF Books, PromotionIsExact
    <2>2. /\ Covered(i)' = Covered(i) /\ SourcesOf(i)' = SourcesOf(i)
          /\ (AllFinal(i, Finalized)' <=> AllFinal(i, Finalized))
        BY QuietRows
    <2> QED
        BY <1>1, <2>1, <2>2
<1> QED
    BY <1>2, <1>3, <1>4 DEF Books

-----------------------------------------------------------------------------
(* Steps of one transaction among the others.                              *)

\* What the other transactions hold, and what they collect, is theirs.
Apart(s, y) ==
    \A u \in Slots \ {s} : Open(u) =>
       /\ y.have \cap tx[u].have = {}
       /\ y.op.kind = "PAY" /\ tx[u].op.kind = "PAY" => y.op.payment # tx[u].op.payment

\* A step of transaction s, which becomes y, keeps the invariant when it is a step that
\* the others can bear and when y has what it relies on.
LEMMA StepKeeps ==
    ASSUME IInv, TypeOK', Books', NEW s \in Slots, NEW y \in Transactions \cup {None},
           tx' = [tx EXCEPT ![s] = y], y # None => TxOK(y)' /\ Apart(s, y),
           NEW H, Frame(H),
           \A u \in Slots \ {s} : Open(u) => /\ tx[u].have \cap H = {}
                                             /\ tx[u].op.kind = "PAY" => tx[u].op.payment \notin received'
    PROVE  IInv'
<1>1. TypeOK /\ RowsOK /\ Exclusive /\ PaysOnce /\ TxsOK /\ tx \in [Slots -> Transactions \cup {None}]
    BY DEF IInv, TypeOK
<1>2. tx'[s] = y /\ \A u \in Slots \ {s} : tx'[u] = tx[u]
    BY <1>1
<1>3. TxsOK'
    <2> SUFFICES ASSUME NEW u \in Slots, Open(u)' PROVE TxOK(tx[u])'
        BY DEF TxsOK
    <2>1. CASE u = s
        <3>1. y # None /\ tx'[u] = y
            BY <1>2, <2>1 DEF Open
        <3>2. TxOK(y)'
            BY <3>1
        <3> QED
            BY <3>1, <3>2
    <2>2. CASE u # s
        <3>1. tx'[u] = tx[u] /\ Open(u)
            BY <1>2, <2>2 DEF Open
        <3>2. PICK x \in Transactions : x = tx[u]
            BY <1>1, <3>1 DEF Open
        <3>3. TxOK(x)
            BY <1>1, <3>1, <3>2 DEF TxsOK
        <3>4. x.have \cap H = {} /\ (x.op.kind = "PAY" => x.op.payment \notin received')
            BY <2>2, <3>1, <3>2
        <3>5. TxOK(x)'
            BY <1>1, <3>3, <3>4, TxStays
        <3>6. tx'[u] = x
            BY <3>1, <3>2
        <3> QED
            BY <3>5, <3>6
    <2> QED
        BY <2>1, <2>2
<1>4. Exclusive'
    <2> SUFFICES ASSUME NEW t \in Slots, NEW u \in Slots, t # u, Open(t)', Open(u)'
                 PROVE  tx'[t].have \cap tx'[u].have = {}
        BY DEF Exclusive
    <2>1. CASE t = s
        BY <1>2, <2>1 DEF Open, Apart
    <2>2. CASE u = s
        BY <1>2, <2>2 DEF Open, Apart
    <2>3. CASE t # s /\ u # s
        BY <1>1, <1>2, <2>3 DEF Open, Exclusive
    <2> QED
        BY <2>1, <2>2, <2>3
<1>5. PaysOnce'
    <2> SUFFICES ASSUME NEW t \in Slots, NEW u \in Slots, t # u, Open(t)', Open(u)',
                        tx'[t].op.kind = "PAY", tx'[u].op.kind = "PAY"
                 PROVE  tx'[t].op.payment # tx'[u].op.payment
        BY DEF PaysOnce
    <2>1. CASE t = s
        BY <1>2, <2>1 DEF Open, Apart
    <2>2. CASE u = s
        BY <1>2, <2>2 DEF Open, Apart
    <2>3. CASE t # s /\ u # s
        BY <1>1, <1>2, <2>3 DEF Open, PaysOnce
    <2> QED
        BY <2>1, <2>2, <2>3
<1> QED
    BY <1>3, <1>4, <1>5 DEF IInv, Books

\* The books are part of the invariant.
LEMMA BooksHold == ASSUME IInv PROVE Books /\ TypeOK
    BY DEF IInv, Books

\* A step that changes no row.
LEMMA QuietKeeps ==
    ASSUME IInv, Quiet, NEW s \in Slots, NEW y \in Transactions \cup {None},
           tx' = [tx EXCEPT ![s] = y], y # None => TxOK(y) /\ Apart(s, y)
    PROVE  IInv'
<1>1. TypeOK /\ RowsOK /\ Books /\ TxsOK /\ PaysOnce
    BY BooksHold DEF IInv
<1>2. TypeOK'
    BY <1>1 DEF TypeOK, Quiet, money
<1>3. Books'
    BY <1>1, QuietBooks
<1>4. Frame({})
    BY QuietFrame
<1>5. y # None => TxOK(y)' /\ Apart(s, y)
    BY <1>1, <1>2, QuietTx
<1>6. \A u \in Slots \ {s} : Open(u) => /\ tx[u].have \cap {} = {}
                                        /\ tx[u].op.kind = "PAY" => tx[u].op.payment \notin received'
    BY <1>1 DEF TxsOK, TxOK, PayOK, Quiet, money
<1> QED
    BY <1>2, <1>3, <1>4, <1>5, <1>6, StepKeeps

\* A transaction that holds no more than before, or one more row that is free.
LEMMA ApartStays ==
    ASSUME IInv, NEW s \in Slots, Open(s), NEW y, y.op = tx[s].op,
           \A r \in y.have : r \in tx[s].have \/ Holder(r) \subseteq {s}
    PROVE  Apart(s, y)
    BY DEF Apart, IInv, Exclusive, PaysOnce, Holder

\* A rollback keeps the invariant.
LEMMA RollbackKeeps ==
    ASSUME IInv, NEW s \in Slots, Rollback(s)
    PROVE  IInv'
<1>1. Quiet /\ tx' = [tx EXCEPT ![s] = None]
    BY DEF Rollback, End, Quiet
<1> QED
    BY <1>1, QuietKeeps

\* A new transaction.
LEMMA OpenedIs ==
    ASSUME NEW op \in Requests, NEW phase \in Phases, NEW want \in Seq(Rows), NEW have \in SUBSET Rows
    PROVE  LET y == Opened(op, phase, want, have)
           IN  y \in Transactions /\ y.op = op /\ y.phase = phase /\ y.want = want /\ y.have = have
    BY DEF Opened, Transactions, Verdicts

\* The head of a sequence and the members of its tail are its members.
LEMMA HeadAndTail ==
    ASSUME NEW S, NEW w \in Seq(S), w # <<>>
    PROVE  /\ Head(w) \in S /\ Tail(w) \in Seq(S) /\ Head(w) = w[1]
           /\ Range(w) = {Head(w)} \cup Range(Tail(w))
<1>1. Len(w) \in Nat /\ Len(w) > 0 /\ DOMAIN w = 1..Len(w) /\ Head(w) = w[1] /\ Head(w) \in S
    OBVIOUS
<1>2. PICK t : t = Tail(w)
    OBVIOUS
<1>3. t \in Seq(S) /\ Len(t) = Len(w) - 1 /\ \A k \in 1..Len(t) : t[k] = w[k + 1]
    BY <1>2
<1>4. DOMAIN t = 1..Len(t)
    BY <1>3
<1>5. PICK n \in Nat : n = Len(w)
    BY <1>1
<1>6. Range(w) = {w[1]} \cup Range(t)
    <2>1. Range(w) = {w[k] : k \in 1..n} /\ Range(t) = {t[k] : k \in 1..(n - 1)}
        BY <1>1, <1>3, <1>4, <1>5 DEF Range
    <2>2. \A k \in 1..(n - 1) : t[k] = w[k + 1] /\ k + 1 \in 1..n
        BY <1>3, <1>5
    <2>3. \A k \in 2..n : w[k] = t[k - 1] /\ k - 1 \in 1..(n - 1)
        BY <2>2
    <2>4. 1 \in 1..n /\ \A k \in 1..n : k = 1 \/ k \in 2..n
        BY <1>1, <1>5
    <2> QED
        BY ONLY <2>1, <2>2, <2>3, <2>4
<1> QED
    BY <1>1, <1>2, <1>3, <1>6

\* A lock that is granted.
LEMMA LockIs ==
    ASSUME IInv, NEW s \in Slots, Lock(s)
    PROVE  \E x, y \in Transactions :
              /\ x = tx[s] /\ Open(s) /\ x.want # <<>> /\ Holder(Head(x.want)) \subseteq {s}
              /\ Quiet /\ tx' = [tx EXCEPT ![s] = y]
              /\ y.op = x.op /\ y.phase = x.phase /\ y.found = x.found /\ y.verdict = x.verdict
              /\ y.have = x.have \cup {Head(x.want)} /\ y.want = Tail(x.want)
              /\ Claims(y) = Claims(x) /\ x.have \subseteq y.have
<1>1. tx \in [Slots -> Transactions \cup {None}] /\ Quiet
    BY DEF IInv, TypeOK, Lock, Quiet
<1>2. PICK x \in Transactions : x = tx[s]
    BY <1>1 DEF Lock, Open
<1>3. /\ Open(s) /\ x.want # <<>> /\ Holder(Head(x.want)) \subseteq {s}
      /\ tx' = [tx EXCEPT ![s].have = @ \cup {Head(tx[s].want)}, ![s].want = Tail(@)]
    BY <1>2 DEF Lock
<1>4. PICK y : y = [x EXCEPT !.have = @ \cup {Head(x.want)}, !.want = Tail(@)]
    OBVIOUS
<1>5. tx' = [tx EXCEPT ![s] = y]
    BY <1>1, <1>2, <1>3, <1>4 DEF Transactions
<1>6. /\ Head(x.want) \in Rows /\ Tail(x.want) \in Seq(Rows)
      /\ Range(x.want) = {Head(x.want)} \cup Range(Tail(x.want))
    BY <1>3, HeadAndTail, TransactionFacts
<1>7. /\ y \in Transactions /\ y.op = x.op /\ y.phase = x.phase /\ y.found = x.found /\ y.verdict = x.verdict
      /\ y.have = x.have \cup {Head(x.want)} /\ y.want = Tail(x.want)
    BY <1>4, <1>6 DEF Transactions
<1>8. Claims(y) = Claims(x) /\ x.have \subseteq y.have
    BY <1>6, <1>7 DEF Claims
<1> QED
    BY <1>1, <1>2, <1>3, <1>5, <1>7, <1>8

\* Taking a lock keeps the invariant: the rows that a transaction claims are the same.
LEMMA LockKeeps ==
    ASSUME IInv, NEW s \in Slots, Lock(s)
    PROVE  IInv'
<1>1. PICK x, y \in Transactions :
         /\ x = tx[s] /\ Open(s) /\ x.want # <<>> /\ Holder(Head(x.want)) \subseteq {s}
         /\ Quiet /\ tx' = [tx EXCEPT ![s] = y]
         /\ y.op = x.op /\ y.phase = x.phase /\ y.found = x.found /\ y.verdict = x.verdict
         /\ y.have = x.have \cup {Head(x.want)} /\ y.want = Tail(x.want)
         /\ Claims(y) = Claims(x) /\ x.have \subseteq y.have
    BY LockIs
<1>2. TxOK(x)
    BY <1>1 DEF IInv, TxsOK
<1>3. TxOK(y)
    <2>1. FinalizeOK(x) => FinalizeOK(y)
        BY <1>1 DEF FinalizeOK
    <2>2. PayOK(x) => PayOK(y)
        BY <1>1 DEF PayOK
    <2>3. ApplyOK(x) => ApplyOK(y)
        BY <1>1 DEF ApplyOK
    <2>4. (ConvertOK(x) => ConvertOK(y)) /\ (RefundOK(x) => RefundOK(y)) /\ (ReconcileOK(x) => ReconcileOK(y))
        BY <1>1 DEF ConvertOK, RefundOK, ReconcileOK
    <2>5. CancelOK(x) => CancelOK(y)
        BY <1>1 DEF CancelOK
    <2> QED
        BY <1>1, <1>2, <2>1, <2>2, <2>3, <2>4, <2>5 DEF TxOK
<1>4. Apart(s, y)
    BY <1>1, ApartStays
<1> QED
    BY <1>1, <1>3, <1>4, QuietKeeps

\* A transaction goes on with other locks.
LEMMA GoOnKeeps ==
    ASSUME IInv, NEW s \in Slots, Quiet, NEW x \in Transactions, x = tx[s],
           NEW y \in Transactions, tx' = [tx EXCEPT ![s] = y], y.op = x.op, y.have = x.have, TxOK(y)
    PROVE  IInv'
<1>1. Open(s)
    BY TransactionFacts DEF Open
<1>2. Apart(s, y)
    BY <1>1, ApartStays
<1> QED
    BY <1>2, QuietKeeps

\* An open transaction knows what its kind and phase say.
LEMMA Opens ==
    ASSUME IInv, NEW s \in Slots, Open(s)
    PROVE  /\ tx[s] \in Transactions /\ TxOK(tx[s]) /\ TypeOK /\ RowsOK
           /\ tx \in [Slots -> Transactions \cup {None}]
    BY DEF IInv, TypeOK, TxsOK, Open

\* Where a transaction goes on, it is of the kind that it began as.
LEMMA GoOnIs ==
    ASSUME IInv, NEW s \in Slots, NEW x \in Transactions, x = tx[s], NEW phase \in Phases, NEW want \in Seq(Rows),
           GoOn(s, phase, want)
    PROVE  \E y \in Transactions :
              /\ Quiet /\ tx' = [tx EXCEPT ![s] = y]
              /\ y.op = x.op /\ y.have = x.have /\ y.phase = phase /\ y.want = want /\ y.found = x.found
<1>1. tx \in [Slots -> Transactions \cup {None}]
    BY DEF IInv, TypeOK
<1>2. tx' = [tx EXCEPT ![s].phase = phase, ![s].want = want] /\ Quiet
    BY DEF GoOn, Quiet
<1>3. PICK y : y = [x EXCEPT !.phase = phase, !.want = want]
    OBVIOUS
<1>4. /\ y \in Transactions /\ y.op = x.op /\ y.have = x.have /\ y.phase = phase /\ y.want = want
      /\ y.found = x.found
    BY <1>3 DEF Transactions
<1>5. tx' = [tx EXCEPT ![s] = y]
    BY <1>1, <1>2, <1>3 DEF Transactions
<1> QED
    BY <1>2, <1>4, <1>5

-----------------------------------------------------------------------------
(* Finalization, up to its commit.                                         *)

\* A sequence over a set is one over a larger set.
LEMMA SeqOfMore == ASSUME NEW S, NEW T, S \subseteq T, NEW w \in Seq(S) PROVE w \in Seq(T)
    OBVIOUS

\* Invoices or payments in the order of their ids: all of them, once, ascending.
LEMMA AscendingIs ==
    ASSUME NEW S, S \subseteq Invoices \/ S \subseteq Payments
    PROVE  /\ Ascending(S) \in Seq(S) /\ Ascending(S) \in Seq(Rows) /\ Range(Ascending(S)) = S
           /\ \A j, k \in DOMAIN Ascending(S) : j < k => IdOf[Ascending(S)[j]] < IdOf[Ascending(S)[k]]
<1>1. /\ IdOf \in [Invoices \cup Payments -> Nat] /\ IsInjective(IdOf)
    BY SettlementsAssumption DEF SettlementsAssumption
<1>2. IsFiniteSet(S)
    BY Finite, FS_Subset
<1>3. /\ \A x \in S : IdOf[x] \in Nat
      /\ \A x, y \in S : IdOf[x] = IdOf[y] => x = y
    BY <1>1 DEF IsInjective
<1>4. /\ Sorted(S, IdOf) \in Seq(S) /\ Range(Sorted(S, IdOf)) = S
      /\ \A j, k \in DOMAIN Sorted(S, IdOf) : j < k => IdOf[Sorted(S, IdOf)[j]] < IdOf[Sorted(S, IdOf)[k]]
    BY <1>2, <1>3, SortedIs
<1>5. S \subseteq Rows
    BY RowKinds
<1> QED
    BY <1>4, <1>5, SeqOfMore DEF Ascending

\* Advances in the order of their ids: all of them, ascending.
LEMMA SortedAdvances ==
    ASSUME NEW S, S \subseteq Advances
    PROVE  LET w == Sorted(S, [a \in Advances |-> a])
           IN  /\ w \in Seq(Rows) /\ Range(w) = S
               /\ \A j, k \in DOMAIN w : j < k => w[j] < w[k]
<1> DEFINE key == [a \in Advances |-> a]
<1>1. IsFiniteSet(S)
    BY Finite, FS_Subset
<1>2. (\A x \in S : key[x] \in Nat) /\ (\A x, y \in S : key[x] = key[y] => x = y)
    BY SettlementsAssumption DEF SettlementsAssumption, Advances
<1>3. \A a \in S : key[a] = a
    OBVIOUS
<1> HIDE DEF key
<1>4. PICK w \in Seq(S) : /\ w = Sorted(S, key) /\ Range(w) = S
                         /\ \A j, k \in DOMAIN w : j < k => key[w[j]] < key[w[k]]
    BY <1>1, <1>2, SortedIs
<1>5. S \subseteq Rows
    BY RowKinds
<1>6. w \in Seq(Rows)
    BY <1>5, SeqOfMore
<1>7. \A k \in DOMAIN w : w[k] \in S
    OBVIOUS
<1>8. \A j, k \in DOMAIN w : j < k => w[j] < w[k]
    BY <1>3, <1>4, <1>7
<1> QED
    BY <1>4, <1>6, <1>8 DEF key

\* Only finalizations are in the phases of one.
LEMMA FinalizationOf ==
    ASSUME NEW x \in Transactions, TxOK(x), x.phase \in {"BATCH", "INVOICES", "PAYMENTS", "ADVANCES"}
    PROVE  x.op.kind = "FINALIZE" /\ FinalizeOK(x) /\ x.op.batch \in Batches /\ x.op.view \in BatchRows
<1>1. x.op.kind = "FINALIZE"
    BY RequestFacts, TransactionFacts
       DEF TxOK, PayOK, ApplyOK, ConvertOK, RefundOK, CancelOK, ReconcileOK
<1> QED
    BY <1>1, RequestFacts, TransactionFacts DEF TxOK

\* A finalization that has its batch looks up its invoices: the invariant is kept.
LEMMA LockInvoicesKeeps ==
    ASSUME IInv, NEW s \in Slots, LockInvoices(s)
    PROVE  IInv'
<1>1. PICK x \in Transactions : x = tx[s] /\ TxOK(x)
    BY Opens DEF LockInvoices, Ready
<1>2. /\ x.phase = "BATCH" /\ x.want = <<>> /\ tx \in [Slots -> Transactions \cup {None}]
    BY <1>1, Opens DEF LockInvoices, Ready
<1>3. PICK b \in Batches : b = x.op.batch
    BY <1>1, <1>2, FinalizationOf
<1>4. x.op.kind = "FINALIZE" /\ FinalizeOK(x)
    BY <1>1, <1>2, FinalizationOf
<1>5. PICK S : S = Discover(Matched(Lines(b)))
    OBVIOUS
<1>6. CASE Rollback(s)
    BY <1>6, RollbackKeeps
<1>7. CASE /\ Complete(b, x.op.view.version)
           /\ tx' = [tx EXCEPT ![s].phase = "INVOICES", ![s].found = S, ![s].want = Ascending(S)]
           /\ Quiet
    <2>1. S \in SUBSET Invoices
        BY <1>5 DEF Discover
    <2>2. Ascending(S) \in Seq(Rows) /\ Range(Ascending(S)) = S
        BY <2>1, AscendingIs
    <2>3. PICK y : y = [x EXCEPT !.phase = "INVOICES", !.found = S, !.want = Ascending(S)]
        OBVIOUS
    <2>4. /\ y \in Transactions /\ y.op = x.op /\ y.have = x.have
          /\ y.phase = "INVOICES" /\ y.found = S /\ y.want = Ascending(S)
        BY <2>1, <2>2, <2>3 DEF Transactions, Phases
    <2>5. tx' = [tx EXCEPT ![s] = y]
        BY <1>1, <1>2, <1>7, <2>3 DEF Transactions
    <2>6. /\ batch[b].state = "DRAFT" /\ batch[b].version = x.op.view.version
          /\ None \notin Matched(Lines(b))
        BY <1>7 DEF Complete
    <2>7. /\ batch[b] = x.op.view /\ b \in Claims(x) /\ batch[b].state # None
          /\ batch[b].version >= x.op.view.version
        BY <1>3, <1>4, <2>6 DEF FinalizeOK
    <2>8. b \in x.have
        BY <1>2, <2>7, Claimed
    <2>9. FinalizeOK(y)
        BY <1>3, <2>2, <2>4, <2>6, <2>7, <2>8 DEF FinalizeOK, Claims
    <2>10. TxOK(y)
        BY <1>4, <2>4, <2>9 DEF TxOK
    <2> QED
        BY <1>1, <1>7, <2>4, <2>5, <2>10, GoOnKeeps
<1> QED
    BY <1>1, <1>3, <1>5, <1>6, <1>7 DEF LockInvoices, BatchOf, Payees, Quiet

\* When it has its invoices it wants its payments.
LEMMA LockPaymentsKeeps ==
    ASSUME IInv, NEW s \in Slots, LockPayments(s)
    PROVE  IInv'
<1>1. PICK x \in Transactions : x = tx[s] /\ TxOK(x)
    BY Opens DEF LockPayments, Ready
<1>2. x.phase = "INVOICES" /\ x.want = <<>> /\ TypeOK
    BY <1>1, Opens DEF LockPayments, Ready
<1>3. PICK b \in Batches : b = x.op.batch
    BY <1>1, <1>2, FinalizationOf
<1>4. x.op.kind = "FINALIZE" /\ FinalizeOK(x)
    BY <1>1, <1>2, FinalizationOf
<1>5. PICK Q : Q = Matched(Lines(b))
    OBVIOUS
<1>6. Q \subseteq Payments
    <2>1. Q \subseteq Payments \cup {None}
        BY <1>2, <1>5, BatchFacts DEF TypeOK, Lines
    <2>2. None \notin Q
        BY <1>2, <1>3, <1>4, <1>5 DEF FinalizeOK
    <2> QED
        BY <2>1, <2>2
<1>7. PICK w \in Seq(Rows) : w = Ascending(Q) /\ Range(w) = Q
    BY <1>6, AscendingIs
<1>8. GoOn(s, "PAYMENTS", w)
    BY <1>1, <1>3, <1>5, <1>7 DEF LockPayments, Payees, BatchOf
<1>9. "PAYMENTS" \in Phases
    BY DEF Phases
<1>10. PICK y \in Transactions :
         /\ Quiet /\ tx' = [tx EXCEPT ![s] = y]
         /\ y.op = x.op /\ y.have = x.have /\ y.phase = "PAYMENTS" /\ y.want = w /\ y.found = x.found
    BY <1>1, <1>8, <1>9, GoOnIs
<1>11. x.found \subseteq x.have
    BY <1>2, <1>4, Claimed DEF FinalizeOK
<1>12. FinalizeOK(y)
    <2>1. b \in x.have /\ Q \subseteq Claims(y) /\ x.have \subseteq Claims(y)
        BY <1>2, <1>3, <1>4, <1>7, <1>10 DEF FinalizeOK, Claims
    <2> QED
        BY <1>2, <1>3, <1>4, <1>5, <1>10, <1>11, <2>1 DEF FinalizeOK
<1>13. TxOK(y)
    BY <1>4, <1>10, <1>12 DEF TxOK
<1> QED
    BY <1>1, <1>10, <1>13, GoOnKeeps

\* When it has its payments it wants the advances of them.
LEMMA LockAdvancesKeeps ==
    ASSUME IInv, NEW s \in Slots, LockAdvances(s)
    PROVE  IInv'
<1>1. PICK x \in Transactions : x = tx[s] /\ TxOK(x)
    BY Opens DEF LockAdvances, Ready
<1>2. x.phase = "PAYMENTS" /\ x.want = <<>> /\ TypeOK
    BY <1>1, Opens DEF LockAdvances, Ready
<1>3. PICK b \in Batches : b = x.op.batch
    BY <1>1, <1>2, FinalizationOf
<1>4. x.op.kind = "FINALIZE" /\ FinalizeOK(x)
    BY <1>1, <1>2, FinalizationOf
<1>5. PICK Q : Q = Matched(Lines(b))
    OBVIOUS
<1>6. PICK S : S = Funded(Q)
    OBVIOUS
<1>7. S \subseteq Advances
    BY <1>2, <1>6, AdvanceFacts DEF Funded
<1>8. PICK w \in Seq(Rows) : w = Sorted(S, [a \in Advances |-> a]) /\ Range(w) = S
    BY <1>7, SortedAdvances
<1>9. GoOn(s, "ADVANCES", w)
    BY <1>1, <1>3, <1>5, <1>6, <1>8 DEF LockAdvances, Payees, BatchOf
<1>10. "ADVANCES" \in Phases
    BY DEF Phases
<1>11. PICK y \in Transactions :
         /\ Quiet /\ tx' = [tx EXCEPT ![s] = y]
         /\ y.op = x.op /\ y.have = x.have /\ y.phase = "ADVANCES" /\ y.want = w /\ y.found = x.found
    BY <1>1, <1>9, <1>10, GoOnIs
<1>12. x.found \subseteq x.have /\ Q \subseteq x.have
    BY <1>2, <1>3, <1>4, <1>5, Claimed DEF FinalizeOK
<1>13. FinalizeOK(y)
    <2>1. S \subseteq Claims(y) /\ x.have \subseteq Claims(y)
        BY <1>8, <1>11 DEF Claims
    <2>2. b \in x.have
        BY <1>2, <1>3, <1>4 DEF FinalizeOK
    <2> QED
        BY <1>2, <1>3, <1>4, <1>5, <1>6, <1>11, <1>12, <2>1, <2>2 DEF FinalizeOK
<1>14. TxOK(y)
    BY <1>4, <1>11, <1>13 DEF TxOK
<1> QED
    BY <1>1, <1>11, <1>14, GoOnKeeps

\* When it has everything it decides: no payment is settled beyond its amount, and nothing
\* was overlooked.
LEMMA ConfirmKeeps ==
    ASSUME IInv, NEW s \in Slots, Confirm(s)
    PROVE  IInv'
<1>1. PICK x \in Transactions : x = tx[s] /\ TxOK(x)
    BY Opens DEF Confirm, Ready
<1>2. x.phase = "ADVANCES" /\ x.want = <<>> /\ tx \in [Slots -> Transactions \cup {None}]
    BY <1>1, Opens DEF Confirm, Ready
<1>3. PICK b \in Batches : b = x.op.batch
    BY <1>1, <1>2, FinalizationOf
<1>4. x.op.kind = "FINALIZE" /\ FinalizeOK(x)
    BY <1>1, <1>2, FinalizationOf
<1>5. PICK Q : Q = Matched(Lines(b))
    OBVIOUS
<1>6. PICK v : v = {i \in x.found : status[i] = "PAID" /\ AllFinal(i, Finalized \cup {b})}
    OBVIOUS
<1>7. CASE Rollback(s)
    BY <1>7, RollbackKeeps
<1>8. CASE /\ Discover(Q) \subseteq x.found /\ Capacity(b)
           /\ tx' = [tx EXCEPT ![s].phase = "COMMIT", ![s].verdict = v]
           /\ Quiet
    <2>1. v \in Verdicts
        <3>1. v \in SUBSET Invoices
            BY <1>6, TransactionFacts
        <3> QED
            BY <3>1 DEF Verdicts
    <2>2. PICK y : y = [x EXCEPT !.phase = "COMMIT", !.verdict = v]
        OBVIOUS
    <2>3. /\ y \in Transactions /\ y.op = x.op /\ y.have = x.have /\ y.want = <<>>
          /\ y.phase = "COMMIT" /\ y.found = x.found /\ y.verdict = v
        BY <1>2, <2>1, <2>2 DEF Transactions, Phases
    <2>4. tx' = [tx EXCEPT ![s] = y]
        BY <1>1, <1>2, <1>8, <2>2 DEF Transactions
    <2>5. Claims(y) = Claims(x)
        BY <1>2, <2>3, Claimed
    <2>6. FinalizeOK(y)
        BY <1>2, <1>3, <1>4, <1>5, <1>6, <1>8, <2>3, <2>5 DEF FinalizeOK
    <2>7. TxOK(y)
        BY <1>4, <2>3, <2>6 DEF TxOK
    <2> QED
        BY <1>1, <1>8, <2>3, <2>4, <2>7, GoOnKeeps
<1> QED
    BY <1>1, <1>3, <1>5, <1>6, <1>7, <1>8 DEF Confirm, BatchOf, Payees, Quiet

-----------------------------------------------------------------------------
(* The other transactions, up to their commits.                            *)

\* What covers an invoice, in rows al of payments, ad of advances and us of their use.
AllocatedIn(al, i)  == SumFunctionOnSet([q \in Payments |-> al[i][q]], Payments)
AppliedIn(ad, us, i) == {a \in DOMAIN ad : us[a] = i}
AdvancedIn(ad, S)   == SumFunctionOnSet([a \in S |-> ad[a].amount], S)

\* What covers an invoice, as a function of the rows of allocations and advances alone.
LEMMA CoveredIs ==
    ASSUME NEW i
    PROVE  /\ Covered(i) = AllocatedIn(alloc, i) + AdvancedIn(advances, AppliedIn(advances, used, i))
           /\ Covered(i)' = AllocatedIn(alloc', i) + AdvancedIn(advances', AppliedIn(advances', used', i))
    BY DEF Covered, Allocated, AppliedTo, AllocatedIn, AppliedIn, AdvancedIn, SumFunction

\* Allocations add up to a number.
LEMMA AllocatedNat ==
    ASSUME NEW al \in [Invoices -> [Payments -> Nat]], NEW i \in Invoices
    PROVE  AllocatedIn(al, i) \in Nat
<1> DEFINE f == [q \in Payments |-> al[i][q]]
<1>1. \A q \in Payments : f[q] \in Nat
    OBVIOUS
<1> HIDE DEF f
<1>2. SumFunctionOnSet(f, Payments) \in Nat
    BY <1>1, Finite, SumNat
<1> QED
    BY <1>2 DEF f, AllocatedIn

\* So do advances.
LEMMA AdvancedNat ==
    ASSUME NEW ad, NEW S \in SUBSET Advances, \A a \in S : ad[a].amount \in Nat
    PROVE  AdvancedIn(ad, S) \in Nat
<1> DEFINE f == [a \in S |-> ad[a].amount]
<1>1. \A a \in S : f[a] \in Nat
    OBVIOUS
<1>2. IsFiniteSet(S)
    BY Finite, FS_Subset
<1> HIDE DEF f
<1>3. SumFunctionOnSet(f, S) \in Nat
    BY <1>1, <1>2, SumNat
<1> QED
    BY <1>3 DEF f, AdvancedIn

\* An invoice is covered by a number, its room is one that may be negative.
LEMMA CoveredNat ==
    ASSUME TypeOK, NEW i \in Invoices
    PROVE  Covered(i) \in Nat /\ Room(i) \in Int /\ status[i] \in Statuses
<1>1. AllocatedIn(alloc, i) \in Nat
    BY AllocatedNat DEF TypeOK
<1>2. PICK S : S = AppliedIn(advances, used, i)
    OBVIOUS
<1>3. S \in SUBSET Advances /\ \A a \in S : advances[a].amount \in Nat
    BY <1>2, AdvanceFacts DEF AppliedIn
<1>4. AdvancedIn(advances, S) \in Nat
    BY <1>3, AdvancedNat
<1>5. Covered(i) \in Nat
    BY <1>1, <1>2, <1>4, CoveredIs
<1>6. Room(i) \in Int
    BY <1>5, Amounts DEF Room
<1> QED
    BY <1>5, <1>6 DEF TypeOK

\* What coverage makes of a status is a status.
LEMMA StatusWithType ==
    ASSUME TypeOK, NEW i \in Invoices, NEW n, NEW q
    PROVE  StatusWith(i, n, q) \in Statuses
    BY CoveredNat DEF StatusWith, Statuses

\* A payment's share of an invoice is at most the room the invoice has, and only its
\* targets get one.
LEMMA ShareIs ==
    ASSUME TypeOK, RowsOK, NEW q \in Payments, NEW targets \in Seq(Invoices), NEW i \in Invoices
    PROVE  /\ Share(q, targets, i) \in Nat
           /\ Share(q, targets, i) > 0 => i \in Range(targets) /\ Share(q, targets, i) <= Room(i)
<1>1. PICK S : S = {t \in Range(targets) : AgeOf[t] < AgeOf[i]}
    OBVIOUS
<1>2. S \subseteq Invoices
    BY <1>1 DEF Range
<1>3. IsFiniteSet(S)
    BY <1>2, Finite, FS_Subset
<1> DEFINE f == [j \in S |-> Room(j)]
<1>4. \A j \in S : f[j] \in Int
    BY <1>2, CoveredNat
<1>5. Ahead(targets, i) = SumFunctionOnSet(f, S)
    BY <1>1 DEF Ahead, SumFunction
<1> HIDE DEF f
<1>6. SumFunctionOnSet(f, S) \in Int
    BY <1>3, <1>4, SumType
<1>7. PICK left \in Int : left = AmountOf[q] - Ahead(targets, i)
    BY <1>5, <1>6, Amounts
<1>8. PICK room \in Nat : room = Room(i)
    <2>1. Covered(i) <= TotalOf[i] /\ Covered(i) \in Nat /\ TotalOf[i] \in Nat
        BY Amounts, CoveredNat DEF RowsOK
    <2> QED
        BY <2>1 DEF Room
<1>9. PICK n : n = Share(q, targets, i)
    OBVIOUS
<1>10. n = IF i \notin Range(targets) THEN 0
           ELSE IF left <= 0 THEN 0 ELSE IF room < left THEN room ELSE left
    BY <1>7, <1>8, <1>9 DEF Share
<1> QED
    BY <1>7, <1>8, <1>9, <1>10

\* What a cancellation releases is finite.
LEMMA ReleasesFinite ==
    ASSUME TypeOK, NEW i \in Invoices
    PROVE  IsFiniteSet(Releases(i)) /\ Releases(i) \subseteq AdvanceRows
<1> DEFINE P == {p \in Payments : alloc[i][p] > 0}
           A == AppliedTo(i)
           F(q) == [source |-> "CREDIT_NOTE", payment |-> q, amount |-> alloc[i][q]]
           G(a) == [source |-> "CREDIT_NOTE", payment |-> advances[a].payment, amount |-> advances[a].amount]
<1>1. IsFiniteSet(P) /\ IsFiniteSet(A)
    <2>1. A \subseteq Advances
        BY AdvanceFacts DEF AppliedTo
    <2> QED
        BY <2>1, Finite, FS_Subset
<1>2. Releases(i) = {F(q) : q \in P} \cup {G(a) : a \in A}
    BY DEF Releases
<1>3. (\A q \in P : F(q) \in AdvanceRows) /\ (\A a \in A : G(a) \in AdvanceRows)
    <2>1. \A q \in P : alloc[i][q] \in Nat \ {0}
        BY DEF TypeOK
    <2>2. \A a \in A : advances[a].payment \in Payments /\ advances[a].amount \in Nat \ {0}
        BY AdvanceFacts DEF AppliedTo
    <2> QED
        BY <2>1, <2>2 DEF AdvanceRows
<1>4. IsFiniteSet({F(q) : q \in P}) /\ IsFiniteSet({G(a) : a \in A})
    <2> DEFINE f == [q \in P |-> F(q)]
               g == [a \in A |-> G(a)]
    <2>1. f \in Surjection(P, {F(q) : q \in P}) /\ g \in Surjection(A, {G(a) : a \in A})
        BY DEF Surjection
    <2> HIDE DEF f, g, F, G, P, A
    <2> QED
        BY <1>1, <2>1, FS_Surjection
<1> HIDE DEF P, A, F, G
<1>5. IsFiniteSet({F(q) : q \in P} \cup {G(a) : a \in A})
    BY <1>4, FS_Union
<1> QED
    BY <1>2, <1>3, <1>5

\* A transaction decides.
Decides(s, v) == tx' = [tx EXCEPT ![s].phase = "COMMIT", ![s].verdict = v]

\* A transaction that decides goes on to its commit with the verdict.
LEMMA DecideIs ==
    ASSUME IInv, NEW s \in Slots, NEW x \in Transactions, x = tx[s], NEW v \in Verdicts, Decides(s, v)
    PROVE  \E y \in Transactions :
              /\ tx' = [tx EXCEPT ![s] = y]
              /\ y.op = x.op /\ y.have = x.have /\ y.phase = "COMMIT" /\ y.want = x.want
              /\ y.found = x.found /\ y.verdict = v
<1>1. tx \in [Slots -> Transactions \cup {None}]
    BY DEF IInv, TypeOK
<1>2. PICK y : y = [x EXCEPT !.phase = "COMMIT", !.verdict = v]
    OBVIOUS
<1>3. /\ y \in Transactions /\ y.op = x.op /\ y.have = x.have /\ y.phase = "COMMIT" /\ y.want = x.want
      /\ y.found = x.found /\ y.verdict = v
    BY <1>2 DEF Transactions, Phases
<1>4. tx' = [tx EXCEPT ![s] = y]
    BY <1>1, <1>2 DEF Transactions, Decides
<1> QED
    BY <1>3, <1>4

\* The amounts that a payment is to bring, and the statuses.
LEMMA DecidePayKeeps ==
    ASSUME IInv, NEW s \in Slots, DecidePay(s)
    PROVE  IInv'
<1>1. PICK x \in Transactions : x = tx[s] /\ TxOK(x)
    BY Opens DEF DecidePay, Ready
<1>2. /\ x.phase = "READ" /\ x.want = <<>> /\ x.op.kind = "PAY" /\ TypeOK /\ RowsOK
    BY <1>1, Opens DEF DecidePay, Ready
<1>3. PICK q \in Payments : q = x.op.payment
    BY <1>2, RequestFacts, TransactionFacts
<1>4. PICK w \in Seq(Invoices) : w = x.op.targets
    BY <1>2, RequestFacts, TransactionFacts
<1> DEFINE share == [i \in Invoices |-> Share(q, w, i)]
           paid == [i \in Invoices |-> [amount |-> share[i], status |-> StatusWith(i, share[i], q)]]
<1>5. PICK v : v = paid
    OBVIOUS
<1>6. CASE Rollback(s)
    BY <1>6, RollbackKeeps
<1>7. CASE Decides(s, v) /\ Quiet
    <2>1. \A i \in Invoices : /\ v[i].amount = Share(q, w, i)
                              /\ v[i].status = StatusWith(i, v[i].amount, q)
        BY <1>5
    <2>2. \A i \in Invoices : /\ v[i].amount \in Nat
                              /\ v[i].amount > 0 => i \in Range(w) /\ v[i].amount <= Room(i)
        BY <1>2, <2>1, ShareIs
    <2>3. v \in [Invoices -> [amount : Nat, status : Statuses]]
        <3>1. \A i \in Invoices : Share(q, w, i) \in Nat /\ StatusWith(i, share[i], q) \in Statuses
            BY <1>2, ShareIs, StatusWithType
        <3> QED
            BY <1>5, <3>1
    <2>4. v \in Verdicts
        BY <2>3 DEF Verdicts
    <2>5. PICK y \in Transactions :
             /\ tx' = [tx EXCEPT ![s] = y]
             /\ y.op = x.op /\ y.have = x.have /\ y.phase = "COMMIT" /\ y.want = x.want
             /\ y.verdict = v
        BY <1>1, <1>7, <2>4, DecideIs
    <2>6. PayOK(x)
        BY <1>1, <1>2 DEF TxOK
    <2>7. Range(w) \subseteq x.have /\ Claims(y) = x.have /\ Claims(x) = x.have
        BY <1>2, <1>4, <2>5, <2>6, Claimed DEF PayOK
    <2> HIDE DEF paid, share
    <2>8. \A i \in Invoices : v[i].amount > 0 =>
             /\ i \in x.have /\ v[i].amount <= Room(i) /\ v[i].status = StatusWith(i, v[i].amount, q)
        BY <2>1, <2>2, <2>7
    <2>9. PayOK(y)
        BY <1>2, <1>3, <1>4, <2>3, <2>5, <2>6, <2>7, <2>8 DEF PayOK
    <2>10. TxOK(y)
        BY <1>2, <2>5, <2>9 DEF TxOK
    <2> QED
        BY <1>1, <1>7, <2>5, <2>10, GoOnKeeps
<1> QED
    BY <1>1, <1>3, <1>4, <1>5, <1>6, <1>7 DEF DecidePay, Quiet, Decides

\* The decision of an application keeps the invariant: the status it has computed will be
\* right.
LEMMA DecideApplyKeeps ==
    ASSUME IInv, NEW s \in Slots, DecideApply(s)
    PROVE  IInv'
<1>1. PICK x \in Transactions : x = tx[s] /\ TxOK(x)
    BY Opens DEF DecideApply, Ready
<1>2. /\ x.phase = "READ" /\ x.want = <<>> /\ x.op.kind = "APPLY" /\ TypeOK /\ RowsOK
    BY <1>1, Opens DEF DecideApply, Ready
<1>3. PICK a \in Advances : a = x.op.advance
    BY <1>2, RequestFacts, TransactionFacts
<1>4. PICK i \in Invoices : i = x.op.invoice
    BY <1>2, RequestFacts, TransactionFacts
<1>5. PICK v : v = StatusWith(i, advances[a].amount, advances[a].payment)
    OBVIOUS
<1>6. CASE Rollback(s)
    BY <1>6, RollbackKeeps
<1>7. CASE /\ used[a] = None /\ ~(advances[a].amount > Room(i))
           /\ Decides(s, v) /\ Quiet
    <2>1. v \in Verdicts
        <3>1. v \in Statuses
            BY <1>2, <1>5, StatusWithType
        <3> QED
            BY <3>1 DEF Verdicts
    <2>2. PICK y \in Transactions :
             /\ tx' = [tx EXCEPT ![s] = y]
             /\ y.op = x.op /\ y.have = x.have /\ y.phase = "COMMIT" /\ y.want = x.want
             /\ y.verdict = v
        BY <1>1, <1>7, <2>1, DecideIs
    <2>3. ApplyOK(x)
        BY <1>1, <1>2 DEF TxOK
    <2>4. advances[a].amount <= Room(i)
        <3>1. a \in DOMAIN advances
            BY <1>3, <2>3 DEF ApplyOK
        <3>2. advances[a].amount \in Int /\ Room(i) \in Int
            BY <1>2, <3>1, AdvanceFacts, CoveredNat
        <3> QED
            BY <1>7, <3>2
    <2>5. ApplyOK(y)
        BY <1>2, <1>3, <1>4, <1>5, <1>7, <2>2, <2>3, <2>4 DEF ApplyOK, Claims
    <2>6. TxOK(y)
        BY <1>2, <2>2, <2>5 DEF TxOK
    <2> QED
        BY <1>1, <1>7, <2>2, <2>6, GoOnKeeps
<1> QED
    BY <1>1, <1>3, <1>4, <1>5, <1>6, <1>7 DEF DecideApply, Quiet, Decides

\* The decision of a cancellation keeps the invariant: it goes on to lock the sources it
\* will refer to.
LEMMA DecideCancelKeeps ==
    ASSUME IInv, NEW s \in Slots, DecideCancel(s)
    PROVE  IInv'
<1>1. PICK x \in Transactions : x = tx[s] /\ TxOK(x)
    BY Opens DEF DecideCancel, Ready
<1>2. /\ x.phase = "READ" /\ x.want = <<>> /\ x.op.kind = "CANCEL" /\ TypeOK
    BY <1>1, Opens DEF DecideCancel, Ready
<1>3. PICK i \in Invoices : i = x.op.invoice
    BY <1>2, RequestFacts, TransactionFacts
<1>4. CASE Rollback(s)
    BY <1>4, RollbackKeeps
<1>5. CASE /\ ~(Len(advances) + Cardinality(Releases(i)) > MaxAdvances)
           /\ GoOn(s, "COMMIT", Ascending(SourcesOf(i)))
    <2>1. SourcesOf(i) \subseteq Payments
        BY <1>2, SourcesType
    <2>2. PICK w \in Seq(Rows) : w = Ascending(SourcesOf(i)) /\ Range(w) = SourcesOf(i)
        BY <2>1, AscendingIs
    <2>3. "COMMIT" \in Phases
        BY DEF Phases
    <2>4. GoOn(s, "COMMIT", w)
        BY <1>5, <2>2
    <2>5. PICK y \in Transactions :
             /\ Quiet /\ tx' = [tx EXCEPT ![s] = y]
             /\ y.op = x.op /\ y.have = x.have /\ y.phase = "COMMIT" /\ y.want = w
        BY <1>1, <2>3, <2>4, GoOnIs
    <2>6. {i, Account} \subseteq x.have
        BY <1>1, <1>2, <1>3, Claimed DEF TxOK, CancelOK
    <2>7. Len(advances) + Cardinality(Releases(i)) <= MaxAdvances
        <3>1. Cardinality(Releases(i)) \in Nat
            BY <1>2, ReleasesFinite, FS_CardinalityType
        <3>2. Len(advances) \in Nat /\ MaxAdvances \in Nat
            BY <1>2, AdvanceFacts, SettlementsAssumption DEF SettlementsAssumption
        <3> QED
            BY <1>5, <3>1, <3>2
    <2>8. CancelOK(y)
        BY <1>3, <2>2, <2>5, <2>6, <2>7 DEF CancelOK, Claims
    <2>9. TxOK(y)
        BY <1>2, <2>5, <2>8 DEF TxOK
    <2> QED
        BY <1>1, <2>5, <2>9, GoOnKeeps
<1> QED
    BY <1>1, <1>3, <1>4, <1>5 DEF DecideCancel

\* The reconciliation keeps the invariant: what it has found to be final stays so.
LEMMA ReadCoverageKeeps ==
    ASSUME IInv, NEW s \in Slots, ReadCoverage(s)
    PROVE  IInv'
<1>1. PICK x \in Transactions : x = tx[s] /\ TxOK(x)
    BY Opens DEF ReadCoverage, Ready
<1>2. /\ x.phase = "READ" /\ x.want = <<>> /\ x.op.kind = "RECONCILE"
    BY <1>1, Opens DEF ReadCoverage, Ready
<1>3. PICK i \in Invoices : i = x.op.invoice
    BY <1>2, RequestFacts, TransactionFacts
<1>4. CASE Rollback(s)
    BY <1>4, RollbackKeeps
<1>5. CASE AllFinal(i, Finalized) /\ GoOn(s, "COMMIT", <<i>>)
    <2>1. PICK w \in Seq(Rows) : w = <<i>> /\ Range(w) = {i}
        <3>1. PICK w : w = <<i>>
            OBVIOUS
        <3>2. w \in Seq(Rows) /\ DOMAIN w = 1..1 /\ w[1] = i
            BY <3>1, RowKinds
        <3>3. Range(w) = {i}
            BY <3>2 DEF Range
        <3> QED
            BY <3>1, <3>2, <3>3
    <2>2. "COMMIT" \in Phases
        BY DEF Phases
    <2>3. GoOn(s, "COMMIT", w)
        BY <1>5, <2>1
    <2>4. PICK y \in Transactions :
             /\ Quiet /\ tx' = [tx EXCEPT ![s] = y]
             /\ y.op = x.op /\ y.have = x.have /\ y.phase = "COMMIT" /\ y.want = w
        BY <1>1, <2>2, <2>3, GoOnIs
    <2>5. ReconcileOK(x)
        BY <1>1, <1>2 DEF TxOK
    <2>6. ReconcileOK(y)
        BY <1>3, <1>5, <2>1, <2>4, <2>5 DEF ReconcileOK, Claims
    <2>7. TxOK(y)
        BY <1>2, <2>4, <2>6 DEF TxOK
    <2> QED
        BY <1>1, <2>4, <2>7, GoOnKeeps
<1> QED
    BY <1>1, <1>3, <1>4, <1>5 DEF ReadCoverage

-----------------------------------------------------------------------------
(* Transactions begin.                                                     *)

\* A transaction that begins with one lock keeps the invariant if it knows nothing yet, or
\* what it knows is so.
LEMMA BeginKeeps ==
    ASSUME IInv, NEW s \in Slots, NEW op \in Requests, NEW phase \in Phases,
           NEW want \in Seq(Rows), want # <<>>, Begin(s, op, phase, want),
           op.kind = "PAY" => ~Busy(op.payment),
           \A y \in Transactions : y.op = op /\ y.phase = phase /\ Claims(y) = Range(want) => TxOK(y)
    PROVE  IInv'
<1>1. /\ Quiet /\ Holder(Head(want)) = {}
      /\ tx' = [tx EXCEPT ![s] = Opened(op, phase, Tail(want), {Head(want)})]
    BY DEF Begin, Quiet, Free
<1>2. /\ Head(want) \in Rows /\ Tail(want) \in Seq(Rows)
      /\ Range(want) = {Head(want)} \cup Range(Tail(want))
    BY HeadAndTail
<1>3. PICK t \in Seq(Rows) : t = Tail(want)
    BY <1>2
<1>4. PICK h \in SUBSET Rows : h = {Head(want)}
    BY <1>2
<1>5. PICK y : y = Opened(op, phase, t, h)
    OBVIOUS
<1>6. y \in Transactions /\ y.op = op /\ y.phase = phase /\ y.want = t /\ y.have = h
    BY <1>5, OpenedIs
<1>7. TxOK(y)
    BY <1>2, <1>3, <1>4, <1>6 DEF Claims
<1>8. Apart(s, y)
    BY <1>1, <1>4, <1>6 DEF Apart, Holder, Busy
<1> QED
    BY <1>1, <1>3, <1>4, <1>5, <1>6, <1>7, <1>8, QuietKeeps

\* The request of a finalization keeps the invariant: it has seen the batch as it is.
LEMMA RequestFinalizationKeeps ==
    ASSUME IInv, NEW s \in Slots, NEW b \in Batches, RequestFinalization(s, b)
    PROVE  IInv'
<1>1. PICK v : v = batch[b]
    OBVIOUS
<1>2. v \in BatchRows /\ batch[b].version \in Nat
    BY <1>1, BooksHold, BatchFacts DEF TypeOK
<1>3. PICK op : op = [kind |-> "FINALIZE", batch |-> b, view |-> v]
    OBVIOUS
<1>4. op \in Requests /\ op.kind = "FINALIZE" /\ op.batch = b /\ op.view = v
    BY <1>2, <1>3 DEF Requests
<1>5. PICK y : y = Opened(op, "BATCH", <<b>>, {})
    OBVIOUS
<1>6. <<b>> \in Seq(Rows) /\ b \in Range(<<b>>)
    BY RowKinds DEF Range
<1>7. y \in Transactions /\ y.op = op /\ y.phase = "BATCH" /\ y.want = <<b>> /\ y.have = {}
    BY <1>4, <1>5, <1>6 DEF Opened, Transactions, Phases, Verdicts
<1>8. Quiet /\ tx' = [tx EXCEPT ![s] = y] /\ batch[b].state = "DRAFT"
    BY <1>1, <1>3, <1>5 DEF RequestFinalization, Quiet, Complete
<1>9. FinalizeOK(y)
    <2>1. b \in Claims(y)
        BY <1>6, <1>7 DEF Claims
    <2> QED
        BY <1>1, <1>2, <1>4, <1>7, <1>8, <2>1, KindsOfRows DEF FinalizeOK
<1>10. TxOK(y) /\ Apart(s, y)
    BY <1>4, <1>7, <1>9 DEF TxOK, Apart
<1> QED
    BY <1>7, <1>8, <1>10, QuietKeeps

\* A receipt or a capture, which lock their invoices and then the account.
LEMMA PayKeeps ==
    ASSUME IInv, NEW s \in Slots, NEW q \in Payments, NEW w \in Seq(Invoices), Pay(s, q, w)
    PROVE  IInv'
<1>1. PICK op : op = [kind |-> "PAY", payment |-> q, targets |-> w]
    OBVIOUS
<1>2. op \in Requests /\ op.kind = "PAY" /\ op.payment = q /\ op.targets = w
    BY <1>1 DEF Requests
<1>3. PICK want : want = Append(w, Account)
    OBVIOUS
<1>4. w \in Seq(Rows)
    BY RowKinds, SeqOfMore
<1>5. want \in Seq(Rows) /\ want # <<>> /\ Range(want) = Range(w) \cup {Account}
    <2>1. want \in Seq(Rows) /\ Len(want) = Len(w) + 1
        BY <1>3, <1>4, RowKinds
    <2>2. DOMAIN want = 1..(Len(w) + 1) /\ DOMAIN w = 1..Len(w) /\ Len(w) \in Nat
        BY <2>1
    <2>3. want[Len(w) + 1] = Account /\ \A k \in 1..Len(w) : want[k] = w[k]
        BY <1>3, <1>4
    <2>4. PICK n \in Nat : n = Len(w)
        BY <2>2
    <2>5. Range(want) = {want[k] : k \in 1..(n + 1)} /\ Range(w) = {w[k] : k \in 1..n}
        BY <2>2, <2>4 DEF Range
    <2>6. 1..(n + 1) = (1..n) \cup {n + 1}
        OBVIOUS
    <2>7. Range(want) = Range(w) \cup {Account}
        BY ONLY <2>3, <2>4, <2>5, <2>6
    <2>8. want # <<>>
        BY <2>1, <2>2
    <2> QED
        BY <2>1, <2>7, <2>8
<1>6. "READ" \in Phases
    BY DEF Phases
<1>7. /\ q \notin received \cup DOMAIN Inherited /\ ~Busy(q) /\ Begin(s, op, "READ", want)
    BY <1>1, <1>3 DEF Pay
<1>8. \A y \in Transactions : y.op = op /\ y.phase = "READ" /\ Claims(y) = Range(want) => TxOK(y)
    BY <1>2, <1>5, <1>7 DEF TxOK, PayOK
<1> QED
    BY <1>2, <1>5, <1>6, <1>7, <1>8, BeginKeeps

\* A capture and a receipt keep the invariant as they begin: nobody else brings the
\* payment.
LEMMA PaymentsKeep ==
    ASSUME IInv, NEW s \in Slots, NEW q \in Payments,
           Receipt(s, q) \/ \E i \in Invoices : Capture(s, q, i)
    PROVE  IInv'
<1>1. CASE Receipt(s, q)
    <2>1. /\ AgeOf \in [Invoices -> Nat] /\ IsInjective(AgeOf)
        BY SettlementsAssumption DEF SettlementsAssumption
    <2>2. (\A x \in Invoices : AgeOf[x] \in Nat) /\ (\A x, y \in Invoices : AgeOf[x] = AgeOf[y] => x = y)
        BY <2>1 DEF IsInjective
    <2>3. PICK w \in Seq(Invoices) : w = Sorted(Invoices, AgeOf)
        BY <2>2, Finite, SortedIs
    <2> QED
        BY <1>1, <2>3, PayKeeps DEF Receipt
<1>2. ASSUME NEW i \in Invoices, Capture(s, q, i) PROVE IInv'
    <2>1. <<i>> \in Seq(Invoices)
        OBVIOUS
    <2> QED
        BY <1>2, <2>1, PayKeeps DEF Capture
<1> QED
    BY <1>1, <1>2

\* An application keeps the invariant as it begins.
LEMMA ApplyAdvanceKeeps ==
    ASSUME IInv, NEW s \in Slots, NEW a \in Advances, NEW i \in Invoices, ApplyAdvance(s, a, i)
    PROVE  IInv'
<1>1. PICK op : op = [kind |-> "APPLY", advance |-> a, invoice |-> i]
    OBVIOUS
<1>2. op \in Requests /\ op.kind = "APPLY" /\ op.advance = a /\ op.invoice = i
    BY <1>1 DEF Requests
<1>3. PICK want : want = <<i, Account, a>>
    OBVIOUS
<1>4. want \in Seq(Rows) /\ want # <<>> /\ Range(want) = {i, Account, a}
    <2>1. want \in Seq(Rows) /\ DOMAIN want = 1..3 /\ want[1] = i /\ want[2] = Account /\ want[3] = a
        BY <1>3, RowKinds
    <2>2. 1..3 = {1, 2, 3}
        OBVIOUS
    <2> QED
        BY <2>1, <2>2 DEF Range
<1>5. "READ" \in Phases
    BY DEF Phases
<1>6. a \in DOMAIN advances /\ Begin(s, op, "READ", want)
    BY <1>1, <1>3 DEF ApplyAdvance
<1>7. \A y \in Transactions : y.op = op /\ y.phase = "READ" /\ Claims(y) = Range(want) => TxOK(y)
    BY <1>2, <1>4, <1>6 DEF TxOK, ApplyOK
<1> QED
    BY <1>2, <1>4, <1>5, <1>6, <1>7, BeginKeeps

\* A transaction that begins with two rows.
LEMMA TwoRows ==
    ASSUME NEW r \in Rows, NEW u \in Rows
    PROVE  <<r, u>> \in Seq(Rows) /\ <<r, u>> # <<>> /\ Range(<<r, u>>) = {r, u}
<1>1. PICK w : w = <<r, u>>
    OBVIOUS
<1>2. w \in Seq(Rows) /\ DOMAIN w = 1..2 /\ w[1] = r /\ w[2] = u /\ w # <<>>
    BY <1>1
<1>3. 1..2 = {1, 2}
    OBVIOUS
<1> QED
    BY <1>1, <1>2, <1>3 DEF Range

\* A conversion keeps it as it begins.
LEMMA ConvertKeeps ==
    ASSUME IInv, NEW s \in Slots, NEW q \in Payments, Convert(s, q)
    PROVE  IInv'
<1>1. PICK op : op = [kind |-> "CONVERT", payment |-> q]
    OBVIOUS
<1>2. op \in Requests /\ op.kind = "CONVERT" /\ op.kind # "PAY" /\ op.payment = q
    BY <1>1 DEF Requests
<1>3. PICK want : want = <<Account, q>>
    OBVIOUS
<1>4. want \in Seq(Rows) /\ want # <<>> /\ Range(want) = {Account, q}
    BY <1>3, RowKinds, TwoRows
<1>5. "COMMIT" \in Phases
    BY DEF Phases
<1>6. q \in received /\ Begin(s, op, "COMMIT", want)
    BY <1>1, <1>3, <1>4 DEF Convert
<1>7. \A y \in Transactions : y.op = op /\ y.phase = "COMMIT" /\ Claims(y) = Range(want) => TxOK(y)
    BY <1>2, <1>3, <1>4, <1>6 DEF TxOK, ConvertOK
<1> QED
    BY <1>2, <1>4, <1>5, <1>6, <1>7, BeginKeeps

\* A refund keeps it as it begins.
LEMMA RefundKeeps ==
    ASSUME IInv, NEW s \in Slots, NEW a \in Advances, Refund(s, a)
    PROVE  IInv'
<1>1. PICK op : op = [kind |-> "REFUND", advance |-> a]
    OBVIOUS
<1>2. op \in Requests /\ op.kind = "REFUND" /\ op.kind # "PAY" /\ op.advance = a
    BY <1>1 DEF Requests
<1>3. PICK want : want = <<Account, a>>
    OBVIOUS
<1>4. want \in Seq(Rows) /\ want # <<>> /\ Range(want) = {Account, a}
    BY <1>3, RowKinds, TwoRows
<1>5. "COMMIT" \in Phases
    BY DEF Phases
<1>6. a \in DOMAIN advances /\ Begin(s, op, "COMMIT", want)
    BY <1>1, <1>3, <1>4 DEF Refund
<1>7. \A y \in Transactions : y.op = op /\ y.phase = "COMMIT" /\ Claims(y) = Range(want) => TxOK(y)
    BY <1>2, <1>3, <1>4, <1>6 DEF TxOK, RefundOK
<1> QED
    BY <1>2, <1>4, <1>5, <1>6, <1>7, BeginKeeps

\* A cancellation keeps it as it begins.
LEMMA CancelKeeps ==
    ASSUME IInv, NEW s \in Slots, NEW i \in Invoices, Cancel(s, i)
    PROVE  IInv'
<1>1. PICK op : op = [kind |-> "CANCEL", invoice |-> i]
    OBVIOUS
<1>2. op \in Requests /\ op.kind = "CANCEL" /\ op.kind # "PAY" /\ op.invoice = i
    BY <1>1 DEF Requests
<1>3. PICK want : want = <<i, Account>>
    OBVIOUS
<1>4. want \in Seq(Rows) /\ want # <<>> /\ Range(want) = {i, Account}
    BY <1>3, RowKinds, TwoRows
<1>5. "READ" \in Phases
    BY DEF Phases
<1>6. Begin(s, op, "READ", want)
    BY <1>1, <1>3, <1>4 DEF Cancel
<1>7. \A y \in Transactions : y.op = op /\ y.phase = "READ" /\ Claims(y) = Range(want) => TxOK(y)
    BY <1>2, <1>3, <1>4 DEF TxOK, CancelOK
<1> QED
    BY <1>2, <1>4, <1>5, <1>6, <1>7, BeginKeeps

\* The reconciliation keeps it as it looks for an invoice that is PAID.
LEMMA ReconcileKeeps ==
    ASSUME IInv, NEW s \in Slots, NEW i \in Invoices, Reconcile(s, i)
    PROVE  IInv'
<1>1. PICK op : op = [kind |-> "RECONCILE", invoice |-> i]
    OBVIOUS
<1>2. op \in Requests /\ op.kind = "RECONCILE" /\ op.invoice = i
    BY <1>1 DEF Requests
<1>3. PICK y : y = Opened(op, "READ", <<>>, {})
    OBVIOUS
<1>4. y \in Transactions /\ y.op = op /\ y.phase = "READ" /\ y.have = {}
    BY <1>2, <1>3 DEF Opened, Transactions, Phases, Verdicts
<1>5. Quiet /\ tx' = [tx EXCEPT ![s] = y] /\ status[i] = "PAID"
    BY <1>1, <1>3 DEF Reconcile, Quiet
<1>6. Full(i)
    BY <1>5, BooksHold DEF Books, RowsOK
<1>7. TxOK(y) /\ Apart(s, y)
    BY <1>2, <1>4, <1>6 DEF TxOK, ReconcileOK, Apart
<1> QED
    BY <1>4, <1>5, <1>7, QuietKeeps

-----------------------------------------------------------------------------
(* Drafts.                                                                 *)

\* What leaves the money leaves coverage, sources and releases.
LEMMA MoneySame ==
    ASSUME UNCHANGED <<status, money>>, NEW i
    PROVE  /\ status' = status /\ alloc' = alloc /\ received' = received /\ advances' = advances /\ used' = used
           /\ Covered(i)' = Covered(i) /\ SourcesOf(i)' = SourcesOf(i) /\ Releases(i)' = Releases(i)
<1>1. status' = status /\ alloc' = alloc /\ received' = received /\ advances' = advances /\ used' = used
    BY DEF money
<1> QED
    BY <1>1 DEF Covered, Allocated, SourcesOf, Releases, AppliedTo

\* A step that leaves the transactions alone.
LEMMA OthersKeep ==
    ASSUME IInv, TypeOK', Books', tx' = tx, NEW H, Frame(H), received' = received,
           \A u \in Slots : Open(u) => tx[u].have \cap H = {}
    PROVE  IInv'
<1>1. TypeOK /\ RowsOK /\ Exclusive /\ PaysOnce /\ TxsOK /\ tx \in [Slots -> Transactions \cup {None}]
    BY DEF IInv, TypeOK
<1>2. TxsOK'
    <2> SUFFICES ASSUME NEW u \in Slots, Open(u)' PROVE TxOK(tx[u])'
        BY DEF TxsOK
    <2>1. PICK x \in Transactions : x = tx[u] /\ TxOK(x) /\ x.have \cap H = {}
        BY <1>1 DEF Open, TxsOK
    <2>2. x.op.kind = "PAY" => x.op.payment \notin received'
        BY <2>1 DEF TxOK, PayOK
    <2>3. TxOK(x)'
        BY <1>1, <2>1, <2>2, TxStays
    <2>4. tx'[u] = x
        BY <2>1
    <2> QED
        BY <2>3, <2>4
<1>3. Exclusive' /\ PaysOnce'
    BY <1>1 DEF Exclusive, PaysOnce, Open
<1> QED
    BY <1>2, <1>3 DEF IInv, Books

\* A draft changes: finalized batches stay as they are, and nobody holds it.
LEMMA DraftKeeps ==
    ASSUME IInv, NEW b \in Batches, NEW row \in BatchRows,
           batch' = [batch EXCEPT ![b] = row], UNCHANGED <<status, money, tx>>,
           row.state = "DRAFT", Matched(row.lines) \subseteq received \cup {None},
           \/ batch[b].state = None
           \/ batch[b].state = "DRAFT" /\ Free(b) /\ row.version > batch[b].version
    PROVE  IInv'
<1>1. TypeOK /\ Books /\ batch \in [Batches -> BatchRows]
    BY BooksHold DEF TypeOK
<1>2. UNCHANGED <<status, money>> /\ tx' = tx
    OBVIOUS
<1>3. status' = status /\ alloc' = alloc /\ received' = received /\ advances' = advances /\ used' = used
    BY <1>2, MoneySame
<1>4. batch'[b] = row /\ \A c \in Batches \ {b} : batch'[c] = batch[c]
    BY <1>1
<1>5. batch[b].state # "FINALIZED" /\ row.state # "FINALIZED" /\ row.state # None
    BY KindsOfRows
<1>6. TypeOK'
    <2>1. batch' \in [Batches -> BatchRows]
        BY <1>1
    <2> QED
        BY <1>1, <1>2, <1>3, <2>1 DEF TypeOK
<1>7. \A q : Settled(q)' = Settled(q)
    <2> SUFFICES ASSUME NEW q PROVE Settled(q)' = Settled(q)
        OBVIOUS
    <2>1. PICK F \in SUBSET Batches : F = FinalizedIn(batch)
        BY DEF FinalizedIn
    <2>2. F = FinalizedIn(batch') /\ b \notin F
        BY <1>4, <1>5, <2>1 DEF FinalizedIn
    <2>3. \A c \in F : batch[c].lines = batch'[c].lines
        BY <1>4, <2>2
    <2>4. SettledIn(batch, q, F) = SettledIn(batch', q, F)
        BY <2>3, SettledSame
    <2>5. /\ Settled(q) = SettledIn(batch, q, FinalizedIn(batch))
          /\ Settled(q)' = SettledIn(batch', q, FinalizedIn(batch'))
        BY SettledIs
    <2> QED
        BY <2>1, <2>2, <2>4, <2>5
<1>8. \A i : Covered(i)' = Covered(i) /\ SourcesOf(i)' = SourcesOf(i) /\ Releases(i)' = Releases(i)
    BY <1>2, MoneySame
<1> DEFINE H == IF batch[b].state = None THEN {} ELSE {b}
<1>9. Frame(H)
    <2>1. \A c \in Batches :
             \/ batch'[c] = batch[c] \/ batch[c].state = None
             \/ c \in H /\ batch'[c].state # None /\ batch'[c].version > batch[c].version
        BY <1>4, <1>5
    <2>2. \A i \in Invoices : Full(i) => Full(i)' /\ SourcesOf(i)' = SourcesOf(i)
        BY <1>8 DEF Full
    <2> QED
        BY <1>3, <1>7, <1>8, <2>1, <2>2 DEF Frame
<1>10. Books'
    <2>1. RowsOK'
        <3>1. \A q \in Payments \ received :
                 /\ \A i \in Invoices : alloc[i][q] = 0
                 /\ \A a \in DOMAIN advances : advances[a].payment # q
                 /\ \A c \in Batches : q \notin Matched(Lines(c))
            BY <1>1 DEF Books, RowsOK
        <3>2. \A q \in Payments \ received : \A c \in Batches : q \notin Matched(Lines(c))'
            <4> SUFFICES ASSUME NEW q \in Payments \ received, NEW c \in Batches PROVE q \notin Matched(Lines(c))'
                OBVIOUS
            <4>1. CASE c = b
                <5>1. Matched(Lines(c))' = Matched(row.lines)
                    BY <1>4, <4>1 DEF Matched, Lines
                <5> QED
                    BY <5>1, KindsOfRows
            <4>2. CASE c # b
                <5>1. Matched(Lines(c))' = Matched(Lines(c))
                    BY <1>4, <4>2 DEF Matched, Lines
                <5> QED
                    BY <3>1, <5>1
            <4> QED
                BY <4>1, <4>2
        <3>3. \A i \in Invoices : Covered(i)' <= TotalOf[i] /\ (status'[i] \in {"PAID", "SETTLED"} => Full(i)')
            BY <1>1, <1>3, <1>8 DEF Books, RowsOK, Full
        <3> QED
            BY <1>1, <1>3, <3>1, <3>2, <3>3 DEF Books, RowsOK
    <2>2. NeverOversettled'
        BY <1>1, <1>7 DEF Books, NeverOversettled, Settled
    <2>3. PromotionIsExact'
        <3>1. \A i \in Invoices : AllFinal(i, Finalized)' <=> AllFinal(i, Finalized)
            BY <1>1, <1>7, <1>8, AllSame
        <3> QED
            BY <1>1, <1>3, <1>8, <3>1 DEF Books, PromotionIsExact
    <2> QED
        BY <2>1, <2>2, <2>3 DEF Books
<1>11. \A u \in Slots : Open(u) => tx[u].have \cap H = {}
    BY DEF Free, Holder
<1> HIDE DEF H
<1> QED
    BY <1>1, <1>2, <1>3, <1>6, <1>9, <1>10, <1>11, OthersKeep

\* A line is a row, its payment is one of those the lines are matched to.
LEMMA LineFacts ==
    ASSUME NEW lines \in Seq(LineRows)
    PROVE  /\ DOMAIN lines = 1..Len(lines) /\ Len(lines) \in Nat
           /\ \A k \in DOMAIN lines : lines[k] \in LineRows /\ lines[k].match \in Matched(lines)
    BY DEF Matched

\* A line gets another match.
LEMMA Rematched ==
    ASSUME NEW lines \in Seq(LineRows), NEW k \in DOMAIN lines, NEW q \in Payments \cup {None}
    PROVE  /\ [lines EXCEPT ![k].match = q] \in Seq(LineRows)
           /\ Matched([lines EXCEPT ![k].match = q]) \subseteq Matched(lines) \cup {q}
<1>1. PICK new : new = [lines EXCEPT ![k].match = q]
    OBVIOUS
<1>2. DOMAIN lines = 1..Len(lines) /\ Len(lines) \in Nat /\ lines[k] \in LineRows
    BY LineFacts
<1>3. PICK x : x = [lines[k] EXCEPT !.match = q]
    OBVIOUS
<1>4. x \in LineRows /\ x.match = q
    BY <1>2, <1>3 DEF LineRows
<1>5. DOMAIN new = 1..Len(lines) /\ new[k] = x /\ \A j \in 1..Len(lines) : j # k => new[j] = lines[j]
    BY <1>1, <1>2, <1>3
<1>6. new \in [1..Len(lines) -> LineRows]
    <2>1. \A j \in 1..Len(lines) : new[j] \in LineRows
        BY <1>2, <1>4, <1>5, LineFacts
    <2>2. new = [j \in 1..Len(lines) |-> new[j]]
        BY <1>1, <1>2
    <2> QED
        BY <2>1, <2>2
<1>7. new \in Seq(LineRows)
    BY <1>2, <1>6
<1>8. Matched(new) \subseteq Matched(lines) \cup {q}
    BY <1>2, <1>4, <1>5 DEF Matched
<1> QED
    BY <1>1, <1>7, <1>8

\* The lines that are entered.
LEMMA EnteredIs ==
    ASSUME TypeOK, NEW b \in Batches, NEW n \in Nat, n <= Len(LinesOf[b]), NEW q \in Payments \cup {None}
    PROVE  /\ Entered(b, n, q) \in Seq(LineRows)
           /\ Matched(Entered(b, n, q)) \subseteq Matched(Lines(b)) \cup {q}
<1>1. PICK new : new = Entered(b, n, q)
    OBVIOUS
<1>2. PICK lines \in Seq(LineRows) : lines = Lines(b)
    BY BatchFacts DEF TypeOK, Lines
<1>3. PICK amounts \in Seq(Nat \ {0}) : amounts = LinesOf[b]
    BY SettlementsAssumption DEF SettlementsAssumption
<1>4. DOMAIN new = 1..n /\ \A k \in 1..n : new[k] = IF k \in DOMAIN lines THEN lines[k]
                                                 ELSE [amount |-> amounts[k], match |-> q]
    BY <1>1, <1>2, <1>3 DEF Entered
<1>5. \A k \in 1..n : amounts[k] \in Nat \ {0}
    BY <1>3
<1>6. \A k \in 1..n : new[k] \in LineRows /\ new[k].match \in Matched(lines) \cup {q}
    <2> SUFFICES ASSUME NEW k \in 1..n PROVE new[k] \in LineRows /\ new[k].match \in Matched(lines) \cup {q}
        OBVIOUS
    <2>1. CASE k \in DOMAIN lines
        BY <1>4, <2>1, LineFacts
    <2>2. CASE k \notin DOMAIN lines
        <3>1. new[k] = [amount |-> amounts[k], match |-> q]
            BY <1>4, <2>2
        <3> QED
            BY <1>5, <3>1 DEF LineRows
    <2> QED
        BY <2>1, <2>2
<1>7. new \in [1..n -> LineRows]
    <2>1. new = [k \in 1..n |-> new[k]]
        BY <1>1, <1>4 DEF Entered
    <2> QED
        BY <1>6, <2>1
<1>8. new \in Seq(LineRows)
    BY <1>7
<1>9. Matched(new) \subseteq Matched(lines) \cup {q}
    BY <1>4, <1>6 DEF Matched
<1> QED
    BY <1>1, <1>2, <1>8, <1>9

\* The change of a draft keeps the invariant: no transaction that knows the batch misses
\* it.
LEMMA ChangeKeeps ==
    ASSUME IInv, NEW b \in Batches, NEW gross \in Nat, NEW lines \in Seq(LineRows), Change(b, gross, lines),
           Matched(lines) \subseteq received \cup {None}
    PROVE  IInv'
<1>1. PICK old \in BatchRows : old = batch[b]
    BY BooksHold DEF TypeOK
<1>2. PICK row : row = [old EXCEPT !.version = @ + 1, !.gross = gross, !.lines = lines]
    OBVIOUS
<1>3. batch \in [Batches -> BatchRows]
    BY BooksHold DEF TypeOK
<1>4. /\ row \in BatchRows /\ row.state = old.state /\ row.version = old.version + 1
      /\ old.version \in Nat /\ row.lines = lines
    <2>1. old.version \in Nat /\ old.version + 1 \in Nat
        BY DEF BatchRows
    <2>2. PICK n \in Nat : n = old.version + 1
        BY <2>1
    <2>3. row = [old EXCEPT !.version = n, !.gross = gross, !.lines = lines]
        BY <1>2, <2>2
    <2>4. row \in BatchRows
        BY <2>3 DEF BatchRows
    <2>5. row.state = old.state /\ row.version = n /\ row.lines = lines
        BY <2>3 DEF BatchRows
    <2> QED
        BY <2>1, <2>2, <2>4, <2>5
<1>5. batch' = [batch EXCEPT ![b] = row]
    BY <1>1, <1>2, <1>3 DEF Change, BatchRows
<1>6. batch[b].state = "DRAFT" /\ Free(b) /\ UNCHANGED <<status, money, tx>>
    BY DEF Change
<1>7. row.version > batch[b].version
    BY <1>1, <1>4
<1> QED
    BY <1>1, <1>4, <1>5, <1>6, <1>7, DraftKeeps

\* Whatever is done to a draft keeps the invariant.
LEMMA DraftsKeep ==
    ASSUME IInv, NEW b \in Batches, Draft(b)
    PROVE  IInv'
<1>1. TypeOK /\ Matched(Lines(b)) \subseteq received \cup {None} /\ received \subseteq Payments
    BY BooksHold, Exists DEF Books, TypeOK
<1>2. PICK lines \in Seq(LineRows) : lines = Lines(b)
    BY <1>1, BatchFacts DEF TypeOK, Lines
<1>3. batch[b].gross \in Nat
    BY <1>1 DEF TypeOK, BatchRows
<1>4. \A g \in GrossOf[b] : g \in Nat
    BY SettlementsAssumption DEF SettlementsAssumption
<1>5. PICK n \in Nat : n = Len(LinesOf[b])
    BY SettlementsAssumption DEF SettlementsAssumption
<1>6. ASSUME NEW gross \in GrossOf[b], CreateBatch(b, gross) PROVE IInv'
    <2>1. PICK row : row = [state |-> "DRAFT", version |-> 1, gross |-> gross, lines |-> <<>>]
        OBVIOUS
    <2>2. row \in BatchRows /\ row.state = "DRAFT" /\ row.lines = <<>>
        BY <1>4, <2>1 DEF BatchRows
    <2>3. Matched(row.lines) = {}
        BY <2>2 DEF Matched
    <2>4. batch' = [batch EXCEPT ![b] = row] /\ batch[b].state = None /\ UNCHANGED <<status, money, tx>>
        BY <1>6, <2>1 DEF CreateBatch
    <2> QED
        BY <2>2, <2>3, <2>4, DraftKeeps
<1>7. ASSUME NEW gross \in GrossOf[b], EditBatch(b, gross) PROVE IInv'
    BY <1>1, <1>2, <1>4, <1>7, ChangeKeeps DEF EditBatch
<1>8. CASE AddLine(b)
    <2>1. PICK q \in {p \in Payments : Eligible(p)} \cup {None} :
             Change(b, batch[b].gross, Entered(b, Len(Lines(b)) + 1, q))
        BY <1>8 DEF AddLine
    <2>2. PICK m \in Nat : m = Len(Lines(b)) + 1 /\ m <= n
        BY <1>2, <1>5, <1>8, LineFacts DEF AddLine
    <2>3. q \in received \cup {None} /\ q \in Payments \cup {None}
        BY <2>1 DEF Eligible
    <2>4. PICK new \in Seq(LineRows) : new = Entered(b, m, q) /\ Matched(new) \subseteq Matched(Lines(b)) \cup {q}
        BY <1>1, <1>5, <2>2, <2>3, EnteredIs
    <2>5. Matched(new) \subseteq received \cup {None} /\ Change(b, batch[b].gross, new)
        BY <1>1, <2>1, <2>2, <2>3, <2>4
    <2> QED
        BY <1>3, <2>5, ChangeKeeps
<1>9. CASE ImportCsv(b)
    <2>1. PICK new \in Seq(LineRows) :
             /\ new = Entered(b, n, None)
             /\ Matched(new) \subseteq Matched(Lines(b)) \cup {None}
        BY <1>1, <1>5, EnteredIs
    <2>2. Matched(new) \subseteq received \cup {None} /\ Change(b, batch[b].gross, new)
        BY <1>1, <1>5, <1>9, <2>1 DEF ImportCsv
    <2> QED
        BY <1>3, <2>2, ChangeKeeps
<1>10. ASSUME NEW k \in DOMAIN Lines(b), NEW q \in received \cup {None},
              Change(b, batch[b].gross, [Lines(b) EXCEPT ![k].match = q])
       PROVE  IInv'
    <2>1. Lines(b) \in Seq(LineRows) /\ q \in Payments \cup {None}
        BY <1>1, <1>2
    <2>2. /\ [Lines(b) EXCEPT ![k].match = q] \in Seq(LineRows)
          /\ Matched([Lines(b) EXCEPT ![k].match = q]) \subseteq Matched(Lines(b)) \cup {q}
        BY <2>1, Rematched
    <2>3. PICK new \in Seq(LineRows) : /\ new = [Lines(b) EXCEPT ![k].match = q]
                                       /\ Matched(new) \subseteq Matched(Lines(b)) \cup {q}
        BY <2>2
    <2>4. Matched(new) \subseteq received \cup {None} /\ Change(b, batch[b].gross, new)
        BY <1>1, <1>10, <2>3
    <2> QED
        BY <1>3, <2>4, ChangeKeeps
<1> QED
    BY <1>6, <1>7, <1>8, <1>9, <1>10 DEF Draft, UnmatchLine, MatchLine, Eligible

-----------------------------------------------------------------------------
(* Commits.                                                                *)

\* The payment that a transaction brings.
Brings(x) == IF x.op.kind = "PAY" THEN {x.op.payment} ELSE {}

\* A commit keeps the invariant if it leaves the books right and writes only rows that it
\* holds.
LEMMA CommitKeeps ==
    ASSUME IInv, NEW s \in Slots, NEW x \in Transactions, x = tx[s], End(s), TypeOK', Books',
           Frame(x.have), received' \subseteq received \cup Brings(x)
    PROVE  IInv'
<1>1. PICK H : H = x.have
    OBVIOUS
<1>2. tx' = [tx EXCEPT ![s] = None] /\ Open(s) /\ Exclusive /\ PaysOnce /\ TxsOK
    BY TransactionFacts DEF End, Open, IInv
<1>3. \A u \in Slots \ {s} : Open(u) => /\ tx[u].have \cap H = {}
                                        /\ tx[u].op.kind = "PAY" => tx[u].op.payment \notin received'
    <2> SUFFICES ASSUME NEW u \in Slots \ {s}, Open(u)
                 PROVE  /\ tx[u].have \cap H = {}
                        /\ tx[u].op.kind = "PAY" => tx[u].op.payment \notin received'
        OBVIOUS
    <2>1. tx[u].have \cap H = {}
        BY <1>1, <1>2 DEF Exclusive
    <2>2. ASSUME tx[u].op.kind = "PAY" PROVE tx[u].op.payment \notin received'
        <3>1. tx[u].op.payment \notin received
            BY <1>2, <2>2 DEF TxsOK, TxOK, PayOK
        <3>2. tx[u].op.payment \notin Brings(x)
            BY <1>2, <2>2 DEF PaysOnce, Brings
        <3> QED
            BY <3>1, <3>2
    <2> QED
        BY <2>1, <2>2
<1>4. Frame(H)
    BY <1>1
<1> QED
    BY <1>2, <1>3, <1>4, StepKeeps

\* A transaction commits when it holds all that it claims.
LEMMA Commit ==
    ASSUME IInv, NEW s \in Slots, Ready(s, "COMMIT")
    PROVE  /\ tx[s] \in Transactions /\ TxOK(tx[s]) /\ Claims(tx[s]) = tx[s].have
           /\ tx[s].phase = "COMMIT" /\ tx[s].want = <<>>
           /\ TypeOK /\ RowsOK /\ Books
    BY Opens, Claimed, BooksHold DEF Ready

\* What leaves the rows of the money leaves coverage, sources and releases, whatever
\* becomes of the statuses.
LEMMA MoneyRows ==
    ASSUME UNCHANGED money, NEW i
    PROVE  /\ alloc' = alloc /\ received' = received /\ advances' = advances /\ used' = used
           /\ Covered(i)' = Covered(i) /\ SourcesOf(i)' = SourcesOf(i) /\ Releases(i)' = Releases(i)
<1>1. alloc' = alloc /\ received' = received /\ advances' = advances /\ used' = used
    BY DEF money
<1> QED
    BY <1>1 DEF Covered, Allocated, SourcesOf, Releases, AppliedTo

\* What leaves the batches leaves what is settled and final.
LEMMA BatchesSame ==
    ASSUME batch' = batch, NEW q
    PROVE  /\ Settled(q)' = Settled(q)
           /\ (PaymentFinal(q, Finalized)' <=> PaymentFinal(q, Finalized))
<1>1. /\ Settled(q) = SettledIn(batch, q, FinalizedIn(batch))
      /\ Settled(q)' = SettledIn(batch', q, FinalizedIn(batch'))
    BY SettledIs
<1>2. Settled(q)' = Settled(q)
    BY <1>1
<1>3. PaymentFinal(q, Finalized)' <=> PaymentFinal(q, Finalized)
    BY <1>2 DEF PaymentFinal, Settled
<1> QED
    BY <1>2, <1>3

\* Finalized, a draft settles what it would settle.
LEMMA FinalizationSettles ==
    ASSUME TypeOK, NEW b \in Batches, batch[b].state = "DRAFT",
           batch' = [batch EXCEPT ![b].state = "FINALIZED", ![b].version = @ + 1], NEW q
    PROVE  /\ Settled(q)' = SettledBy(q, Finalized \cup {b})
           /\ Settled(q)' = Settled(q) + PartOf(batch[b].lines, q)
           /\ (PaymentFinal(q, Finalized)' <=> PaymentFinal(q, Finalized \cup {b}))
<1>1. batch \in [Batches -> BatchRows]
    BY DEF TypeOK
<1>2. \A c \in Batches : /\ batch'[c].lines = batch[c].lines
                         /\ batch'[c].state = IF c = b THEN "FINALIZED" ELSE batch[c].state
    BY <1>1 DEF BatchRows
<1>3. FinalizedIn(batch') = FinalizedIn(batch) \cup {b}
    BY <1>2 DEF FinalizedIn
<1>4. PICK F \in SUBSET Batches : F = FinalizedIn(batch) \cup {b}
    BY DEF FinalizedIn
<1>5. SettledIn(batch', q, F) = SettledIn(batch, q, F)
    <2>1. \A c \in F : batch'[c].lines = batch[c].lines
        BY <1>2
    <2> QED
        BY <2>1, SettledSame
<1>6. Settled(q)' = SettledBy(q, Finalized \cup {b})
    BY <1>3, <1>4, <1>5, SettledIs, SettledWithIs
<1>7. Settled(q)' = Settled(q) + PartOf(batch[b].lines, q)
    <2>1. SettledBy(q, Finalized \cup {b}) = SettledIn(batch, q, FinalizedIn(batch) \cup {b})
        BY SettledWithIs
    <2>2. Settled(q) = SettledIn(batch, q, FinalizedIn(batch))
        BY SettledIs
    <2>3. SettledIn(batch, q, FinalizedIn(batch) \cup {b})
             = SettledIn(batch, q, FinalizedIn(batch)) + PartOf(batch[b].lines, q)
        BY <1>1, DraftAdds
    <2> QED
        BY <1>6, <2>1, <2>2, <2>3
<1>8. PaymentFinal(q, Finalized)' <=> PaymentFinal(q, Finalized \cup {b})
    BY <1>6 DEF PaymentFinal, Settled
<1> QED
    BY <1>6, <1>7, <1>8

\* A finalization is committed.
LEMMA CommitFinalizationKeeps ==
    ASSUME IInv, NEW s \in Slots, CommitFinalization(s)
    PROVE  IInv'
<1>1. PICK x \in Transactions : x = tx[s] /\ TxOK(x)
    BY Commit DEF CommitFinalization
<1>2. /\ x.op.kind = "FINALIZE" /\ x.phase = "COMMIT" /\ Claims(x) = x.have
      /\ TypeOK /\ RowsOK /\ Books
    BY <1>1, Commit DEF CommitFinalization, Finalization
<1>3. PICK b \in Batches : b = x.op.batch
    BY <1>2, RequestFacts, TransactionFacts
<1>4. PICK Q : Q = Matched(Lines(b))
    OBVIOUS
<1>5. PICK H : H = x.have
    OBVIOUS
<1>6. /\ batch' = [batch EXCEPT ![b].state = "FINALIZED", ![b].version = @ + 1]
      /\ status' = [i \in Invoices |-> IF i \in x.verdict THEN "SETTLED" ELSE status[i]]
      /\ End(s) /\ UNCHANGED money
    BY <1>1, <1>3 DEF CommitFinalization, BatchOf
<1>7. FinalizeOK(x)
    BY <1>1, <1>2 DEF TxOK
<1>8. /\ batch[b].state = "DRAFT" /\ b \in H /\ None \notin Q /\ x.found \subseteq H
      /\ Q \subseteq H /\ Funded(Q) \subseteq H
      /\ Capacity(b) /\ Discover(Q) \subseteq x.found
      /\ x.verdict = {i \in x.found : status[i] = "PAID" /\ AllFinal(i, Finalized \cup {b})}
    BY <1>2, <1>3, <1>4, <1>5, <1>7 DEF FinalizeOK
<1>9. alloc' = alloc /\ received' = received /\ advances' = advances /\ used' = used
    BY <1>6, MoneyRows
<1>10. \A i : Covered(i)' = Covered(i) /\ SourcesOf(i)' = SourcesOf(i) /\ Releases(i)' = Releases(i)
    BY <1>6, MoneyRows
<1>11. \A q : /\ Settled(q)' = SettledBy(q, Finalized \cup {b})
              /\ Settled(q)' = Settled(q) + PartOf(batch[b].lines, q)
              /\ (PaymentFinal(q, Finalized)' <=> PaymentFinal(q, Finalized \cup {b}))
    BY <1>2, <1>6, <1>8, FinalizationSettles
<1>12. Q \subseteq Payments /\ Q \subseteq received
    <2>1. Q \subseteq received \cup {None}
        BY <1>2, <1>4, Exists
    <2> QED
        BY <1>2, <1>8, <2>1 DEF TypeOK
<1>13. batch \in [Batches -> BatchRows] /\ batch[b].lines \in Seq(LineRows) /\ Q = Matched(batch[b].lines)
    BY <1>2, <1>4, BatchFacts DEF TypeOK, Lines
<1>14. \A q : /\ Settled(q) \in Nat /\ PartOf(batch[b].lines, q) \in Nat
              /\ q \notin Q => Settled(q)' = Settled(q)
    <2> SUFFICES ASSUME NEW q
                 PROVE  /\ Settled(q) \in Nat /\ PartOf(batch[b].lines, q) \in Nat
                        /\ q \notin Q => Settled(q)' = Settled(q)
        OBVIOUS
    <2>1. Settled(q) \in Nat
        <3>1. FinalizedIn(batch) \in SUBSET Batches
            BY DEF FinalizedIn
        <3>2. SettledIn(batch, q, FinalizedIn(batch)) \in Nat
            BY <1>13, <3>1, SettledIsNat
        <3> QED
            BY <3>2, SettledIs
    <2>2. PartOf(batch[b].lines, q) \in Nat /\ (q \notin Q => PartOf(batch[b].lines, q) = 0)
        BY <1>13, PartNat
    <2> QED
        BY <1>11, <2>1, <2>2
<1>15. \A q \in Q : Settled(q)' <= AmountOf[q]
    BY <1>4, <1>8, <1>11 DEF Capacity
<1>16. \A q \in Payments : PaymentFinal(q, Finalized) => PaymentFinal(q, Finalized)'
    <2> SUFFICES ASSUME NEW q \in Payments, PaymentFinal(q, Finalized) PROVE PaymentFinal(q, Finalized)'
        OBVIOUS
    <2>1. CASE q \notin Q
        BY <1>14, <2>1, FinalSame
    <2>2. CASE q \in Q
        <3>1. Settled(q) = AmountOf[q] => Settled(q)' = AmountOf[q]
            BY <1>11, <1>14, <1>15, <2>2, Amounts
        <3> QED
            BY <3>1 DEF PaymentFinal, Settled
    <2> QED
        BY <2>1, <2>2
<1>17. \A i \in Invoices : i \notin x.found => SourcesOf(i) \cap Q = {}
    BY <1>8 DEF Discover
<1>18. \A i \in Invoices : status'[i] = IF i \in x.verdict THEN "SETTLED" ELSE status[i]
    BY <1>6
<1>19. \A c \in Batches : batch'[c].lines = batch[c].lines /\ (c # b => batch'[c] = batch[c])
    BY <1>6, <1>13 DEF BatchRows
<1>20. Frame(H)
    <2>1. \A c \in Batches : \/ batch'[c] = batch[c] \/ batch[c].state = None
                             \/ c \in H /\ batch'[c].state # None /\ batch'[c].version > batch[c].version
        <3>1. /\ batch'[b].state = "FINALIZED" /\ batch'[b].version = batch[b].version + 1
              /\ batch[b].version \in Nat
            BY <1>6, <1>13, BatchFacts DEF BatchRows
        <3> QED
            BY <1>8, <1>19, <3>1, KindsOfRows
    <2>2. \A i \in Invoices \ H : status'[i] = status[i]
        BY <1>8, <1>18
    <2>3. \A q \in Q : /\ \A a \in DOMAIN advances \ H : advances[a].payment # q
                       /\ \A i \in Invoices \ H : q \notin SourcesOf(i)
        BY <1>8, <1>17 DEF Funded
    <2>4. \A i \in Invoices : Full(i) => Full(i)' /\ SourcesOf(i)' = SourcesOf(i)
        BY <1>10 DEF Full
    <2>5. \A q \in Payments :
             \/ Settled(q)' = Settled(q)
             \/ /\ q \in H /\ q \in received
                /\ PaymentFinal(q, Finalized) => PaymentFinal(q, Finalized)'
                /\ \A a \in DOMAIN advances \ H : advances[a].payment # q
                /\ \A i \in Invoices \ H : q \notin SourcesOf(i)
        BY <1>8, <1>12, <1>14, <1>16, <2>3
    <2> QED
        BY <1>9, <1>10, <2>1, <2>2, <2>4, <2>5 DEF Frame
<1>21. TypeOK'
    <2>1. batch' \in [Batches -> BatchRows]
        BY <1>6, <1>13 DEF BatchRows
    <2>2. status' \in [Invoices -> Statuses]
        BY <1>2, <1>6 DEF TypeOK, Statuses
    <2>3. tx' \in [Slots -> Transactions \cup {None}]
        BY <1>2, <1>6 DEF TypeOK, End
    <2> QED
        BY <1>2, <1>9, <2>1, <2>2, <2>3 DEF TypeOK
<1>22. RowsOK'
    <2>1. \A c \in Batches : Matched(Lines(c))' = Matched(Lines(c))
        BY <1>19 DEF Matched, Lines
    <2>2. \A i \in Invoices : status'[i] \in {"PAID", "SETTLED"} => Full(i)'
        <3>1. \A i \in Invoices : status[i] \in {"PAID", "SETTLED"} => Full(i)
            BY <1>2 DEF RowsOK
        <3>2. \A i \in Invoices : status'[i] \in {"PAID", "SETTLED"} => status[i] \in {"PAID", "SETTLED"}
            BY <1>8, <1>18
        <3> QED
            BY <1>10, <3>1, <3>2 DEF Full
    <2> QED
        BY <1>2, <1>9, <1>10, <2>1, <2>2 DEF RowsOK
<1>23. NeverOversettled'
    <2>1. \A q \in Payments : Settled(q) <= AmountOf[q]
        BY <1>2 DEF Books, NeverOversettled, Settled
    <2>2. \A q \in Payments : Settled(q)' <= AmountOf[q]
        BY <1>14, <1>15, <2>1
    <2> QED
        BY <2>2 DEF NeverOversettled, Settled
<1>24. PromotionIsExact'
    <2> SUFFICES ASSUME NEW i \in Invoices
                 PROVE  /\ status'[i] = "SETTLED" => Covered(i)' = TotalOf[i] /\ AllFinal(i, Finalized)'
                        /\ status'[i] = "PAID" /\ SourcesOf(i)' \cap DOMAIN Inherited = {}
                              => ~AllFinal(i, Finalized)'
        BY DEF PromotionIsExact
    <2>1. /\ status[i] = "SETTLED" => Covered(i) = TotalOf[i] /\ AllFinal(i, Finalized)
          /\ status[i] = "PAID" /\ SourcesOf(i) \cap DOMAIN Inherited = {} => ~AllFinal(i, Finalized)
        BY <1>2 DEF Books, PromotionIsExact
    <2>2. AllFinal(i, Finalized)' <=> AllFinal(i, Finalized \cup {b})
        BY <1>10, <1>11 DEF AllFinal
    <2>3. CASE i \in x.verdict
        <3>1. status[i] = "PAID" /\ AllFinal(i, Finalized \cup {b})
            BY <1>8, <2>3
        <3>2. Covered(i)' = TotalOf[i]
            BY <1>2, <1>10, <3>1 DEF RowsOK, Full
        <3> QED
            BY <1>18, <2>2, <2>3, <3>1, <3>2
    <2>4. CASE i \notin x.verdict
        <3>1. status'[i] = status[i]
            BY <1>18, <2>4
        <3>2. status[i] = "SETTLED" => Covered(i)' = TotalOf[i] /\ AllFinal(i, Finalized)'
            BY <1>2, <1>10, <1>20, <2>1, StaysFinal
        <3>3. status[i] = "PAID" /\ SourcesOf(i) \cap DOMAIN Inherited = {} => ~AllFinal(i, Finalized)'
            <4>1. CASE i \in x.found
                BY <1>8, <2>2, <2>4, <4>1
            <4>2. CASE i \notin x.found
                <5>1. \A q \in SourcesOf(i) : Settled(q)' = Settled(q)
                    BY <1>14, <1>17, <4>2
                <5>2. AllFinal(i, Finalized)' <=> AllFinal(i, Finalized)
                    BY <1>2, <1>10, <5>1, AllSame
                <5> QED
                    BY <2>1, <5>2
            <4> QED
                BY <4>1, <4>2
        <3> QED
            BY <1>10, <3>1, <3>2, <3>3
    <2> QED
        BY <2>3, <2>4
<1>25. Books' /\ Frame(x.have)
    BY <1>5, <1>20, <1>22, <1>23, <1>24 DEF Books
<1> QED
    BY <1>1, <1>6, <1>9, <1>21, <1>25, CommitKeeps

\* Coverage that fits an invoice and gives it the status that goes with it.
LEMMA CoverageGrows ==
    ASSUME TypeOK, RowsOK, NEW i \in Invoices, NEW n \in Nat, n > 0, n <= Room(i), NEW p \in Payments,
           batch' = batch, Covered(i)' = Covered(i) + n, SourcesOf(i)' = SourcesOf(i) \cup {p},
           status'[i] = StatusWith(i, n, p)
    PROVE  /\ ~Full(i) /\ Covered(i)' <= TotalOf[i]
           /\ status'[i] \in {"PAID", "SETTLED"} => Full(i)'
           /\ status'[i] = "SETTLED" => AllFinal(i, Finalized)'
           /\ status'[i] = "PAID" => ~AllFinal(i, Finalized)'
<1>1. Covered(i) \in Nat /\ TotalOf[i] \in Nat /\ Covered(i) <= TotalOf[i]
    BY Amounts, CoveredNat DEF RowsOK
<1>2. PICK c \in Nat : c = Covered(i)
    BY <1>1
<1>3. PICK total \in Nat : total = TotalOf[i]
    BY <1>1
<1>4. Room(i) = 0 \/ Room(i) = total - c
    BY <1>2, <1>3 DEF Room
<1>5. n <= total - c
    BY <1>1, <1>2, <1>3, <1>4
<1>6. ~Full(i) /\ Covered(i)' <= TotalOf[i]
    BY <1>2, <1>3, <1>5 DEF Full
<1>7. AllFinal(i, Finalized)' <=> AllFinal(i, Finalized) /\ PaymentFinal(p, Finalized)
    <2>1. \A q : PaymentFinal(q, Finalized)' <=> PaymentFinal(q, Finalized)
        BY BatchesSame
    <2> QED
        BY <2>1 DEF AllFinal
<1>8. CASE c + n < total
    BY <1>2, <1>3, <1>6, <1>8 DEF StatusWith
<1>9. CASE ~(c + n < total)
    <2>1. Full(i)'
        BY <1>2, <1>3, <1>5, <1>9 DEF Full
    <2>2. status'[i] = IF AllFinal(i, Finalized) /\ PaymentFinal(p, Finalized) THEN "SETTLED" ELSE "PAID"
        BY <1>2, <1>3, <1>9 DEF StatusWith
    <2> QED
        BY <1>6, <1>7, <2>1, <2>2
<1> QED
    BY <1>8, <1>9

\* One payment's share of an invoice changes from nothing.
LEMMA AllocatedChange ==
    ASSUME NEW al \in [Invoices -> [Payments -> Nat]], NEW new \in [Invoices -> [Payments -> Nat]],
           NEW i \in Invoices, NEW q \in Payments, al[i][q] = 0,
           \A p \in Payments \ {q} : new[i][p] = al[i][p]
    PROVE  AllocatedIn(new, i) = AllocatedIn(al, i) + new[i][q]
<1> DEFINE f == [p \in Payments |-> al[i][p]]
           g == [p \in Payments |-> new[i][p]]
<1>1. \A p \in Payments : f[p] \in Int
    OBVIOUS
<1>2. \A p \in Payments \ {q} : g[p] = f[p]
    OBVIOUS
<1>3. f[q] = 0 /\ g[q] = new[i][q]
    OBVIOUS
<1>4. g[q] \in Int
    OBVIOUS
<1>5. AllocatedIn(new, i) = SumFunctionOnSet(g, Payments) /\ AllocatedIn(al, i) = SumFunctionOnSet(f, Payments)
    BY DEF AllocatedIn
<1> HIDE DEF f, g
<1>6. IsFiniteSet(Payments) /\ q \in Payments
    BY Finite
<1>7. SumFunctionOnSet(g, Payments) = SumFunctionOnSet(f, Payments) - f[q] + g[q]
    BY ONLY <1>1, <1>2, <1>4, <1>6, SumChange
<1>8. SumFunctionOnSet(f, Payments) \in Int
    BY <1>1, <1>6, SumType
<1> QED
    BY <1>3, <1>4, <1>5, <1>7, <1>8

\* A payment arrives.
LEMMA PaymentArrives ==
    ASSUME TypeOK, NEW i \in Invoices, NEW q \in Payments, NEW n \in Nat, alloc[i][q] = 0,
           alloc' \in [Invoices -> [Payments -> Nat]], alloc'[i] = [alloc[i] EXCEPT ![q] = n],
           advances' = advances, used' = used
    PROVE  /\ Covered(i)' = Covered(i) + n
           /\ SourcesOf(i)' = IF n > 0 THEN SourcesOf(i) \cup {q} ELSE SourcesOf(i)
           /\ n = 0 => Releases(i)' = Releases(i)
<1>1. alloc \in [Invoices -> [Payments -> Nat]] /\ alloc[i] \in [Payments -> Nat]
    BY DEF TypeOK
<1>2. alloc'[i][q] = n /\ \A p \in Payments \ {q} : alloc'[i][p] = alloc[i][p]
    BY <1>1
<1>3. AllocatedIn(alloc', i) = AllocatedIn(alloc, i) + n
    <2>1. PICK al \in [Invoices -> [Payments -> Nat]] : al = alloc
        BY <1>1
    <2>2. PICK new \in [Invoices -> [Payments -> Nat]] : new = alloc'
        OBVIOUS
    <2>3. al[i][q] = 0 /\ \A p \in Payments \ {q} : new[i][p] = al[i][p]
        BY <1>2, <2>1, <2>2
    <2>4. AllocatedIn(new, i) = AllocatedIn(al, i) + new[i][q]
        BY ONLY <2>3, i \in Invoices, q \in Payments, new \in [Invoices -> [Payments -> Nat]],
                al \in [Invoices -> [Payments -> Nat]], AllocatedChange
    <2> QED
        BY <1>2, <2>1, <2>2, <2>4
<1>4. Covered(i)' = Covered(i) + n
    <2>1. PICK m : m = AdvancedIn(advances, AppliedIn(advances, used, i))
        OBVIOUS
    <2>2. PICK c \in Nat : c = AllocatedIn(alloc, i)
        BY <1>1, AllocatedNat
    <2>3. PICK S : S = AppliedIn(advances, used, i)
        OBVIOUS
    <2>4. S \in SUBSET Advances /\ \A a \in S : advances[a].amount \in Nat
        BY <2>3, AdvanceFacts DEF AppliedIn
    <2>5. m \in Nat
        BY <2>1, <2>3, <2>4, AdvancedNat
    <2>6. Covered(i) = c + m
        BY <2>1, <2>2, CoveredIs
    <2>7. Covered(i)' = (c + n) + m
        BY <1>3, <2>1, <2>2, CoveredIs
    <2> QED
        BY <2>2, <2>5, <2>6, <2>7
<1>5. AppliedTo(i)' = AppliedTo(i)
    BY DEF AppliedTo
<1>6. SourcesOf(i)' = IF n > 0 THEN SourcesOf(i) \cup {q} ELSE SourcesOf(i)
    BY <1>2, <1>5 DEF SourcesOf
<1>7. n = 0 => Releases(i)' = Releases(i)
    <2>1. n = 0 => alloc'[i] = alloc[i]
        BY <1>1
    <2> QED
        BY <1>5, <2>1 DEF Releases
<1> QED
    BY <1>4, <1>6, <1>7

\* A payment is committed.
LEMMA CommitPayKeeps ==
    ASSUME IInv, NEW s \in Slots, CommitPay(s)
    PROVE  IInv'
<1>1. PICK x \in Transactions : x = tx[s] /\ TxOK(x)
    BY Commit DEF CommitPay
<1>2. /\ x.op.kind = "PAY" /\ x.phase = "COMMIT" /\ Claims(x) = x.have
      /\ TypeOK /\ RowsOK /\ Books
    BY <1>1, Commit DEF CommitPay
<1>3. PICK q \in Payments : q = x.op.payment
    BY <1>2, RequestFacts, TransactionFacts
<1>4. PICK H : H = x.have
    OBVIOUS
<1>5. PICK v : v = x.verdict
    OBVIOUS
<1>6. /\ received' = received \cup {q}
      /\ alloc' = [i \in Invoices |-> [alloc[i] EXCEPT ![q] = v[i].amount]]
      /\ status' = [i \in Invoices |-> IF v[i].amount > 0 THEN v[i].status ELSE status[i]]
      /\ End(s) /\ batch' = batch /\ advances' = advances /\ used' = used
    BY <1>1, <1>3, <1>5 DEF CommitPay
<1>7. /\ q \notin received
      /\ v \in [Invoices -> [amount : Nat, status : Statuses]]
      /\ \A i \in Invoices : v[i].amount > 0 =>
            /\ i \in H
            /\ v[i].amount <= Room(i)
            /\ v[i].status = StatusWith(i, v[i].amount, q)
    BY <1>1, <1>2, <1>3, <1>4, <1>5 DEF TxOK, PayOK
<1>8. \A i \in Invoices : v[i].amount \in Nat /\ v[i].status \in Statuses
    BY <1>7
<1>9. \A i \in Invoices : alloc[i][q] = 0
    BY <1>2, <1>7 DEF RowsOK
<1>10. alloc \in [Invoices -> [Payments -> Nat]]
    BY <1>2 DEF TypeOK
<1>11. alloc' \in [Invoices -> [Payments -> Nat]]
    BY <1>6, <1>8, <1>10
<1>12. \A i \in Invoices :
          /\ Covered(i)' = Covered(i) + v[i].amount
          /\ SourcesOf(i)' = IF v[i].amount > 0 THEN SourcesOf(i) \cup {q} ELSE SourcesOf(i)
          /\ v[i].amount = 0 => Releases(i)' = Releases(i)
    <2> SUFFICES ASSUME NEW i \in Invoices
                 PROVE  /\ Covered(i)' = Covered(i) + v[i].amount
                        /\ SourcesOf(i)' = IF v[i].amount > 0 THEN SourcesOf(i) \cup {q} ELSE SourcesOf(i)
                        /\ v[i].amount = 0 => Releases(i)' = Releases(i)
        OBVIOUS
    <2>1. PICK n \in Nat : n = v[i].amount
        BY <1>8
    <2>2. alloc'[i] = [alloc[i] EXCEPT ![q] = n]
        BY <1>6, <2>1
    <2>3. /\ Covered(i)' = Covered(i) + n
          /\ SourcesOf(i)' = IF n > 0 THEN SourcesOf(i) \cup {q} ELSE SourcesOf(i)
          /\ n = 0 => Releases(i)' = Releases(i)
        BY <1>2, <1>6, <1>9, <1>11, <2>2, PaymentArrives
    <2> QED
        BY <2>1, <2>3
<1>13. \A i \in Invoices : v[i].amount = 0 =>
          /\ status'[i] = status[i] /\ Covered(i)' = Covered(i)
          /\ SourcesOf(i)' = SourcesOf(i) /\ Releases(i)' = Releases(i)
    <2> SUFFICES ASSUME NEW i \in Invoices, v[i].amount = 0
                 PROVE  /\ status'[i] = status[i] /\ Covered(i)' = Covered(i)
                        /\ SourcesOf(i)' = SourcesOf(i) /\ Releases(i)' = Releases(i)
        OBVIOUS
    <2>1. Covered(i) \in Nat
        BY <1>2, CoveredNat
    <2>2. Covered(i)' = Covered(i) + 0
        BY <1>12
    <2>3. status'[i] = status[i]
        BY <1>6
    <2> QED
        BY <1>12, <2>1, <2>2, <2>3
<1>14. \A i \in Invoices : v[i].amount > 0 =>
          /\ i \in H
          /\ ~Full(i) /\ Covered(i)' <= TotalOf[i]
          /\ status'[i] \in {"PAID", "SETTLED"} => Full(i)'
          /\ status'[i] = "SETTLED" => AllFinal(i, Finalized)'
          /\ status'[i] = "PAID" => ~AllFinal(i, Finalized)'
    <2> SUFFICES ASSUME NEW i \in Invoices, v[i].amount > 0
                 PROVE  /\ i \in H
                        /\ ~Full(i) /\ Covered(i)' <= TotalOf[i]
                        /\ status'[i] \in {"PAID", "SETTLED"} => Full(i)'
                        /\ status'[i] = "SETTLED" => AllFinal(i, Finalized)'
                        /\ status'[i] = "PAID" => ~AllFinal(i, Finalized)'
        OBVIOUS
    <2>1. PICK n \in Nat : n = v[i].amount
        BY <1>8
    <2>2. /\ n > 0 /\ n <= Room(i) /\ Covered(i)' = Covered(i) + n /\ SourcesOf(i)' = SourcesOf(i) \cup {q}
        BY <1>7, <1>12, <2>1
    <2>3. status'[i] = StatusWith(i, n, q)
        BY <1>6, <1>7, <2>1
    <2>4. batch' = batch
        BY <1>6
    <2>5. /\ ~Full(i) /\ Covered(i)' <= TotalOf[i]
          /\ status'[i] \in {"PAID", "SETTLED"} => Full(i)'
          /\ status'[i] = "SETTLED" => AllFinal(i, Finalized)'
          /\ status'[i] = "PAID" => ~AllFinal(i, Finalized)'
        BY <1>2, <2>2, <2>3, <2>4, CoverageGrows
    <2> QED
        BY <1>7, <2>5
<1>15. \A i \in Invoices : v[i].amount = 0 \/ v[i].amount > 0
    BY <1>8
<1>16. \A p : Settled(p)' = Settled(p) /\ (PaymentFinal(p, Finalized)' <=> PaymentFinal(p, Finalized))
    BY <1>6, BatchesSame
<1>17. Frame(H)
    <2>1. \A i \in Invoices \ H :
             /\ status'[i] = status[i] /\ Covered(i)' = Covered(i)
             /\ SourcesOf(i)' = SourcesOf(i) /\ Releases(i)' = Releases(i)
        BY <1>13, <1>14, <1>15
    <2>2. \A i \in Invoices : \A p \in SourcesOf(i)' \ SourcesOf(i) : p \notin received
        BY <1>7, <1>12
    <2>3. \A i \in Invoices : Full(i) => Full(i)' /\ SourcesOf(i)' = SourcesOf(i)
        <3>1. \A i \in Invoices : Full(i) => v[i].amount = 0
            BY <1>14, <1>15
        <3> QED
            BY <1>13, <3>1 DEF Full
    <2> QED
        BY <1>6, <1>16, <2>1, <2>2, <2>3 DEF Frame
<1>18. TypeOK'
    <2>1. status' \in [Invoices -> Statuses]
        BY <1>2, <1>6, <1>8 DEF TypeOK
    <2>2. tx' \in [Slots -> Transactions \cup {None}]
        BY <1>2, <1>6 DEF TypeOK, End
    <2> QED
        BY <1>2, <1>6, <1>11, <2>1, <2>2 DEF TypeOK
<1>19. RowsOK'
    <2>1. \A p \in Payments \ received' : \A i \in Invoices : alloc'[i][p] = 0
        <3>1. \A p \in Payments \ received : \A i \in Invoices : alloc[i][p] = 0
            BY <1>2 DEF RowsOK
        <3> QED
            BY <1>6, <1>10, <3>1
    <2>2. \A i \in Invoices : Covered(i)' <= TotalOf[i] /\ (status'[i] \in {"PAID", "SETTLED"} => Full(i)')
        <3>1. \A i \in Invoices : Covered(i) <= TotalOf[i] /\ (status[i] \in {"PAID", "SETTLED"} => Full(i))
            BY <1>2 DEF RowsOK
        <3> QED
            BY <1>13, <1>14, <1>15, <3>1 DEF Full
    <2>3. \A b \in Batches : Matched(Lines(b))' = Matched(Lines(b))
        BY <1>6 DEF Matched, Lines
    <2> QED
        BY <1>2, <1>6, <2>1, <2>2, <2>3 DEF RowsOK
<1>20. NeverOversettled'
    BY <1>2, <1>16 DEF Books, NeverOversettled, Settled
<1>21. PromotionIsExact'
    <2> SUFFICES ASSUME NEW i \in Invoices
                 PROVE  /\ status'[i] = "SETTLED" => Covered(i)' = TotalOf[i] /\ AllFinal(i, Finalized)'
                        /\ status'[i] = "PAID" /\ SourcesOf(i)' \cap DOMAIN Inherited = {}
                              => ~AllFinal(i, Finalized)'
        BY DEF PromotionIsExact
    <2>1. CASE v[i].amount > 0
        BY <1>14, <2>1 DEF Full
    <2>2. CASE v[i].amount = 0
        <3>1. AllFinal(i, Finalized)' <=> AllFinal(i, Finalized)
            BY <1>2, <1>13, <1>16, <2>2, AllSame
        <3> QED
            BY <1>2, <1>13, <2>2, <3>1 DEF Books, PromotionIsExact
    <2> QED
        BY <1>15, <2>1, <2>2
<1>22. Books' /\ Frame(x.have)
    BY <1>4, <1>17, <1>19, <1>20, <1>21 DEF Books
<1>23. received' \subseteq received \cup Brings(x)
    BY <1>2, <1>3, <1>6 DEF Brings
<1> QED
    BY <1>1, <1>6, <1>18, <1>22, <1>23, CommitKeeps

\* An advance is applied.
LEMMA AdvanceApplied ==
    ASSUME TypeOK, NEW a \in DOMAIN advances, used[a] = None, NEW i \in Invoices,
           used' = [used EXCEPT ![a] = i], alloc' = alloc, advances' = advances
    PROVE  /\ Covered(i)' = Covered(i) + advances[a].amount
           /\ SourcesOf(i)' = SourcesOf(i) \cup {advances[a].payment}
           /\ \A j \in Invoices \ {i} : /\ Covered(j)' = Covered(j) /\ SourcesOf(j)' = SourcesOf(j)
                                        /\ Releases(j)' = Releases(j)
<1>1. used \in [Advances -> Invoices \cup {"REFUNDED", None}] /\ a \in Advances
    BY AdvanceFacts DEF TypeOK
<1>2. used'[a] = i /\ \A c \in Advances \ {a} : used'[c] = used[c]
    BY <1>1
<1>3. DOMAIN advances \subseteq Advances
    BY AdvanceFacts
<1>4. /\ AppliedTo(i)' = AppliedTo(i) \cup {a} /\ a \notin AppliedTo(i)
      /\ \A j \in Invoices \ {i} : AppliedTo(j)' = AppliedTo(j)
    BY <1>2, <1>3, KindsOfRows DEF AppliedTo
<1>5. \A j \in Invoices \ {i} : /\ Covered(j)' = Covered(j) /\ SourcesOf(j)' = SourcesOf(j)
                                /\ Releases(j)' = Releases(j)
    BY <1>4 DEF Covered, Allocated, SourcesOf, Releases
<1>6. SourcesOf(i)' = SourcesOf(i) \cup {advances[a].payment}
    BY <1>4 DEF SourcesOf
<1>7. Covered(i)' = Covered(i) + advances[a].amount
    <2>1. PICK S : S = AppliedIn(advances, used, i)
        OBVIOUS
    <2>2. S \subseteq Advances /\ a \notin S /\ AppliedIn(advances', used', i) = S \cup {a}
        BY <1>3, <1>4, <2>1 DEF AppliedIn, AppliedTo
    <2>3. IsFiniteSet(S)
        BY <2>2, Finite, FS_Subset
    <2> DEFINE f == [c \in S |-> advances[c].amount]
               g == [c \in S \cup {a} |-> advances[c].amount]
    <2>4. /\ \A c \in S : f[c] \in Int /\ f[c] = g[c]
          /\ g[a] = advances[a].amount /\ g[a] \in Nat
        BY <2>1, AdvanceFacts DEF AppliedIn
    <2>13. \A c \in S \cup {a} : g[c] \in Int
        BY <2>4
    <2>5. /\ AdvancedIn(advances, S) = SumFunctionOnSet(f, S)
          /\ AdvancedIn(advances', S \cup {a}) = SumFunctionOnSet(g, S \cup {a})
        BY DEF AdvancedIn
    <2> HIDE DEF f, g
    <2>6. SumFunctionOnSet(g, S \cup {a}) = SumFunctionOnSet(g, S) + g[a]
        BY <2>2, <2>3, <2>13, SumAdd
    <2>7. SumFunctionOnSet(g, S) = SumFunctionOnSet(f, S)
        BY <2>3, <2>4, SumSame
    <2>8. SumFunctionOnSet(f, S) \in Int
        BY <2>3, <2>4, SumType
    <2>9. PICK c \in Nat : c = AllocatedIn(alloc, i)
        BY AllocatedNat DEF TypeOK
    <2>10. PICK m \in Int : m = SumFunctionOnSet(f, S)
        BY <2>8
    <2>11. Covered(i) = c + m
        BY <2>1, <2>5, <2>9, <2>10, CoveredIs
    <2>12. Covered(i)' = c + (m + g[a])
        BY <2>2, <2>5, <2>6, <2>7, <2>9, <2>10, CoveredIs
    <2> QED
        BY <2>4, <2>9, <2>10, <2>11, <2>12
<1> QED
    BY <1>5, <1>6, <1>7

\* An application that commits keeps the invariant.
LEMMA CommitApplyKeeps ==
    ASSUME IInv, NEW s \in Slots, CommitApply(s)
    PROVE  IInv'
<1>1. PICK x \in Transactions : x = tx[s] /\ TxOK(x)
    BY Commit DEF CommitApply
<1>2. /\ x.op.kind = "APPLY" /\ x.phase = "COMMIT" /\ Claims(x) = x.have
      /\ TypeOK /\ RowsOK /\ Books
    BY <1>1, Commit DEF CommitApply
<1>3. PICK a \in Advances : a = x.op.advance
    BY <1>2, RequestFacts, TransactionFacts
<1>4. PICK i \in Invoices : i = x.op.invoice
    BY <1>2, RequestFacts, TransactionFacts
<1>5. PICK H : H = x.have
    OBVIOUS
<1>6. /\ used' = [used EXCEPT ![a] = i] /\ status' = [status EXCEPT ![i] = x.verdict]
      /\ End(s) /\ batch' = batch /\ alloc' = alloc /\ received' = received /\ advances' = advances
    BY <1>1, <1>3, <1>4 DEF CommitApply
<1>7. /\ a \in DOMAIN advances /\ {i, Account, a} \subseteq H
      /\ used[a] = None /\ advances[a].amount <= Room(i)
      /\ x.verdict = StatusWith(i, advances[a].amount, advances[a].payment)
    BY <1>1, <1>2, <1>3, <1>4, <1>5 DEF TxOK, ApplyOK
<1>8. PICK n \in Nat : n = advances[a].amount /\ n > 0
    BY <1>2, <1>7, AdvanceFacts
<1>9. PICK p \in Payments : p = advances[a].payment
    BY <1>2, <1>7, AdvanceFacts
<1>10. /\ Covered(i)' = Covered(i) + n /\ SourcesOf(i)' = SourcesOf(i) \cup {p}
       /\ \A j \in Invoices \ {i} : /\ Covered(j)' = Covered(j) /\ SourcesOf(j)' = SourcesOf(j)
                                    /\ Releases(j)' = Releases(j)
    BY <1>2, <1>6, <1>7, <1>8, <1>9, AdvanceApplied
<1>11. status'[i] = StatusWith(i, n, p) /\ \A j \in Invoices \ {i} : status'[j] = status[j]
    BY <1>2, <1>6, <1>7, <1>8, <1>9 DEF TypeOK
<1>12. /\ ~Full(i) /\ Covered(i)' <= TotalOf[i]
       /\ status'[i] \in {"PAID", "SETTLED"} => Full(i)'
       /\ status'[i] = "SETTLED" => AllFinal(i, Finalized)'
       /\ status'[i] = "PAID" => ~AllFinal(i, Finalized)'
    <2>1. n <= Room(i) /\ batch' = batch
        BY <1>6, <1>7, <1>8
    <2> QED
        BY <1>2, <1>8, <1>10, <1>11, <2>1, CoverageGrows
<1>13. \A q : Settled(q)' = Settled(q) /\ (PaymentFinal(q, Finalized)' <=> PaymentFinal(q, Finalized))
    BY <1>6, BatchesSame
<1>14. Frame(H)
    <2>1. \A c \in Advances \ H : used'[c] = used[c]
        BY <1>2, <1>6, <1>7 DEF TypeOK
    <2>2. \A j \in Invoices \ H :
             /\ status'[j] = status[j] /\ Covered(j)' = Covered(j)
             /\ SourcesOf(j)' = SourcesOf(j) /\ Releases(j)' = Releases(j)
        BY <1>7, <1>10, <1>11
    <2>3. \A j \in Invoices : \A q \in SourcesOf(j)' \ SourcesOf(j) :
             \E c \in DOMAIN advances \cap H : advances[c].payment = q
        BY <1>7, <1>9, <1>10
    <2>4. \A j \in Invoices : Full(j) => Full(j)' /\ SourcesOf(j)' = SourcesOf(j)
        BY <1>10, <1>12 DEF Full
    <2> QED
        BY <1>6, <1>13, <2>1, <2>2, <2>3, <2>4 DEF Frame
<1>15. TypeOK'
    <2>1. used' \in [Advances -> Invoices \cup {"REFUNDED", None}]
        BY <1>2, <1>6 DEF TypeOK
    <2>2. x.verdict \in Statuses
        BY <1>2, <1>7, StatusWithType
    <2>3. status' \in [Invoices -> Statuses]
        BY <1>2, <1>6, <2>2 DEF TypeOK
    <2>4. tx' \in [Slots -> Transactions \cup {None}]
        BY <1>2, <1>6 DEF TypeOK, End
    <2> QED
        BY <1>2, <1>6, <2>1, <2>3, <2>4 DEF TypeOK
<1>16. RowsOK'
    <2>1. \A c \in Advances \ DOMAIN advances : used'[c] = None
        BY <1>2, <1>6, <1>7 DEF TypeOK, RowsOK
    <2>2. \A j \in Invoices : Covered(j)' <= TotalOf[j] /\ (status'[j] \in {"PAID", "SETTLED"} => Full(j)')
        <3>1. \A j \in Invoices : Covered(j) <= TotalOf[j] /\ (status[j] \in {"PAID", "SETTLED"} => Full(j))
            BY <1>2 DEF RowsOK
        <3> QED
            BY <1>10, <1>11, <1>12, <3>1 DEF Full
    <2>3. \A b \in Batches : Matched(Lines(b))' = Matched(Lines(b))
        BY <1>6 DEF Matched, Lines
    <2> QED
        BY <1>2, <1>6, <2>1, <2>2, <2>3 DEF RowsOK
<1>17. NeverOversettled'
    BY <1>2, <1>13 DEF Books, NeverOversettled, Settled
<1>18. PromotionIsExact'
    <2> SUFFICES ASSUME NEW j \in Invoices
                 PROVE  /\ status'[j] = "SETTLED" => Covered(j)' = TotalOf[j] /\ AllFinal(j, Finalized)'
                        /\ status'[j] = "PAID" /\ SourcesOf(j)' \cap DOMAIN Inherited = {}
                              => ~AllFinal(j, Finalized)'
        BY DEF PromotionIsExact
    <2>1. CASE j = i
        BY <1>12, <2>1 DEF Full
    <2>2. CASE j # i
        <3>1. AllFinal(j, Finalized)' <=> AllFinal(j, Finalized)
            BY <1>2, <1>10, <1>13, <2>2, AllSame
        <3> QED
            BY <1>2, <1>10, <1>11, <2>2, <3>1 DEF Books, PromotionIsExact
    <2> QED
        BY <2>1, <2>2
<1>19. Books' /\ Frame(x.have)
    BY <1>5, <1>14, <1>16, <1>17, <1>18 DEF Books
<1>20. received' \subseteq received \cup Brings(x)
    BY <1>6
<1> QED
    BY <1>1, <1>6, <1>15, <1>19, <1>20, CommitKeeps

\* Batches, payments and coverage stay: an invoice may be cancelled, or promoted when
\* that is due.
LEMMA CoverageStays ==
    ASSUME TypeOK, Books, batch' = batch, alloc' = alloc, received' = received,
           \A i \in Invoices : Covered(i)' = Covered(i) /\ SourcesOf(i)' = SourcesOf(i),
           \A a \in Advances \ DOMAIN advances' : used'[a] = None,
           \A a \in DOMAIN advances' : advances'[a].payment \in received,
           \A i \in Invoices : \/ status'[i] = status[i] \/ status'[i] = "CANCELLED"
                               \/ status'[i] = "SETTLED" /\ Full(i) /\ AllFinal(i, Finalized)
    PROVE  /\ Books'
           /\ \A q : Settled(q)' = Settled(q)
<1>1. \A q : Settled(q)' = Settled(q) /\ (PaymentFinal(q, Finalized)' <=> PaymentFinal(q, Finalized))
    BY BatchesSame
<1>2. \A i \in Invoices : AllFinal(i, Finalized)' <=> AllFinal(i, Finalized)
    BY <1>1, AllSame
<1>3. RowsOK'
    <2>1. \A i \in Invoices : Covered(i)' <= TotalOf[i] /\ (status'[i] \in {"PAID", "SETTLED"} => Full(i)')
        <3>1. \A i \in Invoices : Covered(i) <= TotalOf[i] /\ (status[i] \in {"PAID", "SETTLED"} => Full(i))
            BY DEF Books, RowsOK
        <3> QED
            BY <3>1 DEF Full
    <2>2. \A b \in Batches : Matched(Lines(b))' = Matched(Lines(b))
        BY DEF Matched, Lines
    <2> QED
        BY <2>1, <2>2 DEF Books, RowsOK
<1>4. NeverOversettled'
    BY <1>1 DEF Books, NeverOversettled, Settled
<1>5. PromotionIsExact'
    <2> SUFFICES ASSUME NEW i \in Invoices
                 PROVE  /\ status'[i] = "SETTLED" => Covered(i)' = TotalOf[i] /\ AllFinal(i, Finalized)'
                        /\ status'[i] = "PAID" /\ SourcesOf(i)' \cap DOMAIN Inherited = {}
                              => ~AllFinal(i, Finalized)'
        BY DEF PromotionIsExact
    <2>1. /\ status[i] = "SETTLED" => Covered(i) = TotalOf[i] /\ AllFinal(i, Finalized)
          /\ status[i] = "PAID" /\ SourcesOf(i) \cap DOMAIN Inherited = {} => ~AllFinal(i, Finalized)
        BY DEF Books, PromotionIsExact
    <2> QED
        BY <1>2, <2>1 DEF Full
<1> QED
    BY <1>1, <1>3, <1>4, <1>5 DEF Books

\* New advances, used for nothing yet, cover nothing yet.
LEMMA AdvancesGrow ==
    ASSUME TypeOK, RowsOK, alloc' = alloc, used' = used,
           DOMAIN advances \subseteq DOMAIN advances', DOMAIN advances' \subseteq Advances,
           \A a \in DOMAIN advances : advances'[a] = advances[a], NEW i \in Invoices
    PROVE  Covered(i)' = Covered(i) /\ SourcesOf(i)' = SourcesOf(i) /\ Releases(i)' = Releases(i)
<1>1. AppliedTo(i)' = AppliedTo(i)
    BY KindsOfRows DEF AppliedTo, RowsOK
<1>2. \A a \in AppliedTo(i) : advances'[a] = advances[a]
    BY DEF AppliedTo
<1>3. [a \in AppliedTo(i)' |-> advances'[a].amount] = [a \in AppliedTo(i) |-> advances[a].amount]
    BY <1>1, <1>2
<1>4. Covered(i)' = Covered(i)
    BY <1>3 DEF Covered, Allocated
<1>5. SourcesOf(i)' = SourcesOf(i) /\ Releases(i)' = Releases(i)
    BY <1>1, <1>2 DEF SourcesOf, Releases
<1> QED
    BY <1>4, <1>5

\* A transaction adds advances of payments it holds, and may cancel invoices it holds.
LEMMA AddsAdvances ==
    ASSUME IInv, NEW s \in Slots, NEW x \in Transactions, x = tx[s], End(s), Account \in x.have,
           NEW new \in Seq(AdvanceRows), Len(advances) + Len(new) <= MaxAdvances,
           advances' = advances \o new,
           \A k \in DOMAIN new : new[k].payment \in x.have /\ new[k].payment \in received,
           batch' = batch, alloc' = alloc, received' = received, used' = used,
           status' \in [Invoices -> Statuses],
           \A i \in Invoices : status'[i] = status[i] \/ (i \in x.have /\ status'[i] = "CANCELLED")
    PROVE  IInv'
<1>1. TypeOK /\ RowsOK /\ Books
    BY BooksHold DEF Books
<1>2. PICK H : H = x.have
    OBVIOUS
<1>3. PICK n \in Nat : n = Len(advances)
    BY <1>1, AdvanceFacts
<1>4. PICK m \in Nat : m = Len(new)
    OBVIOUS
<1>5. /\ advances' \in Seq(AdvanceRows) /\ Len(advances') = n + m
      /\ DOMAIN advances = 1..n /\ DOMAIN advances' = 1..(n + m) /\ DOMAIN new = 1..m
      /\ \A k \in 1..n : advances'[k] = advances[k]
      /\ \A k \in 1..m : advances'[n + k] = new[k]
    <2>1. PICK old \in Seq(AdvanceRows) : old = advances
        BY <1>1 DEF TypeOK
    <2>2. PICK both : both = old \o new
        OBVIOUS
    <2>3. both \in Seq(AdvanceRows) /\ Len(both) = n + m
        BY <1>3, <1>4, <2>1, <2>2
    <2>4. (\A k \in 1..n : both[k] = old[k]) /\ (\A k \in 1..m : both[n + k] = new[k])
        BY <1>3, <1>4, <2>1, <2>2
    <2>5. DOMAIN old = 1..n /\ DOMAIN both = 1..(n + m) /\ DOMAIN new = 1..m
        BY <1>3, <1>4, <2>1, <2>3
    <2> QED
        BY <2>1, <2>2, <2>3, <2>4, <2>5
<1>6. \A a \in 1..(n + m) : a \in 1..n \/ \E k \in 1..m : a = n + k
    <2> SUFFICES ASSUME NEW a \in 1..(n + m), a \notin 1..n PROVE \E k \in 1..m : a = n + k
        OBVIOUS
    <2>1. a - n \in 1..m /\ a = n + (a - n)
        OBVIOUS
    <2> QED
        BY <2>1
<1>7. \A a \in DOMAIN advances' \ DOMAIN advances : advances'[a].payment \in H /\ advances'[a].payment \in received
    BY <1>2, <1>5, <1>6
<1>8. DOMAIN advances \subseteq DOMAIN advances' /\ DOMAIN advances' \subseteq Advances
    <2>1. n + m <= MaxAdvances /\ MaxAdvances \in Nat
        BY <1>3, <1>4, SettlementsAssumption DEF SettlementsAssumption
    <2> QED
        BY <1>5, <2>1 DEF Advances
<1>9. \A a \in DOMAIN advances : advances'[a] = advances[a]
    BY <1>5
<1>10. \A i \in Invoices : Covered(i)' = Covered(i) /\ SourcesOf(i)' = SourcesOf(i) /\ Releases(i)' = Releases(i)
    BY <1>1, <1>8, <1>9, AdvancesGrow
<1>11. Books' /\ \A q : Settled(q)' = Settled(q)
    <2>1. \A a \in Advances \ DOMAIN advances' : used'[a] = None
        BY <1>1, <1>8 DEF RowsOK
    <2>2. \A a \in DOMAIN advances' : advances'[a].payment \in received
        BY <1>1, <1>7, <1>9, Exists
    <2> QED
        BY <1>1, <1>10, <2>1, <2>2, CoverageStays
<1>12. Frame(H)
    <2>1. \A i \in Invoices : Full(i) => Full(i)'
        BY <1>10 DEF Full
    <2> QED
        BY <1>2, <1>7, <1>8, <1>9, <1>10, <1>11, <2>1 DEF Frame
<1>13. TypeOK'
    <2>1. tx' \in [Slots -> Transactions \cup {None}]
        BY <1>1 DEF TypeOK, End
    <2>2. advances' \in Seq(AdvanceRows) /\ Len(advances') <= MaxAdvances
        BY <1>3, <1>4, <1>5
    <2> QED
        BY <1>1, <2>1, <2>2 DEF TypeOK
<1>14. Frame(x.have) /\ received' \subseteq received \cup Brings(x)
    BY <1>2, <1>12
<1> QED
    BY <1>11, <1>13, <1>14, CommitKeeps

\* What is left of a payment is a number.
LEMMA LeftIs ==
    ASSUME TypeOK, NEW q \in Payments
    PROVE  Left(q) \in Int
<1>1. PICK S : S = {b \in DOMAIN advances : advances[b].payment = q /\ advances[b].source = "PAYMENT"}
    OBVIOUS
<1> DEFINE f == [i \in Invoices |-> alloc[i][q]]
           g == [a \in S |-> advances[a].amount]
<1>2. IsFiniteSet(S) /\ S \subseteq Advances
    <2>1. S \subseteq Advances
        BY <1>1, AdvanceFacts
    <2> QED
        BY <2>1, Finite, FS_Subset
<1>3. \A i \in Invoices : f[i] \in Int
    BY DEF TypeOK
<1>4. \A a \in S : g[a] \in Int
    BY <1>1, AdvanceFacts
<1>5. Left(q) = AmountOf[q] - SumFunctionOnSet(f, Invoices) - SumFunctionOnSet(g, S)
    BY <1>1 DEF Left, SumFunction
<1> HIDE DEF f, g
<1>6. SumFunctionOnSet(f, Invoices) \in Int
    BY <1>3, Finite, SumType
<1>7. SumFunctionOnSet(g, S) \in Int
    BY <1>2, <1>4, SumType
<1>8. AmountOf[q] \in Int
    BY Amounts
<1> QED
    BY <1>5, <1>6, <1>7, <1>8

\* A conversion that commits keeps the invariant: its advance is of a payment that is
\* there.
LEMMA CommitConvertKeeps ==
    ASSUME IInv, NEW s \in Slots, CommitConvert(s)
    PROVE  IInv'
<1>1. PICK x \in Transactions : x = tx[s] /\ TxOK(x)
    BY Commit DEF CommitConvert
<1>2. /\ x.op.kind = "CONVERT" /\ x.phase = "COMMIT" /\ Claims(x) = x.have /\ TypeOK
    BY <1>1, Commit DEF CommitConvert
<1>3. PICK q \in Payments : q = x.op.payment
    BY <1>2, RequestFacts, TransactionFacts
<1>4. q \in received /\ Account \in x.have /\ q \in x.have
    BY <1>1, <1>2, <1>3 DEF TxOK, ConvertOK
<1>5. CASE Rollback(s)
    BY <1>5, RollbackKeeps
<1>6. CASE /\ ~(Left(q) <= 0) /\ Len(advances) # MaxAdvances
           /\ advances' = Append(advances, [source |-> "PAYMENT", payment |-> q, amount |-> Left(q)])
           /\ End(s) /\ UNCHANGED <<batch, status, alloc, received, used>>
    <2>1. PICK left \in Nat \ {0} : left = Left(q)
        <3>1. Left(q) \in Int
            BY <1>2, LeftIs
        <3> QED
            BY <1>6, <3>1
    <2>2. PICK row : row = [source |-> "PAYMENT", payment |-> q, amount |-> left]
        OBVIOUS
    <2>3. row \in AdvanceRows /\ row.payment = q
        BY <2>2 DEF AdvanceRows
    <2>4. PICK new : new = <<row>>
        OBVIOUS
    <2>5. new \in Seq(AdvanceRows) /\ Len(new) = 1 /\ DOMAIN new = {1} /\ new[1] = row
        BY <2>3, <2>4
    <2>6. advances' = advances \o new
        <3>1. PICK old \in Seq(AdvanceRows) : old = advances
            BY <1>2 DEF TypeOK
        <3>2. Append(old, row) = old \o <<row>>
            BY <2>3
        <3> QED
            BY <1>6, <2>1, <2>2, <2>4, <3>1, <3>2
    <2>7. Len(advances) + Len(new) <= MaxAdvances
        <3>1. Len(advances) \in Nat /\ Len(advances) <= MaxAdvances /\ MaxAdvances \in Nat
            BY <1>2, AdvanceFacts, SettlementsAssumption DEF TypeOK, SettlementsAssumption
        <3> QED
            BY <1>6, <2>5, <3>1
    <2>8. status' \in [Invoices -> Statuses] /\ \A i \in Invoices : status'[i] = status[i]
        BY <1>2, <1>6 DEF TypeOK
    <2>9. \A k \in DOMAIN new : new[k].payment \in x.have /\ new[k].payment \in received
        BY <1>4, <2>3, <2>5
    <2> QED
        BY <1>1, <1>4, <1>6, <2>5, <2>6, <2>7, <2>8, <2>9, AddsAdvances
<1> QED
    BY <1>1, <1>3, <1>5, <1>6 DEF CommitConvert

\* A refund that commits keeps the invariant: the advance covered nothing.
LEMMA CommitRefundKeeps ==
    ASSUME IInv, NEW s \in Slots, CommitRefund(s)
    PROVE  IInv'
<1>1. PICK x \in Transactions : x = tx[s] /\ TxOK(x)
    BY Commit DEF CommitRefund
<1>2. /\ x.op.kind = "REFUND" /\ x.phase = "COMMIT" /\ Claims(x) = x.have
      /\ TypeOK /\ RowsOK /\ Books
    BY <1>1, Commit DEF CommitRefund
<1>3. PICK a \in Advances : a = x.op.advance
    BY <1>2, RequestFacts, TransactionFacts
<1>4. PICK H : H = x.have
    OBVIOUS
<1>5. a \in DOMAIN advances /\ a \in H
    BY <1>1, <1>2, <1>3, <1>4 DEF TxOK, RefundOK
<1>6. CASE Rollback(s)
    BY <1>6, RollbackKeeps
<1>7. CASE /\ used[a] = None /\ used' = [used EXCEPT ![a] = "REFUNDED"] /\ End(s)
           /\ UNCHANGED <<batch, status, alloc, received, advances>>
    <2>1. /\ used'[a] = "REFUNDED" /\ used[a] = None
          /\ \A c \in Advances \ {a} : used'[c] = used[c]
        BY <1>2, <1>7 DEF TypeOK
    <2>2. \A i \in Invoices : AppliedTo(i)' = AppliedTo(i)
        <3>1. advances' = advances /\ DOMAIN advances \subseteq Advances
            BY <1>2, <1>7, AdvanceFacts
        <3> QED
            BY <2>1, <3>1, KindsOfRows DEF AppliedTo
    <2>3. \A i \in Invoices : Covered(i)' = Covered(i) /\ SourcesOf(i)' = SourcesOf(i) /\ Releases(i)' = Releases(i)
        BY <1>7, <2>2 DEF Covered, Allocated, SourcesOf, Releases
    <2>4. Books' /\ \A q : Settled(q)' = Settled(q)
        <3>1. \A c \in Advances \ DOMAIN advances' : used'[c] = None
            BY <1>2, <1>5, <1>7, <2>1 DEF RowsOK
        <3>2. \A c \in DOMAIN advances' : advances'[c].payment \in received
            BY <1>2, <1>7, Exists
        <3> QED
            BY <1>2, <1>7, <2>3, <3>1, <3>2, CoverageStays
    <2>5. Frame(H)
        <3>1. \A i \in Invoices : Full(i) => Full(i)'
            BY <2>3 DEF Full
        <3> QED
            BY <1>5, <1>7, <2>1, <2>3, <2>4, <3>1 DEF Frame
    <2>6. TypeOK'
        <3>1. used' \in [Advances -> Invoices \cup {"REFUNDED", None}]
            BY <1>2, <1>7 DEF TypeOK
        <3>2. tx' \in [Slots -> Transactions \cup {None}]
            BY <1>2, <1>7 DEF TypeOK, End
        <3> QED
            BY <1>2, <1>7, <3>1, <3>2 DEF TypeOK
    <2>7. Frame(x.have) /\ received' \subseteq received \cup Brings(x)
        BY <1>4, <1>7, <2>5
    <2> QED
        BY <1>1, <1>7, <2>4, <2>6, <2>7, CommitKeeps
<1> QED
    BY <1>1, <1>3, <1>6, <1>7 DEF CommitRefund

\* A cancellation that commits keeps the invariant: its advances cover nothing yet.
LEMMA CommitCancelKeeps ==
    ASSUME IInv, NEW s \in Slots, CommitCancel(s)
    PROVE  IInv'
<1>1. PICK x \in Transactions : x = tx[s] /\ TxOK(x)
    BY Commit DEF CommitCancel
<1>2. /\ x.op.kind = "CANCEL" /\ x.phase = "COMMIT" /\ Claims(x) = x.have
      /\ TypeOK /\ RowsOK
    BY <1>1, Commit DEF CommitCancel
<1>3. PICK i \in Invoices : i = x.op.invoice
    BY <1>2, RequestFacts, TransactionFacts
<1>4. /\ {i, Account} \subseteq x.have /\ SourcesOf(i) \subseteq x.have
      /\ Len(advances) + Cardinality(Releases(i)) <= MaxAdvances
    BY <1>1, <1>2, <1>3 DEF TxOK, CancelOK
<1>5. PICK R : R = Releases(i)
    OBVIOUS
<1>6. IsFiniteSet(R) /\ R \subseteq AdvanceRows
    BY <1>2, <1>5, ReleasesFinite
<1>7. PICK new : new = SetToSeq(R)
    OBVIOUS
<1>8. new \in Seq(R) /\ Len(new) = Cardinality(R)
    BY <1>6, <1>7, Listed
<1>9. new \in Seq(AdvanceRows)
    BY <1>6, <1>8, SeqOfMore
<1>10. \A r \in R : r.payment \in SourcesOf(i)
    BY <1>5 DEF Releases, SourcesOf
<1>11. \A k \in DOMAIN new : new[k].payment \in x.have /\ new[k].payment \in received
    <2>1. \A k \in DOMAIN new : new[k] \in R
        BY <1>8
    <2>2. SourcesOf(i) \subseteq received
        BY <1>2, Exists
    <2> QED
        BY <1>4, <1>10, <2>1, <2>2
<1>12. /\ advances' = advances \o new /\ status' = [status EXCEPT ![i] = "CANCELLED"]
       /\ End(s) /\ UNCHANGED <<batch, alloc, received, used>>
    BY <1>1, <1>3, <1>5, <1>7 DEF CommitCancel
<1>13. /\ status' \in [Invoices -> Statuses]
       /\ \A j \in Invoices : status'[j] = status[j] \/ (j \in x.have /\ status'[j] = "CANCELLED")
    BY <1>2, <1>4, <1>12 DEF TypeOK, Statuses
<1>14. Len(advances) + Len(new) <= MaxAdvances
    BY <1>4, <1>5, <1>8
<1> QED
    BY <1>1, <1>4, <1>9, <1>11, <1>12, <1>13, <1>14, AddsAdvances

\* The reconciliation updates the invoice by its id, whatever happened meanwhile.
LEMMA CommitReconciliationKeeps ==
    ASSUME IInv, NEW s \in Slots, CommitReconciliation(s)
    PROVE  IInv'
<1>1. PICK x \in Transactions : x = tx[s] /\ TxOK(x)
    BY Commit DEF CommitReconciliation
<1>2. /\ x.op.kind = "RECONCILE" /\ x.phase = "COMMIT" /\ Claims(x) = x.have
      /\ TypeOK /\ RowsOK /\ Books
    BY <1>1, Commit DEF CommitReconciliation
<1>3. PICK i \in Invoices : i = x.op.invoice
    BY <1>2, RequestFacts, TransactionFacts
<1>4. PICK H : H = x.have
    OBVIOUS
<1>5. i \in H /\ Full(i) /\ AllFinal(i, Finalized)
    BY <1>1, <1>2, <1>3, <1>4 DEF TxOK, ReconcileOK
<1>6. /\ status' = [status EXCEPT ![i] = "SETTLED"] /\ End(s)
      /\ batch' = batch /\ UNCHANGED money
    BY <1>1, <1>3 DEF CommitReconciliation
<1>7. alloc' = alloc /\ received' = received /\ advances' = advances /\ used' = used
    BY <1>6, MoneyRows
<1>8. \A j : Covered(j)' = Covered(j) /\ SourcesOf(j)' = SourcesOf(j) /\ Releases(j)' = Releases(j)
    BY <1>6, MoneyRows
<1>9. /\ status' \in [Invoices -> Statuses] /\ status'[i] = "SETTLED"
      /\ \A j \in Invoices \ {i} : status'[j] = status[j]
    BY <1>2, <1>6 DEF TypeOK, Statuses
<1>10. Books' /\ \A q : Settled(q)' = Settled(q)
    <2>1. \A c \in Advances \ DOMAIN advances' : used'[c] = None
        BY <1>2, <1>7 DEF RowsOK
    <2>2. \A c \in DOMAIN advances' : advances'[c].payment \in received
        BY <1>2, <1>7, Exists
    <2>3. \A j \in Invoices : \/ status'[j] = status[j] \/ status'[j] = "CANCELLED"
                              \/ status'[j] = "SETTLED" /\ Full(j) /\ AllFinal(j, Finalized)
        BY <1>5, <1>9
    <2> QED
        BY <1>2, <1>6, <1>7, <1>8, <2>1, <2>2, <2>3, CoverageStays
<1>11. Frame(H)
    <2>1. \A j \in Invoices : Full(j) => Full(j)'
        BY <1>8 DEF Full
    <2>2. \A j \in Invoices \ H : status'[j] = status[j]
        BY <1>5, <1>9
    <2> QED
        BY <1>6, <1>7, <1>8, <1>10, <2>1, <2>2 DEF Frame
<1>12. TypeOK'
    <2>1. tx' \in [Slots -> Transactions \cup {None}]
        BY <1>2, <1>6 DEF TypeOK, End
    <2> QED
        BY <1>2, <1>6, <1>7, <1>9, <2>1 DEF TypeOK
<1>13. Frame(x.have) /\ received' \subseteq received \cup Brings(x)
    BY <1>4, <1>7, <1>11
<1> QED
    BY <1>1, <1>6, <1>10, <1>12, <1>13, CommitKeeps

-----------------------------------------------------------------------------
(* The invariant holds.                                                    *)

\* Nothing adds up to nothing.
LEMMA NothingIn ==
    ASSUME NEW f
    PROVE  SumFunctionOnSet(f, {}) = 0
    BY FS_EmptySet, SumZero

\* An inherited payment covers its invoice in full, and nothing else covers any.
LEMMA InheritedCoverage ==
    ASSUME Init, NEW i \in Invoices
    PROVE  /\ Covered(i) = IF \E q \in received : Inherited[q] = i THEN TotalOf[i] ELSE 0
           /\ \A q \in received : Inherited[q] = i => q \in SourcesOf(i)
<1>1. /\ received \subseteq DOMAIN Inherited /\ DOMAIN Inherited \subseteq Payments /\ IsInjective(Inherited)
      /\ \A q \in received : AmountOf[q] = TotalOf[Inherited[q]]
    BY SettlementsAssumption DEF Init, SettlementsAssumption
<1>2. PICK al : al = alloc
    OBVIOUS
<1>3. /\ al = [j \in Invoices |-> [q \in Payments |->
                 IF q \in received /\ Inherited[q] = j THEN AmountOf[q] ELSE 0]]
      /\ advances = <<>>
    BY <1>2 DEF Init
<1>4. \A q \in Payments : al[i][q] = IF q \in received /\ Inherited[q] = i THEN AmountOf[q] ELSE 0
    BY <1>3
<1>5. al \in [Invoices -> [Payments -> Nat]]
    BY <1>3, Amounts
<1>6. AdvancedIn(advances, AppliedIn(advances, used, i)) = 0
    <2>1. AppliedIn(advances, used, i) = {}
        BY <1>3 DEF AppliedIn
    <2> QED
        BY <2>1, NothingIn DEF AdvancedIn
<1>7. AllocatedIn(al, i) \in Nat /\ Covered(i) = AllocatedIn(al, i)
    <2>1. AllocatedIn(al, i) \in Nat
        BY <1>5, AllocatedNat
    <2>2. Covered(i) = AllocatedIn(al, i) + 0
        BY <1>2, <1>6, CoveredIs
    <2> QED
        BY <2>1, <2>2
<1>8. PICK zero : zero = [j \in Invoices |-> [q \in Payments |-> 0]]
    OBVIOUS
<1>9. zero \in [Invoices -> [Payments -> Nat]] /\ \A q \in Payments : zero[i][q] = 0
    BY <1>8
<1>10. AllocatedIn(zero, i) = 0
    <2> DEFINE f == [q \in Payments |-> zero[i][q]]
    <2>1. \A q \in Payments : f[q] = 0
        BY <1>9
    <2>2. AllocatedIn(zero, i) = SumFunctionOnSet(f, Payments)
        BY DEF AllocatedIn
    <2>3. IsFiniteSet(Payments)
        BY Finite
    <2> HIDE DEF f
    <2> QED
        BY <2>1, <2>2, <2>3, SumZero
<1>11. CASE \E q \in received : Inherited[q] = i
    <2>1. PICK q \in received : Inherited[q] = i
        BY <1>11
    <2>2. q \in Payments /\ al[i][q] = TotalOf[i] /\ TotalOf[i] \in Nat /\ TotalOf[i] > 0
        <3>1. TotalOf[i] \in Nat /\ TotalOf[i] > 0
            BY SettlementsAssumption DEF SettlementsAssumption
        <3> QED
            BY <1>1, <1>4, <2>1, <3>1
    <2>3. \A p \in received : Inherited[p] = i => p = q
        BY <1>1, <2>1 DEF IsInjective
    <2>4. \A p \in Payments \ {q} : al[i][p] = zero[i][p]
        BY <1>4, <1>9, <2>3
    <2>5. q \in Payments /\ zero[i][q] = 0
        BY <1>9, <2>2
    <2>6. AllocatedIn(al, i) = AllocatedIn(zero, i) + al[i][q]
        <3>1. zero \in [Invoices -> [Payments -> Nat]]
            BY <1>9
        <3> QED
            BY ONLY <1>5, <2>4, <2>5, <3>1, i \in Invoices, AllocatedChange
    <2>7. Covered(i) = TotalOf[i]
        BY <1>7, <1>10, <2>2, <2>6
    <2>8. q \in SourcesOf(i)
        BY <1>2, <2>2 DEF SourcesOf
    <2> QED
        BY <1>11, <2>3, <2>7, <2>8
<1>12. CASE ~\E q \in received : Inherited[q] = i
    <2>1. \A p \in Payments : al[i][p] = zero[i][p]
        BY <1>4, <1>9, <1>12
    <2>2. AllocatedIn(al, i) = AllocatedIn(zero, i)
        BY <2>1 DEF AllocatedIn
    <2> QED
        BY <1>7, <1>10, <1>12, <2>2
<1> QED
    BY <1>11, <1>12

\* The invariant holds at first, also with inherited invoices.
LEMMA InitHolds ==
    ASSUME Init
    PROVE  IInv
<1>1. /\ batch = [b \in Batches |-> [state |-> None, version |-> 0, gross |-> 0, lines |-> <<>>]]
      /\ received \subseteq DOMAIN Inherited
      /\ alloc = [i \in Invoices |-> [q \in Payments |->
                    IF q \in received /\ Inherited[q] = i THEN AmountOf[q] ELSE 0]]
      /\ status = [i \in Invoices |-> IF \E q \in received : Inherited[q] = i THEN "PAID" ELSE "UNPAID"]
      /\ advances = <<>> /\ used = [a \in Advances |-> None] /\ tx = [s \in Slots |-> None]
    BY DEF Init
<1>2. DOMAIN Inherited \subseteq Payments
    BY SettlementsAssumption DEF SettlementsAssumption
<1>3. TypeOK
    <2>1. batch \in [Batches -> BatchRows]
        BY <1>1 DEF BatchRows
    <2>2. status \in [Invoices -> Statuses]
        BY <1>1 DEF Statuses
    <2>3. alloc \in [Invoices -> [Payments -> Nat]]
        BY <1>1, Amounts
    <2>4. advances \in Seq(AdvanceRows) /\ Len(advances) <= MaxAdvances
        BY <1>1, SettlementsAssumption DEF SettlementsAssumption
    <2>5. used \in [Advances -> Invoices \cup {"REFUNDED", None}] /\ tx \in [Slots -> Transactions \cup {None}]
        BY <1>1
    <2> QED
        BY <1>1, <1>2, <2>1, <2>2, <2>3, <2>4, <2>5 DEF TypeOK
<1>4. \A i \in Invoices :
         /\ Covered(i) = IF \E q \in received : Inherited[q] = i THEN TotalOf[i] ELSE 0
         /\ \A q \in received : Inherited[q] = i => q \in SourcesOf(i)
    BY InheritedCoverage
<1>5. \A i \in Invoices : status[i] = IF \E q \in received : Inherited[q] = i THEN "PAID" ELSE "UNPAID"
    BY <1>1
<1>6. RowsOK
    <2>1. \A b \in Batches : Matched(Lines(b)) = {}
        BY <1>1 DEF Matched, Lines
    <2>2. \A q \in Payments \ received : \A i \in Invoices : alloc[i][q] = 0
        BY <1>1
    <2>3. \A i \in Invoices : Covered(i) <= TotalOf[i] /\ (status[i] \in {"PAID", "SETTLED"} => Full(i))
        BY <1>4, <1>5, Amounts DEF Full
    <2> QED
        BY <1>1, <2>1, <2>2, <2>3 DEF RowsOK
<1>7. \A s \in Slots : ~Open(s)
    BY <1>1 DEF Open
<1>8. Exclusive /\ PaysOnce /\ TxsOK
    BY <1>7 DEF Exclusive, PaysOnce, TxsOK
<1>9. NeverOversettled
    <2>1. FinalizedIn(batch) = {}
        BY <1>1, KindsOfRows DEF FinalizedIn
    <2>2. \A q : SettledIn(batch, q, {}) = 0
        BY NothingIn DEF SettledIn
    <2>3. \A q \in Payments : Settled(q) = 0
        BY <2>1, <2>2, SettledIs
    <2> QED
        BY <2>3, Amounts DEF NeverOversettled, Settled
<1>10. PromotionIsExact
    <2> SUFFICES ASSUME NEW i \in Invoices
                 PROVE  status[i] # "SETTLED" /\ (status[i] = "PAID" => SourcesOf(i) \cap DOMAIN Inherited # {})
        BY DEF PromotionIsExact
    <2> QED
        BY <1>1, <1>4, <1>5
<1> QED
    BY <1>3, <1>6, <1>8, <1>9, <1>10 DEF IInv

\* Every step keeps the invariant.
LEMMA StepsKeep ==
    ASSUME IInv, [Next]_vars
    PROVE  IInv'
<1>1. ASSUME NEW b \in Batches, Draft(b) PROVE IInv'
    BY <1>1, DraftsKeep
<1>2. ASSUME NEW s \in Slots, Start(s) PROVE IInv'
    BY <1>2, RequestFinalizationKeeps, PaymentsKeep, ApplyAdvanceKeeps, ConvertKeeps, RefundKeeps,
       CancelKeeps, ReconcileKeeps DEF Start
<1>3. ASSUME NEW s \in Slots, Step(s) PROVE IInv'
    <2>1. CASE Lock(s) \/ Abort(s) \/ LockInvoices(s) \/ LockPayments(s) \/ LockAdvances(s) \/ Confirm(s)
               \/ CommitFinalization(s)
        BY <2>1, RollbackKeeps, LockKeeps, LockInvoicesKeeps, LockPaymentsKeeps, LockAdvancesKeeps, ConfirmKeeps,
           CommitFinalizationKeeps DEF Abort
    <2>2. CASE DecidePay(s) \/ CommitPay(s) \/ DecideApply(s) \/ CommitApply(s)
        BY <2>2, DecidePayKeeps, CommitPayKeeps, DecideApplyKeeps, CommitApplyKeeps
    <2>3. CASE CommitConvert(s) \/ CommitRefund(s) \/ DecideCancel(s) \/ CommitCancel(s)
        BY <2>3, CommitConvertKeeps, CommitRefundKeeps, DecideCancelKeeps, CommitCancelKeeps
    <2>4. CASE ReadCoverage(s) \/ CommitReconciliation(s)
        BY <2>4, ReadCoverageKeeps, CommitReconciliationKeeps
    <2> QED
        BY <1>3, <2>1, <2>2, <2>3, <2>4 DEF Step
<1>4. CASE UNCHANGED vars
    <2>1. Quiet /\ tx' = tx
        BY <1>4 DEF vars, Quiet, money
    <2>2. received' = received
        BY <2>1 DEF Quiet, money
    <2>3. TypeOK' /\ Books' /\ Frame({})
        <3>1. TypeOK'
            BY <2>1, BooksHold DEF TypeOK, Quiet, money
        <3> QED
            BY <2>1, <3>1, BooksHold, QuietBooks, QuietFrame
    <2> QED
        BY <2>1, <2>2, <2>3, OthersKeep
<1> QED
    BY <1>1, <1>2, <1>3, <1>4 DEF Next

\* The invariant holds of every state that is reached.
THEOREM InvHolds == Spec => []IInv
<1>1. Init => IInv
    BY InitHolds
<1>2. IInv /\ [Next]_vars => IInv'
    BY StepsKeep
<1> QED
    BY <1>1, <1>2, PTL DEF Spec

\* Every variable stays in its type.
THEOREM TypeCorrect == Spec => []TypeOK
<1>1. IInv => TypeOK
    BY DEF IInv
<1> QED
    BY <1>1, InvHolds, PTL

\* No payment is settled beyond its amount, however many batches report it and however
\* their finalizations interleave.
THEOREM NothingIsOversettled == Spec => []NeverOversettled
<1>1. IInv => NeverOversettled
    BY DEF IInv
<1> QED
    BY <1>1, InvHolds, PTL

\* An invoice is SETTLED exactly when it is covered in full by sources that are final,
\* whatever the reconciliation reads without a lock.
THEOREM PromotionIsAlwaysExact == Spec => []PromotionIsExact
<1>1. IInv => PromotionIsExact
    BY DEF IInv
<1> QED
    BY <1>1, InvHolds, PTL

\* An edit of a draft is no step of an open transaction.
LEMMA DraftsLeaveOthers ==
    ASSUME NEW b \in Batches, Draft(b)
    PROVE  tx' = tx
<1>1. (\E gross, lines : Change(b, gross, lines)) \/ \E gross : CreateBatch(b, gross)
    BY DEF Draft, EditBatch, AddLine, ImportCsv, MatchLine, UnmatchLine
<1> QED
    BY <1>1 DEF Change, CreateBatch

\* The only step of a finalization that changes a batch is its commit, and what it
\* commits is what its reviewer saw.
LEMMA AsReviewed ==
    ASSUME IInv, [Next]_vars, NEW s \in Slots, Finalization(s), batch' # batch, tx'[s] = None
    PROVE  /\ batch'[BatchOf(s)].lines = tx[s].op.view.lines
           /\ batch'[BatchOf(s)].gross = tx[s].op.view.gross
<1>1. PICK x \in Transactions : x = tx[s] /\ TxOK(x)
    BY Opens DEF Finalization
<1>2. /\ x.op.kind = "FINALIZE" /\ TypeOK /\ tx \in [Slots -> Transactions \cup {None}] /\ Open(s)
    BY <1>1, BooksHold DEF Finalization, TypeOK
<1>3. PICK b \in Batches : b = x.op.batch /\ b = BatchOf(s)
    BY <1>1, <1>2, RequestFacts, TransactionFacts DEF BatchOf
<1>4. ~UNCHANGED vars
    BY DEF vars
<1>5. \A c \in Batches : ~Draft(c)
    BY <1>1, <1>2, DraftsLeaveOthers DEF Open
<1>6. \A u \in Slots : Start(u) => batch' = batch
    BY DEF Start, RequestFinalization, Receipt, Convert, Capture, Pay, Refund, ApplyAdvance, Cancel,
           Reconcile, Begin
<1>7. PICK u \in Slots : Step(u)
    BY <1>4, <1>5, <1>6 DEF Next
<1>8. CommitFinalization(u)
    BY <1>7 DEF Step, Lock, Abort, LockInvoices, LockPayments, LockAdvances, Confirm, GoOn, Rollback,
                DecidePay, CommitPay, DecideApply, CommitApply, CommitConvert, CommitRefund,
                DecideCancel, CommitCancel, ReadCoverage, CommitReconciliation
<1>9. u = s
    <2>1. tx' = [tx EXCEPT ![u] = None]
        BY <1>8 DEF CommitFinalization, End
    <2> QED
        BY <1>1, <1>2, <2>1 DEF Open
<1>10. x.phase = "COMMIT" /\ batch' = [batch EXCEPT ![b].state = "FINALIZED", ![b].version = @ + 1]
    BY <1>1, <1>3, <1>8, <1>9 DEF CommitFinalization, Ready
<1>11. batch[b] = x.op.view
    BY <1>1, <1>2, <1>3, <1>10 DEF TxOK, FinalizeOK
<1>12. batch'[b].lines = batch[b].lines /\ batch'[b].gross = batch[b].gross
    BY <1>2, <1>10 DEF TypeOK, BatchRows
<1> QED
    BY <1>1, <1>3, <1>11, <1>12

\* What is finalized is what its reviewer saw, line by line, although the request carries
\* no more than a version.
THEOREM ReviewsAreKept == Spec => FinalizedAsReviewed
<1>1. IInv /\ [Next]_vars =>
         [\A s \in Slots : Finalization(s) /\ batch' # batch /\ tx'[s] = None =>
            /\ batch'[BatchOf(s)].lines = tx[s].op.view.lines
            /\ batch'[BatchOf(s)].gross = tx[s].op.view.gross]_vars
    BY AsReviewed
<1> QED
    BY <1>1, InvHolds, PTL DEF Spec, FinalizedAsReviewed

-----------------------------------------------------------------------------
(* The order of locks.                                                     *)

\* Where a row comes in the lock graph, and where among its kind.
Level(r) == IF r \in Batches THEN 0 ELSE IF r \in Invoices THEN 1 ELSE IF r = Account THEN 2
            ELSE IF r \in Payments THEN 3 ELSE 4
Key(rank, r) == IF r \in Invoices THEN rank[r] ELSE IF r \in Payments THEN IdOf[r]
                ELSE IF r \in Advances THEN r ELSE 0
Below(rank, r, u) == Level(r) < Level(u) \/ (Level(r) = Level(u) /\ Key(rank, r) < Key(rank, u))

Ascends(rank, w) == \A j, k \in DOMAIN w : j < k => Below(rank, w[j], w[k])
InOrder(rank, have, want) ==
    Ascends(rank, want) /\ \A h \in have : \A k \in DOMAIN want : Below(rank, h, want[k])

\* The rank of invoices that a request goes by; all but receipts and finalizations lock
\* one invoice at most.
Ranks == {IdOf, AgeOf}
RankOf(op) == IF op.kind = "PAY" THEN AgeOf ELSE IdOf
SeveralInvoices(op) == op.kind \in {"PAY", "FINALIZE"}

\* An open transaction wants its rows in ascending order, all of them above those that
\* it holds; before a phase that adds locks it has claimed none so high.
OrderOK(x) ==
    /\ InOrder(RankOf(x.op), x.have, x.want)
    /\ ~SeveralInvoices(x.op) => \A i, j \in Claims(x) \cap Invoices : i = j
    /\ x.op.kind = "FINALIZE" =>
          /\ x.phase = "BATCH" => Claims(x) \subseteq {x.op.batch}
          /\ x.phase = "INVOICES" => Claims(x) \subseteq {x.op.batch} \cup Invoices
          /\ x.phase = "PAYMENTS" => Claims(x) \subseteq {x.op.batch} \cup Invoices \cup Payments
    /\ x.op.kind = "CANCEL" /\ x.phase = "READ" => Claims(x) \subseteq {x.op.invoice, Account}
    /\ x.op.kind = "RECONCILE" /\ x.phase = "READ" => Claims(x) = {}
OrdersOK == \A s \in Slots : Open(s) => OrderOK(tx[s])

\* Either rank tells all invoices apart.
LEMMA RanksTell ==
    ASSUME NEW rank \in Ranks
    PROVE  /\ \A i \in Invoices : rank[i] \in Nat
           /\ \A i, j \in Invoices : rank[i] = rank[j] => i = j
<1>1. IdOf \in [Invoices \cup Payments -> Nat] /\ IsInjective(IdOf)
    BY SettlementsAssumption DEF SettlementsAssumption
<1>2. AgeOf \in [Invoices -> Nat] /\ IsInjective(AgeOf)
    BY SettlementsAssumption DEF SettlementsAssumption
<1>3. CASE rank = IdOf
    BY <1>1, <1>3 DEF IsInjective
<1>4. CASE rank = AgeOf
    BY <1>2, <1>4 DEF IsInjective
<1> QED
    BY <1>3, <1>4 DEF Ranks

\* The level and the key of a row of each kind.
LEMMA Levels ==
    /\ \A b \in Batches : Level(b) = 0
    /\ \A i \in Invoices : Level(i) = 1 /\ \A rank : Key(rank, i) = rank[i]
    /\ Level(Account) = 2
    /\ \A q \in Payments : Level(q) = 3 /\ IdOf[q] \in Nat /\ \A rank : Key(rank, q) = IdOf[q]
    /\ \A a \in Advances : Level(a) = 4 /\ a \in Nat /\ \A rank : Key(rank, a) = a
<1>1. \A q \in Payments : IdOf[q] \in Nat
    BY SettlementsAssumption DEF SettlementsAssumption
<1>2. \A a \in Advances : a \in Nat
    BY SettlementsAssumption DEF SettlementsAssumption, Advances
<1> QED
    BY <1>1, <1>2, KindsOfRows DEF Level, Key

\* The order of rows is a strict one.
LEMMA BelowIsOrder ==
    ASSUME NEW rank \in Ranks
    PROVE  /\ \A r \in Rows : Level(r) \in Nat /\ Key(rank, r) \in Nat
           /\ \A r \in Rows : ~Below(rank, r, r)
           /\ \A r, u, v \in Rows : Below(rank, r, u) /\ Below(rank, u, v) => Below(rank, r, v)
<1>1. \A r \in Rows : Level(r) \in Nat
    BY DEF Level
<1>2. \A r \in Rows : Key(rank, r) \in Nat
    BY Levels, RanksTell DEF Key
<1>3. \A r \in Rows : ~Below(rank, r, r)
    BY <1>1, <1>2 DEF Below
<1>4. \A r, u, v \in Rows : Below(rank, r, u) /\ Below(rank, u, v) => Below(rank, r, v)
    <2> SUFFICES ASSUME NEW r \in Rows, NEW u \in Rows, NEW v \in Rows, Below(rank, r, u), Below(rank, u, v)
                 PROVE  Below(rank, r, v)
        OBVIOUS
    <2>1. /\ Level(r) \in Nat /\ Level(u) \in Nat /\ Level(v) \in Nat
          /\ Key(rank, r) \in Nat /\ Key(rank, u) \in Nat /\ Key(rank, v) \in Nat
        BY <1>1, <1>2
    <2> QED
        BY <2>1 DEF Below
<1> QED
    BY <1>1, <1>2, <1>3, <1>4

\* With the first row locked, the rest still ascends above all that is held.
LEMMA TailAscends ==
    ASSUME NEW rank, NEW w \in Seq(Rows), w # <<>>, NEW have, InOrder(rank, have, w)
    PROVE  InOrder(rank, have \cup {Head(w)}, Tail(w))
<1>1. PICK n \in Nat : n = Len(w) /\ n > 0
    OBVIOUS
<1>2. PICK t : t = Tail(w)
    OBVIOUS
<1>3. DOMAIN w = 1..n /\ DOMAIN t = 1..(n - 1) /\ Head(w) = w[1] /\ \A k \in 1..(n - 1) : t[k] = w[k + 1]
    BY <1>1, <1>2
<1>4. \A k \in 1..(n - 1) : k + 1 \in 1..n /\ 1 < k + 1
    BY <1>1
<1>5. 1 \in 1..n
    BY <1>1
<1>6. \A j, k \in 1..(n - 1) : j < k => j + 1 < k + 1
    OBVIOUS
<1>7. Ascends(rank, t)
    BY <1>3, <1>4, <1>6 DEF InOrder, Ascends
<1>8. \A h \in have \cup {Head(w)} : \A k \in DOMAIN t : Below(rank, h, t[k])
    BY <1>3, <1>4, <1>5 DEF InOrder, Ascends
<1> QED
    BY <1>2, <1>7, <1>8 DEF InOrder

\* Rows of one level in the order of their keys, above what is held.
LEMMA OneLevel ==
    ASSUME NEW rank, NEW n \in Nat, NEW have, \A h \in have : Level(h) \in Nat /\ Level(h) < n,
           NEW w, \A r \in Range(w) : Level(r) = n,
           \A j, k \in DOMAIN w : j < k => Key(rank, w[j]) < Key(rank, w[k])
    PROVE  InOrder(rank, have, w)
    BY DEF InOrder, Ascends, Below, Range

\* Nothing more is wanted.
LEMMA NothingWanted == ASSUME NEW rank, NEW have PROVE InOrder(rank, have, <<>>)
    BY DEF InOrder, Ascends

\* A change of one transaction keeps the order of the others.
LEMMA OrderMoves ==
    ASSUME TypeOK, OrdersOK, NEW s \in Slots, NEW y, tx' = [tx EXCEPT ![s] = y], y # None => OrderOK(y)
    PROVE  OrdersOK'
<1>1. tx'[s] = y /\ \A u \in Slots \ {s} : tx'[u] = tx[u]
    BY DEF TypeOK
<1>2. \A u \in Slots \ {s} : Open(u)' => OrderOK(tx'[u])
    BY <1>1 DEF OrdersOK, Open
<1>3. Open(s)' => OrderOK(tx'[s])
    BY <1>1 DEF Open
<1>4. \A u \in Slots : Open(u)' => OrderOK(tx'[u])
    BY <1>2, <1>3
<1> QED
    BY <1>4 DEF OrdersOK

\* A lock keeps the order.
LEMMA LockOrder ==
    ASSUME IInv, OrdersOK, NEW s \in Slots, Lock(s)
    PROVE  OrdersOK'
<1>1. PICK x, y \in Transactions :
         /\ x = tx[s] /\ Open(s) /\ x.want # <<>> /\ tx' = [tx EXCEPT ![s] = y]
         /\ y.op = x.op /\ y.phase = x.phase
         /\ y.have = x.have \cup {Head(x.want)} /\ y.want = Tail(x.want) /\ Claims(y) = Claims(x)
    BY LockIs
<1>2. OrderOK(x)
    BY <1>1 DEF OrdersOK
<1>3. InOrder(RankOf(y.op), y.have, y.want)
    <2>1. PICK w \in Seq(Rows) : w = x.want
        BY TransactionFacts
    <2>2. PICK h, rank : h = x.have /\ rank = RankOf(x.op)
        OBVIOUS
    <2>3. InOrder(rank, h, w) /\ w # <<>>
        BY <1>1, <1>2, <2>1, <2>2 DEF OrderOK
    <2>4. InOrder(rank, h \cup {Head(w)}, Tail(w))
        BY <2>3, TailAscends
    <2> QED
        BY <1>1, <2>1, <2>2, <2>4
<1>4. OrderOK(y)
    BY <1>1, <1>2, <1>3 DEF OrderOK
<1> QED
    BY <1>1, <1>4, OrderMoves, BooksHold

\* A transaction that ends wants nothing.
LEMMA EndOrder ==
    ASSUME IInv, OrdersOK, NEW s \in Slots, End(s)
    PROVE  OrdersOK'
    BY OrderMoves, BooksHold DEF End

\* A transaction that begins with the lowest of its rows wants the rest in order.
LEMMA BeginOrder ==
    ASSUME IInv, OrdersOK, NEW s \in Slots, NEW op, NEW phase, NEW want \in Seq(Rows), want # <<>>,
           Begin(s, op, phase, want), Ascends(RankOf(op), want), op.kind # "FINALIZE", op.kind # "RECONCILE",
           op.kind # "PAY" => \A i, j \in Range(want) \cap Invoices : i = j,
           op.kind = "CANCEL" => Range(want) \subseteq {op.invoice, Account}
    PROVE  OrdersOK'
<1>1. PICK y : y = Opened(op, phase, Tail(want), {Head(want)})
    OBVIOUS
<1>2. y.op = op /\ y.phase = phase /\ y.want = Tail(want) /\ y.have = {Head(want)}
    BY <1>1 DEF Opened
<1>3. InOrder(RankOf(op), {}, want)
    BY DEF InOrder
<1>4. InOrder(RankOf(op), {} \cup {Head(want)}, Tail(want))
    BY <1>3, TailAscends
<1>5. Claims(y) = Range(want)
    BY <1>2, HeadAndTail DEF Claims
<1>6. OrderOK(y)
    BY <1>2, <1>4, <1>5 DEF OrderOK, SeveralInvoices
<1>7. tx' = [tx EXCEPT ![s] = y]
    BY <1>1 DEF Begin
<1> QED
    BY <1>6, <1>7, OrderMoves, BooksHold

\* A transaction of x that goes on as y.
LEMMA GoOnOrder ==
    ASSUME IInv, OrdersOK, NEW s \in Slots, NEW y, tx' = [tx EXCEPT ![s] = y], OrderOK(y)
    PROVE  OrdersOK'
    BY OrderMoves, BooksHold

\* A finalization that has its batch wants its invoices, which are above it.
LEMMA LockInvoicesOrder ==
    ASSUME IInv, OrdersOK, NEW s \in Slots, LockInvoices(s)
    PROVE  OrdersOK'
<1>1. PICK x \in Transactions : x = tx[s] /\ TxOK(x) /\ Open(s)
    BY Opens DEF LockInvoices, Ready
<1>2. x.phase = "BATCH" /\ tx \in [Slots -> Transactions \cup {None}] /\ OrderOK(x)
    BY <1>1, Opens DEF LockInvoices, Ready, OrdersOK
<1>3. PICK b \in Batches : b = x.op.batch /\ x.op.kind = "FINALIZE"
    BY <1>1, <1>2, FinalizationOf
<1>4. PICK S : S = Discover(Matched(Lines(b)))
    OBVIOUS
<1>5. CASE Rollback(s)
    BY <1>5, EndOrder DEF Rollback
<1>6. CASE tx' = [tx EXCEPT ![s].phase = "INVOICES", ![s].found = S, ![s].want = Ascending(S)]
    <2>1. S \subseteq Invoices
        BY <1>4 DEF Discover
    <2>2. PICK w \in Seq(Rows) : /\ w = Ascending(S) /\ Range(w) = S
                                 /\ \A j, k \in DOMAIN w : j < k => IdOf[w[j]] < IdOf[w[k]]
        BY <2>1, AscendingIs
    <2>3. PICK y : y = [x EXCEPT !.phase = "INVOICES", !.found = S, !.want = w]
        OBVIOUS
    <2>4. y.op = x.op /\ y.have = x.have /\ y.phase = "INVOICES" /\ y.want = w
        BY <2>3 DEF Transactions
    <2>5. tx' = [tx EXCEPT ![s] = y]
        BY <1>1, <1>2, <1>6, <2>2, <2>3 DEF Transactions
    <2>6. x.have \subseteq {b}
        BY <1>2, <1>3 DEF OrderOK, Claims
    <2>7. \A h \in x.have : Level(h) \in Nat /\ Level(h) < 1
        BY <2>6, Levels
    <2>8. (\A r \in Range(w) : Level(r) = 1) /\ (\A j, k \in DOMAIN w : j < k => Key(IdOf, w[j]) < Key(IdOf, w[k]))
        <3>1. \A k \in DOMAIN w : w[k] \in Invoices
            BY <2>1, <2>2 DEF Range
        <3> QED
            BY <2>1, <2>2, <3>1, Levels
    <2>9. InOrder(IdOf, x.have, w)
        BY <2>7, <2>8, OneLevel
    <2>10. OrderOK(y)
        BY <1>3, <2>1, <2>2, <2>4, <2>6, <2>9 DEF OrderOK, Claims, RankOf, SeveralInvoices
    <2> QED
        BY <2>5, <2>10, GoOnOrder
<1> QED
    BY <1>1, <1>3, <1>4, <1>5, <1>6 DEF LockInvoices, BatchOf, Payees

\* A finalization that has its invoices wants its payments, which are above them.
LEMMA LockPaymentsOrder ==
    ASSUME IInv, OrdersOK, NEW s \in Slots, LockPayments(s)
    PROVE  OrdersOK'
<1>1. PICK x \in Transactions : x = tx[s] /\ TxOK(x) /\ Open(s)
    BY Opens DEF LockPayments, Ready
<1>2. x.phase = "INVOICES" /\ x.want = <<>> /\ TypeOK /\ OrderOK(x)
    BY <1>1, Opens DEF LockPayments, Ready, OrdersOK
<1>3. PICK b \in Batches : b = x.op.batch
    BY <1>1, <1>2, FinalizationOf
<1>4. x.op.kind = "FINALIZE" /\ FinalizeOK(x)
    BY <1>1, <1>2, FinalizationOf
<1>5. PICK Q : Q = Matched(Lines(b))
    OBVIOUS
<1>6. Q \subseteq Payments
    <2>1. Q \subseteq Payments \cup {None}
        BY <1>2, <1>5, BatchFacts DEF TypeOK, Lines
    <2>2. None \notin Q
        BY <1>2, <1>3, <1>4, <1>5 DEF FinalizeOK
    <2> QED
        BY <2>1, <2>2
<1>7. PICK w \in Seq(Rows) : /\ w = Ascending(Q) /\ Range(w) = Q
                             /\ \A j, k \in DOMAIN w : j < k => IdOf[w[j]] < IdOf[w[k]]
    BY <1>6, AscendingIs
<1>8. GoOn(s, "PAYMENTS", w)
    BY <1>1, <1>3, <1>5, <1>7 DEF LockPayments, Payees, BatchOf
<1>9. "PAYMENTS" \in Phases
    BY DEF Phases
<1>10. PICK y \in Transactions :
         /\ tx' = [tx EXCEPT ![s] = y] /\ y.op = x.op /\ y.have = x.have /\ y.phase = "PAYMENTS" /\ y.want = w
    BY <1>1, <1>8, <1>9, GoOnIs
<1>11. x.have \subseteq {b} \cup Invoices
    BY <1>2, <1>3, <1>4 DEF OrderOK, Claims
<1>12. \A h \in x.have : Level(h) \in Nat /\ Level(h) < 3
    BY <1>11, Levels
<1>13. (\A r \in Range(w) : Level(r) = 3) /\ (\A j, k \in DOMAIN w : j < k => Key(IdOf, w[j]) < Key(IdOf, w[k]))
    <2>1. \A k \in DOMAIN w : w[k] \in Payments
        BY <1>6, <1>7 DEF Range
    <2> QED
        BY <1>6, <1>7, <2>1, Levels
<1>14. InOrder(IdOf, x.have, w)
    BY <1>12, <1>13, OneLevel
<1>15. OrderOK(y)
    BY <1>3, <1>4, <1>6, <1>7, <1>10, <1>11, <1>14 DEF OrderOK, Claims, RankOf, SeveralInvoices
<1> QED
    BY <1>10, <1>15, GoOnOrder

\* A finalization that has its payments wants its advances, which are above them.
LEMMA LockAdvancesOrder ==
    ASSUME IInv, OrdersOK, NEW s \in Slots, LockAdvances(s)
    PROVE  OrdersOK'
<1>1. PICK x \in Transactions : x = tx[s] /\ TxOK(x) /\ Open(s)
    BY Opens DEF LockAdvances, Ready
<1>2. x.phase = "PAYMENTS" /\ x.want = <<>> /\ TypeOK /\ OrderOK(x)
    BY <1>1, Opens DEF LockAdvances, Ready, OrdersOK
<1>3. PICK b \in Batches : b = x.op.batch /\ x.op.kind = "FINALIZE"
    BY <1>1, <1>2, FinalizationOf
<1>4. PICK S : S = Funded(Matched(Lines(b)))
    OBVIOUS
<1>5. S \subseteq Advances
    BY <1>2, <1>4, AdvanceFacts DEF Funded
<1>6. PICK w \in Seq(Rows) : /\ w = Sorted(S, [a \in Advances |-> a]) /\ Range(w) = S
                             /\ \A j, k \in DOMAIN w : j < k => w[j] < w[k]
    BY <1>5, SortedAdvances
<1>7. GoOn(s, "ADVANCES", w)
    BY <1>1, <1>3, <1>4, <1>6 DEF LockAdvances, Payees, BatchOf
<1>8. "ADVANCES" \in Phases
    BY DEF Phases
<1>9. PICK y \in Transactions :
         /\ tx' = [tx EXCEPT ![s] = y] /\ y.op = x.op /\ y.have = x.have /\ y.phase = "ADVANCES" /\ y.want = w
    BY <1>1, <1>7, <1>8, GoOnIs
<1>10. x.have \subseteq {b} \cup Invoices \cup Payments
    BY <1>2, <1>3 DEF OrderOK, Claims
<1>11. \A h \in x.have : Level(h) \in Nat /\ Level(h) < 4
    BY <1>10, Levels
<1>12. (\A r \in Range(w) : Level(r) = 4) /\ (\A j, k \in DOMAIN w : j < k => Key(IdOf, w[j]) < Key(IdOf, w[k]))
    <2>1. \A k \in DOMAIN w : w[k] \in Advances
        BY <1>5, <1>6 DEF Range
    <2> QED
        BY <1>5, <1>6, <2>1, Levels
<1>13. InOrder(IdOf, x.have, w)
    BY <1>11, <1>12, OneLevel
<1>14. OrderOK(y)
    BY <1>3, <1>9, <1>13 DEF OrderOK, RankOf, SeveralInvoices
<1> QED
    BY <1>9, <1>14, GoOnOrder

\* A decision wants no more locks.
LEMMA DecideOrder ==
    ASSUME IInv, OrdersOK, NEW s \in Slots, NEW phase, Ready(s, phase), NEW v, Decides(s, v)
    PROVE  OrdersOK'
<1>1. PICK x \in Transactions : x = tx[s] /\ x.want = <<>>
    BY Opens DEF Ready
<1>2. tx \in [Slots -> Transactions \cup {None}]
    BY BooksHold DEF TypeOK
<1>3. PICK y : y = [x EXCEPT !.phase = "COMMIT", !.verdict = v]
    OBVIOUS
<1>4. y.op = x.op /\ y.have = x.have /\ y.phase = "COMMIT" /\ y.want = <<>>
    BY <1>1, <1>3 DEF Transactions
<1>5. tx' = [tx EXCEPT ![s] = y]
    BY <1>1, <1>2, <1>3 DEF Transactions, Decides
<1>6. OrderOK(y)
    <2>1. InOrder(RankOf(y.op), y.have, y.want)
        BY <1>4, NothingWanted
    <2>2. Claims(y) = Claims(x) /\ OrderOK(x)
        BY <1>1, <1>4 DEF Claims, OrdersOK, Ready
    <2> QED
        BY <1>4, <2>1, <2>2 DEF OrderOK
<1> QED
    BY <1>5, <1>6, GoOnOrder

\* The decisions of finalizations, payments and applications keep the order.
LEMMA DecisionsOrder ==
    ASSUME IInv, OrdersOK, NEW s \in Slots, Confirm(s) \/ DecidePay(s) \/ DecideApply(s)
    PROVE  OrdersOK'
<1>1. Rollback(s) \/ \E phase, v : Ready(s, phase) /\ Decides(s, v)
    <2>1. CASE Confirm(s)
        BY <2>1 DEF Confirm, Decides
    <2>2. CASE DecidePay(s)
        BY <2>2 DEF DecidePay, Decides
    <2>3. CASE DecideApply(s)
        BY <2>3 DEF DecideApply, Decides
    <2> QED
        BY <2>1, <2>2, <2>3
<1> QED
    BY <1>1, EndOrder, DecideOrder DEF Rollback

\* A cancellation that has its invoice and the account wants its sources, which are above
\* them.
LEMMA DecideCancelOrder ==
    ASSUME IInv, OrdersOK, NEW s \in Slots, DecideCancel(s)
    PROVE  OrdersOK'
<1>1. PICK x \in Transactions : x = tx[s] /\ Open(s) /\ OrderOK(x)
    BY Opens DEF DecideCancel, Ready, OrdersOK
<1>2. x.phase = "READ" /\ x.op.kind = "CANCEL" /\ TypeOK
    BY <1>1, Opens DEF DecideCancel, Ready
<1>3. PICK i \in Invoices : i = x.op.invoice
    BY <1>2, RequestFacts, TransactionFacts
<1>4. CASE Rollback(s)
    BY <1>4, EndOrder DEF Rollback
<1>5. CASE GoOn(s, "COMMIT", Ascending(SourcesOf(i)))
    <2>1. PICK S : S = SourcesOf(i)
        OBVIOUS
    <2>2. S \subseteq Payments
        BY <1>2, <2>1, SourcesType
    <2>3. PICK w \in Seq(Rows) : /\ w = Ascending(S) /\ Range(w) = S
                                 /\ \A j, k \in DOMAIN w : j < k => IdOf[w[j]] < IdOf[w[k]]
        BY <2>2, AscendingIs
    <2>4. GoOn(s, "COMMIT", w) /\ "COMMIT" \in Phases
        BY <1>5, <2>1, <2>3 DEF Phases
    <2>5. PICK y \in Transactions :
             /\ tx' = [tx EXCEPT ![s] = y] /\ y.op = x.op /\ y.have = x.have /\ y.phase = "COMMIT" /\ y.want = w
        BY <1>1, <2>4, GoOnIs
    <2>6. x.have \subseteq {i, Account}
        BY <1>1, <1>2, <1>3 DEF OrderOK, Claims
    <2>7. \A h \in x.have : Level(h) \in Nat /\ Level(h) < 3
        BY <2>6, Levels
    <2>8. (\A r \in Range(w) : Level(r) = 3) /\ (\A j, k \in DOMAIN w : j < k => Key(IdOf, w[j]) < Key(IdOf, w[k]))
        <3>1. \A k \in DOMAIN w : w[k] \in Payments
            BY <2>2, <2>3 DEF Range
        <3> QED
            BY <2>2, <2>3, <3>1, Levels
    <2>9. InOrder(IdOf, x.have, w)
        BY <2>7, <2>8, OneLevel
    <2>10. \A j, k \in Claims(y) \cap Invoices : j = k
        BY <2>2, <2>3, <2>5, <2>6, KindsOfRows DEF Claims
    <2>11. OrderOK(y)
        BY <1>2, <2>5, <2>9, <2>10 DEF OrderOK, RankOf
    <2> QED
        BY <2>5, <2>11, GoOnOrder
<1> QED
    BY <1>1, <1>3, <1>4, <1>5 DEF DecideCancel

\* The reconciliation holds nothing when it wants its one row.
LEMMA ReadCoverageOrder ==
    ASSUME IInv, OrdersOK, NEW s \in Slots, ReadCoverage(s)
    PROVE  OrdersOK'
<1>1. PICK x \in Transactions : x = tx[s] /\ Open(s) /\ OrderOK(x)
    BY Opens DEF ReadCoverage, Ready, OrdersOK
<1>2. x.phase = "READ" /\ x.op.kind = "RECONCILE"
    BY <1>1, Opens DEF ReadCoverage, Ready
<1>3. PICK i \in Invoices : i = x.op.invoice
    BY <1>2, RequestFacts, TransactionFacts
<1>4. CASE Rollback(s)
    BY <1>4, EndOrder DEF Rollback
<1>5. CASE GoOn(s, "COMMIT", <<i>>)
    <2>1. PICK w \in Seq(Rows) : w = <<i>> /\ DOMAIN w = {1}
        <3>1. <<i>> \in Seq(Rows) /\ DOMAIN <<i>> = {1}
            BY RowKinds
        <3> QED
            BY <3>1
    <2>2. GoOn(s, "COMMIT", w) /\ "COMMIT" \in Phases
        BY <1>5, <2>1 DEF Phases
    <2>3. PICK y \in Transactions :
             /\ tx' = [tx EXCEPT ![s] = y] /\ y.op = x.op /\ y.have = x.have /\ y.phase = "COMMIT" /\ y.want = w
        BY <1>1, <2>2, GoOnIs
    <2>4. x.have = {}
        BY <1>1, <1>2 DEF OrderOK, Claims
    <2>5. InOrder(IdOf, x.have, w)
        BY <2>1, <2>4 DEF InOrder, Ascends
    <2>6. OrderOK(y)
        BY <1>2, <2>1, <2>3, <2>4, <2>5 DEF OrderOK, Claims, Range, RankOf
    <2> QED
        BY <2>3, <2>6, GoOnOrder
<1> QED
    BY <1>1, <1>3, <1>4, <1>5 DEF ReadCoverage

\* Commits and rollbacks keep the order.
LEMMA CommitsOrder ==
    ASSUME IInv, OrdersOK, NEW s \in Slots,
           \/ Abort(s) \/ CommitFinalization(s) \/ CommitPay(s) \/ CommitApply(s) \/ CommitConvert(s)
           \/ CommitRefund(s) \/ CommitCancel(s) \/ CommitReconciliation(s)
    PROVE  OrdersOK'
<1>1. End(s)
    BY DEF CommitFinalization, CommitPay, CommitApply, CommitConvert, CommitRefund, CommitCancel,
           CommitReconciliation, Abort, Rollback
<1> QED
    BY <1>1, EndOrder

\* Every step of an open transaction keeps the order.
LEMMA StepsOrder ==
    ASSUME IInv, OrdersOK, NEW s \in Slots, Step(s)
    PROVE  OrdersOK'
<1>1. \/ Lock(s) \/ Abort(s) \/ LockInvoices(s) \/ LockPayments(s) \/ LockAdvances(s)
      \/ Confirm(s) \/ DecidePay(s) \/ DecideApply(s) \/ DecideCancel(s) \/ ReadCoverage(s)
      \/ CommitFinalization(s) \/ CommitPay(s) \/ CommitApply(s) \/ CommitConvert(s)
      \/ CommitRefund(s) \/ CommitCancel(s) \/ CommitReconciliation(s)
    BY DEF Step
<1> QED
    BY <1>1, LockOrder, LockInvoicesOrder, LockPaymentsOrder, LockAdvancesOrder, DecisionsOrder,
       DecideCancelOrder, ReadCoverageOrder, CommitsOrder

\* The payments: the receipt's invoices are in the order of their ages.
LEMMA PayOrder ==
    ASSUME IInv, OrdersOK, NEW s \in Slots, NEW q \in Payments, NEW w \in Seq(Invoices), Pay(s, q, w),
           \A j, k \in DOMAIN w : j < k => AgeOf[w[j]] < AgeOf[w[k]]
    PROVE  OrdersOK'
<1>1. PICK op : op = [kind |-> "PAY", payment |-> q, targets |-> w]
    OBVIOUS
<1>2. op.kind = "PAY"
    BY <1>1
<1>3. PICK want : want = Append(w, Account)
    OBVIOUS
<1>4. w \in Seq(Rows)
    BY RowKinds, SeqOfMore
<1>5. PICK n \in Nat : n = Len(w)
    OBVIOUS
<1>6. /\ want \in Seq(Rows) /\ DOMAIN want = 1..(n + 1) /\ DOMAIN w = 1..n /\ want # <<>>
      /\ want[n + 1] = Account /\ \A k \in 1..n : want[k] = w[k]
    BY <1>3, <1>4, <1>5, RowKinds
<1>7. \A k \in 1..n : Level(w[k]) = 1 /\ Key(AgeOf, w[k]) = AgeOf[w[k]]
    BY <1>6, Levels
<1>8. Ascends(AgeOf, want)
    <2> SUFFICES ASSUME NEW j \in 1..(n + 1), NEW k \in 1..(n + 1), j < k PROVE Below(AgeOf, want[j], want[k])
        BY <1>6 DEF Ascends
    <2>1. CASE k = n + 1
        <3>1. j \in 1..n
            BY <2>1
        <3> QED
            BY <1>6, <1>7, <2>1, <3>1, Levels DEF Below
    <2>2. CASE k # n + 1
        <3>1. j \in 1..n /\ k \in 1..n
            BY <2>2
        <3> QED
            BY <1>6, <1>7, <3>1 DEF Below
    <2> QED
        BY <2>1, <2>2
<1>9. Begin(s, op, "READ", want)
    BY <1>1, <1>3 DEF Pay
<1> QED
    BY <1>2, <1>6, <1>8, <1>9, BeginOrder DEF RankOf

\* Two rows, the lower one first, ascend.
LEMMA TwoInOrder ==
    ASSUME NEW rank, NEW r \in Rows, NEW u \in Rows, Below(rank, r, u)
    PROVE  Ascends(rank, <<r, u>>)
<1>1. PICK w : w = <<r, u>>
    OBVIOUS
<1>2. DOMAIN w = 1..2 /\ w[1] = r /\ w[2] = u
    BY <1>1
<1>3. \A j, k \in 1..2 : j < k => j = 1 /\ k = 2
    OBVIOUS
<1> QED
    BY <1>1, <1>2, <1>3 DEF Ascends

\* Two rows of different levels, the lower one first.
LEMMA TwoLevels ==
    ASSUME NEW rank, NEW r \in Rows, NEW u \in Rows, Level(r) \in Nat, Level(u) \in Nat, Level(r) < Level(u)
    PROVE  \E w \in Seq(Rows) : w = <<r, u>> /\ w # <<>> /\ Ascends(rank, w) /\ Range(w) = {r, u}
<1>1. Ascends(rank, <<r, u>>)
    BY TwoInOrder DEF Below
<1>2. <<r, u>> \in Seq(Rows) /\ <<r, u>> # <<>>
    OBVIOUS
<1>3. Range(<<r, u>>) = {r, u}
    BY TwoRows
<1> QED
    BY <1>1, <1>2, <1>3

\* Every beginning keeps the order.
LEMMA StartsOrder ==
    ASSUME IInv, OrdersOK, NEW s \in Slots, Start(s)
    PROVE  OrdersOK'
<1>1. ASSUME NEW b \in Batches, RequestFinalization(s, b) PROVE OrdersOK'
    <2>1. PICK y : y = Opened([kind |-> "FINALIZE", batch |-> b, view |-> batch[b]], "BATCH", <<b>>, {})
        OBVIOUS
    <2>2. PICK want : want = <<b>>
        OBVIOUS
    <2>3. DOMAIN want = {1} /\ Range(want) = {b}
        BY <2>2 DEF Range
    <2>4. y.op.kind = "FINALIZE" /\ y.op.batch = b /\ y.phase = "BATCH" /\ y.want = want /\ y.have = {}
        BY <2>1, <2>2 DEF Opened
    <2>5. OrderOK(y)
        BY <2>3, <2>4 DEF OrderOK, InOrder, Ascends, Claims, SeveralInvoices
    <2>6. tx' = [tx EXCEPT ![s] = y]
        BY <1>1, <2>1 DEF RequestFinalization
    <2> QED
        BY <2>5, <2>6, GoOnOrder
<1>2. ASSUME NEW q \in Payments, Receipt(s, q) PROVE OrdersOK'
    <2>1. /\ AgeOf \in [Invoices -> Nat] /\ IsInjective(AgeOf)
        BY SettlementsAssumption DEF SettlementsAssumption
    <2>2. (\A x \in Invoices : AgeOf[x] \in Nat) /\ (\A x, y \in Invoices : AgeOf[x] = AgeOf[y] => x = y)
        BY <2>1 DEF IsInjective
    <2>3. PICK w \in Seq(Invoices) : /\ w = Sorted(Invoices, AgeOf)
                                     /\ \A j, k \in DOMAIN w : j < k => AgeOf[w[j]] < AgeOf[w[k]]
        BY <2>2, Finite, SortedIs
    <2>4. Pay(s, q, w)
        BY <1>2, <2>3 DEF Receipt
    <2> QED
        BY <2>3, <2>4, PayOrder
<1>3. ASSUME NEW q \in Payments, NEW i \in Invoices, Capture(s, q, i) PROVE OrdersOK'
    <2>1. PICK w \in Seq(Invoices) : w = <<i>> /\ DOMAIN w = {1}
        <3>1. <<i>> \in Seq(Invoices) /\ DOMAIN <<i>> = {1}
            OBVIOUS
        <3> QED
            BY <3>1
    <2>2. Pay(s, q, w) /\ \A j, k \in DOMAIN w : ~(j < k)
        BY <1>3, <2>1 DEF Capture
    <2> QED
        BY <2>2, PayOrder
<1>4. ASSUME NEW q \in Payments, Convert(s, q) PROVE OrdersOK'
    <2>1. PICK want \in Seq(Rows) : want = <<Account, q>> /\ want # <<>> /\ Ascends(IdOf, want) /\ Range(want) = {Account, q}
        <3>1. /\ Account \in Rows /\ q \in Rows
              /\ Level(Account) \in Nat /\ Level(q) \in Nat /\ Level(Account) < Level(q)
            BY Levels DEF Rows
        <3>2. \E w \in Seq(Rows) :
                 w = <<Account, q>> /\ w # <<>> /\ Ascends(IdOf, w) /\ Range(w) = {Account, q}
            BY <3>1, TwoLevels
        <3> QED
            BY <3>2
    <2>2. PICK op : op = [kind |-> "CONVERT", payment |-> q]
        OBVIOUS
    <2>3. Begin(s, op, "COMMIT", want) /\ op.kind = "CONVERT"
        BY <1>4, <2>1, <2>2 DEF Convert
    <2> QED
        BY <2>1, <2>3, KindsOfRows, BeginOrder DEF RankOf
<1>5. ASSUME NEW a \in Advances, Refund(s, a) PROVE OrdersOK'
    <2>1. PICK want \in Seq(Rows) : want = <<Account, a>> /\ want # <<>> /\ Ascends(IdOf, want) /\ Range(want) = {Account, a}
        <3>1. /\ Account \in Rows /\ a \in Rows
              /\ Level(Account) \in Nat /\ Level(a) \in Nat /\ Level(Account) < Level(a)
            BY Levels DEF Rows
        <3>2. \E w \in Seq(Rows) :
                 w = <<Account, a>> /\ w # <<>> /\ Ascends(IdOf, w) /\ Range(w) = {Account, a}
            BY <3>1, TwoLevels
        <3> QED
            BY <3>2
    <2>2. PICK op : op = [kind |-> "REFUND", advance |-> a]
        OBVIOUS
    <2>3. Begin(s, op, "COMMIT", want) /\ op.kind = "REFUND"
        BY <1>5, <2>1, <2>2 DEF Refund
    <2> QED
        BY <2>1, <2>3, KindsOfRows, BeginOrder DEF RankOf
<1>6. ASSUME NEW a \in Advances, NEW i \in Invoices, ApplyAdvance(s, a, i) PROVE OrdersOK'
    <2>1. PICK want : want = <<i, Account, a>>
        OBVIOUS
    <2>2. want \in Seq(Rows) /\ DOMAIN want = 1..3 /\ want[1] = i /\ want[2] = Account /\ want[3] = a /\ want # <<>>
        BY <2>1, RowKinds
    <2>3. \A j, k \in 1..3 : j < k => (j = 1 /\ k = 2) \/ (j = 1 /\ k = 3) \/ (j = 2 /\ k = 3)
        OBVIOUS
    <2>4. Below(IdOf, i, Account) /\ Below(IdOf, i, a) /\ Below(IdOf, Account, a)
        BY Levels DEF Below
    <2>5. Ascends(IdOf, want) /\ Range(want) = {i, Account, a}
        BY <2>2, <2>3, <2>4 DEF Ascends, Range
    <2>6. PICK op : op = [kind |-> "APPLY", advance |-> a, invoice |-> i]
        OBVIOUS
    <2>7. Begin(s, op, "READ", want) /\ op.kind = "APPLY"
        BY <1>6, <2>1, <2>6 DEF ApplyAdvance
    <2> QED
        BY <2>2, <2>5, <2>7, KindsOfRows, BeginOrder DEF RankOf
<1>7. ASSUME NEW i \in Invoices, Cancel(s, i) PROVE OrdersOK'
    <2>1. PICK want \in Seq(Rows) :
             want = <<i, Account>> /\ want # <<>> /\ Ascends(IdOf, want) /\ Range(want) = {i, Account}
        <3>1. /\ i \in Rows /\ Account \in Rows
              /\ Level(i) \in Nat /\ Level(Account) \in Nat /\ Level(i) < Level(Account)
            BY Levels DEF Rows
        <3>2. \E w \in Seq(Rows) :
                 w = <<i, Account>> /\ w # <<>> /\ Ascends(IdOf, w) /\ Range(w) = {i, Account}
            BY <3>1, TwoLevels
        <3> QED
            BY <3>2
    <2>2. PICK op : op = [kind |-> "CANCEL", invoice |-> i]
        OBVIOUS
    <2>3. Begin(s, op, "READ", want) /\ op.kind = "CANCEL" /\ op.invoice = i
        BY <1>7, <2>1, <2>2 DEF Cancel
    <2> QED
        BY <2>1, <2>3, KindsOfRows, BeginOrder DEF RankOf
<1>8. ASSUME NEW i \in Invoices, Reconcile(s, i) PROVE OrdersOK'
    <2>1. PICK y : y = Opened([kind |-> "RECONCILE", invoice |-> i], "READ", <<>>, {})
        OBVIOUS
    <2>2. y.op.kind = "RECONCILE" /\ y.want = <<>> /\ y.have = {}
        BY <2>1 DEF Opened
    <2>3. OrderOK(y)
        <3>1. InOrder(RankOf(y.op), y.have, y.want)
            BY <2>2, NothingWanted
        <3> QED
            BY <2>2, <3>1 DEF OrderOK, Claims, Range
    <2>4. tx' = [tx EXCEPT ![s] = y]
        BY <1>8, <2>1 DEF Reconcile
    <2> QED
        BY <2>3, <2>4, GoOnOrder
<1> QED
    BY <1>1, <1>2, <1>3, <1>4, <1>5, <1>6, <1>7, <1>8 DEF Start

\* No step of anybody takes the rows out of their order.
LEMMA OrdersKeep ==
    ASSUME IInv, OrdersOK, [Next]_vars
    PROVE  OrdersOK'
<1>1. ASSUME tx' = tx PROVE OrdersOK'
    BY <1>1 DEF OrdersOK, Open
<1>2. ASSUME NEW s \in Slots, Start(s) \/ Step(s) PROVE OrdersOK'
    BY <1>2, StartsOrder, StepsOrder
<1> QED
    BY <1>1, <1>2, DraftsLeaveOthers DEF Next, vars

\* The row that a transaction waits for is above all that it holds, by a rank.
Climbs(s, rank) == \A h \in tx[s].have : Below(rank, h, Head(tx[s].want))

\* A transaction climbs by its own rank, and by the other one too unless it goes back by
\* it, for which it takes a second invoice.
LEMMA ClimbsUnlessBack ==
    ASSUME IInv, OrdersOK, NEW s \in Slots, Open(s), tx[s].want # <<>>, NEW rank \in Ranks,
           SeveralInvoices(tx[s].op) /\ rank # RankOf(tx[s].op) => ~GoesBack(s, rank)
    PROVE  Climbs(s, rank)
<1>1. PICK x \in Transactions : x = tx[s] /\ OrderOK(x)
    BY Opens DEF OrdersOK
<1>2. PICK w \in Seq(Rows) : w = x.want /\ w # <<>>
    BY <1>1, TransactionFacts
<1>3. PICK r \in Rows : r = Head(w) /\ 1 \in DOMAIN w /\ r = w[1]
    BY <1>2
<1>4. PICK own : own = RankOf(x.op) /\ own \in Ranks
    BY DEF RankOf, Ranks
<1> SUFFICES ASSUME NEW h \in x.have PROVE Below(rank, h, r)
    BY <1>1, <1>2, <1>3 DEF Climbs
<1>5. h \in Rows /\ Below(own, h, r)
    <2>1. h \in Rows
        BY TransactionFacts
    <2>2. InOrder(own, x.have, w)
        BY <1>1, <1>2, <1>4 DEF OrderOK
    <2> QED
        BY <1>3, <2>1, <2>2 DEF InOrder
<1>6. CASE rank = own
    BY <1>5, <1>6
<1>7. CASE ~(h \in Invoices /\ r \in Invoices)
    <2>1. Level(h) = 1 <=> h \in Invoices
        BY <1>5, KindsOfRows DEF Level
    <2>2. Level(r) = 1 <=> r \in Invoices
        BY KindsOfRows DEF Level
    <2>3. Level(h) = Level(r) => Key(rank, h) = Key(own, h) /\ Key(rank, r) = Key(own, r)
        BY <1>7, <2>1, <2>2 DEF Key
    <2> QED
        BY <1>5, <2>3 DEF Below
<1>8. CASE h \in Invoices /\ r \in Invoices /\ rank # own
    <2>1. h # r
        BY <1>4, <1>5, BelowIsOrder
    <2>2. h \in Claims(x) /\ r \in Claims(x)
        BY <1>2, <1>3 DEF Claims, Range
    <2>3. SeveralInvoices(x.op)
        BY <1>1, <1>8, <2>1, <2>2 DEF OrderOK
    <2>4. ~GoesBack(s, rank)
        BY <1>1, <1>4, <1>8, <2>3
    <2>5. ~(rank[r] < rank[h])
        BY <1>1, <1>2, <1>3, <1>8, <2>4 DEF GoesBack
    <2>6. rank[h] \in Nat /\ rank[r] \in Nat /\ rank[h] # rank[r]
        BY <1>8, <2>1, RanksTell
    <2>7. rank[h] < rank[r]
        BY <2>5, <2>6
    <2> QED
        BY <1>8, <2>7, Levels DEF Below
<1> QED
    BY <1>6, <1>7, <1>8

\* A row is waited for by one that wants it next.
LEMMA WaitsUp ==
    ASSUME NEW rank, NEW s \in Slots, NEW t \in Slots, WaitsFor(s, t), Climbs(t, rank)
    PROVE  Below(rank, Head(tx[s].want), Head(tx[t].want))
    BY DEF WaitsFor, Holder, Climbs

\* Where all of them climb by one rank, nobody waits in a circle: somebody waits for the
\* highest row.
LEMMA NoCircle ==
    ASSUME IInv, NEW rank \in Ranks, NEW S \in SUBSET Slots, Circle(S), \A s \in S : Climbs(s, rank)
    PROVE  FALSE
<1>1. \A s \in S : tx[s].want # <<>> /\ Head(tx[s].want) \in Rows
    <2> SUFFICES ASSUME NEW s \in S PROVE tx[s].want # <<>> /\ Head(tx[s].want) \in Rows
        OBVIOUS
    <2>1. Open(s) /\ tx[s].want # <<>>
        BY DEF Circle, WaitsFor
    <2>2. tx[s].want \in Seq(Rows)
        BY <2>1, Opens, TransactionFacts
    <2> QED
        BY <2>1, <2>2
<1>2. PICK w : w = [s \in S |-> Head(tx[s].want)]
    OBVIOUS
<1>3. \A s \in S : w[s] \in Rows
    BY <1>1, <1>2
<1>4. \A s \in S : \E t \in S : Below(rank, w[s], w[t])
    BY <1>2, WaitsUp DEF Circle
<1> DEFINE Above(s) == {t \in S : Below(rank, w[s], w[t])}
           B == {Above(s) : s \in S}
<1>5. IsFiniteSet(S)
    BY Finite, FS_Subset
<1>6. B \subseteq SUBSET S /\ B # {}
    BY DEF Circle
<1>7. \A s \in S : \E t \in S : Above(t) \subseteq Above(s) /\ Above(t) # Above(s)
    <2> SUFFICES ASSUME NEW s \in S PROVE \E t \in S : Above(t) \subseteq Above(s) /\ Above(t) # Above(s)
        OBVIOUS
    <2>1. PICK t \in S : Below(rank, w[s], w[t])
        BY <1>4
    <2>2. \A u \in S : Below(rank, w[t], w[u]) => Below(rank, w[s], w[u])
        BY <1>3, <2>1, BelowIsOrder
    <2>3. ~Below(rank, w[t], w[t])
        BY <1>3, BelowIsOrder
    <2> QED
        BY <2>1, <2>2, <2>3
<1> HIDE DEF B
<1>8. PICK T \in B : \A U \in SUBSET T : U # T => U \notin B
    BY <1>5, <1>6, MinimalSubset
<1>9. PICK s \in S : T = Above(s)
    BY <1>8 DEF B
<1>10. PICK t \in S : Above(t) \subseteq Above(s) /\ Above(t) # Above(s)
    BY <1>7
<1>11. Above(t) \in B
    BY DEF B
<1> QED
    BY <1>8, <1>9, <1>10, <1>11

\* A circle has somebody in it that goes back by either rank, and by the rank of the ids
\* only a receipt does, by that of the ages only a finalization.
LEMMA BothGoBack ==
    ASSUME IInv, OrdersOK
    PROVE  OnlyTheTwoOrdersClash
<1> SUFFICES ASSUME NEW S \in SUBSET Slots, Circle(S)
             PROVE  /\ \E s \in S : tx[s].op.kind = "PAY" /\ GoesBack(s, IdOf)
                    /\ \E s \in S : Finalization(s) /\ GoesBack(s, AgeOf)
    BY DEF OnlyTheTwoOrdersClash
<1>1. \A s \in S : Open(s) /\ tx[s].want # <<>>
    BY DEF Circle, WaitsFor
<1>2. \A rank \in Ranks : \E s \in S : ~Climbs(s, rank)
    BY NoCircle
<1>3. \A rank \in Ranks : \E s \in S : SeveralInvoices(tx[s].op) /\ rank # RankOf(tx[s].op) /\ GoesBack(s, rank)
    BY <1>1, <1>2, ClimbsUnlessBack
<1>4. \E s \in S : tx[s].op.kind = "PAY" /\ GoesBack(s, IdOf)
    BY <1>3 DEF Ranks, RankOf
<1>5. \E s \in S : Finalization(s) /\ GoesBack(s, AgeOf)
    BY <1>1, <1>3 DEF Ranks, RankOf, SeveralInvoices, Finalization
<1> QED
    BY <1>4, <1>5

\* The only transactions that can wait for each other in a circle are receipts and
\* finalizations, and only where the ages of the invoices that they lock are not in the
\* order of their ids.
THEOREM OnlyTheTwoOrdersDeadlock == Spec => []OnlyTheTwoOrdersClash
<1>1. Init => OrdersOK
    BY DEF Init, OrdersOK, Open
<1>2. IInv /\ OrdersOK /\ [Next]_vars => OrdersOK'
    BY OrdersKeep
<1>3. IInv /\ OrdersOK => OnlyTheTwoOrdersClash
    BY BothGoBack
<1> QED
    BY <1>1, <1>2, <1>3, InvHolds, PTL DEF Spec

=============================================================================
