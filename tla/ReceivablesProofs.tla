-------------------------- MODULE ReceivablesProofs --------------------------
(***************************************************************************)
(* Proofs about the account of a customer: its records agree, money is     *)
(* traced to its payment, receipts pay the oldest receivable first, and    *)
(* the account implements the abstract ledger.                             *)
(***************************************************************************)
EXTENDS Receivables, SumTheorems, SequenceTheorems, TLAPS

-----------------------------------------------------------------------------
(* Sums of functions.                                                      *)

\* The sum of a function is the sum over its domain.
LEMMA TotalIs ==
    ASSUME NEW D, NEW f, DOMAIN f = D
    PROVE  Sum(f) = SumFunctionOnSet(f, D)
BY DEF Sum, SumFunction

LEMMA TotalNat ==
    ASSUME NEW D, IsFiniteSet(D), NEW f \in [D -> Nat]
    PROVE  Sum(f) \in Nat
<1>1. \A x \in D : f[x] \in Nat
    OBVIOUS
<1> QED
    BY <1>1, TotalIs, SumNat

LEMMA TotalInt ==
    ASSUME NEW D, IsFiniteSet(D), NEW f \in [D -> Int]
    PROVE  Sum(f) \in Int
<1>1. \A x \in D : f[x] \in Int
    OBVIOUS
<1> QED
    BY <1>1, TotalIs, SumType

\* One value changes.
LEMMA TotalChange ==
    ASSUME NEW D, IsFiniteSet(D), NEW f \in [D -> Int], NEW g \in [D -> Int], NEW x \in D,
           \A y \in D : y # x => g[y] = f[y]
    PROVE  Sum(g) = Sum(f) - f[x] + g[x]
<1>1. \A y \in D : f[y] \in Int /\ g[y] \in Int
    OBVIOUS
<1>2. SumFunctionOnSet(g, D) = SumFunctionOnSet(f, D) - f[x] + g[x]
    BY <1>1, SumChange
<1> QED
    BY <1>2, TotalIs

\* Values are added to each other.
LEMMA TotalPlus ==
    ASSUME NEW D, IsFiniteSet(D), NEW f \in [D -> Int], NEW g \in [D -> Int], NEW h \in [D -> Int],
           \A x \in D : h[x] = f[x] + g[x]
    PROVE  Sum(h) = Sum(f) + Sum(g)
<1>1. \A x \in D : f[x] \in Int /\ g[x] \in Int /\ h[x] = f[x] + g[x]
    OBVIOUS
<1>2. SumFunctionOnSet(h, D) = SumFunctionOnSet(f, D) + SumFunctionOnSet(g, D)
    BY <1>1, SumPlus
<1> QED
    BY <1>2, TotalIs

\* What is 0 outside a set adds up to what the set does.
LEMMA TotalOver ==
    ASSUME NEW D, IsFiniteSet(D), NEW T, T \subseteq D, NEW f \in [T -> Int], NEW g \in [D -> Int],
           \A x \in D : g[x] = IF x \in T THEN f[x] ELSE 0
    PROVE  Sum(g) = Sum(f)
<1>1. \A x \in T : f[x] \in Int
    OBVIOUS
<1>2. SumFunctionOnSet(g, D) = SumFunctionOnSet(f, T)
    BY <1>1, SumOver
<1> QED
    BY <1>2, TotalIs

\* Zeros add up to 0.
LEMMA TotalZero ==
    ASSUME NEW D, IsFiniteSet(D), NEW f \in [D -> Int], \A x \in D : f[x] = 0
    PROVE  Sum(f) = 0
<1>1. SumFunctionOnSet(f, D) = 0
    BY SumZero
<1> QED
    BY <1>1, TotalIs

\* A value is no more than the sum.
LEMMA TotalMember ==
    ASSUME NEW D, IsFiniteSet(D), NEW f \in [D -> Nat], NEW x \in D
    PROVE  f[x] <= Sum(f)
<1>1. \A y \in D : f[y] \in Nat
    OBVIOUS
<1>2. f[x] <= SumFunctionOnSet(f, D)
    BY <1>1, SumMember
<1> QED
    BY <1>2, TotalIs

\* Smaller values have a smaller sum.
LEMMA TotalLess ==
    ASSUME NEW D, IsFiniteSet(D), NEW f \in [D -> Int], NEW g \in [D -> Int],
           \A x \in D : f[x] <= g[x]
    PROVE  Sum(f) <= Sum(g)
<1>1. \A x \in D : f[x] \in Int /\ g[x] \in Int /\ f[x] <= g[x]
    OBVIOUS
<1>2. SumFunctionOnSet(f, D) <= SumFunctionOnSet(g, D)
    BY <1>1, SumLess
<1> QED
    BY <1>2, TotalIs

\* One value and zeros add up to the value.
LEMMA TotalOne ==
    ASSUME NEW D, IsFiniteSet(D), NEW f \in [D -> Int], NEW x \in D, \A y \in D : y # x => f[y] = 0
    PROVE  Sum(f) = f[x]
<1> DEFINE z == [y \in D |-> 0]
<1>1. z \in [D -> Int] /\ \A y \in D : z[y] = 0
    OBVIOUS
<1> HIDE DEF z
<1>2. Sum(z) = 0
    BY <1>1, TotalZero
<1>3. Sum(f) = Sum(z) - z[x] + f[x]
    BY <1>1, TotalChange
<1>4. f[x] \in Int
    OBVIOUS
<1> QED
    BY <1>1, <1>2, <1>3, <1>4

-----------------------------------------------------------------------------
(* The invariant.                                                         *)

\* What a receivable that exists still owes, and what is left on an advance that exists.
Owing(r) == IF r \in Opened THEN Outstanding(r) ELSE 0
Held(a)  == IF a \in DOMAIN advances THEN Booked(a) ELSE 0

Debt   == Sum([r \in Receivables |-> Owing(r)])
Credit == Sum([a \in Advances |-> Held(a)])

\* What the rows refer to exists, and what does not exist has no rows.
Links ==
    /\ \A i, j \in 1..Len(opened) : opened[i] = opened[j] => i = j
    /\ found # None => /\ Len(found) <= Len(opened)
                       /\ \A i \in 1..Len(found) : found[i] = opened[i]
    /\ \A r \in Receivables \ Opened :
          /\ status[r] = "UNPAID" /\ credited[r] = 0
          /\ \A p \in Payments : paid[r][p] = 0
          /\ \A a \in Advances : applied[r][a] = 0
    /\ \A p \in Payments : received[p] = 0 =>
          /\ \A r \in Receivables : paid[r][p] = 0
          /\ \A a \in 1..Len(advances) : advances[a].payment # p
    /\ \A a \in Advances \ (1..Len(advances)) :
          /\ refunded[a] = 0
          /\ \A r \in Receivables : applied[r][a] = 0
    /\ \A k \in RefundKeys : attempts[k] # None => attempts[k].advance \in 1..Len(advances)
    /\ \A a \in 1..Len(advances) :
          /\ advances[a].source = "OPENING" => advances[a].payment = None
          /\ advances[a].source = "PAYMENT" => advances[a].payment # None

\* A cancelled invoice owes nothing; only a cancelled one has a credit note.
Closed == \A r \in Receivables : IF status[r] \in Cancelled THEN Outstanding(r) = 0
                                                           ELSE credited[r] = 0

\* NothingOverspent, of receivables and advances that do not exist yet as well.
Solvent ==
    /\ \A r \in Receivables : Outstanding(r) >= 0
    /\ \A p \in Payments : Unapplied(p) >= 0
    /\ \A a \in 1..Len(advances) : Available(a) >= 0

\* BooksAgree, with sums over sets that do not change.
Books ==
    /\ Debt = outstanding /\ Credit = advanceBalance
    /\ gl["AR"] = outstanding /\ gl["CUSTOMER_ADVANCES"] = advanceBalance
    /\ gl["UNAPPLIED_RECEIPTS"] = SumUnappliedReceipts
    /\ ReceivableEffect = outstanding /\ AdvanceEffect = advanceBalance

\* What credit notes turned into advances that come from payment p ...
Released(p, a) ==
    IF a \in DOMAIN advances /\ advances[a].source = "CREDIT_NOTE" /\ advances[a].payment = p
    THEN advances[a].amount ELSE 0
\* ... and what of payment p covers r, itself or by an advance that comes from it.
CoverVia(p, r, a) ==
    IF a \in DOMAIN advances /\ advances[a].payment = p THEN applied[r][a] ELSE 0
CoverFrom(p, r)  == paid[r][p] + Sum([a \in Advances |-> CoverVia(p, r, a)])
Undone(p, r)     == IF status[r] \in Cancelled THEN CoverFrom(p, r) ELSE 0

\* Credit notes gave back what covered the cancelled invoices, payment by payment.
Traced == \A p \in Payments : Sum([a \in Advances |-> Released(p, a)])
                            = Sum([r \in Receivables |-> Undone(p, r)])

Inv == TypeOK /\ Links /\ Closed /\ Solvent /\ Books /\ Traced


-----------------------------------------------------------------------------
(* The figures of a state.                                                 *)

\* The sets that sums range over are finite.
LEMMA BaseSets ==
    /\ IsFiniteSet(Receivables) /\ IsFiniteSet(Payments) /\ IsFiniteSet(RefundKeys)
    /\ IsFiniteSet(Advances)
<1>1. IsFiniteSet(1..MaxAdvances)
    BY ReceivablesAssumption, FS_Interval, 1 \in Int, MaxAdvances \in Int
<1> QED
    BY <1>1, ReceivablesAssumption DEF Advances

\* What pending attempts hold of an advance, added up over all keys.
HoldOf(t, k, a) ==
    IF t[k] # None /\ t[k].advance = a /\ t[k].state = "PENDING" THEN t[k].amount ELSE 0
HoldingOf(t, a) ==
    [k \in {x \in RefundKeys : t[x] # None /\ t[x].advance = a /\ t[x].state = "PENDING"}
        |-> t[k].amount]

LEMMA ReservedIs ==
    ASSUME NEW t \in [RefundKeys -> RefundAttempt \cup {None}], NEW a
    PROVE  /\ [k \in RefundKeys |-> HoldOf(t, k, a)] \in [RefundKeys -> Nat]
           /\ Sum(HoldingOf(t, a)) = Sum([k \in RefundKeys |-> HoldOf(t, k, a)])
           /\ Sum(HoldingOf(t, a)) \in Nat
<1> DEFINE T == {x \in RefundKeys : t[x] # None /\ t[x].advance = a /\ t[x].state = "PENDING"}
           f == HoldingOf(t, a)
           g == [k \in RefundKeys |-> HoldOf(t, k, a)]
<1>1. \A k \in RefundKeys : t[k] # None => t[k].amount \in Nat
    BY DEF RefundAttempt
<1>2. f \in [T -> Int]
    BY <1>1 DEF HoldingOf
<1>3. g \in [RefundKeys -> Nat]
    BY <1>1 DEF HoldOf
<1>4. \A x \in RefundKeys : g[x] = IF x \in T THEN f[x] ELSE 0
    BY DEF HoldOf, HoldingOf
<1>5. T \subseteq RefundKeys /\ g \in [RefundKeys -> Int]
    BY <1>3
<1> HIDE DEF T, f, g
<1>6. Sum(g) = Sum(f)
    BY <1>2, <1>4, <1>5, BaseSets, TotalOver
<1>7. Sum(g) \in Nat
    BY <1>3, BaseSets, TotalNat
<1> QED
    BY <1>3, <1>6, <1>7 DEF f, g

\* What was converted of a payment, added up over all advances.
Converts(v, a, p) == a \in 1..Len(v) /\ v[a].source = "PAYMENT" /\ v[a].payment = p
ConvertOf(v, a, p) == IF Converts(v, a, p) THEN v[a].amount ELSE 0
ConvertedOf(v, p) == [a \in {x \in 1..Len(v) : v[x].source = "PAYMENT" /\ v[x].payment = p}
                         |-> v[a].amount]

LEMMA OverAdvances ==
    ASSUME NEW T, T \subseteq Advances, NEW f, f \in [T -> Int], NEW g, g \in [Advances -> Nat],
           \A x \in Advances : g[x] = IF x \in T THEN f[x] ELSE 0
    PROVE  Sum(g) = Sum(f) /\ Sum(f) \in Nat
<1>1. g \in [Advances -> Int]
    OBVIOUS
<1>2. Sum(g) = Sum(f)
    BY <1>1, BaseSets, TotalOver
<1>3. Sum(g) \in Nat
    BY BaseSets, TotalNat
<1> QED
    BY <1>2, <1>3

LEMMA ConvertedIs ==
    ASSUME NEW v, Len(v) \in Nat, Len(v) <= MaxAdvances, \A a \in 1..Len(v) : v[a] \in AdvanceRow,
           NEW p
    PROVE  /\ [a \in Advances |-> ConvertOf(v, a, p)] \in [Advances -> Nat]
           /\ Sum(ConvertedOf(v, p)) = Sum([a \in Advances |-> ConvertOf(v, a, p)])
           /\ Sum(ConvertedOf(v, p)) \in Nat
<1>1. Len(v) \in Nat /\ \A a \in 1..Len(v) : a \in Advances /\ v[a] \in AdvanceRow
    BY ReceivablesAssumption DEF Advances
<1>2. \A a \in 1..Len(v) : v[a].amount \in Nat
    BY <1>1 DEF AdvanceRow
<1>3. PICK T : T = {x \in 1..Len(v) : v[x].source = "PAYMENT" /\ v[x].payment = p}
    OBVIOUS
<1>4. PICK f : f = ConvertedOf(v, p)
    OBVIOUS
<1>5. PICK g : g = [a \in Advances |-> ConvertOf(v, a, p)]
    OBVIOUS
<1>6. T \subseteq Advances /\ f \in [T -> Int] /\ g \in [Advances -> Nat]
    BY <1>1, <1>2, <1>3, <1>4, <1>5 DEF ConvertedOf, ConvertOf, Converts
<1>7. \A x \in Advances : g[x] = IF x \in T THEN f[x] ELSE 0
    BY <1>3, <1>4, <1>5 DEF ConvertOf, Converts, ConvertedOf
<1>8. T \subseteq Advances /\ f \in [T -> Int]
    BY <1>6
<1>9. Sum(g) = Sum(f) /\ Sum(f) \in Nat
    BY <1>6, <1>7, <1>8, OverAdvances
<1> QED
    BY <1>4, <1>5, <1>6, <1>9

\* Rows and columns of a table.
LEMMA RowAndColumn ==
    ASSUME NEW C, IsFiniteSet(C), NEW t \in [Receivables -> [C -> Nat]]
    PROVE  /\ \A r \in Receivables : t[r] \in [C -> Nat] /\ t[r] \in [C -> Int] /\ Sum(t[r]) \in Nat
           /\ \A c \in C : /\ [r \in Receivables |-> t[r][c]] \in [Receivables -> Nat]
                           /\ Sum([r \in Receivables |-> t[r][c]]) \in Nat
<1>1. ASSUME NEW r \in Receivables
      PROVE  t[r] \in [C -> Nat] /\ t[r] \in [C -> Int] /\ Sum(t[r]) \in Nat
    <2>1. t[r] \in [C -> Nat]
        OBVIOUS
    <2>2. t[r] \in [C -> Int]
        BY <2>1
    <2>3. Sum(t[r]) \in Nat
        BY <2>1, TotalNat
    <2> QED
        BY <2>1, <2>2, <2>3
<1>2. ASSUME NEW c \in C
      PROVE  /\ [r \in Receivables |-> t[r][c]] \in [Receivables -> Nat]
             /\ Sum([r \in Receivables |-> t[r][c]]) \in Nat
    <2>1. [r \in Receivables |-> t[r][c]] \in [Receivables -> Nat]
        OBVIOUS
    <2> QED
        BY <2>1, BaseSets, TotalNat
<1> QED
    BY <1>1, <1>2

\* Every figure is a number.
LEMMA Figures ==
    ASSUME TypeOK
    PROVE  /\ \A r \in Receivables :
                /\ paid[r] \in [Payments -> Nat] /\ applied[r] \in [Advances -> Nat]
                /\ Sum(paid[r]) \in Nat /\ Sum(applied[r]) \in Nat
                /\ Covered(r) \in Nat /\ Outstanding(r) \in Int
           /\ \A a \in Advances : Drawn(a) \in Nat /\ Reserved(a) \in Nat
           /\ \A a \in 1..Len(advances) :
                /\ a \in Advances /\ advances[a] \in AdvanceRow /\ advances[a].amount \in Nat \ {0}
                /\ Booked(a) \in Int /\ Available(a) \in Int
           /\ \A p \in Payments :
                /\ Sum([r \in Receivables |-> paid[r][p]]) \in Nat
                /\ Sum(ConvertedOf(advances, p)) \in Nat
                /\ Unapplied(p) = received[p] - Sum([r \in Receivables |-> paid[r][p]])
                                              - Sum(ConvertedOf(advances, p))
                /\ Unapplied(p) \in Int
           /\ Len(advances) \in Nat /\ Len(advances) <= MaxAdvances /\ MaxAdvances \in Nat
           /\ DOMAIN advances = 1..Len(advances)
<1>1. \A r \in Receivables : /\ paid[r] \in [Payments -> Nat] /\ applied[r] \in [Advances -> Nat]
                             /\ Sum(paid[r]) \in Nat /\ Sum(applied[r]) \in Nat
                             /\ credited[r] \in Nat /\ AmountOf[r] \in Nat
    <2>1. paid \in [Receivables -> [Payments -> Nat]] /\ applied \in [Receivables -> [Advances -> Nat]]
        BY DEF TypeOK
    <2>2. \A r \in Receivables : paid[r] \in [Payments -> Nat] /\ Sum(paid[r]) \in Nat
        BY <2>1, BaseSets, RowAndColumn
    <2>3. \A r \in Receivables : applied[r] \in [Advances -> Nat] /\ Sum(applied[r]) \in Nat
        BY <2>1, BaseSets, RowAndColumn
    <2> QED
        BY <2>2, <2>3, ReceivablesAssumption DEF TypeOK
<1>2. \A r \in Receivables : Covered(r) \in Nat /\ Outstanding(r) \in Int
    BY <1>1 DEF Covered, Outstanding
<1>3. \A a \in Advances : Drawn(a) \in Nat
    <2>1. applied \in [Receivables -> [Advances -> Nat]]
        BY DEF TypeOK
    <2>2. \A a \in Advances : Sum([r \in Receivables |-> applied[r][a]]) \in Nat
        BY <2>1, BaseSets, RowAndColumn
    <2> QED
        BY <2>2 DEF Drawn
<1>4. \A a \in Advances : Reserved(a) \in Nat
    <2>1. attempts \in [RefundKeys -> RefundAttempt \cup {None}]
        BY DEF TypeOK
    <2>2. \A a \in Advances : Sum(HoldingOf(attempts, a)) \in Nat
        BY <2>1, ReservedIs
    <2>3. \A a \in Advances : Reserved(a) = Sum(HoldingOf(attempts, a))
        BY DEF Reserved, Pending, HoldingOf
    <2> QED
        BY <2>2, <2>3
<1>5. /\ Len(advances) \in Nat /\ Len(advances) <= MaxAdvances /\ MaxAdvances \in Nat
      /\ DOMAIN advances = 1..Len(advances)
    BY ReceivablesAssumption DEF TypeOK
<1>6. \A a \in 1..Len(advances) :
        /\ a \in Advances /\ advances[a] \in AdvanceRow /\ advances[a].amount \in Nat \ {0}
        /\ refunded[a] \in Nat
    <2>1. \A a \in 1..Len(advances) : a \in Advances /\ advances[a] \in AdvanceRow
        BY <1>5 DEF TypeOK, Advances
    <2> QED
        BY <2>1 DEF TypeOK, AdvanceRow
<1>7. ASSUME NEW a \in 1..Len(advances) PROVE Booked(a) \in Int /\ Available(a) \in Int
    <2>1. Drawn(a) \in Nat /\ Reserved(a) \in Nat /\ advances[a].amount \in Nat /\ refunded[a] \in Nat
        BY <1>3, <1>4, <1>6
    <2> HIDE DEF Drawn
    <2>2. Booked(a) \in Int
        BY <2>1 DEF Booked
    <2> QED
        BY <2>1, <2>2 DEF Available
<1>8. \A p \in Payments : Sum([r \in Receivables |-> paid[r][p]]) \in Nat
    <2>1. paid \in [Receivables -> [Payments -> Nat]]
        BY DEF TypeOK
    <2> QED
        BY <2>1, BaseSets, RowAndColumn
<1>9. \A p \in Payments : Sum(ConvertedOf(advances, p)) \in Nat
    BY <1>5, <1>6, ConvertedIs
<1>10. \A p \in Payments :
           Unapplied(p) = received[p] - Sum([r \in Receivables |-> paid[r][p]])
                                      - Sum(ConvertedOf(advances, p))
    BY <1>5 DEF Unapplied, Converted, ConvertedOf
<1>11. ASSUME NEW p \in Payments PROVE Unapplied(p) \in Int
    <2>1. /\ received[p] \in Nat /\ Sum(ConvertedOf(advances, p)) \in Nat
          /\ Sum([r \in Receivables |-> paid[r][p]]) \in Nat
        BY <1>8, <1>9 DEF TypeOK
    <2> QED
        BY <1>10, <2>1
<1> QED
    BY <1>1, <1>2, <1>3, <1>4, <1>5, <1>6, <1>7, <1>8, <1>9, <1>10, <1>11


LEMMA MoreFigures ==
    ASSUME TypeOK
    PROVE  /\ \A r \in Receivables : Owing(r) \in Int
           /\ \A a \in Advances : Held(a) \in Int
<1>1. \A r \in Receivables : Owing(r) \in Int
    BY Figures DEF Owing
<1>2. \A a \in Advances : Held(a) \in Int
    BY Figures DEF Held
<1> QED
    BY <1>1, <1>2

-----------------------------------------------------------------------------
(* The invariant holds at first.                                           *)

LEMMA InitFigures ==
    ASSUME Init
    PROVE  /\ \A r \in Receivables : Outstanding(r) = AmountOf[r] /\ Owing(r) = 0
           /\ \A a \in Advances : Held(a) = 0
           /\ \A p \in Payments : Unapplied(p) = 0
           /\ 1..Len(advances) = {} /\ DOMAIN advances = {} /\ Opened = {} /\ Len(opened) = 0
<1>1. /\ 1..Len(advances) = {} /\ DOMAIN advances = {} /\ Opened = {} /\ Len(opened) = 0
    BY DEF Init, Opened, Range
<1>2. \A r \in Receivables : Outstanding(r) = AmountOf[r] /\ Owing(r) = 0
    <2>1. SUFFICES ASSUME NEW r \in Receivables PROVE Outstanding(r) = AmountOf[r] /\ Owing(r) = 0
        OBVIOUS
    <2>2. /\ paid[r] \in [Payments -> Int] /\ \A p \in Payments : paid[r][p] = 0
          /\ applied[r] \in [Advances -> Int] /\ \A a \in Advances : applied[r][a] = 0
          /\ credited[r] = 0 /\ AmountOf[r] \in Nat
        BY ReceivablesAssumption DEF Init
    <2>3. Sum(paid[r]) = 0 /\ Sum(applied[r]) = 0
        BY <2>2, BaseSets, TotalZero
    <2> QED
        BY <1>1, <2>2, <2>3 DEF Covered, Outstanding, Owing
<1>3. \A a \in Advances : Held(a) = 0
    BY <1>1 DEF Held
<1>4. \A p \in Payments : Unapplied(p) = 0
    <2>1. SUFFICES ASSUME NEW p \in Payments PROVE Unapplied(p) = 0
        OBVIOUS
    <2>2. PICK F : F = [r \in Receivables |-> paid[r][p]]
        OBVIOUS
    <2>3. F \in [Receivables -> Int] /\ \A r \in Receivables : F[r] = 0
        BY <2>2 DEF Init
    <2>4. PICK G : G = [a \in Converted(p) |-> advances[a].amount]
        OBVIOUS
    <2>5. Converted(p) = {}
        BY <1>1 DEF Converted
    <2>6. G \in [{} -> Int] /\ IsFiniteSet({}) /\ \A x \in {} : G[x] = 0
        BY <2>4, <2>5, FS_EmptySet
    <2>7. Sum(F) = 0
        BY <2>3, BaseSets, TotalZero
    <2>8. Sum(G) = 0
        BY <2>6, TotalZero
    <2>9. received[p] = 0
        BY DEF Init
    <2> QED
        BY <2>2, <2>4, <2>7, <2>8, <2>9 DEF Unapplied
<1> QED
    BY <1>1, <1>2, <1>3, <1>4

LEMMA InvInit == Init => Inv
<1> SUFFICES ASSUME Init PROVE Inv
    OBVIOUS
<1>1. TypeOK
    <2>1. opened = <<>> /\ advances = <<>> /\ Len(advances) = 0
        BY DEF Init
    <2>2. <<>> \in Seq(Receivables) /\ <<>> \in Seq(AdvanceRow)
        OBVIOUS
    <2>3. 0 <= MaxAdvances
        BY ReceivablesAssumption
    <2> QED
        BY <2>1, <2>2, <2>3 DEF Init, TypeOK, Statuses
<1>2. Links
    <2>1. \A r \in Receivables : status[r] = "UNPAID" /\ credited[r] = 0
        BY DEF Init
    <2>2. \A r \in Receivables : \A p \in Payments : paid[r][p] = 0
        BY DEF Init
    <2>3. \A r \in Receivables : \A a \in Advances : applied[r][a] = 0
        BY DEF Init
    <2>4. \A a \in Advances : refunded[a] = 0
        BY DEF Init
    <2>5. \A k \in RefundKeys : attempts[k] = None
        BY DEF Init
    <2>6. 1..Len(opened) = {} /\ found = None
        BY InitFigures DEF Init
    <2> QED
        BY InitFigures, <2>1, <2>2, <2>3, <2>4, <2>5, <2>6 DEF Links
<1>3. Closed
    BY DEF Init, Closed, Cancelled
<1>4. Solvent
    <2>1. \A r \in Receivables : AmountOf[r] \in Nat
        BY ReceivablesAssumption
    <2> QED
        BY InitFigures, <2>1 DEF Solvent
<1>5. Books
    <2>1. Debt = 0
        <3>1. PICK F : F = [r \in Receivables |-> Owing(r)]
            OBVIOUS
        <3>2. F \in [Receivables -> Int] /\ \A r \in Receivables : F[r] = 0
            BY <3>1, InitFigures
        <3> QED
            BY <3>1, <3>2, BaseSets, TotalZero DEF Debt
    <2>2. Credit = 0
        <3>1. PICK F : F = [a \in Advances |-> Held(a)]
            OBVIOUS
        <3>2. F \in [Advances -> Int] /\ \A a \in Advances : F[a] = 0
            BY <3>1, InitFigures
        <3>3. Sum(F) = 0
            BY <3>2, BaseSets, TotalZero
        <3> QED
            BY <3>1, <3>3 DEF Credit
    <2>3. SumUnappliedReceipts = 0
        <3>1. PICK F : F = [p \in Payments |-> Unapplied(p)]
            OBVIOUS
        <3>2. F \in [Payments -> Int] /\ \A p \in Payments : F[p] = 0
            BY <3>1, InitFigures
        <3> QED
            BY <3>1, <3>2, BaseSets, TotalZero DEF SumUnappliedReceipts
    <2>4. /\ outstanding = 0 /\ advanceBalance = 0
          /\ gl["AR"] = 0 /\ gl["CUSTOMER_ADVANCES"] = 0 /\ gl["UNAPPLIED_RECEIPTS"] = 0
        BY DEF Init, Accounts
    <2>5. ReceivableEffect = 0 /\ AdvanceEffect = 0
        BY DEF Init, EntryKinds, ReceivableEffect, AdvanceEffect
    <2> QED
        BY <2>1, <2>2, <2>3, <2>4, <2>5 DEF Books
<1>6. Traced
    <2>1. SUFFICES ASSUME NEW p \in Payments
                   PROVE  Sum([a \in Advances |-> Released(p, a)])
                            = Sum([r \in Receivables |-> Undone(p, r)])
        BY DEF Traced
    <2>2. PICK F : F = [a \in Advances |-> Released(p, a)]
        OBVIOUS
    <2>3. PICK G : G = [r \in Receivables |-> Undone(p, r)]
        OBVIOUS
    <2>4. F \in [Advances -> Int] /\ \A a \in Advances : F[a] = 0
        BY <2>2, InitFigures DEF Released
    <2>5. G \in [Receivables -> Int] /\ \A r \in Receivables : G[r] = 0
        BY <2>3 DEF Init, Undone, Cancelled
    <2>6. Sum(F) = 0
        BY <2>4, BaseSets, TotalZero
    <2>7. Sum(G) = 0
        BY <2>5, BaseSets, TotalZero
    <2> QED
        BY <2>2, <2>3, <2>6, <2>7
<1> QED
    BY <1>1, <1>2, <1>3, <1>4, <1>5, <1>6 DEF Inv


-----------------------------------------------------------------------------
(* Entries and journals.                                                   *)

LEMMA Posted ==
    ASSUME TypeOK, NEW x \in Int, NEW y \in Int, NEW z \in Int, Post(x, y, z)
    PROVE  /\ gl' \in [Accounts -> Int]
           /\ gl'["AR"] = gl["AR"] + x
           /\ gl'["UNAPPLIED_RECEIPTS"] = gl["UNAPPLIED_RECEIPTS"] + y
           /\ gl'["CUSTOMER_ADVANCES"] = gl["CUSTOMER_ADVANCES"] + z
<1>1. gl \in [Accounts -> Int]
    BY DEF TypeOK
<1> QED
    BY <1>1 DEF Post, Accounts

LEMMA Entered ==
    ASSUME TypeOK, NEW kinds, \A k \in DOMAIN kinds : kinds[k] \in Nat, Enter(kinds)
    PROVE  /\ entries' \in [EntryKinds -> Nat]
           /\ \A k \in EntryKinds : entries[k] \in Nat /\ entries'[k] \in Nat
           /\ \A k \in EntryKinds \ DOMAIN kinds : entries'[k] = entries[k]
           /\ \A k \in EntryKinds \cap DOMAIN kinds : entries'[k] = entries[k] + kinds[k]
<1>1. \A k \in EntryKinds : entries[k] \in Nat
    BY DEF TypeOK
<1>2. \A k \in EntryKinds : (entries[k] + IF k \in DOMAIN kinds THEN kinds[k] ELSE 0) \in Nat
    BY <1>1
<1>3. entries' = [k \in EntryKinds |-> entries[k] + IF k \in DOMAIN kinds THEN kinds[k] ELSE 0]
    BY DEF Enter
<1>4. entries' \in [EntryKinds -> Nat]
    BY <1>2, <1>3
<1>5. \A k \in EntryKinds : entries'[k] \in Nat
    BY <1>4
<1>6. \A k \in EntryKinds \ DOMAIN kinds : entries'[k] = entries[k]
    BY <1>1, <1>3
<1>7. \A k \in EntryKinds \cap DOMAIN kinds : entries'[k] = entries[k] + kinds[k]
    BY <1>3
<1> QED
    BY <1>1, <1>4, <1>5, <1>6, <1>7

\* Each operation's lines and their effects on the summary.
Effects(x, y) ==
    /\ entries' \in [EntryKinds -> Nat]
    /\ ReceivableEffect \in Int /\ ReceivableEffect' = ReceivableEffect + x
    /\ AdvanceEffect \in Int /\ AdvanceEffect' = AdvanceEffect + y

LEMMA EffectOfBill ==
    ASSUME TypeOK, NEW x \in Nat,
           NEW kind \in {"INVOICE", "OPENING_RECEIVABLE", "CANCELLATION_CHARGE"},
           Enter([k \in {kind} |-> x])
    PROVE  Effects(x, 0)
<1> DEFINE kinds == [k \in {kind} |-> x]
<1>1. DOMAIN kinds = {kind} /\ kinds[kind] = x /\ \A k \in DOMAIN kinds : kinds[k] \in Nat
    OBVIOUS
<1> HIDE DEF kinds
<1>2. Enter(kinds)
    BY DEF kinds
<1>3. /\ entries' \in [EntryKinds -> Nat]
      /\ \A k \in EntryKinds : entries[k] \in Nat /\ entries'[k] \in Nat
      /\ \A k \in EntryKinds : entries'[k] = IF k = kind THEN entries[k] + x ELSE entries[k]
    BY <1>1, <1>2, Entered DEF EntryKinds
<1> QED
    BY <1>3 DEF Effects, EntryKinds, ReceivableEffect, AdvanceEffect

LEMMA EffectOfOpeningAdvance ==
    ASSUME TypeOK, NEW x \in Nat, Enter([OPENING_ADVANCE |-> x])
    PROVE  Effects(0, x)
<1> DEFINE kinds == [OPENING_ADVANCE |-> x]
<1>1. /\ DOMAIN kinds = {"OPENING_ADVANCE"} /\ kinds["OPENING_ADVANCE"] = x
      /\ \A k \in DOMAIN kinds : kinds[k] \in Nat
    OBVIOUS
<1> HIDE DEF kinds
<1>2. Enter(kinds)
    BY DEF kinds
<1>3. /\ entries' \in [EntryKinds -> Nat]
      /\ \A k \in EntryKinds : entries[k] \in Nat /\ entries'[k] \in Nat
      /\ \A k \in EntryKinds :
            entries'[k] = IF k = "OPENING_ADVANCE" THEN entries[k] + x ELSE entries[k]
    BY <1>1, <1>2, Entered DEF EntryKinds
<1> QED
    BY <1>3 DEF Effects, EntryKinds, ReceivableEffect, AdvanceEffect

LEMMA EffectOfConversion ==
    ASSUME TypeOK, NEW x \in Nat, Enter([ADVANCE |-> x])
    PROVE  Effects(0, x)
<1> DEFINE kinds == [ADVANCE |-> x]
<1>1. /\ DOMAIN kinds = {"ADVANCE"} /\ kinds["ADVANCE"] = x
      /\ \A k \in DOMAIN kinds : kinds[k] \in Nat
    OBVIOUS
<1> HIDE DEF kinds
<1>2. Enter(kinds)
    BY DEF kinds
<1>3. /\ entries' \in [EntryKinds -> Nat]
      /\ \A k \in EntryKinds : entries[k] \in Nat /\ entries'[k] \in Nat
      /\ \A k \in EntryKinds :
            entries'[k] = IF k = "ADVANCE" THEN entries[k] + x ELSE entries[k]
    BY <1>1, <1>2, Entered DEF EntryKinds
<1> QED
    BY <1>3 DEF Effects, EntryKinds, ReceivableEffect, AdvanceEffect

LEMMA EffectOfApplication ==
    ASSUME TypeOK, NEW x \in Nat, Enter([ADVANCE_APPLIED |-> x])
    PROVE  Effects(-x, -x)
<1> DEFINE kinds == [ADVANCE_APPLIED |-> x]
<1>1. /\ DOMAIN kinds = {"ADVANCE_APPLIED"} /\ kinds["ADVANCE_APPLIED"] = x
      /\ \A k \in DOMAIN kinds : kinds[k] \in Nat
    OBVIOUS
<1> HIDE DEF kinds
<1>2. Enter(kinds)
    BY DEF kinds
<1>3. /\ entries' \in [EntryKinds -> Nat]
      /\ \A k \in EntryKinds : entries[k] \in Nat /\ entries'[k] \in Nat
      /\ \A k \in EntryKinds :
            entries'[k] = IF k = "ADVANCE_APPLIED" THEN entries[k] + x ELSE entries[k]
    BY <1>1, <1>2, Entered DEF EntryKinds
<1> QED
    BY <1>3 DEF Effects, EntryKinds, ReceivableEffect, AdvanceEffect

LEMMA EffectOfRefund ==
    ASSUME TypeOK, NEW x \in Nat, Enter([REFUND |-> x])
    PROVE  Effects(0, -x)
<1> DEFINE kinds == [REFUND |-> x]
<1>1. /\ DOMAIN kinds = {"REFUND"} /\ kinds["REFUND"] = x
      /\ \A k \in DOMAIN kinds : kinds[k] \in Nat
    OBVIOUS
<1> HIDE DEF kinds
<1>2. Enter(kinds)
    BY DEF kinds
<1>3. /\ entries' \in [EntryKinds -> Nat]
      /\ \A k \in EntryKinds : entries[k] \in Nat /\ entries'[k] \in Nat
      /\ \A k \in EntryKinds :
            entries'[k] = IF k = "REFUND" THEN entries[k] + x ELSE entries[k]
    BY <1>1, <1>2, Entered DEF EntryKinds
<1> QED
    BY <1>3 DEF Effects, EntryKinds, ReceivableEffect, AdvanceEffect

LEMMA EffectOfCancellation ==
    ASSUME TypeOK, NEW x \in Nat, NEW y \in Nat, NEW z \in Nat,
           Enter([CREDIT_NOTE |-> x, ADVANCE |-> y, CANCELLATION_CHARGE |-> z])
    PROVE  Effects(z - x, y)
<1> DEFINE kinds == [CREDIT_NOTE |-> x, ADVANCE |-> y, CANCELLATION_CHARGE |-> z]
<1>1. /\ DOMAIN kinds = {"CREDIT_NOTE", "ADVANCE", "CANCELLATION_CHARGE"}
      /\ kinds["CREDIT_NOTE"] = x /\ kinds["ADVANCE"] = y /\ kinds["CANCELLATION_CHARGE"] = z
      /\ \A k \in DOMAIN kinds : kinds[k] \in Nat
    OBVIOUS
<1> HIDE DEF kinds
<1>2. Enter(kinds)
    BY DEF kinds
<1>3. /\ entries' \in [EntryKinds -> Nat]
      /\ \A k \in EntryKinds : entries[k] \in Nat /\ entries'[k] \in Nat
    BY <1>1, <1>2, Entered
<1>4. \A k \in EntryKinds : entries'[k] = CASE k = "CREDIT_NOTE" -> entries[k] + x
                                            [] k = "ADVANCE" -> entries[k] + y
                                            [] k = "CANCELLATION_CHARGE" -> entries[k] + z
                                            [] OTHER -> entries[k]
    <2>1. /\ \A k \in EntryKinds \ DOMAIN kinds : entries'[k] = entries[k]
          /\ \A k \in EntryKinds \cap DOMAIN kinds : entries'[k] = entries[k] + kinds[k]
        BY <1>1, <1>2, Entered
    <2> QED
        BY <1>1, <2>1
<1> QED
    BY <1>3, <1>4 DEF Effects, EntryKinds, ReceivableEffect, AdvanceEffect

LEMMA EffectOfPayment ==
    ASSUME TypeOK, NEW w \in Nat, NEW x \in Nat, NEW y \in Nat, NEW z \in Nat,
           Enter([PAYMENT |-> w, PAYMENT_ALLOCATION |-> x, OPENING_RECEIVABLE_PAYMENT_APPLIED |-> y,
                  CANCELLATION_CHARGE_PAYMENT_APPLIED |-> z])
    PROVE  Effects(-(x + y + z), 0)
<1> DEFINE kinds == [PAYMENT |-> w, PAYMENT_ALLOCATION |-> x,
                     OPENING_RECEIVABLE_PAYMENT_APPLIED |-> y,
                     CANCELLATION_CHARGE_PAYMENT_APPLIED |-> z]
<1>1. /\ DOMAIN kinds = {"PAYMENT", "PAYMENT_ALLOCATION", "OPENING_RECEIVABLE_PAYMENT_APPLIED",
                         "CANCELLATION_CHARGE_PAYMENT_APPLIED"}
      /\ kinds["PAYMENT"] = w /\ kinds["PAYMENT_ALLOCATION"] = x
      /\ kinds["OPENING_RECEIVABLE_PAYMENT_APPLIED"] = y
      /\ kinds["CANCELLATION_CHARGE_PAYMENT_APPLIED"] = z
      /\ \A k \in DOMAIN kinds : kinds[k] \in Nat
    OBVIOUS
<1> HIDE DEF kinds
<1>2. Enter(kinds)
    BY DEF kinds
<1>3. /\ entries' \in [EntryKinds -> Nat]
      /\ \A k \in EntryKinds : entries[k] \in Nat /\ entries'[k] \in Nat
    BY <1>1, <1>2, Entered
<1>4. \A k \in EntryKinds : entries'[k] =
          CASE k = "PAYMENT" -> entries[k] + w
            [] k = "PAYMENT_ALLOCATION" -> entries[k] + x
            [] k = "OPENING_RECEIVABLE_PAYMENT_APPLIED" -> entries[k] + y
            [] k = "CANCELLATION_CHARGE_PAYMENT_APPLIED" -> entries[k] + z
            [] OTHER -> entries[k]
    BY <1>1, <1>2, Entered DEF EntryKinds
<1> QED
    BY <1>3, <1>4 DEF Effects, EntryKinds, ReceivableEffect, AdvanceEffect


-----------------------------------------------------------------------------
(* What keeps the sums of the invariant.                                   *)

\* The figures and the records move by the same amounts.
LEMMA BooksMove ==
    ASSUME TypeOK, Books, NEW o \in [Receivables -> Int], NEW h \in [Advances -> Int],
           NEW u \in [Payments -> Int],
           \A r \in Receivables : Owing(r)' = Owing(r) + o[r],
           \A a \in Advances : Held(a)' = Held(a) + h[a],
           \A p \in Payments : Unapplied(p)' = Unapplied(p) + u[p],
           outstanding' = outstanding + Sum(o), advanceBalance' = advanceBalance + Sum(h),
           Post(Sum(o), Sum(u), Sum(h)), Effects(Sum(o), Sum(h))
    PROVE  Books'
<1>1. PICK O : O = [r \in Receivables |-> Owing(r)]
    OBVIOUS
<1>2. PICK O2 : O2 = [r \in Receivables |-> Owing(r)']
    OBVIOUS
<1>3. PICK H : H = [a \in Advances |-> Held(a)]
    OBVIOUS
<1>4. PICK H2 : H2 = [a \in Advances |-> Held(a)']
    OBVIOUS
<1>5. PICK U : U = [p \in Payments |-> Unapplied(p)]
    OBVIOUS
<1>6. PICK U2 : U2 = [p \in Payments |-> Unapplied(p)']
    OBVIOUS
<1>7. Sum(o) \in Int /\ Sum(h) \in Int /\ Sum(u) \in Int
    BY BaseSets, TotalInt
<1>8. \A r \in Receivables : Owing(r) \in Int
    BY Figures DEF Owing
<1>9. O \in [Receivables -> Int] /\ O2 \in [Receivables -> Int]
      /\ \A r \in Receivables : O2[r] = O[r] + o[r]
    BY <1>1, <1>2, <1>8
<1>10. Sum(O2) = Sum(O) + Sum(o)
    BY <1>9, BaseSets, TotalPlus
<1>11. \A a \in Advances : Held(a) \in Int
    BY Figures DEF Held
<1>12. H \in [Advances -> Int] /\ H2 \in [Advances -> Int]
       /\ \A a \in Advances : H2[a] = H[a] + h[a]
    BY <1>3, <1>4, <1>11
<1>13. Sum(H2) = Sum(H) + Sum(h)
    BY <1>12, BaseSets, TotalPlus
<1>14. \A p \in Payments : Unapplied(p) \in Int
    BY Figures
<1>15. U \in [Payments -> Int] /\ U2 \in [Payments -> Int]
       /\ \A p \in Payments : U2[p] = U[p] + u[p]
    BY <1>5, <1>6, <1>14
<1>16. Sum(U2) = Sum(U) + Sum(u)
    BY <1>15, BaseSets, TotalPlus
<1>17. Debt = Sum(O) /\ Debt' = Sum(O2)
    BY <1>1, <1>2 DEF Debt
<1>18. Credit = Sum(H) /\ Credit' = Sum(H2)
    BY <1>3, <1>4 DEF Credit
<1>19. SumUnappliedReceipts = Sum(U) /\ SumUnappliedReceipts' = Sum(U2)
    BY <1>5, <1>6 DEF SumUnappliedReceipts
<1>20. /\ gl'["AR"] = gl["AR"] + Sum(o)
       /\ gl'["UNAPPLIED_RECEIPTS"] = gl["UNAPPLIED_RECEIPTS"] + Sum(u)
       /\ gl'["CUSTOMER_ADVANCES"] = gl["CUSTOMER_ADVANCES"] + Sum(h)
    BY <1>7, Posted
<1>21. Debt' = outstanding' /\ Credit' = advanceBalance'
    BY <1>10, <1>13, <1>17, <1>18 DEF Books
<1>22. gl'["AR"] = outstanding' /\ gl'["CUSTOMER_ADVANCES"] = advanceBalance'
    BY <1>20 DEF Books
<1>23. gl'["UNAPPLIED_RECEIPTS"] = SumUnappliedReceipts'
    BY <1>16, <1>19, <1>20 DEF Books
<1>24. ReceivableEffect' = outstanding' /\ AdvanceEffect' = advanceBalance'
    BY DEF Books, Effects
<1> QED
    BY <1>21, <1>22, <1>23, <1>24 DEF Books

\* Nothing of the books moves.
LEMMA BooksKept ==
    ASSUME Books,
           \A r \in Receivables : Owing(r)' = Owing(r), \A a \in Advances : Held(a)' = Held(a),
           \A p \in Payments : Unapplied(p)' = Unapplied(p),
           UNCHANGED <<outstanding, advanceBalance, entries, gl>>
    PROVE  Books'
<1>1. [r \in Receivables |-> Owing(r)'] = [r \in Receivables |-> Owing(r)]
    OBVIOUS
<1>2. [a \in Advances |-> Held(a)'] = [a \in Advances |-> Held(a)]
    OBVIOUS
<1>3. [p \in Payments |-> Unapplied(p)'] = [p \in Payments |-> Unapplied(p)]
    OBVIOUS
<1>4. Debt' = Debt
    BY <1>1 DEF Debt
<1>5. Credit' = Credit
    BY <1>2 DEF Credit
<1>6. SumUnappliedReceipts' = SumUnappliedReceipts
    BY <1>3 DEF SumUnappliedReceipts
<1>7. ReceivableEffect' = ReceivableEffect /\ AdvanceEffect' = AdvanceEffect
    BY DEF ReceivableEffect, AdvanceEffect
<1> QED
    BY <1>4, <1>5, <1>6, <1>7 DEF Books

\* The cover of cancelled invoices and what was released stays.
LEMMA TracedKept ==
    ASSUME Traced,
           \A r \in Receivables : status'[r] \in Cancelled <=> status[r] \in Cancelled,
           \A r \in Receivables : status[r] \in Cancelled => paid'[r] = paid[r],
           \A r \in Receivables : status[r] \in Cancelled =>
              \A p \in Payments : \A a \in Advances : CoverVia(p, r, a)' = CoverVia(p, r, a),
           \A p \in Payments : \A a \in Advances : Released(p, a)' = Released(p, a)
    PROVE  Traced'
<1>1. SUFFICES ASSUME NEW p \in Payments
               PROVE  Sum([a \in Advances |-> Released(p, a)'])
                        = Sum([r \in Receivables |-> Undone(p, r)'])
    BY DEF Traced
<1>2. [a \in Advances |-> Released(p, a)'] = [a \in Advances |-> Released(p, a)]
    OBVIOUS
<1>3. ASSUME NEW r \in Receivables PROVE Undone(p, r)' = Undone(p, r)
    <2>1. CASE status[r] \in Cancelled
        <3>1. [a \in Advances |-> CoverVia(p, r, a)'] = [a \in Advances |-> CoverVia(p, r, a)]
            BY <2>1
        <3>2. CoverFrom(p, r)' = CoverFrom(p, r)
            BY <2>1, <3>1 DEF CoverFrom
        <3> QED
            BY <2>1, <3>2 DEF Undone
    <2>2. CASE status[r] \notin Cancelled
        BY <2>2 DEF Undone
    <2> QED
        BY <2>1, <2>2
<1>4. [r \in Receivables |-> Undone(p, r)'] = [r \in Receivables |-> Undone(p, r)]
    BY <1>3
<1> QED
    BY <1>2, <1>4 DEF Traced


-----------------------------------------------------------------------------
(* Figures that stay.                                                      *)

LEMMA FactsKept ==
    ASSUME UNCHANGED <<credited, received, paid, advances, applied>>
    PROVE  /\ \A r \in Receivables : Outstanding(r)' = Outstanding(r) /\ Covered(r)' = Covered(r)
           /\ \A a \in Advances : Drawn(a)' = Drawn(a)
           /\ \A p \in Payments : Unapplied(p)' = Unapplied(p)
           /\ \A p \in Payments : \A a \in Advances : Released(p, a)' = Released(p, a)
           /\ \A p \in Payments : \A r \in Receivables : \A a \in Advances :
                 CoverVia(p, r, a)' = CoverVia(p, r, a)
<1>1. \A r \in Receivables : Outstanding(r)' = Outstanding(r) /\ Covered(r)' = Covered(r)
    BY DEF Outstanding, Covered
<1>2. \A a \in Advances : Drawn(a)' = Drawn(a)
    BY DEF Drawn
<1>3. \A p \in Payments : Unapplied(p)' = Unapplied(p)
    BY DEF Unapplied, Converted
<1>4. \A p \in Payments : \A a \in Advances : Released(p, a)' = Released(p, a)
    BY DEF Released
<1>5. \A p \in Payments : \A r \in Receivables : \A a \in Advances :
         CoverVia(p, r, a)' = CoverVia(p, r, a)
    BY DEF CoverVia
<1> QED
    BY <1>1, <1>2, <1>3, <1>4, <1>5

LEMMA AttemptsKept ==
    ASSUME UNCHANGED attempts
    PROVE  \A a \in Advances : Reserved(a)' = Reserved(a)
BY DEF Reserved, Pending

LEMMA HeldKept ==
    ASSUME UNCHANGED <<credited, received, paid, advances, applied, refunded>>
    PROVE  \A a \in Advances : Booked(a)' = Booked(a) /\ Held(a)' = Held(a)
<1>1. \A a \in Advances : Drawn(a)' = Drawn(a)
    BY FactsKept
<1>2. \A a \in Advances : Booked(a)' = Booked(a)
    BY <1>1 DEF Booked
<1> QED
    BY <1>2 DEF Held

-----------------------------------------------------------------------------
(* A receivable is recorded.                                               *)

LEMMA OpenedRange ==
    ASSUME opened \in Seq(Receivables)
    PROVE  Opened = {opened[i] : i \in 1..Len(opened)} /\ Opened \subseteq Receivables
<1>1. DOMAIN opened = 1..Len(opened) /\ \A i \in 1..Len(opened) : opened[i] \in Receivables
    OBVIOUS
<1> QED
    BY <1>1 DEF Opened, Range

\* A receivable joins those that exist, at the end.
LEMMA OpenedGrows ==
    ASSUME TypeOK, Links, NEW r \in Receivables, r \notin Opened, opened' = Append(opened, r),
           found' = found
    PROVE  /\ opened' \in Seq(Receivables) /\ Opened' = Opened \cup {r} /\ Len(opened') = Len(opened) + 1
           /\ \A i, j \in 1..Len(opened') : opened'[i] = opened'[j] => i = j
           /\ found' # None => /\ Len(found') <= Len(opened')
                               /\ \A i \in 1..Len(found') : found'[i] = opened'[i]
<1>1. opened \in Seq(Receivables) /\ Len(opened) \in Nat
    BY DEF TypeOK
<1>2. /\ opened' \in Seq(Receivables) /\ Len(opened') = Len(opened) + 1
      /\ opened'[Len(opened) + 1] = r
      /\ \A i \in 1..Len(opened) : opened'[i] = opened[i]
    BY <1>1
<1>3. \A i \in 1..Len(opened) : opened[i] \in Opened
    BY <1>1, OpenedRange
<1>4. Opened' = {opened'[i] : i \in 1..Len(opened')}
    <2>1. DOMAIN opened' = 1..Len(opened')
        BY <1>2
    <2> QED
        BY <2>1 DEF Opened, Range
<1>5. Opened' = Opened \cup {r}
    <2>1. ASSUME NEW i \in 1..Len(opened') PROVE opened'[i] \in Opened \cup {r}
        BY <1>1, <1>2, <1>3
    <2>2. ASSUME NEW i \in 1..Len(opened) PROVE opened[i] \in {opened'[k] : k \in 1..Len(opened')}
        BY <1>1, <1>2
    <2>3. r \in {opened'[k] : k \in 1..Len(opened')}
        BY <1>1, <1>2
    <2>4. Opened = {opened[i] : i \in 1..Len(opened)}
        BY <1>1, OpenedRange
    <2> QED
        BY <1>4, <2>1, <2>2, <2>3, <2>4
<1>6. \A i, j \in 1..Len(opened') : opened'[i] = opened'[j] => i = j
    <2>1. \A i, j \in 1..Len(opened) : opened[i] = opened[j] => i = j
        BY DEF Links
    <2> QED
        BY <1>1, <1>2, <1>3, <2>1
<1>7. found' # None => /\ Len(found') <= Len(opened')
                       /\ \A i \in 1..Len(found') : found'[i] = opened'[i]
    <2>1. SUFFICES ASSUME found # None
                   PROVE  /\ Len(found) <= Len(opened')
                          /\ \A i \in 1..Len(found) : found[i] = opened'[i]
        OBVIOUS
    <2>2. found \in Seq(Receivables) /\ Len(found) \in Nat
        BY <2>1 DEF TypeOK
    <2>3. Len(found) <= Len(opened) /\ \A i \in 1..Len(found) : found[i] = opened[i]
        BY <2>1 DEF Links
    <2> QED
        BY <1>1, <1>2, <2>2, <2>3
<1> QED
    BY <1>2, <1>5, <1>6, <1>7

LEMMA RecordKeeps ==
    ASSUME Inv, NEW r \in Receivables,
           NEW kind \in {"INVOICE", "OPENING_RECEIVABLE", "CANCELLATION_CHARGE"}, Record(r, kind)
    PROVE  Inv'
<1>1. /\ r \notin Opened /\ opened' = Append(opened, r) /\ outstanding' = outstanding + AmountOf[r]
      /\ Enter([k \in {kind} |-> AmountOf[r]]) /\ Post(AmountOf[r], 0, 0)
      /\ UNCHANGED <<status, credited, received, paid, advances, applied, refunded,
                     attempts, settled, found, advanceBalance>>
    BY DEF Record
<1>2. AmountOf[r] \in Nat \ {0}
    BY ReceivablesAssumption
<1>3. TypeOK /\ Links /\ Closed /\ Solvent /\ Books /\ Traced
    BY DEF Inv
<1>4. Effects(AmountOf[r], 0)
    BY <1>1, <1>2, <1>3, EffectOfBill
<1>5. gl' \in [Accounts -> Int]
    BY <1>1, <1>2, <1>3, Posted
<1>6. /\ opened' \in Seq(Receivables) /\ Opened' = Opened \cup {r}
      /\ \A i, j \in 1..Len(opened') : opened'[i] = opened'[j] => i = j
      /\ found' # None => /\ Len(found') <= Len(opened')
                          /\ \A i \in 1..Len(found') : found'[i] = opened'[i]
    BY <1>1, <1>3, OpenedGrows
<1>7. TypeOK'
    <2>1. outstanding' \in Int /\ entries' \in [EntryKinds -> Nat]
        BY <1>1, <1>2, <1>3, <1>4 DEF TypeOK, Effects
    <2> QED
        BY <1>1, <1>3, <1>5, <1>6, <2>1 DEF TypeOK
<1>8. /\ \A q \in Receivables : Outstanding(q)' = Outstanding(q)
      /\ \A a \in Advances : Drawn(a)' = Drawn(a)
      /\ \A p \in Payments : Unapplied(p)' = Unapplied(p)
      /\ \A p \in Payments : \A a \in Advances : Released(p, a)' = Released(p, a)
      /\ \A p \in Payments : \A q \in Receivables : \A a \in Advances :
            CoverVia(p, q, a)' = CoverVia(p, q, a)
    BY <1>1, FactsKept
<1>9. \A a \in Advances : Held(a)' = Held(a) /\ Booked(a)' = Booked(a) /\ Reserved(a)' = Reserved(a)
    BY <1>1, HeldKept, AttemptsKept
<1>10. Links'
    <2>1. Receivables \ Opened' \subseteq Receivables \ Opened
        BY <1>6
    <2> QED
        BY <1>1, <1>3, <1>6, <2>1 DEF Links
<1>11. Closed'
    BY <1>1, <1>3, <1>8 DEF Closed
<1>12. Solvent'
    <2>1. \A a \in 1..Len(advances) : a \in Advances
        BY <1>3, Figures
    <2>2. \A a \in 1..Len(advances) : Available(a)' = Available(a)
        BY <1>9, <2>1 DEF Available
    <2> QED
        BY <1>1, <1>3, <1>8, <2>2 DEF Solvent
<1>13. Books'
    <2>1. PICK o : o = [q \in Receivables |-> IF q = r THEN AmountOf[r] ELSE 0]
        OBVIOUS
    <2>2. PICK h : h = [a \in Advances |-> 0]
        OBVIOUS
    <2>3. PICK u : u = [p \in Payments |-> 0]
        OBVIOUS
    <2>4. /\ o \in [Receivables -> Int] /\ o[r] = AmountOf[r]
          /\ \A q \in Receivables : q # r => o[q] = 0
        BY <1>2, <2>1
    <2>5. Sum(o) = AmountOf[r]
        BY <2>4, BaseSets, TotalOne
    <2>6. h \in [Advances -> Int] /\ \A a \in Advances : h[a] = 0
        BY <2>2
    <2>7. u \in [Payments -> Int] /\ \A p \in Payments : u[p] = 0
        BY <2>3
    <2>8. Sum(h) = 0
        BY <2>6, BaseSets, TotalZero
    <2>9. Sum(u) = 0
        BY <2>7, BaseSets, TotalZero
    <2>10. \A q \in Receivables : Owing(q)' = Owing(q) + o[q]
        <3>1. SUFFICES ASSUME NEW q \in Receivables PROVE Owing(q)' = Owing(q) + o[q]
            OBVIOUS
        <3>2. Outstanding(q)' = Outstanding(q) /\ Outstanding(q) \in Int
            BY <1>3, <1>8, Figures
        <3>3. CASE q = r
            <4>1. /\ credited[r] = 0 /\ \A p \in Payments : paid[r][p] = 0
                  /\ \A a \in Advances : applied[r][a] = 0
                BY <1>1, <1>3 DEF Links
            <4>2. paid[r] \in [Payments -> Nat] /\ applied[r] \in [Advances -> Nat]
                BY <1>3, Figures
            <4>3. paid[r] \in [Payments -> Int] /\ applied[r] \in [Advances -> Int]
                BY <4>2
            <4>4. Sum(paid[r]) = 0
                BY <4>1, <4>3, BaseSets, TotalZero
            <4>5. Sum(applied[r]) = 0
                BY <4>1, <4>3, BaseSets, TotalZero
            <4>6. Outstanding(r) = AmountOf[r]
                BY <1>2, <4>1, <4>4, <4>5 DEF Outstanding, Covered
            <4> QED
                BY <1>1, <1>2, <1>6, <2>4, <3>2, <3>3, <4>6 DEF Owing
        <3>4. CASE q # r
            BY <1>6, <2>4, <3>2, <3>4 DEF Owing
        <3> QED
            BY <3>3, <3>4
    <2>11. \A a \in Advances : Held(a)' = Held(a) + h[a]
        BY <1>3, <1>9, <2>6, MoreFigures
    <2>12. \A p \in Payments : Unapplied(p)' = Unapplied(p) + u[p]
        <3>1. \A p \in Payments : Unapplied(p) \in Int
            BY <1>3, Figures
        <3> QED
            BY <1>8, <2>7, <3>1
    <2>13. /\ outstanding' = outstanding + Sum(o) /\ advanceBalance' = advanceBalance + Sum(h)
           /\ Post(Sum(o), Sum(u), Sum(h)) /\ Effects(Sum(o), Sum(h))
        <3>1. advanceBalance \in Int
            BY <1>3 DEF TypeOK
        <3> QED
            BY <1>1, <1>4, <2>5, <2>8, <2>9, <3>1
    <2> QED
        BY <1>3, <2>4, <2>6, <2>7, <2>10, <2>11, <2>12, <2>13, BooksMove
<1>14. Traced'
    BY <1>1, <1>3, <1>8, TracedKept
<1> QED
    BY <1>7, <1>10, <1>11, <1>12, <1>13, <1>14 DEF Inv


-----------------------------------------------------------------------------
(* Steps that move no money.                                               *)

\* The facts and the books stay; finality, attempts and candidates may change.
LEMMA QuietKeeps ==
    ASSUME Inv, TypeOK',
           UNCHANGED <<opened, credited, received, paid, advances, applied, refunded,
                       outstanding, advanceBalance, entries, gl>>,
           \A r \in Receivables : status'[r] \in Cancelled <=> status[r] \in Cancelled,
           \A r \in Receivables : status[r] = "UNPAID" => status'[r] = "UNPAID",
           found' # None => found' = opened \/ found' = found,
           \A k \in RefundKeys : attempts'[k] # None => attempts'[k].advance \in 1..Len(advances),
           \A a \in 1..Len(advances) : Reserved(a)' <= Booked(a)
    PROVE  Inv'
<1>1. TypeOK /\ Links /\ Closed /\ Solvent /\ Books /\ Traced
    BY DEF Inv
<1>2. /\ \A r \in Receivables : Outstanding(r)' = Outstanding(r)
      /\ \A p \in Payments : Unapplied(p)' = Unapplied(p)
      /\ \A p \in Payments : \A a \in Advances : Released(p, a)' = Released(p, a)
      /\ \A p \in Payments : \A q \in Receivables : \A a \in Advances :
            CoverVia(p, q, a)' = CoverVia(p, q, a)
    BY FactsKept
<1>3. \A a \in Advances : Held(a)' = Held(a) /\ Booked(a)' = Booked(a)
    BY HeldKept
<1>4. \A r \in Receivables : Owing(r)' = Owing(r)
    BY <1>2 DEF Owing, Opened
<1>5. Opened' = Opened
    BY DEF Opened
<1>6. Links'
    <2>1. found' # None => /\ Len(found') <= Len(opened)
                           /\ \A i \in 1..Len(found') : found'[i] = opened[i]
        <3>1. Len(opened) \in Nat
            BY <1>1 DEF TypeOK
        <3>2. CASE found' = opened
            BY <3>1, <3>2
        <3>3. CASE found' = found
            BY <1>1, <3>3 DEF Links
        <3> QED
            BY <3>2, <3>3
    <2>2. \A r \in Receivables \ Opened' : status'[r] = "UNPAID"
        BY <1>1, <1>5 DEF Links
    <2> QED
        BY <1>1, <1>5, <2>1, <2>2 DEF Links
<1>7. Closed'
    BY <1>1, <1>2 DEF Closed
<1>8. Solvent'
    <2>1. ASSUME NEW a \in 1..Len(advances) PROVE Available(a)' >= 0
        <3>1. a \in Advances /\ Booked(a) \in Int
            BY <1>1, Figures
        <3>2. Reserved(a)' \in Nat
            <4>1. attempts' \in [RefundKeys -> RefundAttempt \cup {None}]
                BY DEF TypeOK
            <4>2. Sum(HoldingOf(attempts', a)) \in Nat
                BY <4>1, ReservedIs
            <4>3. Reserved(a)' = Sum(HoldingOf(attempts', a))
                BY DEF Reserved, Pending, HoldingOf
            <4> QED
                BY <4>2, <4>3
        <3>3. Available(a)' = Booked(a) - Reserved(a)'
            BY <1>3, <3>1 DEF Available
        <3> QED
            BY <3>1, <3>2, <3>3
    <2> QED
        BY <1>1, <1>2, <2>1 DEF Solvent
<1>9. Books'
    BY <1>1, <1>2, <1>3, <1>4, BooksKept
<1>10. Traced'
    BY <1>1, <1>2, TracedKept
<1> QED
    BY <1>1, <1>6, <1>7, <1>8, <1>9, <1>10 DEF Inv

LEMMA FindCandidatesKeeps ==
    ASSUME Inv, FindCandidates
    PROVE  Inv'
<1>1. TypeOK /\ Links /\ Solvent
    BY DEF Inv
<1>2. /\ found' = opened
      /\ UNCHANGED <<opened, status, credited, received, paid, advances, applied, refunded,
                     attempts, settled, outstanding, advanceBalance, entries, gl>>
    BY DEF FindCandidates, facts
<1>3. TypeOK'
    BY <1>1, <1>2 DEF TypeOK
<1>4. ASSUME NEW a \in 1..Len(advances) PROVE Reserved(a)' <= Booked(a)
    <2>1. a \in Advances /\ Booked(a) \in Int /\ Reserved(a) \in Nat
        BY <1>1, Figures
    <2>2. Available(a) >= 0
        BY <1>1 DEF Solvent
    <2>3. Reserved(a)' = Reserved(a)
        BY <1>2, <2>1, AttemptsKept
    <2> QED
        BY <2>1, <2>2, <2>3 DEF Available
<1>5. \A k \in RefundKeys : attempts'[k] # None => attempts'[k].advance \in 1..Len(advances)
    BY <1>1, <1>2 DEF Links
<1>6. found' # None => found' = opened \/ found' = found
    BY <1>2
<1>7. \A r \in Receivables : /\ status'[r] \in Cancelled <=> status[r] \in Cancelled
                             /\ status[r] = "UNPAID" => status'[r] = "UNPAID"
    BY <1>2
<1> QED
    BY <1>2, <1>3, <1>4, <1>5, <1>6, <1>7, QuietKeeps

LEMMA SettleKeeps ==
    ASSUME Inv, NEW p \in Payments, Settle(p)
    PROVE  Inv'
<1>1. TypeOK /\ Links /\ Solvent
    BY DEF Inv
<1>2. /\ settled' = settled \cup {p}
      /\ UNCHANGED <<opened, credited, received, paid, advances, applied, refunded,
                     attempts, found, outstanding, advanceBalance, entries, gl>>
      /\ status' = [r \in Receivables |->
                      IF status[r] = "PAID" /\ CoverFinal(paid[r], applied[r], settled')
                      THEN "SETTLED" ELSE status[r]]
    BY DEF Settle
<1>3. TypeOK'
    <2>1. status' \in [Receivables -> Statuses]
        BY <1>1, <1>2 DEF TypeOK, Statuses
    <2> QED
        BY <1>1, <1>2, <2>1 DEF TypeOK
<1>4. ASSUME NEW a \in 1..Len(advances) PROVE Reserved(a)' <= Booked(a)
    <2>1. a \in Advances /\ Booked(a) \in Int /\ Reserved(a) \in Nat
        BY <1>1, Figures
    <2>2. Available(a) >= 0
        BY <1>1 DEF Solvent
    <2>3. Reserved(a)' = Reserved(a)
        BY <1>2, <2>1, AttemptsKept
    <2> QED
        BY <2>1, <2>2, <2>3 DEF Available
<1>5. \A k \in RefundKeys : attempts'[k] # None => attempts'[k].advance \in 1..Len(advances)
    BY <1>1, <1>2 DEF Links
<1>6. found' # None => found' = opened \/ found' = found
    BY <1>2
<1>7. \A r \in Receivables : /\ status'[r] \in Cancelled <=> status[r] \in Cancelled
                             /\ status[r] = "UNPAID" => status'[r] = "UNPAID"
    BY <1>2 DEF Cancelled
<1> QED
    BY <1>2, <1>3, <1>4, <1>5, <1>6, <1>7, QuietKeeps


-----------------------------------------------------------------------------
(* Refunds.                                                                *)

\* One attempt changes: what is held of its advance changes by the difference.
LEMMA HoldChange ==
    ASSUME NEW t \in [RefundKeys -> RefundAttempt \cup {None}],
           NEW n \in [RefundKeys -> RefundAttempt \cup {None}], NEW k \in RefundKeys,
           \A j \in RefundKeys : j # k => n[j] = t[j], NEW a
    PROVE  /\ HoldOf(t, k, a) \in Nat /\ HoldOf(n, k, a) \in Nat
           /\ Sum(HoldingOf(t, a)) \in Nat /\ Sum(HoldingOf(n, a)) \in Nat
           /\ Sum(HoldingOf(n, a)) = Sum(HoldingOf(t, a)) - HoldOf(t, k, a) + HoldOf(n, k, a)
<1>1. PICK F : F = [j \in RefundKeys |-> HoldOf(t, j, a)]
    OBVIOUS
<1>2. PICK G : G = [j \in RefundKeys |-> HoldOf(n, j, a)]
    OBVIOUS
<1>3. F \in [RefundKeys -> Nat] /\ Sum(HoldingOf(t, a)) = Sum(F) /\ Sum(HoldingOf(t, a)) \in Nat
    BY <1>1, ReservedIs
<1>4. G \in [RefundKeys -> Nat] /\ Sum(HoldingOf(n, a)) = Sum(G) /\ Sum(HoldingOf(n, a)) \in Nat
    BY <1>2, ReservedIs
<1>5. /\ F \in [RefundKeys -> Int] /\ G \in [RefundKeys -> Int]
      /\ \A j \in RefundKeys : j # k => G[j] = F[j]
    BY <1>1, <1>2, <1>3, <1>4 DEF HoldOf
<1>6. Sum(G) = Sum(F) - F[k] + G[k]
    BY <1>5, BaseSets, TotalChange
<1>7. F[k] = HoldOf(t, k, a) /\ G[k] = HoldOf(n, k, a) /\ F[k] \in Nat /\ G[k] \in Nat
    BY <1>1, <1>2, <1>3, <1>4
<1> QED
    BY <1>3, <1>4, <1>6, <1>7

LEMMA ReservedOf ==
    /\ \A a \in Advances : Reserved(a) = Sum(HoldingOf(attempts, a))
    /\ \A a \in Advances : Reserved(a)' = Sum(HoldingOf(attempts', a))
BY DEF Reserved, Pending, HoldingOf

LEMMA ReserveRefundKeeps ==
    ASSUME Inv, NEW k \in RefundKeys, NEW a \in Advances, NEW amount \in Amounts,
           ReserveRefund(k, a, amount)
    PROVE  Inv'
<1>1. TypeOK /\ Links /\ Solvent
    BY DEF Inv
<1>2. /\ attempts[k] = None /\ a \in DOMAIN advances /\ amount <= Available(a)
      /\ attempts' = [attempts EXCEPT ![k] =
                        [advance |-> a, amount |-> amount, state |-> "PENDING"]]
      /\ UNCHANGED <<opened, status, credited, received, paid, advances, applied,
                     refunded, settled, found, outstanding, advanceBalance, entries, gl>>
    BY DEF ReserveRefund, Refundable
<1>3. amount \in Nat \ {0} /\ None \notin RefundAttempt
    BY ReceivablesAssumption
<1>4. PICK w : w = [advance |-> a, amount |-> amount, state |-> "PENDING"]
    OBVIOUS
<1>5. /\ w \in RefundAttempt /\ w # None /\ w.advance = a /\ w.amount = amount /\ w.state = "PENDING"
    BY <1>3, <1>4 DEF RefundAttempt
<1>6. attempts \in [RefundKeys -> RefundAttempt \cup {None}]
    BY <1>1 DEF TypeOK
<1>7. /\ attempts' \in [RefundKeys -> RefundAttempt \cup {None}] /\ attempts'[k] = w
      /\ \A j \in RefundKeys : j # k => attempts'[j] = attempts[j]
    BY <1>2, <1>4, <1>5, <1>6
<1>8. TypeOK'
    BY <1>1, <1>2, <1>7 DEF TypeOK
<1>9. a \in 1..Len(advances)
    BY <1>1, <1>2, Figures
<1>10. ASSUME NEW b \in 1..Len(advances) PROVE Reserved(b)' <= Booked(b)
    <2>1. b \in Advances /\ Booked(b) \in Int /\ Reserved(b) \in Nat
        BY <1>1, Figures
    <2>2. Booked(b) - Reserved(b) >= 0
        BY <1>1 DEF Solvent, Available
    <2>3. Sum(HoldingOf(attempts', b))
            = Sum(HoldingOf(attempts, b)) - HoldOf(attempts, k, b) + HoldOf(attempts', k, b)
        BY <1>6, <1>7, HoldChange
    <2>4. HoldOf(attempts, k, b) = 0
        BY <1>2 DEF HoldOf
    <2>5. HoldOf(attempts', k, b) = IF b = a THEN amount ELSE 0
        BY <1>5, <1>7 DEF HoldOf
    <2>6. Reserved(b)' = Reserved(b) + IF b = a THEN amount ELSE 0
        BY <1>3, <2>1, <2>3, <2>4, <2>5, ReservedOf
    <2>7. CASE b = a
        BY <1>2, <1>3, <2>1, <2>6, <2>7 DEF Available
    <2>8. CASE b # a
        BY <2>1, <2>2, <2>6, <2>8
    <2> QED
        BY <2>7, <2>8
<1>11. \A j \in RefundKeys : attempts'[j] # None => attempts'[j].advance \in 1..Len(advances)
    BY <1>1, <1>5, <1>7, <1>9 DEF Links
<1>12. found' # None => found' = opened \/ found' = found
    BY <1>2
<1>13. \A r \in Receivables : /\ status'[r] \in Cancelled <=> status[r] \in Cancelled
                              /\ status[r] = "UNPAID" => status'[r] = "UNPAID"
    BY <1>2
<1> QED
    BY <1>2, <1>8, <1>10, <1>11, <1>12, <1>13, QuietKeeps


\* Money is paid out of an advance that has it.
LEMMA PayOutKeeps ==
    ASSUME Inv, NEW a \in 1..Len(advances), NEW amount \in Nat, PayOut(a, amount),
           UNCHANGED <<opened, status, credited, received, paid, advances, applied, settled,
                       found, outstanding>>,
           attempts' \in [RefundKeys -> RefundAttempt \cup {None}],
           \A k \in RefundKeys : attempts'[k] # None => attempts'[k].advance \in 1..Len(advances),
           \A b \in 1..Len(advances) : Reserved(b)' + (IF b = a THEN amount ELSE 0) <= Booked(b)
    PROVE  Inv'
<1>1. TypeOK /\ Links /\ Closed /\ Solvent /\ Books /\ Traced
    BY DEF Inv
<1>2. /\ refunded' = [refunded EXCEPT ![a] = @ + amount]
      /\ advanceBalance' = advanceBalance - amount
      /\ Enter([REFUND |-> amount]) /\ Post(0, 0, -amount)
    BY DEF PayOut
<1>3. a \in Advances /\ a \in DOMAIN advances /\ DOMAIN advances = 1..Len(advances)
    BY <1>1, Figures
<1>4. Effects(0, -amount)
    BY <1>1, <1>2, EffectOfRefund
<1>5. gl' \in [Accounts -> Int]
    BY <1>1, <1>2, Posted
<1>6. refunded \in [Advances -> Nat] /\ refunded' \in [Advances -> Nat]
    <2>1. refunded \in [Advances -> Nat]
        BY <1>1 DEF TypeOK
    <2>2. refunded[a] + amount \in Nat
        BY <1>3, <2>1
    <2> QED
        BY <1>2, <2>1, <2>2
<1>7. \A b \in Advances : refunded'[b] = refunded[b] + IF b = a THEN amount ELSE 0
    BY <1>2, <1>3, <1>6
<1>8. TypeOK'
    <2>1. advanceBalance' \in Int /\ entries' \in [EntryKinds -> Nat]
        BY <1>1, <1>2, <1>4 DEF TypeOK, Effects
    <2> QED
        BY <1>1, <1>5, <1>6, <2>1 DEF TypeOK
<1>9. /\ \A q \in Receivables : Outstanding(q)' = Outstanding(q)
      /\ \A b \in Advances : Drawn(b)' = Drawn(b)
      /\ \A p \in Payments : Unapplied(p)' = Unapplied(p)
      /\ \A p \in Payments : \A b \in Advances : Released(p, b)' = Released(p, b)
      /\ \A p \in Payments : \A q \in Receivables : \A b \in Advances :
            CoverVia(p, q, b)' = CoverVia(p, q, b)
    BY FactsKept
<1>10. ASSUME NEW b \in 1..Len(advances)
       PROVE  /\ Booked(b) \in Int /\ Booked(b)' = Booked(b) - IF b = a THEN amount ELSE 0
    <2>1. b \in Advances /\ Booked(b) \in Int /\ advances[b].amount \in Nat
        BY <1>1, Figures
    <2>2. Drawn(b) \in Nat /\ Drawn(b)' = Drawn(b)
        BY <1>1, <1>9, <2>1, Figures
    <2>3. refunded[b] \in Nat /\ refunded'[b] = refunded[b] + IF b = a THEN amount ELSE 0
        BY <1>6, <1>7, <2>1
    <2>4. Booked(b)' = advances[b].amount - Drawn(b) - refunded'[b]
        BY <2>2 DEF Booked
    <2>5. Booked(b) = advances[b].amount - Drawn(b) - refunded[b]
        BY DEF Booked
    <2> QED
        BY <2>1, <2>2, <2>3, <2>4, <2>5
<1>11. Opened' = Opened /\ \A q \in Receivables : Owing(q)' = Owing(q)
    BY <1>9 DEF Owing, Opened
<1>12. Links'
    <2>1. \A b \in Advances \ (1..Len(advances)) : refunded'[b] = 0
        BY <1>1, <1>2, <1>6 DEF Links
    <2> QED
        BY <1>1, <1>11, <2>1 DEF Links
<1>13. Closed'
    BY <1>1, <1>9 DEF Closed
<1>14. Solvent'
    <2>1. ASSUME NEW b \in 1..Len(advances) PROVE Available(b)' >= 0
        <3>1. Reserved(b)' \in Nat
            <4>1. b \in Advances
                BY <1>1, Figures
            <4> QED
                BY <4>1, ReservedIs, ReservedOf
        <3>2. Available(b)' = Booked(b)' - Reserved(b)'
            BY DEF Available
        <3>3. Reserved(b)' + (IF b = a THEN amount ELSE 0) <= Booked(b)
            OBVIOUS
        <3> QED
            BY <1>10, <3>1, <3>2, <3>3
    <2> QED
        BY <1>1, <1>9, <2>1 DEF Solvent
<1>15. Books'
    <2>1. PICK o : o = [q \in Receivables |-> 0]
        OBVIOUS
    <2>2. PICK h : h = [b \in Advances |-> IF b = a THEN -amount ELSE 0]
        OBVIOUS
    <2>3. PICK u : u = [p \in Payments |-> 0]
        OBVIOUS
    <2>4. o \in [Receivables -> Int] /\ \A q \in Receivables : o[q] = 0
        BY <2>1
    <2>5. h \in [Advances -> Int] /\ h[a] = -amount /\ \A b \in Advances : b # a => h[b] = 0
        BY <1>3, <2>2
    <2>6. u \in [Payments -> Int] /\ \A p \in Payments : u[p] = 0
        BY <2>3
    <2>7. Sum(o) = 0
        BY <2>4, BaseSets, TotalZero
    <2>8. Sum(h) = -amount
        BY <1>3, <2>5, BaseSets, TotalOne
    <2>9. Sum(u) = 0
        BY <2>6, BaseSets, TotalZero
    <2>10. \A q \in Receivables : Owing(q)' = Owing(q) + o[q]
        <3>1. \A q \in Receivables : Owing(q) \in Int
            BY <1>1, MoreFigures
        <3> QED
            BY <1>11, <2>4, <3>1
    <2>11. \A b \in Advances : Held(b)' = Held(b) + h[b]
        <3>1. SUFFICES ASSUME NEW b \in Advances PROVE Held(b)' = Held(b) + h[b]
            OBVIOUS
        <3>2. CASE b \in 1..Len(advances)
            <4>1. Held(b) = Booked(b) /\ Held(b)' = Booked(b)'
                BY <1>3, <3>2 DEF Held
            <4> QED
                BY <1>10, <2>5, <3>2, <4>1
        <3>3. CASE b \notin 1..Len(advances)
            <4>1. Held(b) = 0 /\ Held(b)' = 0
                BY <1>3, <3>3 DEF Held
            <4> QED
                BY <2>5, <3>3, <4>1
        <3> QED
            BY <3>2, <3>3
    <2>12. \A p \in Payments : Unapplied(p)' = Unapplied(p) + u[p]
        <3>1. \A p \in Payments : Unapplied(p) \in Int
            BY <1>1, Figures
        <3> QED
            BY <1>9, <2>6, <3>1
    <2>13. /\ outstanding' = outstanding + Sum(o) /\ advanceBalance' = advanceBalance + Sum(h)
           /\ Post(Sum(o), Sum(u), Sum(h)) /\ Effects(Sum(o), Sum(h))
        <3>1. outstanding \in Int /\ advanceBalance \in Int
            BY <1>1 DEF TypeOK
        <3> QED
            BY <1>2, <1>4, <2>7, <2>8, <2>9, <3>1
    <2> QED
        BY <1>1, <2>4, <2>5, <2>6, <2>10, <2>11, <2>12, <2>13, BooksMove
<1>16. Traced'
    BY <1>1, <1>9, TracedKept
<1> QED
    BY <1>8, <1>12, <1>13, <1>14, <1>15, <1>16 DEF Inv

LEMMA LocalRefundKeeps ==
    ASSUME Inv, NEW a \in Advances, NEW amount \in Amounts, LocalRefund(a, amount)
    PROVE  Inv'
<1>1. TypeOK /\ Links /\ Solvent
    BY DEF Inv
<1>2. /\ a \in DOMAIN advances /\ amount <= Available(a) /\ PayOut(a, amount)
      /\ UNCHANGED <<opened, status, credited, received, paid, advances, applied,
                     attempts, settled, found, outstanding>>
    BY DEF LocalRefund, Refundable
<1>3. a \in 1..Len(advances) /\ amount \in Nat
    BY <1>1, <1>2, Figures, ReceivablesAssumption
<1>4. ASSUME NEW b \in 1..Len(advances)
      PROVE  Reserved(b)' + (IF b = a THEN amount ELSE 0) <= Booked(b)
    <2>1. b \in Advances /\ Booked(b) \in Int /\ Reserved(b) \in Nat
        BY <1>1, Figures
    <2>2. Booked(b) - Reserved(b) >= 0
        BY <1>1 DEF Solvent, Available
    <2>3. Reserved(b)' = Reserved(b)
        BY <1>2, <2>1, AttemptsKept
    <2>4. CASE b = a
        BY <1>2, <1>3, <2>1, <2>3, <2>4 DEF Available
    <2>5. CASE b # a
        BY <2>1, <2>2, <2>3, <2>5
    <2> QED
        BY <2>4, <2>5
<1>5. /\ attempts' \in [RefundKeys -> RefundAttempt \cup {None}]
      /\ \A k \in RefundKeys : attempts'[k] # None => attempts'[k].advance \in 1..Len(advances)
    BY <1>1, <1>2 DEF TypeOK, Links
<1> QED
    BY <1>2, <1>3, <1>4, <1>5, PayOutKeeps

LEMMA RefundResultKeeps ==
    ASSUME Inv, NEW k \in RefundKeys, NEW result \in {"SUCCEEDED", "FAILED"}, RefundResult(k, result)
    PROVE  Inv'
<1>1. TypeOK /\ Links /\ Solvent
    BY DEF Inv
<1>2. /\ attempts[k] # None /\ attempts[k].state = "PENDING"
      /\ attempts' = [attempts EXCEPT ![k].state = result]
      /\ IF result = "SUCCEEDED" THEN PayOut(attempts[k].advance, attempts[k].amount)
         ELSE UNCHANGED <<refunded, advanceBalance, entries, gl>>
      /\ UNCHANGED <<opened, status, credited, received, paid, advances, applied,
                     settled, found, outstanding>>
    BY DEF RefundResult
<1>3. attempts \in [RefundKeys -> RefundAttempt \cup {None}] /\ None \notin RefundAttempt
    BY <1>1, ReceivablesAssumption DEF TypeOK
<1>4. attempts[k] \in RefundAttempt
    BY <1>2, <1>3
<1>5. PICK w : w = [attempts[k] EXCEPT !.state = result]
    OBVIOUS
<1>6. /\ w \in RefundAttempt /\ w # None /\ w.advance = attempts[k].advance
      /\ w.amount = attempts[k].amount /\ w.state = result
    <2>1. attempts[k] = [advance |-> attempts[k].advance, amount |-> attempts[k].amount,
                         state |-> attempts[k].state]
        BY <1>4 DEF RefundAttempt
    <2>2. w = [advance |-> attempts[k].advance, amount |-> attempts[k].amount, state |-> result]
        BY <1>5, <2>1
    <2>3. w \in RefundAttempt
        BY <1>4, <2>2 DEF RefundAttempt
    <2> QED
        BY <1>3, <2>2, <2>3
<1>7. /\ attempts' \in [RefundKeys -> RefundAttempt \cup {None}] /\ attempts'[k] = w
      /\ \A j \in RefundKeys : j # k => attempts'[j] = attempts[j]
    BY <1>2, <1>3, <1>5, <1>6
<1>8. PICK a : a = attempts[k].advance
    OBVIOUS
<1>9. PICK amount : amount = attempts[k].amount
    OBVIOUS
<1>10. a \in 1..Len(advances) /\ amount \in Nat \ {0}
    BY <1>1, <1>2, <1>4, <1>8, <1>9 DEF Links, RefundAttempt
<1>11. ASSUME NEW b \in 1..Len(advances)
       PROVE  /\ Reserved(b)' \in Nat /\ Booked(b) \in Int
              /\ Reserved(b)' + (IF b = a THEN amount ELSE 0) <= Booked(b)
    <2>1. b \in Advances /\ Booked(b) \in Int /\ Reserved(b) \in Nat
        BY <1>1, Figures
    <2>2. Booked(b) - Reserved(b) >= 0
        BY <1>1 DEF Solvent, Available
    <2>3. /\ Sum(HoldingOf(attempts', b))
               = Sum(HoldingOf(attempts, b)) - HoldOf(attempts, k, b) + HoldOf(attempts', k, b)
          /\ Sum(HoldingOf(attempts', b)) \in Nat
        BY <1>3, <1>7, HoldChange
    <2>4. HoldOf(attempts, k, b) = IF b = a THEN amount ELSE 0
        BY <1>2, <1>8, <1>9 DEF HoldOf
    <2>5. HoldOf(attempts', k, b) = 0
        BY <1>6, <1>7 DEF HoldOf
    <2>6. Reserved(b)' = Reserved(b) - (IF b = a THEN amount ELSE 0) /\ Reserved(b)' \in Nat
        BY <1>10, <2>1, <2>3, <2>4, <2>5, ReservedOf
    <2> QED
        BY <1>10, <2>1, <2>2, <2>6
<1>12. \A j \in RefundKeys : attempts'[j] # None => attempts'[j].advance \in 1..Len(advances)
    <2>1. w.advance \in 1..Len(advances)
        BY <1>6, <1>8, <1>10
    <2> QED
        BY <1>1, <1>7, <2>1 DEF Links
<1>13. CASE result = "SUCCEEDED"
    <2>1. PayOut(a, amount)
        BY <1>2, <1>8, <1>9, <1>13
    <2>2. amount \in Nat
        BY <1>10
    <2> QED
        BY <1>2, <1>7, <1>10, <1>11, <1>12, <2>1, <2>2, PayOutKeeps
<1>14. CASE result = "FAILED"
    <2>1. UNCHANGED <<opened, status, credited, received, paid, advances, applied, refunded,
                      settled, found, outstanding, advanceBalance, entries, gl>>
        BY <1>2, <1>14
    <2>2. TypeOK'
        BY <1>1, <1>7, <2>1 DEF TypeOK
    <2>3. \A b \in 1..Len(advances) : Reserved(b)' <= Booked(b)
        BY <1>10, <1>11
    <2>4. found' # None => found' = opened \/ found' = found
        BY <2>1
    <2>5. \A r \in Receivables : /\ status'[r] \in Cancelled <=> status[r] \in Cancelled
                                 /\ status[r] = "UNPAID" => status'[r] = "UNPAID"
        BY <2>1
    <2> QED
        BY <1>12, <2>1, <2>2, <2>3, <2>4, <2>5, QuietKeeps
<1> QED
    BY <1>13, <1>14


-----------------------------------------------------------------------------
(* New advances.                                                           *)

\* Rows are appended to the advances and nothing has been drawn on them.
More == 1..Len(advances') \ 1..Len(advances)

LEMMA MoreAdvances ==
    ASSUME TypeOK, Links, advances' \in Seq(AdvanceRow), Len(advances') <= MaxAdvances,
           Len(advances) <= Len(advances'),
           \A a \in 1..Len(advances) : advances'[a] = advances[a],
           UNCHANGED <<applied, refunded, attempts>>
    PROVE  /\ \A a \in 1..Len(advances) : Booked(a)' = Booked(a) /\ Available(a)' = Available(a)
           /\ \A a \in More :
                 /\ advances'[a].amount \in Nat \ {0}
                 /\ Booked(a)' = advances'[a].amount /\ Available(a)' = advances'[a].amount
           /\ \A a \in Advances :
                 Held(a)' = Held(a) + IF a \in More THEN advances'[a].amount ELSE 0
           /\ \A p \in Payments : \A r \in Receivables : \A a \in Advances :
                 CoverVia(p, r, a)' = CoverVia(p, r, a)
           /\ 1..Len(advances') \subseteq Advances /\ DOMAIN advances' = 1..Len(advances')
<1>1. /\ Len(advances) \in Nat /\ MaxAdvances \in Nat /\ DOMAIN advances = 1..Len(advances)
      /\ \A a \in 1..Len(advances) : a \in Advances
    BY Figures
<1>2. /\ Len(advances') \in Nat /\ DOMAIN advances' = 1..Len(advances')
      /\ \A a \in 1..Len(advances') : advances'[a] \in AdvanceRow
    OBVIOUS
<1>3. 1..Len(advances') \subseteq Advances
    BY <1>1, <1>2 DEF Advances
<1>4. \A a \in 1..Len(advances') : advances'[a].amount \in Nat \ {0}
    BY <1>2 DEF AdvanceRow
<1>5. /\ \A a \in Advances : Drawn(a)' = Drawn(a) /\ Drawn(a) \in Nat
      /\ \A a \in Advances : Reserved(a)' = Reserved(a) /\ Reserved(a) \in Nat
      /\ \A a \in Advances : refunded[a] \in Nat
    <2>1. \A a \in Advances : Drawn(a)' = Drawn(a)
        BY DEF Drawn
    <2>2. \A a \in Advances : refunded[a] \in Nat
        BY DEF TypeOK
    <2>3. \A a \in Advances : Reserved(a)' = Reserved(a)
        BY AttemptsKept
    <2> QED
        BY <2>1, <2>2, <2>3, Figures
<1>6. ASSUME NEW a \in 1..Len(advances)
      PROVE  Booked(a)' = Booked(a) /\ Available(a)' = Available(a)
    <2>1. a \in Advances
        BY <1>1
    <2>2. Booked(a)' = Booked(a)
        BY <1>5, <2>1 DEF Booked
    <2> QED
        BY <1>5, <2>1, <2>2 DEF Available
<1>7. \A a \in More : a \in Advances /\ a \in 1..Len(advances') /\ a \notin 1..Len(advances)
    BY <1>3 DEF More
<1>8. ASSUME NEW a \in More
      PROVE  /\ advances'[a].amount \in Nat \ {0}
             /\ Booked(a)' = advances'[a].amount /\ Available(a)' = advances'[a].amount
    <2>1. refunded[a] = 0 /\ \A r \in Receivables : applied[r][a] = 0
        BY <1>7 DEF Links
    <2>2. Drawn(a) = 0
        <3>1. PICK F : F = [r \in Receivables |-> applied[r][a]]
            OBVIOUS
        <3>2. F \in [Receivables -> Int] /\ \A r \in Receivables : F[r] = 0
            BY <2>1, <3>1
        <3> QED
            BY <3>1, <3>2, BaseSets, TotalZero DEF Drawn
    <2>3. Reserved(a) = 0
        <3>1. PICK F : F = [k \in RefundKeys |-> HoldOf(attempts, k, a)]
            OBVIOUS
        <3>2. \A k \in RefundKeys : attempts[k] # None => attempts[k].advance # a
            BY <1>7 DEF Links
        <3>3. F \in [RefundKeys -> Int] /\ \A k \in RefundKeys : F[k] = 0
            BY <3>1, <3>2 DEF HoldOf
        <3>4. Sum(F) = 0
            BY <3>3, BaseSets, TotalZero
        <3>5. Sum(HoldingOf(attempts, a)) = Sum(F)
            BY <3>1, ReservedIs DEF TypeOK
        <3> QED
            BY <1>7, <3>4, <3>5, ReservedOf
    <2>4. advances'[a].amount \in Nat \ {0}
        BY <1>4, <1>7
    <2>5. Booked(a)' = advances'[a].amount - Drawn(a)' - refunded'[a]
        BY DEF Booked
    <2>6. Booked(a)' = advances'[a].amount
        BY <1>5, <1>7, <2>1, <2>2, <2>4, <2>5
    <2>7. Available(a)' = Booked(a)' - Reserved(a)'
        BY DEF Available
    <2>8. Available(a)' = advances'[a].amount
        BY <1>5, <1>7, <2>3, <2>4, <2>6, <2>7
    <2> QED
        BY <2>4, <2>6, <2>8
<1>9. ASSUME NEW a \in Advances
      PROVE  Held(a)' = Held(a) + IF a \in More THEN advances'[a].amount ELSE 0
    <2>1. CASE a \in 1..Len(advances)
        <3>1. a \notin More /\ a \in 1..Len(advances')
            BY <1>1, <1>2, <2>1 DEF More
        <3>2. Held(a)' = Booked(a)' /\ Held(a) = Booked(a) /\ Booked(a) \in Int
            BY <1>1, <1>2, <2>1, <3>1, Figures DEF Held
        <3> QED
            BY <1>6, <2>1, <3>1, <3>2
    <2>2. CASE a \in More
        <3>1. Held(a)' = Booked(a)' /\ Held(a) = 0
            BY <1>1, <1>2, <1>7, <2>2 DEF Held
        <3> QED
            BY <1>8, <2>2, <3>1
    <2>3. CASE a \notin 1..Len(advances) /\ a \notin More
        <3>1. Held(a)' = 0 /\ Held(a) = 0
            BY <1>1, <1>2, <2>3 DEF Held, More
        <3> QED
            BY <2>3, <3>1
    <2> QED
        BY <2>1, <2>2, <2>3
<1>10. ASSUME NEW p \in Payments, NEW r \in Receivables, NEW a \in Advances
       PROVE  CoverVia(p, r, a)' = CoverVia(p, r, a)
    <2>1. CASE a \in 1..Len(advances)
        <3>1. a \in 1..Len(advances')
            BY <1>1, <1>2, <2>1
        <3> QED
            BY <1>1, <1>2, <2>1, <3>1 DEF CoverVia
    <2>2. CASE a \notin 1..Len(advances)
        <3>1. applied[r][a] = 0
            BY <2>2 DEF Links
        <3> QED
            BY <3>1 DEF CoverVia
    <2> QED
        BY <2>1, <2>2
<1> QED
    BY <1>2, <1>3, <1>6, <1>8, <1>9, <1>10

\* What was converted of a payment no new row comes from stays.
LEMMA ConvertedKept ==
    ASSUME TypeOK, advances' \in Seq(AdvanceRow),
           Len(advances) <= Len(advances'),
           \A a \in 1..Len(advances) : advances'[a] = advances[a], NEW p,
           \A a \in More : ~(advances'[a].source = "PAYMENT" /\ advances'[a].payment = p)
    PROVE  ConvertedOf(advances', p) = ConvertedOf(advances, p)
<1>1. Len(advances) \in Nat /\ Len(advances') \in Nat
    BY DEF TypeOK
<1>2. {x \in 1..Len(advances') : advances'[x].source = "PAYMENT" /\ advances'[x].payment = p}
        = {x \in 1..Len(advances) : advances[x].source = "PAYMENT" /\ advances[x].payment = p}
    BY <1>1 DEF More
<1> QED
    BY <1>2 DEF ConvertedOf


\* A conversion adds its amount to what was converted of its payment.
LEMMA ConvertedGrows ==
    ASSUME TypeOK, NEW row \in AdvanceRow, Len(advances) < MaxAdvances,
           advances' = Append(advances, row), row.source = "PAYMENT"
    PROVE  /\ Sum(ConvertedOf(advances', row.payment))
                = Sum(ConvertedOf(advances, row.payment)) + row.amount
<1>1. /\ Len(advances) \in Nat /\ Len(advances) <= MaxAdvances
      /\ \A a \in 1..Len(advances) : advances[a] \in AdvanceRow
    BY DEF TypeOK
<1>2. /\ Len(advances') \in Nat /\ Len(advances') = Len(advances) + 1
      /\ \A a \in 1..Len(advances') : advances'[a] \in AdvanceRow
      /\ advances'[Len(advances) + 1] = row
      /\ \A a \in 1..Len(advances) : advances'[a] = advances[a]
    <2>1. advances \in Seq(AdvanceRow)
        BY DEF TypeOK
    <2> QED
        BY <1>1, <2>1
<1>3. PICK p : p = row.payment
    OBVIOUS
<1>4. PICK n : n = Len(advances) + 1
    OBVIOUS
<1>5. n \in Advances /\ Len(advances') <= MaxAdvances
    BY <1>1, <1>2, <1>4, ReceivablesAssumption DEF Advances
<1>6. PICK F : F = [a \in Advances |-> ConvertOf(advances, a, p)]
    OBVIOUS
<1>7. PICK G : G = [a \in Advances |-> ConvertOf(advances', a, p)]
    OBVIOUS
<1>8. F \in [Advances -> Nat] /\ Sum(ConvertedOf(advances, p)) = Sum(F)
    BY <1>1, <1>6, ConvertedIs
<1>9. G \in [Advances -> Nat] /\ Sum(ConvertedOf(advances', p)) = Sum(G)
    <2>1. PICK v : v = advances'
        OBVIOUS
    <2>2. Len(v) \in Nat /\ Len(v) <= MaxAdvances /\ \A a \in 1..Len(v) : v[a] \in AdvanceRow
        BY <1>2, <1>5, <2>1
    <2>3. G = [a \in Advances |-> ConvertOf(v, a, p)]
        BY <1>7, <2>1
    <2>4. G \in [Advances -> Nat] /\ Sum(ConvertedOf(v, p)) = Sum(G)
        BY <2>2, <2>3, ConvertedIs
    <2> QED
        BY <2>1, <2>4
<1>10. F[n] = 0
    BY <1>1, <1>4, <1>5, <1>6 DEF ConvertOf, Converts
<1>11. G[n] = row.amount
    <2>1. Converts(advances', n, p)
        BY <1>1, <1>2, <1>3, <1>4 DEF Converts
    <2> QED
        BY <1>2, <1>4, <1>5, <1>7, <2>1 DEF ConvertOf
<1>12. ASSUME NEW a \in Advances, a # n PROVE G[a] = F[a]
    <2>1. a \in 1..Len(advances') <=> a \in 1..Len(advances)
        BY <1>1, <1>2, <1>4, <1>12
    <2> QED
        BY <1>2, <1>6, <1>7, <2>1 DEF ConvertOf, Converts
<1>13. F \in [Advances -> Int] /\ G \in [Advances -> Int]
    BY <1>8, <1>9
<1>14. Sum(F) \in Nat
    BY <1>8, BaseSets, TotalNat
<1>15. Sum(G) = Sum(F) - F[n] + G[n]
    BY ONLY <1>5, <1>12, <1>13, BaseSets, TotalChange
<1>16. row.amount \in Nat
    BY DEF AdvanceRow
<1> QED
    BY <1>3, <1>8, <1>9, <1>10, <1>11, <1>14, <1>15, <1>16

\* An advance appears, opened by itself or taken out of a payment.
LEMMA SetAsideKeeps ==
    ASSUME Inv, NEW row \in AdvanceRow, NEW w \in Int, Len(advances) < MaxAdvances,
           advances' = Append(advances, row), advanceBalance' = advanceBalance + row.amount,
           Post(0, w, row.amount), Effects(0, row.amount),
           UNCHANGED <<opened, status, credited, received, paid, applied, refunded,
                       attempts, settled, found, outstanding>>,
           \/ row.source = "OPENING" /\ row.payment = None /\ w = 0
           \/ /\ row.source = "PAYMENT" /\ row.payment \in Payments /\ received[row.payment] > 0
              /\ w = -row.amount /\ row.amount <= Unapplied(row.payment)
    PROVE  Inv'
<1>1. TypeOK /\ Links /\ Closed /\ Solvent /\ Books /\ Traced
    BY DEF Inv
<1>2. PICK n : n = Len(advances) + 1
    OBVIOUS
<1>3. PICK amount : amount = row.amount
    OBVIOUS
<1>4. amount \in Nat \ {0}
    BY <1>3 DEF AdvanceRow
<1>5. /\ Len(advances) \in Nat /\ advances' \in Seq(AdvanceRow) /\ Len(advances') = n
      /\ Len(advances') <= MaxAdvances /\ advances'[n] = row
      /\ Len(advances) <= Len(advances')
      /\ \A a \in 1..Len(advances) : advances'[a] = advances[a]
    <2>1. advances \in Seq(AdvanceRow) /\ Len(advances) \in Nat /\ MaxAdvances \in Nat
        BY <1>1, ReceivablesAssumption DEF TypeOK
    <2> QED
        BY <1>2, <2>1
<1>6. More = {n} /\ 1..Len(advances') = 1..Len(advances) \cup {n}
    BY <1>2, <1>5 DEF More
<1>7. /\ \A a \in 1..Len(advances) : Booked(a)' = Booked(a) /\ Available(a)' = Available(a)
      /\ \A a \in More : Available(a)' = advances'[a].amount
      /\ \A a \in Advances : Held(a)' = Held(a) + IF a \in More THEN advances'[a].amount ELSE 0
      /\ \A p \in Payments : \A r \in Receivables : \A a \in Advances :
            CoverVia(p, r, a)' = CoverVia(p, r, a)
      /\ 1..Len(advances') \subseteq Advances /\ DOMAIN advances' = 1..Len(advances')
      /\ DOMAIN advances = 1..Len(advances)
    BY <1>1, <1>5, MoreAdvances, Figures
<1>8. gl' \in [Accounts -> Int]
    <2>1. amount \in Int /\ 0 \in Int /\ Post(0, w, amount)
        BY <1>3, <1>4
    <2> QED
        BY <1>1, <2>1, Posted
<1>9. TypeOK'
    <2>1. advanceBalance' \in Int /\ entries' \in [EntryKinds -> Nat]
        BY <1>1, <1>3, <1>4 DEF TypeOK, Effects
    <2> QED
        BY <1>1, <1>5, <1>8, <2>1 DEF TypeOK
<1>10. \A r \in Receivables : Outstanding(r)' = Outstanding(r) /\ Owing(r)' = Owing(r)
    BY DEF Outstanding, Covered, Owing, Opened
<1>11. Opened' = Opened
    BY DEF Opened
<1>12. ASSUME NEW p \in Payments
       PROVE  /\ Unapplied(p) \in Int
              /\ Unapplied(p)' = Unapplied(p) + IF row.payment = p THEN w ELSE 0
    <2>1. /\ Unapplied(p) \in Int /\ received[p] \in Nat
          /\ Sum([r \in Receivables |-> paid[r][p]]) \in Nat /\ Sum(ConvertedOf(advances, p)) \in Nat
          /\ Unapplied(p) = received[p] - Sum([r \in Receivables |-> paid[r][p]])
                                        - Sum(ConvertedOf(advances, p))
        BY <1>1, Figures DEF TypeOK
    <2>2. Unapplied(p)' = received[p] - Sum([r \in Receivables |-> paid[r][p]])
                                      - Sum(ConvertedOf(advances', p))
        BY <1>7 DEF Unapplied, Converted, ConvertedOf
    <2>3. CASE row.source = "PAYMENT" /\ row.payment = p
        <3>1. Sum(ConvertedOf(advances', p)) = Sum(ConvertedOf(advances, p)) + row.amount
            BY <1>1, <2>3, ConvertedGrows
        <3>2. w = -amount
            BY <1>3, <2>3
        <3>3. /\ Sum(ConvertedOf(advances', p)) = Sum(ConvertedOf(advances, p)) + amount
              /\ amount \in Nat
            BY <1>3, <1>4, <3>1
        <3>4. Unapplied(p)' = Unapplied(p) + w
            BY ONLY <2>1, <2>2, <3>2, <3>3
        <3> QED
            BY <2>1, <2>3, <3>4
    <2>4. CASE ~(row.source = "PAYMENT" /\ row.payment = p)
        <3>1. ConvertedOf(advances', p) = ConvertedOf(advances, p)
            BY <1>1, <1>5, <1>6, <2>4, ConvertedKept
        <3>2. None \notin Payments
            BY ReceivablesAssumption
        <3> QED
            BY <2>1, <2>2, <2>4, <3>1, <3>2
    <2> QED
        BY <2>3, <2>4
<1>13. Links'
    <2>1. \A p \in Payments : received'[p] = 0 =>
              \A a \in 1..Len(advances') : advances'[a].payment # p
        <3>1. SUFFICES ASSUME NEW p \in Payments, received[p] = 0, NEW a \in 1..Len(advances')
                       PROVE  advances'[a].payment # p
            OBVIOUS
        <3>2. CASE a \in 1..Len(advances)
            BY <1>1, <1>5, <3>1, <3>2 DEF Links
        <3>3. CASE a = n
            <4>1. row.payment # p
                BY <3>1, ReceivablesAssumption
            <4> QED
                BY <1>5, <3>3, <4>1
        <3> QED
            BY <1>6, <3>1, <3>2, <3>3
    <2>2. \A a \in Advances \ (1..Len(advances')) :
              refunded'[a] = 0 /\ \A r \in Receivables : applied'[r][a] = 0
        BY <1>1, <1>6 DEF Links
    <2>3. \A k \in RefundKeys : attempts'[k] # None => attempts'[k].advance \in 1..Len(advances')
        BY <1>1, <1>6 DEF Links
    <2>4. \A a \in 1..Len(advances') :
              /\ advances'[a].source = "OPENING" => advances'[a].payment = None
              /\ advances'[a].source = "PAYMENT" => advances'[a].payment # None
        <3>1. SUFFICES ASSUME NEW a \in 1..Len(advances')
                       PROVE  /\ advances'[a].source = "OPENING" => advances'[a].payment = None
                              /\ advances'[a].source = "PAYMENT" => advances'[a].payment # None
            OBVIOUS
        <3>2. CASE a \in 1..Len(advances)
            BY <1>1, <1>5, <3>2 DEF Links
        <3>3. CASE a = n
            <4>1. /\ row.source = "OPENING" => row.payment = None
                  /\ row.source = "PAYMENT" => row.payment # None
                BY ReceivablesAssumption
            <4> QED
                BY <1>5, <3>3, <4>1
        <3> QED
            BY <1>6, <3>1, <3>2, <3>3
    <2> QED
        BY <1>1, <1>11, <2>1, <2>2, <2>3, <2>4 DEF Links
<1>14. Closed'
    BY <1>1, <1>10 DEF Closed
<1>15. Solvent'
    <2>1. \A p \in Payments : Unapplied(p)' >= 0
        <3>1. SUFFICES ASSUME NEW p \in Payments PROVE Unapplied(p)' >= 0
            OBVIOUS
        <3>2. Unapplied(p) >= 0
            BY <1>1 DEF Solvent
        <3>3. CASE row.payment = p
            <4>1. w = -amount /\ amount <= Unapplied(p)
                BY <1>3, <3>3, ReceivablesAssumption
            <4>2. Unapplied(p)' = Unapplied(p) + w
                BY <1>12, <3>3
            <4> QED
                BY <1>4, <1>12, <4>1, <4>2
        <3>4. CASE row.payment # p
            BY <1>12, <3>2, <3>4
        <3> QED
            BY <3>3, <3>4
    <2>2. \A a \in 1..Len(advances') : Available(a)' >= 0
        <3>1. SUFFICES ASSUME NEW a \in 1..Len(advances') PROVE Available(a)' >= 0
            OBVIOUS
        <3>2. CASE a \in 1..Len(advances)
            BY <1>1, <1>7, <3>2 DEF Solvent
        <3>3. CASE a = n
            BY <1>3, <1>4, <1>5, <1>6, <1>7, <3>3
        <3> QED
            BY <1>6, <3>1, <3>2, <3>3
    <2> QED
        BY <1>1, <1>10, <2>1, <2>2 DEF Solvent
<1>16. Books'
    <2>1. PICK o : o = [q \in Receivables |-> 0]
        OBVIOUS
    <2>2. PICK h : h = [a \in Advances |-> IF a = n THEN amount ELSE 0]
        OBVIOUS
    <2>3. PICK u : u = [p \in Payments |-> IF row.payment = p THEN w ELSE 0]
        OBVIOUS
    <2>4. o \in [Receivables -> Int] /\ \A q \in Receivables : o[q] = 0
        BY <2>1
    <2>5. n \in Advances
        BY <1>6, <1>7
    <2>6. h \in [Advances -> Int] /\ h[n] = amount /\ \A a \in Advances : a # n => h[a] = 0
        BY <1>4, <2>2, <2>5
    <2>7. u \in [Payments -> Int]
        BY <2>3
    <2>8. Sum(o) = 0
        BY <2>4, BaseSets, TotalZero
    <2>9. Sum(h) = amount
        BY <2>5, <2>6, BaseSets, TotalOne
    <2>10. Sum(u) = w
        <3>1. CASE row.payment \in Payments
            <4>1. PICK p : p = row.payment
                OBVIOUS
            <4>2. p \in Payments /\ u[p] = w /\ \A q \in Payments : q # p => u[q] = 0
                BY <2>3, <3>1, <4>1
            <4>3. Sum(u) = u[p]
                BY <2>7, <4>2, BaseSets, TotalOne
            <4> QED
                BY <4>2, <4>3
        <3>2. CASE row.payment \notin Payments
            <4>1. \A p \in Payments : u[p] = 0
                BY <2>3, <3>2
            <4>2. Sum(u) = 0
                BY <2>7, <4>1, BaseSets, TotalZero
            <4>3. w = 0
                BY <3>2
            <4> QED
                BY <4>2, <4>3
        <3> QED
            BY <3>1, <3>2
    <2>11. \A q \in Receivables : Owing(q)' = Owing(q) + o[q]
        <3>1. \A q \in Receivables : Owing(q) \in Int
            BY <1>1, MoreFigures
        <3> QED
            BY <1>10, <2>4, <3>1
    <2>12. \A a \in Advances : Held(a)' = Held(a) + h[a]
        <3>1. SUFFICES ASSUME NEW a \in Advances PROVE Held(a)' = Held(a) + h[a]
            OBVIOUS
        <3>2. Held(a) \in Int /\ h[a] = IF a = n THEN amount ELSE 0
            BY <1>1, <2>2, MoreFigures
        <3>3. Held(a)' = Held(a) + IF a \in More THEN advances'[a].amount ELSE 0
            BY <1>7
        <3>4. CASE a = n
            BY <1>3, <1>5, <1>6, <3>2, <3>3, <3>4
        <3>5. CASE a # n
            BY <1>6, <3>2, <3>3, <3>5
        <3> QED
            BY <3>4, <3>5
    <2>13. \A p \in Payments : Unapplied(p)' = Unapplied(p) + u[p]
        BY <1>12, <2>3
    <2>14. /\ outstanding' = outstanding + Sum(o) /\ advanceBalance' = advanceBalance + Sum(h)
           /\ Post(Sum(o), Sum(u), Sum(h)) /\ Effects(Sum(o), Sum(h))
        <3>1. outstanding \in Int
            BY <1>1 DEF TypeOK
        <3> QED
            BY <1>3, <2>8, <2>9, <2>10, <3>1
    <2> QED
        BY <1>1, <2>4, <2>6, <2>7, <2>11, <2>12, <2>13, <2>14, BooksMove
<1>17. Traced'
    <2>1. ASSUME NEW p \in Payments, NEW a \in Advances PROVE Released(p, a)' = Released(p, a)
        <3>1. CASE a = n
            <4>1. a \notin 1..Len(advances) /\ advances'[a].source # "CREDIT_NOTE"
                BY <1>2, <1>5, <3>1
            <4> QED
                BY <1>7, <4>1 DEF Released
        <3>2. CASE a # n
            BY <1>5, <1>6, <1>7, <3>2 DEF Released
        <3> QED
            BY <3>1, <3>2
    <2> QED
        BY <1>1, <1>7, <2>1, TracedKept
<1> QED
    BY <1>9, <1>13, <1>14, <1>15, <1>16, <1>17 DEF Inv


LEMMA OpenAdvanceKeeps ==
    ASSUME Inv, NEW amount \in Amounts, OpenAdvance(amount)
    PROVE  Inv'
<1>1. PICK row : row = [source |-> "OPENING", payment |-> None, amount |-> amount]
    OBVIOUS
<1>2. /\ Len(advances) < MaxAdvances /\ advances' = Append(advances, row)
      /\ advanceBalance' = advanceBalance + amount /\ Enter([OPENING_ADVANCE |-> amount])
      /\ Post(0, 0, amount)
      /\ UNCHANGED <<opened, status, credited, received, paid, applied, refunded,
                     attempts, settled, found, outstanding>>
    BY <1>1 DEF OpenAdvance
<1>3. amount \in Nat \ {0}
    BY ReceivablesAssumption
<1>4. row \in AdvanceRow /\ row.source = "OPENING" /\ row.payment = None /\ row.amount = amount
    BY <1>1, <1>3 DEF AdvanceRow
<1>5. Effects(0, amount)
    BY <1>2, <1>3, EffectOfOpeningAdvance DEF Inv
<1>6. 0 \in Int
    OBVIOUS
<1> QED
    BY <1>2, <1>4, <1>5, <1>6, SetAsideKeeps

LEMMA ConvertKeeps ==
    ASSUME Inv, NEW p \in Payments, NEW amount \in Amounts, ConvertToAdvance(p, amount)
    PROVE  Inv'
<1>1. PICK row : row = [source |-> "PAYMENT", payment |-> p, amount |-> amount]
    OBVIOUS
<1>2. /\ received[p] > 0 /\ amount <= Unapplied(p)
      /\ Len(advances) < MaxAdvances /\ advances' = Append(advances, row)
      /\ advanceBalance' = advanceBalance + amount /\ Enter([ADVANCE |-> amount])
      /\ Post(0, -amount, amount)
      /\ UNCHANGED <<opened, status, credited, received, paid, applied, refunded,
                     attempts, settled, found, outstanding>>
    BY <1>1 DEF ConvertToAdvance
<1>3. amount \in Nat \ {0}
    BY ReceivablesAssumption
<1>4. row \in AdvanceRow /\ row.source = "PAYMENT" /\ row.payment = p /\ row.amount = amount
    BY <1>1, <1>3 DEF AdvanceRow
<1>5. Effects(0, amount)
    BY <1>2, <1>3, EffectOfConversion DEF Inv
<1>6. PICK w : w = -amount
    OBVIOUS
<1>7. w \in Int
    BY <1>3, <1>6
<1> QED
    BY <1>2, <1>4, <1>5, <1>6, <1>7, SetAsideKeeps


-----------------------------------------------------------------------------
(* An advance is applied.                                                  *)

\* The status of what an operation covers is computed anew, and never as cancelled.
LEMMA StatusRecomputed ==
    ASSUME status \in [Receivables -> Statuses], NEW changed, Recompute(changed),
           \A r \in changed : status[r] \notin Cancelled
    PROVE  /\ status' \in [Receivables -> Statuses]
           /\ \A r \in Receivables : status'[r] \in Cancelled <=> status[r] \in Cancelled
           /\ \A r \in Receivables : r \notin changed => status'[r] = status[r]
<1>1. \A r \in Receivables : StatusFor(r, paid'[r], applied'[r]) \in Statuses \ Cancelled
    BY DEF StatusFor, Statuses, Cancelled
<1>2. status' = [r \in Receivables |->
                   IF r \in changed /\ KindOf[r] = "INVOICE"
                   THEN StatusFor(r, paid'[r], applied'[r]) ELSE status[r]]
    BY DEF Recompute
<1> QED
    BY <1>1, <1>2

LEMMA ApplyAdvanceKeeps ==
    ASSUME Inv, NEW a \in Advances, NEW r \in Receivables, NEW amount \in Amounts,
           ApplyAdvance(a, r, amount)
    PROVE  Inv'
<1>1. TypeOK /\ Links /\ Closed /\ Solvent /\ Books /\ Traced
    BY DEF Inv
<1>2. /\ a \in DOMAIN advances /\ r \in Opened /\ applied[r][a] = 0
      /\ amount <= Available(a) /\ amount <= Outstanding(r)
      /\ applied' = [applied EXCEPT ![r][a] = amount]
      /\ advanceBalance' = advanceBalance - amount /\ outstanding' = outstanding - amount
      /\ Enter([ADVANCE_APPLIED |-> amount]) /\ Post(-amount, 0, -amount)
      /\ Recompute({r})
      /\ UNCHANGED <<opened, credited, received, paid, advances, refunded, attempts, settled, found>>
    BY DEF ApplyAdvance
<1>3. amount \in Nat \ {0} /\ amount \in Nat
    BY ReceivablesAssumption
<1>4. DOMAIN advances = 1..Len(advances) /\ a \in 1..Len(advances)
    BY <1>1, <1>2, Figures
<1>5. Effects(-amount, -amount)
    BY <1>1, <1>2, <1>3, EffectOfApplication
<1>6. gl' \in [Accounts -> Int]
    <2>1. -amount \in Int /\ 0 \in Int /\ Post(-amount, 0, -amount)
        BY <1>2, <1>3
    <2> QED
        BY <1>1, <2>1, Posted
<1>7. Outstanding(r) \in Int /\ Outstanding(r) > 0
    BY <1>1, <1>2, <1>3, Figures
<1>8. status[r] \notin Cancelled
    BY <1>1, <1>7 DEF Closed
<1>9. /\ status' \in [Receivables -> Statuses]
      /\ \A q \in Receivables : status'[q] \in Cancelled <=> status[q] \in Cancelled
      /\ \A q \in Receivables : q # r => status'[q] = status[q]
    <2>1. status \in [Receivables -> Statuses]
        BY <1>1 DEF TypeOK
    <2> QED
        BY <1>2, <1>8, <2>1, StatusRecomputed
<1>10. /\ applied \in [Receivables -> [Advances -> Nat]] /\ applied' \in [Receivables -> [Advances -> Nat]]
       /\ applied'[r][a] = amount
       /\ \A q \in Receivables : q # r => applied'[q] = applied[q]
       /\ \A b \in Advances : b # a => applied'[r][b] = applied[r][b]
    <2>1. applied \in [Receivables -> [Advances -> Nat]]
        BY <1>1 DEF TypeOK
    <2>2. applied[r] \in [Advances -> Nat]
        BY <2>1
    <2>3. applied' = [applied EXCEPT ![r] = [applied[r] EXCEPT ![a] = amount]]
        BY <1>2
    <2>4. PICK d : d = [applied[r] EXCEPT ![a] = amount]
        OBVIOUS
    <2>5. /\ d \in [Advances -> Nat] /\ d[a] = amount
          /\ \A b \in Advances : b # a => d[b] = applied[r][b]
        BY <1>3, <2>2, <2>4
    <2>6. /\ applied' \in [Receivables -> [Advances -> Nat]] /\ applied'[r] = d
          /\ \A q \in Receivables : q # r => applied'[q] = applied[q]
        BY <2>1, <2>3, <2>4, <2>5
    <2> QED
        BY <2>1, <2>5, <2>6
<1>11. TypeOK'
    <2>1. outstanding' \in Int /\ advanceBalance' \in Int /\ entries' \in [EntryKinds -> Nat]
        BY <1>1, <1>2, <1>3, <1>5 DEF TypeOK, Effects
    <2> QED
        BY <1>1, <1>2, <1>6, <1>9, <1>10, <2>1 DEF TypeOK
<1>12. Opened' = Opened
    BY <1>2 DEF Opened
<1>13. ASSUME NEW q \in Receivables
       PROVE  /\ Outstanding(q) \in Int
              /\ Outstanding(q)' = Outstanding(q) - IF q = r THEN amount ELSE 0
    <2>1. Outstanding(q) \in Int
        BY <1>1, Figures
    <2>2. CASE q # r
        <3>1. applied'[q] = applied[q] /\ paid'[q] = paid[q] /\ credited'[q] = credited[q]
            BY <1>2, <1>10, <2>2
        <3>2. Outstanding(q)' = Outstanding(q)
            BY <3>1 DEF Outstanding, Covered
        <3> QED
            BY <2>1, <2>2, <3>2
    <2>3. CASE q = r
        <3>1. PICK F : F = applied[r]
            OBVIOUS
        <3>2. PICK G : G = applied'[r]
            OBVIOUS
        <3>3. /\ F \in [Advances -> Int] /\ G \in [Advances -> Int] /\ F[a] = 0 /\ G[a] = amount
              /\ \A b \in Advances : b # a => G[b] = F[b]
            BY <1>2, <1>10, <3>1, <3>2
        <3>4. Sum(G) = Sum(F) - F[a] + G[a]
            BY <3>3, BaseSets, TotalChange
        <3>5. Sum(F) \in Nat /\ Sum(paid[r]) \in Nat /\ credited[r] \in Nat /\ AmountOf[r] \in Nat
            BY <1>1, <3>1, Figures, ReceivablesAssumption DEF TypeOK
        <3>6. Outstanding(r) = AmountOf[r] - (Sum(paid[r]) + Sum(F)) - credited[r]
            BY <3>1 DEF Outstanding, Covered
        <3>7. Outstanding(r)' = AmountOf[r] - (Sum(paid[r]) + Sum(G)) - credited[r]
            BY <1>2, <3>2 DEF Outstanding, Covered
        <3> QED
            BY <1>3, <2>1, <2>3, <3>3, <3>4, <3>5, <3>6, <3>7
    <2> QED
        BY <2>2, <2>3
<1>14. ASSUME NEW b \in Advances
       PROVE  Drawn(b) \in Nat /\ Drawn(b)' = Drawn(b) + IF b = a THEN amount ELSE 0
    <2>1. Drawn(b) \in Nat
        BY <1>1, Figures
    <2>2. PICK F : F = [q \in Receivables |-> applied[q][b]]
        OBVIOUS
    <2>3. PICK G : G = [q \in Receivables |-> applied'[q][b]]
        OBVIOUS
    <2>4. Drawn(b) = Sum(F) /\ Drawn(b)' = Sum(G)
        BY <2>2, <2>3 DEF Drawn
    <2>5. CASE b # a
        <3>1. F = G
            BY <1>10, <2>2, <2>3, <2>5
        <3> QED
            BY <2>1, <2>4, <2>5, <3>1
    <2>6. CASE b = a
        <3>1. /\ F \in [Receivables -> Int] /\ G \in [Receivables -> Int] /\ F[r] = 0 /\ G[r] = amount
              /\ \A q \in Receivables : q # r => G[q] = F[q]
            BY <1>2, <1>10, <2>2, <2>3, <2>6
        <3>2. Sum(G) = Sum(F) - F[r] + G[r]
            BY <3>1, BaseSets, TotalChange
        <3> QED
            BY <1>3, <2>1, <2>4, <2>6, <3>1, <3>2
    <2> QED
        BY <2>5, <2>6
<1>15. ASSUME NEW b \in 1..Len(advances)
       PROVE  /\ Booked(b) \in Int /\ Booked(b)' = Booked(b) - IF b = a THEN amount ELSE 0
              /\ Reserved(b) \in Nat /\ Reserved(b)' = Reserved(b)
    <2>1. /\ b \in Advances /\ Booked(b) \in Int /\ advances[b].amount \in Nat /\ refunded[b] \in Nat
          /\ Reserved(b) \in Nat
        BY <1>1, Figures DEF TypeOK
    <2>2. Booked(b) = advances[b].amount - Drawn(b) - refunded[b]
        BY DEF Booked
    <2>3. Booked(b)' = advances[b].amount - Drawn(b)' - refunded[b]
        BY <1>2 DEF Booked
    <2>4. Drawn(b) \in Nat /\ Drawn(b)' = Drawn(b) + IF b = a THEN amount ELSE 0
        BY <1>14, <2>1
    <2>5. Reserved(b)' = Reserved(b)
        BY <1>2, <2>1, AttemptsKept
    <2> QED
        BY <1>3, <2>1, <2>2, <2>3, <2>4, <2>5
<1>16. \A p \in Payments : Unapplied(p)' = Unapplied(p)
    BY <1>2 DEF Unapplied, Converted
<1>17. Links'
    <2>1. \A q \in Receivables \ Opened' : /\ status'[q] = "UNPAID" /\ credited'[q] = 0
                                           /\ \A p \in Payments : paid'[q][p] = 0
                                           /\ \A b \in Advances : applied'[q][b] = 0
        <3>1. \A q \in Receivables \ Opened' : q # r /\ q \in Receivables \ Opened
            BY <1>2, <1>12
        <3> QED
            BY <1>1, <1>2, <1>9, <1>10, <3>1 DEF Links
    <2>2. \A b \in Advances \ (1..Len(advances')) :
              refunded'[b] = 0 /\ \A q \in Receivables : applied'[q][b] = 0
        <3>1. \A b \in Advances \ (1..Len(advances)) : b # a
            BY <1>4
        <3> QED
            BY <1>1, <1>2, <1>10, <3>1 DEF Links
    <2>3. /\ \A i, j \in 1..Len(opened') : opened'[i] = opened'[j] => i = j
          /\ found' # None => /\ Len(found') <= Len(opened')
                              /\ \A i \in 1..Len(found') : found'[i] = opened'[i]
        BY <1>1, <1>2 DEF Links
    <2>4. \A p \in Payments : received'[p] = 0 =>
              /\ \A q \in Receivables : paid'[q][p] = 0
              /\ \A b \in 1..Len(advances') : advances'[b].payment # p
        BY <1>1, <1>2 DEF Links
    <2>5. /\ \A k \in RefundKeys : attempts'[k] # None => attempts'[k].advance \in 1..Len(advances')
          /\ \A b \in 1..Len(advances') :
                /\ advances'[b].source = "OPENING" => advances'[b].payment = None
                /\ advances'[b].source = "PAYMENT" => advances'[b].payment # None
        BY <1>1, <1>2 DEF Links
    <2> QED
        BY <2>1, <2>2, <2>3, <2>4, <2>5 DEF Links
<1>18. Closed'
    <2>1. SUFFICES ASSUME NEW q \in Receivables
                   PROVE  IF status'[q] \in Cancelled THEN Outstanding(q)' = 0 ELSE credited'[q] = 0
        BY DEF Closed
    <2>2. CASE status[q] \in Cancelled
        BY <1>1, <1>8, <1>9, <1>13, <2>2 DEF Closed
    <2>3. CASE status[q] \notin Cancelled
        BY <1>1, <1>2, <1>9, <2>3 DEF Closed
    <2> QED
        BY <2>2, <2>3
<1>19. Solvent'
    <2>1. \A q \in Receivables : Outstanding(q)' >= 0
        <3>1. SUFFICES ASSUME NEW q \in Receivables PROVE Outstanding(q)' >= 0
            OBVIOUS
        <3>2. Outstanding(q) >= 0
            BY <1>1 DEF Solvent
        <3> QED
            BY <1>2, <1>3, <1>13, <3>2
    <2>2. \A b \in 1..Len(advances) : Available(b)' >= 0
        <3>1. SUFFICES ASSUME NEW b \in 1..Len(advances) PROVE Available(b)' >= 0
            OBVIOUS
        <3>2. Booked(b) - Reserved(b) >= 0
            BY <1>1 DEF Solvent, Available
        <3>3. Available(b)' = Booked(b)' - Reserved(b)'
            BY DEF Available
        <3>4. amount <= Booked(a) - Reserved(a)
            BY <1>2 DEF Available
        <3> QED
            BY <1>3, <1>4, <1>15, <3>2, <3>3, <3>4
    <2> QED
        BY <1>1, <1>2, <1>16, <2>1, <2>2 DEF Solvent
<1>20. Books'
    <2>1. PICK o : o = [q \in Receivables |-> IF q = r THEN -amount ELSE 0]
        OBVIOUS
    <2>2. PICK h : h = [b \in Advances |-> IF b = a THEN -amount ELSE 0]
        OBVIOUS
    <2>3. PICK u : u = [p \in Payments |-> 0]
        OBVIOUS
    <2>4. o \in [Receivables -> Int] /\ o[r] = -amount /\ \A q \in Receivables : q # r => o[q] = 0
        BY <1>3, <2>1
    <2>5. h \in [Advances -> Int] /\ h[a] = -amount /\ \A b \in Advances : b # a => h[b] = 0
        BY <1>3, <2>2
    <2>6. u \in [Payments -> Int] /\ \A p \in Payments : u[p] = 0
        BY <2>3
    <2>7. Sum(o) = -amount
        BY <2>4, BaseSets, TotalOne
    <2>8. Sum(h) = -amount
        BY <2>5, BaseSets, TotalOne
    <2>9. Sum(u) = 0
        BY <2>6, BaseSets, TotalZero
    <2>10. \A q \in Receivables : Owing(q)' = Owing(q) + o[q]
        <3>1. SUFFICES ASSUME NEW q \in Receivables PROVE Owing(q)' = Owing(q) + o[q]
            OBVIOUS
        <3>2. CASE q \in Opened
            <4>1. Owing(q) = Outstanding(q) /\ Owing(q)' = Outstanding(q)'
                BY <1>12, <3>2 DEF Owing
            <4> QED
                BY <1>3, <1>13, <2>4, <4>1
        <3>3. CASE q \notin Opened
            <4>1. Owing(q) = 0 /\ Owing(q)' = 0 /\ q # r
                BY <1>2, <1>12, <3>3 DEF Owing
            <4> QED
                BY <2>4, <4>1
        <3> QED
            BY <3>2, <3>3
    <2>11. \A b \in Advances : Held(b)' = Held(b) + h[b]
        <3>1. SUFFICES ASSUME NEW b \in Advances PROVE Held(b)' = Held(b) + h[b]
            OBVIOUS
        <3>2. CASE b \in 1..Len(advances)
            <4>1. Held(b) = Booked(b) /\ Held(b)' = Booked(b)'
                BY <1>2, <1>4, <3>2 DEF Held
            <4> QED
                BY <1>3, <1>15, <2>5, <3>2, <4>1
        <3>3. CASE b \notin 1..Len(advances)
            <4>1. Held(b) = 0 /\ Held(b)' = 0 /\ b # a
                BY <1>2, <1>4, <3>3 DEF Held
            <4> QED
                BY <2>5, <4>1
        <3> QED
            BY <3>2, <3>3
    <2>12. \A p \in Payments : Unapplied(p)' = Unapplied(p) + u[p]
        <3>1. \A p \in Payments : Unapplied(p) \in Int
            BY <1>1, Figures
        <3> QED
            BY <1>16, <2>6, <3>1
    <2>13. /\ outstanding' = outstanding + Sum(o) /\ advanceBalance' = advanceBalance + Sum(h)
           /\ Post(Sum(o), Sum(u), Sum(h)) /\ Effects(Sum(o), Sum(h))
        <3>1. outstanding \in Int /\ advanceBalance \in Int
            BY <1>1 DEF TypeOK
        <3> QED
            BY <1>2, <1>3, <1>5, <2>7, <2>8, <2>9, <3>1
    <2> QED
        BY <1>1, <2>4, <2>5, <2>6, <2>10, <2>11, <2>12, <2>13, BooksMove
<1>21. Traced'
    <2>1. ASSUME NEW q \in Receivables, status[q] \in Cancelled
          PROVE  /\ paid'[q] = paid[q]
                 /\ \A p \in Payments : \A b \in Advances : CoverVia(p, q, b)' = CoverVia(p, q, b)
        <3>1. q # r
            BY <1>8, <2>1
        <3>2. applied'[q] = applied[q] /\ paid'[q] = paid[q]
            BY <1>2, <1>10, <3>1
        <3> QED
            BY <1>2, <3>2 DEF CoverVia
    <2>2. \A p \in Payments : \A b \in Advances : Released(p, b)' = Released(p, b)
        BY <1>2 DEF Released
    <2> QED
        BY <1>1, <1>9, <2>1, <2>2, TracedKept
<1> QED
    BY <1>11, <1>17, <1>18, <1>19, <1>20, <1>21 DEF Inv


-----------------------------------------------------------------------------
(* A payment arrives.                                                      *)

\* Every share pays a receivable of one of the three kinds.
LEMMA SharesByKind ==
    ASSUME NEW share \in [Receivables -> Nat]
    PROVE  /\ Share(share, "INVOICE") \in Nat /\ Share(share, "OPENING") \in Nat
           /\ Share(share, "CANCELLATION_CHARGE") \in Nat
           /\ Sum(share) = Share(share, "INVOICE") + Share(share, "OPENING")
                              + Share(share, "CANCELLATION_CHARGE")
<1> DEFINE Part(kind) == [r \in Receivables |-> IF KindOf[r] = kind THEN share[r] ELSE 0]
<1>1. ASSUME NEW kind
      PROVE  /\ Share(share, kind) = Sum(Part(kind)) /\ Share(share, kind) \in Nat
             /\ Part(kind) \in [Receivables -> Int]
    <2>1. PICK T : T = {q \in Receivables : KindOf[q] = kind}
        OBVIOUS
    <2>2. PICK f : f = [r \in T |-> share[r]]
        OBVIOUS
    <2>3. PICK g : g = Part(kind)
        OBVIOUS
    <2>4. /\ T \subseteq Receivables /\ f \in [T -> Int] /\ g \in [Receivables -> Int]
          /\ g \in [Receivables -> Nat]
          /\ \A r \in Receivables : g[r] = IF r \in T THEN f[r] ELSE 0
        BY <2>1, <2>2, <2>3
    <2>5. Sum(g) = Sum(f)
        BY <2>4, BaseSets, TotalOver
    <2>6. Sum(g) \in Nat
        BY <2>4, BaseSets, TotalNat
    <2>7. Share(share, kind) = Sum(f)
        BY <2>1, <2>2 DEF Share
    <2> QED
        BY <2>3, <2>4, <2>5, <2>6, <2>7
<1>2. PICK f : f = Part("INVOICE")
    OBVIOUS
<1>3. PICK g : g = Part("OPENING")
    OBVIOUS
<1>4. PICK h : h = Part("CANCELLATION_CHARGE")
    OBVIOUS
<1>5. PICK fg : fg = [r \in Receivables |-> f[r] + g[r]]
    OBVIOUS
<1>6. /\ f \in [Receivables -> Int] /\ g \in [Receivables -> Int] /\ h \in [Receivables -> Int]
    BY <1>1, <1>2, <1>3, <1>4
<1>7. /\ fg \in [Receivables -> Int] /\ \A r \in Receivables : fg[r] = f[r] + g[r]
    BY <1>5, <1>6
<1>8. \A r \in Receivables : share[r] = fg[r] + h[r]
    <2>1. SUFFICES ASSUME NEW r \in Receivables PROVE share[r] = fg[r] + h[r]
        OBVIOUS
    <2>2. KindOf[r] \in {"INVOICE", "OPENING", "CANCELLATION_CHARGE"} /\ share[r] \in Nat
        BY ReceivablesAssumption DEF Kinds
    <2>3. /\ f[r] = IF KindOf[r] = "INVOICE" THEN share[r] ELSE 0
          /\ g[r] = IF KindOf[r] = "OPENING" THEN share[r] ELSE 0
          /\ h[r] = IF KindOf[r] = "CANCELLATION_CHARGE" THEN share[r] ELSE 0
        BY <1>2, <1>3, <1>4
    <2>4. fg[r] = f[r] + g[r]
        BY <1>7
    <2> QED
        BY <2>2, <2>3, <2>4
<1>9. Sum(fg) = Sum(f) + Sum(g)
    BY <1>6, <1>7, BaseSets, TotalPlus
<1>10. share \in [Receivables -> Int]
    OBVIOUS
<1> HIDE DEF Part
<1>11. Sum(share) = Sum(fg) + Sum(h)
    <2>1. PICK s : s = share
        OBVIOUS
    <2>2. /\ s \in [Receivables -> Int] /\ fg \in [Receivables -> Int] /\ h \in [Receivables -> Int]
          /\ \A r \in Receivables : s[r] = fg[r] + h[r]
        BY <1>6, <1>7, <1>8, <1>10, <2>1
    <2>3. Sum(s) = Sum(fg) + Sum(h)
        BY ONLY <2>2, BaseSets, TotalPlus
    <2> QED
        BY <2>1, <2>3
<1>12. /\ Share(share, "INVOICE") = Sum(f) /\ Share(share, "INVOICE") \in Nat
    BY <1>1, <1>2
<1>13. /\ Share(share, "OPENING") = Sum(g) /\ Share(share, "OPENING") \in Nat
    BY <1>1, <1>3
<1>14. /\ Share(share, "CANCELLATION_CHARGE") = Sum(h) /\ Share(share, "CANCELLATION_CHARGE") \in Nat
    BY <1>1, <1>4
<1> QED
    BY <1>9, <1>11, <1>12, <1>13, <1>14

\* A payment that has not been received has no rows.
LEMMA NotYetReceived ==
    ASSUME TypeOK, Links, NEW p \in Payments, received[p] = 0
    PROVE  /\ \A r \in Receivables : paid[r][p] = 0
           /\ Sum(ConvertedOf(advances, p)) = 0
           /\ Unapplied(p) = 0
<1>1. \A r \in Receivables : paid[r][p] = 0
    BY DEF Links
<1>2. Sum(ConvertedOf(advances, p)) = 0
    <2>1. PICK F : F = ConvertedOf(advances, p)
        OBVIOUS
    <2>2. {x \in 1..Len(advances) : advances[x].source = "PAYMENT" /\ advances[x].payment = p} = {}
        BY DEF Links
    <2>3. F \in [{} -> Int] /\ IsFiniteSet({}) /\ \A x \in {} : F[x] = 0
        BY <2>1, <2>2, FS_EmptySet DEF ConvertedOf
    <2>4. Sum(F) = 0
        BY <2>3, TotalZero
    <2> QED
        BY <2>1, <2>4
<1>3. Sum([r \in Receivables |-> paid[r][p]]) = 0
    <2>1. PICK F : F = [r \in Receivables |-> paid[r][p]]
        OBVIOUS
    <2>2. F \in [Receivables -> Int] /\ \A r \in Receivables : F[r] = 0
        BY <1>1, <2>1
    <2>3. Sum(F) = 0
        BY <2>2, BaseSets, TotalZero
    <2> QED
        BY <2>1, <2>3
<1>4. Unapplied(p) = received[p] - Sum([r \in Receivables |-> paid[r][p]])
                                 - Sum(ConvertedOf(advances, p))
    BY Figures
<1> QED
    BY <1>1, <1>2, <1>3, <1>4


\* The rows a payment writes.
LEMMA PaymentRows ==
    ASSUME TypeOK, NEW p \in Payments, NEW amount \in Nat, NEW share \in [Receivables -> Nat],
           TakePayment(p, amount, share)
    PROVE  /\ paid' \in [Receivables -> [Payments -> Nat]] /\ received' \in [Payments -> Nat]
           /\ \A r \in Receivables : paid'[r][p] = share[r]
           /\ \A r \in Receivables : \A q \in Payments : q # p => paid'[r][q] = paid[r][q]
           /\ received'[p] = amount /\ \A q \in Payments : q # p => received'[q] = received[q]
<1>1. paid \in [Receivables -> [Payments -> Nat]] /\ received \in [Payments -> Nat]
    BY DEF TypeOK
<1>2. /\ received' = [received EXCEPT ![p] = amount]
      /\ paid' = [r \in Receivables |-> [paid[r] EXCEPT ![p] = share[r]]]
    BY DEF TakePayment
<1>3. \A r \in Receivables : paid[r] \in [Payments -> Nat] /\ share[r] \in Nat
    BY <1>1
<1>4. \A r \in Receivables : [paid[r] EXCEPT ![p] = share[r]] \in [Payments -> Nat]
    BY <1>3
<1>5. paid' \in [Receivables -> [Payments -> Nat]]
    BY <1>2, <1>4
<1>6. /\ \A r \in Receivables : paid'[r][p] = share[r]
      /\ \A r \in Receivables : \A q \in Payments : q # p => paid'[r][q] = paid[r][q]
    BY <1>2, <1>3
<1> QED
    BY <1>1, <1>2, <1>5, <1>6

\* What it pays is no longer owed, and the rest is unapplied.
LEMMA PaymentFigures ==
    ASSUME TypeOK, Links, NEW p \in Payments, NEW amount \in Nat,
           NEW share \in [Receivables -> Nat], TakePayment(p, amount, share)
    PROVE  /\ \A r \in Receivables : /\ Outstanding(r) \in Int
                                     /\ Outstanding(r)' = Outstanding(r) - share[r]
           /\ Unapplied(p) = 0 /\ Unapplied(p)' = amount - Sum(share)
           /\ \A q \in Payments : q # p => Unapplied(q)' = Unapplied(q)
           /\ Sum(share) \in Nat
<1>1. /\ received[p] = 0 /\ outstanding' = outstanding - Sum(share)
      /\ UNCHANGED <<credited, advances, applied>>
    BY DEF TakePayment
<1>2. /\ paid \in [Receivables -> [Payments -> Nat]] /\ paid' \in [Receivables -> [Payments -> Nat]]
      /\ received \in [Payments -> Nat]
      /\ \A r \in Receivables : paid'[r][p] = share[r]
      /\ \A r \in Receivables : \A q \in Payments : q # p => paid'[r][q] = paid[r][q]
      /\ received'[p] = amount /\ \A q \in Payments : q # p => received'[q] = received[q]
    BY PaymentRows DEF TypeOK
<1>3. /\ \A r \in Receivables : paid[r][p] = 0
      /\ Sum(ConvertedOf(advances, p)) = 0 /\ Unapplied(p) = 0
    BY <1>1, NotYetReceived
<1>4. Sum(share) \in Nat
    BY BaseSets, TotalNat
<1>5. ASSUME NEW r \in Receivables
      PROVE  Outstanding(r) \in Int /\ Outstanding(r)' = Outstanding(r) - share[r]
    <2>1. PICK F : F = paid[r]
        OBVIOUS
    <2>2. PICK G : G = paid'[r]
        OBVIOUS
    <2>3. /\ F \in [Payments -> Int] /\ G \in [Payments -> Int] /\ F[p] = 0 /\ G[p] = share[r]
          /\ \A q \in Payments : q # p => G[q] = F[q]
        BY <1>2, <1>3, <2>1, <2>2
    <2>4. Sum(G) = Sum(F) - F[p] + G[p]
        BY <2>3, BaseSets, TotalChange
    <2>5. /\ Sum(F) \in Nat /\ Sum(applied[r]) \in Nat /\ credited[r] \in Nat /\ AmountOf[r] \in Nat
          /\ Outstanding(r) \in Int /\ share[r] \in Nat
        BY <2>1, Figures, ReceivablesAssumption DEF TypeOK
    <2>6. Outstanding(r) = AmountOf[r] - (Sum(F) + Sum(applied[r])) - credited[r]
        BY <2>1 DEF Outstanding, Covered
    <2>7. Outstanding(r)' = AmountOf[r] - (Sum(G) + Sum(applied[r])) - credited[r]
        BY <1>1, <2>2 DEF Outstanding, Covered
    <2> QED
        BY <2>3, <2>4, <2>5, <2>6, <2>7
<1>6. \A q \in Payments : Unapplied(q)' = received'[q] - Sum([r \in Receivables |-> paid'[r][q]])
                                                       - Sum(ConvertedOf(advances, q))
    <2>1. DOMAIN advances = 1..Len(advances)
        BY Figures
    <2> QED
        BY <1>1, <2>1 DEF Unapplied, Converted, ConvertedOf
<1>7. Unapplied(p)' = amount - Sum(share)
    <2>1. [r \in Receivables |-> paid'[r][p]] = share
        BY <1>2
    <2> QED
        BY <1>2, <1>3, <1>4, <1>6, <2>1
<1>8. ASSUME NEW q \in Payments, q # p PROVE Unapplied(q)' = Unapplied(q)
    <2>1. [r \in Receivables |-> paid'[r][q]] = [r \in Receivables |-> paid[r][q]]
        BY <1>2, <1>8
    <2>2. received'[q] = received[q]
        BY <1>2, <1>8
    <2>3. Unapplied(q) = received[q] - Sum([r \in Receivables |-> paid[r][q]])
                                     - Sum(ConvertedOf(advances, q))
        BY Figures
    <2> QED
        BY <1>6, <2>1, <2>2, <2>3
<1> QED
    BY <1>3, <1>4, <1>5, <1>7, <1>8

LEMMA TakePaymentKeeps ==
    ASSUME Inv, NEW p \in Payments, NEW amount \in Nat \ {0}, NEW share \in [Receivables -> Nat],
           \A r \in Receivables : share[r] <= Outstanding(r),
           \A r \in Receivables : r \notin Opened => share[r] = 0,
           Sum(share) <= amount, TakePayment(p, amount, share), found' = found \/ found' = None
    PROVE  Inv'
<1>1. TypeOK /\ Links /\ Closed /\ Solvent /\ Books /\ Traced
    BY DEF Inv
<1>2. /\ received[p] = 0 /\ outstanding' = outstanding - Sum(share)
      /\ Enter(Lines(amount, share)) /\ Post(-Sum(share), amount - Sum(share), 0)
      /\ Recompute({r \in Receivables : share[r] > 0})
      /\ UNCHANGED <<opened, credited, advances, applied, refunded, attempts, settled, advanceBalance>>
    BY DEF TakePayment
<1>3. amount \in Nat
    OBVIOUS
<1>4. /\ paid' \in [Receivables -> [Payments -> Nat]] /\ received' \in [Payments -> Nat]
      /\ \A r \in Receivables : paid'[r][p] = share[r]
      /\ \A r \in Receivables : \A q \in Payments : q # p => paid'[r][q] = paid[r][q]
      /\ received'[p] = amount /\ \A q \in Payments : q # p => received'[q] = received[q]
    BY <1>1, <1>3, PaymentRows
<1>5. /\ \A r \in Receivables : /\ Outstanding(r) \in Int
                                /\ Outstanding(r)' = Outstanding(r) - share[r]
      /\ Unapplied(p) = 0 /\ Unapplied(p)' = amount - Sum(share)
      /\ \A q \in Payments : q # p => Unapplied(q)' = Unapplied(q)
      /\ Sum(share) \in Nat
    BY <1>1, <1>3, PaymentFigures
<1>6. \A r \in Receivables : status[r] \in Cancelled => share[r] = 0
    <2>1. SUFFICES ASSUME NEW r \in Receivables, status[r] \in Cancelled PROVE share[r] = 0
        OBVIOUS
    <2>2. Outstanding(r) = 0 /\ share[r] <= Outstanding(r) /\ share[r] \in Nat
        BY <1>1, <2>1 DEF Closed
    <2> QED
        BY <2>2
<1>7. /\ status' \in [Receivables -> Statuses]
      /\ \A r \in Receivables : status'[r] \in Cancelled <=> status[r] \in Cancelled
      /\ \A r \in Receivables : share[r] = 0 => status'[r] = status[r]
    <2>1. status \in [Receivables -> Statuses]
        BY <1>1 DEF TypeOK
    <2>2. PICK changed : changed = {r \in Receivables : share[r] > 0}
        OBVIOUS
    <2>3. Recompute(changed) /\ \A r \in changed : status[r] \notin Cancelled
        BY <1>2, <1>6, <2>2
    <2>4. /\ status' \in [Receivables -> Statuses]
          /\ \A r \in Receivables : status'[r] \in Cancelled <=> status[r] \in Cancelled
          /\ \A r \in Receivables : r \notin changed => status'[r] = status[r]
        BY <2>1, <2>3, StatusRecomputed
    <2> QED
        BY <2>2, <2>4
<1>8. Effects(-Sum(share), 0)
    <2>1. /\ Share(share, "INVOICE") \in Nat /\ Share(share, "OPENING") \in Nat
          /\ Share(share, "CANCELLATION_CHARGE") \in Nat
          /\ Sum(share) = Share(share, "INVOICE") + Share(share, "OPENING")
                             + Share(share, "CANCELLATION_CHARGE")
        BY SharesByKind
    <2>2. PICK x : x = Share(share, "INVOICE")
        OBVIOUS
    <2>3. PICK y : y = Share(share, "OPENING")
        OBVIOUS
    <2>4. PICK z : z = Share(share, "CANCELLATION_CHARGE")
        OBVIOUS
    <2>5. Enter([PAYMENT |-> amount, PAYMENT_ALLOCATION |-> x,
                 OPENING_RECEIVABLE_PAYMENT_APPLIED |-> y,
                 CANCELLATION_CHARGE_PAYMENT_APPLIED |-> z])
        BY <1>2, <2>2, <2>3, <2>4 DEF Lines
    <2>6. x \in Nat /\ y \in Nat /\ z \in Nat /\ Sum(share) = x + y + z
        BY <2>1, <2>2, <2>3, <2>4
    <2>7. Effects(-(x + y + z), 0)
        BY <1>1, <1>3, <2>5, <2>6, EffectOfPayment
    <2> QED
        BY <2>6, <2>7
<1>9. gl' \in [Accounts -> Int]
    <2>1. PICK s : s = Sum(share)
        OBVIOUS
    <2>2. s \in Nat /\ -s \in Int /\ amount - s \in Int /\ 0 \in Int /\ Post(-s, amount - s, 0)
        BY <1>2, <1>3, <1>5, <2>1
    <2> QED
        BY <1>1, <2>2, Posted
<1>10. TypeOK'
    <2>1. outstanding' \in Int /\ entries' \in [EntryKinds -> Nat]
        BY <1>1, <1>2, <1>5, <1>8 DEF TypeOK, Effects
    <2>2. found' \in Seq(Receivables) \cup {None}
        BY <1>1 DEF TypeOK
    <2> QED
        BY <1>1, <1>2, <1>4, <1>7, <1>9, <2>1, <2>2 DEF TypeOK
<1>11. Opened' = Opened
    BY <1>2 DEF Opened
<1>12. /\ \A a \in Advances : Held(a)' = Held(a) /\ Booked(a)' = Booked(a)
       /\ \A a \in Advances : Reserved(a)' = Reserved(a)
       /\ \A a \in 1..Len(advances) : a \in Advances
    <2>1. \A a \in Advances : Drawn(a)' = Drawn(a)
        BY <1>2 DEF Drawn
    <2>2. \A a \in Advances : Booked(a)' = Booked(a)
        BY <1>2, <2>1 DEF Booked
    <2>3. \A a \in Advances : Held(a)' = Held(a)
        BY <1>2, <2>2 DEF Held
    <2>4. \A a \in Advances : Reserved(a)' = Reserved(a)
        BY <1>2, AttemptsKept
    <2>5. \A a \in 1..Len(advances) : a \in Advances
        BY <1>1, Figures
    <2> QED
        BY <2>2, <2>3, <2>4, <2>5
<1>13. Links'
    <2>1. \A r \in Receivables \ Opened' : /\ status'[r] = "UNPAID" /\ credited'[r] = 0
                                           /\ \A q \in Payments : paid'[r][q] = 0
                                           /\ \A a \in Advances : applied'[r][a] = 0
        <3>1. SUFFICES ASSUME NEW r \in Receivables, r \notin Opened
                       PROVE  /\ status'[r] = "UNPAID" /\ credited'[r] = 0
                              /\ \A q \in Payments : paid'[r][q] = 0
                              /\ \A a \in Advances : applied'[r][a] = 0
            BY <1>11
        <3>2. /\ status[r] = "UNPAID" /\ credited[r] = 0 /\ \A q \in Payments : paid[r][q] = 0
              /\ \A a \in Advances : applied[r][a] = 0
            BY <1>1, <3>1 DEF Links
        <3>3. share[r] = 0
            BY <3>1
        <3> QED
            BY <1>2, <1>4, <1>7, <3>2, <3>3
    <2>2. \A q \in Payments : received'[q] = 0 =>
              /\ \A r \in Receivables : paid'[r][q] = 0
              /\ \A a \in 1..Len(advances') : advances'[a].payment # q
        <3>1. SUFFICES ASSUME NEW q \in Payments, received'[q] = 0
                       PROVE  /\ \A r \in Receivables : paid'[r][q] = 0
                              /\ \A a \in 1..Len(advances') : advances'[a].payment # q
            OBVIOUS
        <3>2. q # p /\ received[q] = 0
            BY <1>4, <3>1
        <3>3. /\ \A r \in Receivables : paid[r][q] = 0
              /\ \A a \in 1..Len(advances) : advances[a].payment # q
            BY <1>1, <3>2 DEF Links
        <3>4. \A r \in Receivables : paid'[r][q] = 0
            BY <1>4, <3>2, <3>3
        <3> QED
            BY <1>2, <3>3, <3>4
    <2>3. /\ \A i, j \in 1..Len(opened') : opened'[i] = opened'[j] => i = j
          /\ found' # None => /\ Len(found') <= Len(opened')
                              /\ \A i \in 1..Len(found') : found'[i] = opened'[i]
        BY <1>1, <1>2 DEF Links
    <2>4. /\ \A k \in RefundKeys : attempts'[k] # None => attempts'[k].advance \in 1..Len(advances')
          /\ \A a \in 1..Len(advances') :
                /\ advances'[a].source = "OPENING" => advances'[a].payment = None
                /\ advances'[a].source = "PAYMENT" => advances'[a].payment # None
          /\ \A a \in Advances \ (1..Len(advances')) :
                refunded'[a] = 0 /\ \A r \in Receivables : applied'[r][a] = 0
        BY <1>1, <1>2 DEF Links
    <2> QED
        BY <2>1, <2>2, <2>3, <2>4 DEF Links
<1>14. Closed'
    <2>1. SUFFICES ASSUME NEW r \in Receivables
                   PROVE  IF status'[r] \in Cancelled THEN Outstanding(r)' = 0 ELSE credited'[r] = 0
        BY DEF Closed
    <2>2. CASE status[r] \in Cancelled
        BY <1>1, <1>5, <1>6, <1>7, <2>2 DEF Closed
    <2>3. CASE status[r] \notin Cancelled
        BY <1>1, <1>2, <1>7, <2>3 DEF Closed
    <2> QED
        BY <2>2, <2>3
<1>15. Solvent'
    <2>1. \A r \in Receivables : Outstanding(r)' >= 0
        BY <1>5
    <2>2. \A q \in Payments : Unapplied(q)' >= 0
        <3>1. SUFFICES ASSUME NEW q \in Payments PROVE Unapplied(q)' >= 0
            OBVIOUS
        <3>2. CASE q = p
            BY <1>3, <1>5, <3>2
        <3>3. CASE q # p
            BY <1>1, <1>5, <3>3 DEF Solvent
        <3> QED
            BY <3>2, <3>3
    <2>3. \A a \in 1..Len(advances) : Available(a)' >= 0
        <3>1. \A a \in 1..Len(advances) : Available(a)' = Available(a)
            BY <1>12 DEF Available
        <3> QED
            BY <1>1, <3>1 DEF Solvent
    <2> QED
        BY <1>2, <2>1, <2>2, <2>3 DEF Solvent
<1>16. Books'
    <2>1. PICK o : o = [r \in Receivables |-> -share[r]]
        OBVIOUS
    <2>2. PICK h : h = [a \in Advances |-> 0]
        OBVIOUS
    <2>3. PICK u : u = [q \in Payments |-> IF q = p THEN amount - Sum(share) ELSE 0]
        OBVIOUS
    <2>4. o \in [Receivables -> Int] /\ \A r \in Receivables : o[r] = -share[r]
        BY <2>1
    <2>5. h \in [Advances -> Int] /\ \A a \in Advances : h[a] = 0
        BY <2>2
    <2>6. /\ u \in [Payments -> Int] /\ u[p] = amount - Sum(share)
          /\ \A q \in Payments : q # p => u[q] = 0
        BY <1>3, <1>5, <2>3
    <2>7. Sum(o) = -Sum(share)
        <3>1. PICK z : z = [r \in Receivables |-> 0]
            OBVIOUS
        <3>2. PICK s : s = share
            OBVIOUS
        <3>3. z \in [Receivables -> Int] /\ \A r \in Receivables : z[r] = 0
            BY <3>1
        <3>4. /\ s \in [Receivables -> Int] /\ \A r \in Receivables : z[r] = s[r] + o[r]
            BY <2>4, <3>2, <3>3
        <3>5. Sum(z) = Sum(s) + Sum(o)
            BY <2>4, <3>3, <3>4, BaseSets, TotalPlus
        <3>6. Sum(z) = 0
            BY <3>3, BaseSets, TotalZero
        <3>7. Sum(o) \in Int
            BY <2>4, BaseSets, TotalInt
        <3> QED
            BY <1>5, <3>2, <3>5, <3>6, <3>7
    <2>8. Sum(h) = 0
        BY <2>5, BaseSets, TotalZero
    <2>9. Sum(u) = amount - Sum(share)
        <3>1. Sum(u) = u[p]
            BY <2>6, BaseSets, TotalOne
        <3> QED
            BY <2>6, <3>1
    <2>10. \A r \in Receivables : Owing(r)' = Owing(r) + o[r]
        <3>1. SUFFICES ASSUME NEW r \in Receivables PROVE Owing(r)' = Owing(r) + o[r]
            OBVIOUS
        <3>2. o[r] = -share[r] /\ share[r] \in Nat
            BY <2>4
        <3>3. CASE r \in Opened
            <4>1. Owing(r) = Outstanding(r) /\ Owing(r)' = Outstanding(r)'
                BY <1>11, <3>3 DEF Owing
            <4> QED
                BY <1>5, <3>2, <4>1
        <3>4. CASE r \notin Opened
            <4>1. Owing(r) = 0 /\ Owing(r)' = 0 /\ share[r] = 0
                BY <1>11, <3>4 DEF Owing
            <4> QED
                BY <3>2, <4>1
        <3> QED
            BY <3>3, <3>4
    <2>11. \A a \in Advances : Held(a)' = Held(a) + h[a]
        BY <1>1, <1>12, <2>5, MoreFigures
    <2>12. \A q \in Payments : Unapplied(q)' = Unapplied(q) + u[q]
        <3>1. SUFFICES ASSUME NEW q \in Payments PROVE Unapplied(q)' = Unapplied(q) + u[q]
            OBVIOUS
        <3>2. Unapplied(q) \in Int
            BY <1>1, Figures
        <3>3. CASE q = p
            BY <1>3, <1>5, <2>6, <3>3
        <3>4. CASE q # p
            BY <1>5, <2>6, <3>2, <3>4
        <3> QED
            BY <3>3, <3>4
    <2>13. /\ outstanding' = outstanding + Sum(o) /\ advanceBalance' = advanceBalance + Sum(h)
           /\ Post(Sum(o), Sum(u), Sum(h)) /\ Effects(Sum(o), Sum(h))
        <3>1. outstanding \in Int /\ advanceBalance \in Int
            BY <1>1 DEF TypeOK
        <3> QED
            BY <1>2, <1>5, <1>8, <2>7, <2>8, <2>9, <3>1
    <2> QED
        BY <1>1, <2>4, <2>5, <2>6, <2>10, <2>11, <2>12, <2>13, BooksMove
<1>17. Traced'
    <2>1. ASSUME NEW r \in Receivables, status[r] \in Cancelled PROVE paid'[r] = paid[r]
        <3>1. paid[r] \in [Payments -> Nat] /\ paid'[r] \in [Payments -> Nat]
            BY <1>1, <1>4 DEF TypeOK
        <3>2. share[r] = 0 /\ paid[r][p] = 0
            BY <1>1, <1>2, <1>6, <2>1 DEF Links
        <3>3. \A q \in Payments : paid'[r][q] = paid[r][q]
            BY <1>4, <3>2
        <3> QED
            BY <3>1, <3>3
    <2>2. \A r \in Receivables : \A q \in Payments : \A a \in Advances :
              CoverVia(q, r, a)' = CoverVia(q, r, a)
        BY <1>2 DEF CoverVia
    <2>3. \A q \in Payments : \A a \in Advances : Released(q, a)' = Released(q, a)
        BY <1>2 DEF Released
    <2> QED
        BY <1>1, <1>7, <2>1, <2>2, <2>3, TracedKept
<1> QED
    BY <1>10, <1>13, <1>14, <1>15, <1>16, <1>17 DEF Inv


LEMMA PayInvoiceKeeps ==
    ASSUME Inv, NEW p \in Payments, NEW r \in Receivables, NEW amount \in Amounts,
           PayInvoice(p, r, amount)
    PROVE  Inv'
<1>1. TypeOK /\ Links /\ Solvent
    BY DEF Inv
<1>2. PICK share : share = [q \in Receivables |-> IF q = r THEN amount ELSE 0]
    OBVIOUS
<1>3. /\ r \in Opened /\ amount <= Outstanding(r) /\ TakePayment(p, amount, share) /\ found' = found
    BY <1>2 DEF PayInvoice
<1>4. amount \in Nat \ {0}
    BY ReceivablesAssumption
<1>5. /\ share \in [Receivables -> Nat] /\ share \in [Receivables -> Int] /\ share[r] = amount
      /\ \A q \in Receivables : q # r => share[q] = 0
    BY <1>2, <1>4
<1>6. Sum(share) = amount
    <2>1. Sum(share) = share[r]
        BY <1>5, BaseSets, TotalOne
    <2> QED
        BY <1>5, <2>1
<1>7. \A q \in Receivables : share[q] <= Outstanding(q)
    BY <1>1, <1>3, <1>5 DEF Solvent
<1>8. \A q \in Receivables : q \notin Opened => share[q] = 0
    BY <1>3, <1>5
<1>9. Sum(share) <= amount
    BY <1>4, <1>6
<1> QED
    BY <1>3, <1>4, <1>5, <1>7, <1>8, <1>9, TakePaymentKeeps

-----------------------------------------------------------------------------
(* A receipt pays the oldest first.                                        *)

\* What the first k candidates owe.
Leading(k) == {found[i] : i \in 1..k}
OwedBy(k) == Sum([q \in Leading(k) |-> Outstanding(q)])

\* The candidates are different receivables that exist.
LEMMA Candidates ==
    ASSUME TypeOK, Links, found # None
    PROVE  /\ Len(found) \in Nat /\ DOMAIN found = 1..Len(found)
           /\ Range(found) = Leading(Len(found)) /\ Range(found) \subseteq Opened
           /\ \A i \in 1..Len(found) : found[i] \in Receivables
           /\ \A i, j \in 1..Len(found) : found[i] = found[j] => i = j
           /\ Opened \subseteq Receivables
<1>1. found \in Seq(Receivables) /\ opened \in Seq(Receivables)
    BY DEF TypeOK
<1>2. /\ Len(found) \in Nat /\ DOMAIN found = 1..Len(found)
      /\ \A i \in 1..Len(found) : found[i] \in Receivables
    BY <1>1
<1>3. Len(found) <= Len(opened) /\ \A i \in 1..Len(found) : found[i] = opened[i]
    BY DEF Links
<1>4. Opened = {opened[i] : i \in 1..Len(opened)} /\ Opened \subseteq Receivables
    BY <1>1, OpenedRange
<1>5. \A i \in 1..Len(found) : i \in 1..Len(opened)
    BY <1>1, <1>2, <1>3
<1>6. Range(found) = Leading(Len(found))
    BY <1>2 DEF Range, Leading
<1>7. Range(found) \subseteq Opened
    BY <1>3, <1>4, <1>5, <1>6 DEF Leading
<1>8. \A i, j \in 1..Len(found) : found[i] = found[j] => i = j
    BY <1>3, <1>5 DEF Links
<1> QED
    BY <1>2, <1>4, <1>6, <1>7, <1>8

\* The first candidates' debt grows by one of them at a time.
LEMMA OwedByNext ==
    ASSUME TypeOK, Links, Solvent, found # None
    PROVE  /\ OwedBy(0) = 0
           /\ \A k \in 0..Len(found) : OwedBy(k) \in Nat
           /\ \A k \in 0..(Len(found) - 1) : OwedBy(k + 1) = OwedBy(k) + Outstanding(found[k + 1])
<1>1. /\ Len(found) \in Nat /\ \A i \in 1..Len(found) : found[i] \in Receivables
      /\ \A i, j \in 1..Len(found) : found[i] = found[j] => i = j
    BY Candidates
<1>2. PICK F : F = [r \in Receivables |-> Outstanding(r)]
    OBVIOUS
<1>3. \A r \in Receivables : Outstanding(r) \in Nat /\ F[r] = Outstanding(r)
    BY <1>2, Figures DEF Solvent
<1>4. \A k \in 0..Len(found) : IsFiniteSet(Leading(k)) /\ Leading(k) \subseteq Receivables
    <2>1. SUFFICES ASSUME NEW k \in 0..Len(found)
                   PROVE  IsFiniteSet(Leading(k)) /\ Leading(k) \subseteq Receivables
        OBVIOUS
    <2>2. Leading(k) \subseteq Receivables
        BY <1>1 DEF Leading
    <2>3. IsFiniteSet(Receivables)
        BY BaseSets
    <2> QED
        BY <2>2, <2>3, FS_Subset
<1>5. \A k \in 0..Len(found) : OwedBy(k) = SumFunctionOnSet(F, Leading(k))
    <2>1. SUFFICES ASSUME NEW k \in 0..Len(found) PROVE OwedBy(k) = SumFunctionOnSet(F, Leading(k))
        OBVIOUS
    <2>2. PICK G : G = [q \in Leading(k) |-> Outstanding(q)]
        OBVIOUS
    <2>3. DOMAIN G = Leading(k) /\ IsFiniteSet(Leading(k)) /\ \A q \in Leading(k) : F[q] = G[q]
        BY <1>3, <1>4, <2>2
    <2>4. SumFunctionOnSet(F, Leading(k)) = SumFunctionOnSet(G, Leading(k))
        BY <2>3, SumSame
    <2>5. Sum(G) = SumFunctionOnSet(G, Leading(k))
        BY <2>3, TotalIs
    <2> QED
        BY <2>2, <2>4, <2>5 DEF OwedBy
<1>6. OwedBy(0) = 0
    <2>1. Leading(0) = {}
        BY DEF Leading
    <2>2. SumFunctionOnSet(F, Leading(0)) = 0
        BY <2>1, FS_EmptySet, SumZero
    <2> QED
        BY <1>1, <1>5, <2>2
<1>7. \A k \in 0..Len(found) : OwedBy(k) \in Nat
    <2>1. SUFFICES ASSUME NEW k \in 0..Len(found) PROVE OwedBy(k) \in Nat
        OBVIOUS
    <2>2. IsFiniteSet(Leading(k)) /\ \A q \in Leading(k) : F[q] \in Nat
        BY <1>3, <1>4
    <2>3. SumFunctionOnSet(F, Leading(k)) \in Nat
        BY <2>2, SumNat
    <2> QED
        BY <1>5, <2>3
<1>8. ASSUME NEW k \in 0..(Len(found) - 1)
      PROVE  OwedBy(k + 1) = OwedBy(k) + Outstanding(found[k + 1])
    <2>1. k \in 0..Len(found) /\ k + 1 \in 0..Len(found) /\ k + 1 \in 1..Len(found) /\ k \in Nat
        BY <1>1
    <2>2. PICK x : x = found[k + 1]
        OBVIOUS
    <2>3. x \in Receivables
        BY <1>1, <2>1, <2>2
    <2>4. x \notin Leading(k)
        <3>1. \A i \in 1..k : i \in 1..Len(found) /\ i # k + 1
            BY <1>1, <2>1
        <3> QED
            BY <1>1, <2>1, <2>2, <3>1 DEF Leading
    <2>5. Leading(k + 1) = Leading(k) \cup {x}
        <3>1. 1..(k + 1) = 1..k \cup {k + 1}
            BY <2>1
        <3> QED
            BY <2>2, <3>1 DEF Leading
    <2>6. PICK T : T = Leading(k)
        OBVIOUS
    <2>7. IsFiniteSet(T) /\ x \notin T /\ \A q \in T \cup {x} : F[q] \in Int
        BY <1>3, <1>4, <2>1, <2>3, <2>4, <2>6
    <2>8. SumFunctionOnSet(F, T \cup {x}) = SumFunctionOnSet(F, T) + F[x]
        BY <2>7, SumAdd
    <2> QED
        BY <1>3, <1>5, <2>1, <2>2, <2>3, <2>5, <2>6, <2>8
<1> QED
    BY <1>6, <1>7, <1>8


\* What is ahead of a candidate is what those before it owe.
LEMMA AheadIs ==
    ASSUME TypeOK, Links, found # None, NEW k \in 1..Len(found)
    PROVE  Ahead(found[k]) = OwedBy(k - 1)
<1>1. /\ Len(found) \in Nat /\ \A i, j \in 1..Len(found) : found[i] = found[j] => i = j
    BY Candidates
<1>2. {i \in 1..Len(found) : found[i] = found[k]} = {k}
    BY <1>1
<1>3. Min({k}) = k
    BY <1>1 DEF Min
<1>4. SelectInSeq(found, LAMBDA x : x = found[k]) = k
    BY <1>2, <1>3 DEF SelectInSeq
<1> QED
    BY <1>4 DEF Ahead, OwedBy, Leading

\* A receipt gives every candidate what it owes until the amount is used up.
LEMMA FifoShares ==
    ASSUME TypeOK, Links, Solvent, found # None, NEW amount \in Nat
    PROVE  /\ Fifo(amount) \in [Receivables -> Nat]
           /\ \A r \in Receivables : Fifo(amount)[r] <= Outstanding(r)
           /\ \A r \in Receivables : r \notin Range(found) => Fifo(amount)[r] = 0
           /\ \A k \in 1..Len(found) :
                 Fifo(amount)[found[k]] = IF OwedBy(k - 1) >= amount THEN 0
                                          ELSE IF Outstanding(found[k]) < amount - OwedBy(k - 1)
                                               THEN Outstanding(found[k])
                                               ELSE amount - OwedBy(k - 1)
<1>1. /\ Len(found) \in Nat /\ Range(found) = Leading(Len(found))
      /\ \A i \in 1..Len(found) : found[i] \in Receivables
    BY Candidates
<1>2. \A r \in Receivables : Outstanding(r) \in Nat
    BY Figures DEF Solvent
<1>3. \A k \in 1..Len(found) : k - 1 \in 0..Len(found)
    BY <1>1
<1>4. \A k \in 1..Len(found) : OwedBy(k - 1) \in Nat
    BY <1>3, OwedByNext
<1>5. \A k \in 1..Len(found) : found[k] \in Range(found)
    BY <1>1 DEF Leading
<1>6. PICK f : f = Fifo(amount)
    OBVIOUS
<1>7. f = [r \in Receivables |->
             IF r \notin Range(found) \/ Ahead(r) >= amount THEN 0
             ELSE IF Outstanding(r) < amount - Ahead(r) THEN Outstanding(r) ELSE amount - Ahead(r)]
    BY <1>6 DEF Fifo
<1>8. ASSUME NEW k \in 1..Len(found)
      PROVE  /\ f[found[k]] = IF OwedBy(k - 1) >= amount THEN 0
                              ELSE IF Outstanding(found[k]) < amount - OwedBy(k - 1)
                                   THEN Outstanding(found[k]) ELSE amount - OwedBy(k - 1)
             /\ f[found[k]] \in Nat /\ f[found[k]] <= Outstanding(found[k])
    <2>1. PICK r : r = found[k]
        OBVIOUS
    <2>2. r \in Receivables /\ r \in Range(found) /\ Outstanding(r) \in Nat
        BY <1>1, <1>2, <1>5, <2>1
    <2>3. Ahead(r) = OwedBy(k - 1)
        BY <2>1, AheadIs
    <2>4. PICK n : n = OwedBy(k - 1)
        OBVIOUS
    <2>5. n \in Nat
        BY <1>4, <2>4
    <2>6. f[r] = IF n >= amount THEN 0
                 ELSE IF Outstanding(r) < amount - n THEN Outstanding(r) ELSE amount - n
        BY <1>7, <2>2, <2>3, <2>4
    <2> QED
        BY <2>1, <2>2, <2>4, <2>5, <2>6
<1>9. \A r \in Receivables : r \notin Range(found) => f[r] = 0
    BY <1>7
<1>10. \A r \in Receivables : f[r] \in Nat /\ f[r] <= Outstanding(r)
    <2>1. SUFFICES ASSUME NEW r \in Receivables PROVE f[r] \in Nat /\ f[r] <= Outstanding(r)
        OBVIOUS
    <2>2. CASE r \in Range(found)
        <3>1. PICK k \in 1..Len(found) : r = found[k]
            BY <1>1, <2>2 DEF Leading
        <3> QED
            BY <1>8, <3>1
    <2>3. CASE r \notin Range(found)
        BY <1>2, <1>9, <2>3
    <2> QED
        BY <2>2, <2>3
<1>11. f \in [Receivables -> Nat]
    <2>1. f = [r \in Receivables |-> f[r]]
        BY <1>7
    <2> QED
        BY <1>10, <2>1
<1> QED
    BY <1>6, <1>8, <1>9, <1>10, <1>11

\* It never gives more than the amount.
LEMMA FifoTotal ==
    ASSUME TypeOK, Links, Solvent, found # None, NEW amount \in Nat
    PROVE  Sum(Fifo(amount)) <= amount
<1>1. /\ Len(found) \in Nat /\ Range(found) = Leading(Len(found))
      /\ \A i \in 1..Len(found) : found[i] \in Receivables
      /\ \A i, j \in 1..Len(found) : found[i] = found[j] => i = j
    BY Candidates
<1>2. PICK f : f = Fifo(amount)
    OBVIOUS
<1>3. /\ f \in [Receivables -> Nat]
      /\ \A r \in Receivables : r \notin Range(found) => f[r] = 0
      /\ \A k \in 1..Len(found) :
             f[found[k]] = IF OwedBy(k - 1) >= amount THEN 0
                           ELSE IF Outstanding(found[k]) < amount - OwedBy(k - 1)
                                THEN Outstanding(found[k]) ELSE amount - OwedBy(k - 1)
    BY <1>2, FifoShares
<1>4. \A r \in Receivables : Outstanding(r) \in Nat
    BY Figures DEF Solvent
<1>5. \A k \in Nat : k <= Len(found) => IsFiniteSet(Leading(k)) /\ Leading(k) \subseteq Receivables
    <2>1. SUFFICES ASSUME NEW k \in Nat, k <= Len(found)
                   PROVE  IsFiniteSet(Leading(k)) /\ Leading(k) \subseteq Receivables
        OBVIOUS
    <2>2. Leading(k) \subseteq Receivables
        BY <1>1, <2>1 DEF Leading
    <2>3. IsFiniteSet(Receivables)
        BY BaseSets
    <2> QED
        BY <2>2, <2>3, FS_Subset
<1> DEFINE Given(k) == SumFunctionOnSet(f, Leading(k))
           P == {k \in Nat : k <= Len(found) =>
                   Given(k) = IF OwedBy(k) <= amount THEN OwedBy(k) ELSE amount}
<1>6. 0 \in P
    <2>1. Leading(0) = {}
        BY DEF Leading
    <2>2. Given(0) = 0
        BY <2>1, FS_EmptySet, SumZero
    <2>3. OwedBy(0) = 0
        BY OwedByNext
    <2> QED
        BY <2>2, <2>3
<1>7. ASSUME NEW k \in P PROVE k + 1 \in P
    <2>1. SUFFICES ASSUME k + 1 <= Len(found)
                   PROVE  Given(k + 1) = IF OwedBy(k + 1) <= amount THEN OwedBy(k + 1) ELSE amount
        OBVIOUS
    <2>2. k \in Nat /\ k <= Len(found) /\ k + 1 \in 1..Len(found) /\ k \in 0..(Len(found) - 1)
          /\ k \in 0..Len(found)
        BY <1>1, <2>1
    <2>3. Given(k) = IF OwedBy(k) <= amount THEN OwedBy(k) ELSE amount
        BY <2>2
    <2>4. PICK x : x = found[k + 1]
        OBVIOUS
    <2>5. x \in Receivables
        BY <1>1, <2>2, <2>4
    <2>6. OwedBy(k) \in Nat /\ OwedBy(k + 1) = OwedBy(k) + Outstanding(x)
        BY <2>2, <2>4, OwedByNext
    <2>7. x \notin Leading(k)
        <3>1. \A i \in 1..k : i \in 1..Len(found) /\ i # k + 1
            BY <1>1, <2>2
        <3> QED
            BY <1>1, <2>2, <2>4, <3>1 DEF Leading
    <2>8. Leading(k + 1) = Leading(k) \cup {x}
        <3>1. 1..(k + 1) = 1..k \cup {k + 1}
            BY <2>2
        <3> QED
            BY <2>4, <3>1 DEF Leading
    <2>9. PICK T : T = Leading(k)
        OBVIOUS
    <2>10. IsFiniteSet(T) /\ x \notin T /\ \A q \in T \cup {x} : f[q] \in Int
        BY <1>3, <1>5, <2>2, <2>5, <2>7, <2>9
    <2>11. SumFunctionOnSet(f, T \cup {x}) = SumFunctionOnSet(f, T) + f[x]
        BY <2>10, SumAdd
    <2>12. Given(k + 1) = Given(k) + f[x]
        BY <2>8, <2>9, <2>11
    <2>13. k + 1 - 1 = k
        BY <2>2
    <2>14. f[x] = IF OwedBy(k) >= amount THEN 0
                  ELSE IF Outstanding(x) < amount - OwedBy(k) THEN Outstanding(x)
                       ELSE amount - OwedBy(k)
        BY <1>3, <2>2, <2>4, <2>13
    <2>15. Outstanding(x) \in Nat
        BY <1>4, <2>5
    <2> HIDE DEF Given
    <2> QED
        BY <2>3, <2>6, <2>12, <2>14, <2>15
<1>8. P = Nat
    <2>1. P \subseteq Nat /\ \A k \in P : k + 1 \in P
        BY <1>7
    <2> HIDE DEF P
    <2> QED
        BY <1>6, <2>1, Induct
<1>9. Len(found) \in P
    BY <1>1, <1>8
<1>10. Given(Len(found)) <= amount
    <2>1. Given(Len(found)) = IF OwedBy(Len(found)) <= amount THEN OwedBy(Len(found)) ELSE amount
        BY <1>1, <1>9
    <2> HIDE DEF Given
    <2> QED
        BY <2>1
<1>11. Sum(f) = Given(Len(found))
    <2>1. PICK T : T = Leading(Len(found))
        OBVIOUS
    <2>2. /\ T \subseteq Receivables /\ \A r \in T : f[r] \in Int
          /\ \A r \in Receivables : f[r] = IF r \in T THEN f[r] ELSE 0
        BY <1>1, <1>3, <1>5, <2>1
    <2>3. IsFiniteSet(Receivables)
        BY BaseSets
    <2>4. SumFunctionOnSet(f, Receivables) = SumFunctionOnSet(f, T)
        BY ONLY <2>2, <2>3, SumOver
    <2>5. Sum(f) = SumFunctionOnSet(f, Receivables)
        BY <1>3, TotalIs
    <2> QED
        BY <2>1, <2>4, <2>5
<1> QED
    BY <1>2, <1>10, <1>11


LEMMA CollectKeeps ==
    ASSUME Inv, NEW p \in Payments, NEW amount \in Amounts, Collect(p, amount)
    PROVE  Inv'
<1>1. TypeOK /\ Links /\ Solvent
    BY DEF Inv
<1>2. found # None /\ TakePayment(p, amount, Fifo(amount)) /\ found' = None
    BY DEF Collect
<1>3. amount \in Nat \ {0} /\ amount \in Nat
    BY ReceivablesAssumption
<1>4. PICK share : share = Fifo(amount)
    OBVIOUS
<1>5. /\ share \in [Receivables -> Nat] /\ \A r \in Receivables : share[r] <= Outstanding(r)
      /\ \A r \in Receivables : r \notin Range(found) => share[r] = 0
    BY <1>1, <1>2, <1>3, <1>4, FifoShares
<1>6. \A r \in Receivables : r \notin Opened => share[r] = 0
    BY <1>1, <1>2, <1>5, Candidates
<1>7. Sum(share) <= amount
    BY <1>1, <1>2, <1>3, <1>4, FifoTotal
<1>8. TakePayment(p, amount, share)
    BY <1>2, <1>4
<1> QED
    BY <1>2, <1>3, <1>5, <1>6, <1>7, <1>8, TakePaymentKeeps

\* The older candidates owe less than all that are ahead of a younger one.
LEMMA OwedByGrows ==
    ASSUME TypeOK, Links, Solvent, found # None, NEW i \in 0..Len(found), NEW k \in 0..Len(found),
           i <= k
    PROVE  OwedBy(i) <= OwedBy(k)
<1>1. /\ Len(found) \in Nat /\ \A j \in 1..Len(found) : found[j] \in Receivables
    BY Candidates
<1>2. \A r \in Receivables : Outstanding(r) \in Nat
    BY Figures DEF Solvent
<1>3. PICK S : S = Leading(k)
    OBVIOUS
<1>4. PICK T : T = Leading(i)
    OBVIOUS
<1>5. S \subseteq Receivables
    BY <1>1, <1>3 DEF Leading
<1>6. T \subseteq S
    BY <1>1, <1>3, <1>4 DEF Leading
<1>7. IsFiniteSet(S) /\ IsFiniteSet(T)
    BY <1>5, <1>6, BaseSets, FS_Subset
<1>8. PICK F : F = [q \in S |-> Outstanding(q)]
    OBVIOUS
<1>9. PICK G : G = [q \in T |-> Outstanding(q)]
    OBVIOUS
<1>10. \A q \in S : F[q] \in Nat
    BY <1>2, <1>5, <1>8
<1>11. SumFunctionOnSet(F, T) <= SumFunctionOnSet(F, S)
    BY <1>6, <1>7, <1>10, SumPart
<1>12. \A q \in T : F[q] = G[q]
    BY <1>6, <1>8, <1>9
<1>13. SumFunctionOnSet(F, T) = SumFunctionOnSet(G, T)
    BY <1>7, <1>12, SumSame
<1>14. Sum(F) = SumFunctionOnSet(F, S) /\ Sum(G) = SumFunctionOnSet(G, T)
    BY <1>8, <1>9, TotalIs
<1>15. OwedBy(k) = Sum(F) /\ OwedBy(i) = Sum(G)
    BY <1>3, <1>4, <1>8, <1>9 DEF OwedBy
<1> QED
    BY <1>11, <1>13, <1>14, <1>15

\* Whatever a candidate gets, the older ones got all they owe.
LEMMA FifoOldestFirst ==
    ASSUME TypeOK, Links, Solvent, found # None, NEW amount \in Nat,
           NEW i \in 1..Len(found), NEW j \in 1..Len(found), i < j, Fifo(amount)[found[j]] # 0
    PROVE  Fifo(amount)[found[i]] = Outstanding(found[i])
<1>1. Len(found) \in Nat /\ \A k \in 1..Len(found) : found[k] \in Receivables
    BY Candidates
<1>2. PICK f : f = Fifo(amount)
    OBVIOUS
<1>3. \A k \in 1..Len(found) :
           f[found[k]] = IF OwedBy(k - 1) >= amount THEN 0
                         ELSE IF Outstanding(found[k]) < amount - OwedBy(k - 1)
                              THEN Outstanding(found[k]) ELSE amount - OwedBy(k - 1)
    BY <1>2, FifoShares
<1>4. /\ j - 1 \in 0..Len(found) /\ i \in 0..Len(found) /\ i - 1 \in 0..(Len(found) - 1)
      /\ i - 1 \in 0..Len(found) /\ i <= j - 1 /\ i - 1 + 1 = i
    BY <1>1
<1>5. OwedBy(j - 1) \in Nat /\ OwedBy(i - 1) \in Nat /\ OwedBy(i) \in Nat
    BY <1>4, OwedByNext
<1>6. OwedBy(i) = OwedBy(i - 1) + Outstanding(found[i])
    <2>1. OwedBy(i - 1 + 1) = OwedBy(i - 1) + Outstanding(found[i - 1 + 1])
        BY <1>4, OwedByNext
    <2> QED
        BY <1>4, <2>1
<1>7. OwedBy(i) <= OwedBy(j - 1)
    BY <1>4, OwedByGrows
<1>8. OwedBy(j - 1) < amount
    <2>1. f[found[j]] # 0
        BY <1>2
    <2> QED
        BY <1>3, <1>5, <2>1
<1>9. Outstanding(found[i]) \in Nat
    BY <1>1, Figures DEF Solvent
<1>10. f[found[i]] = Outstanding(found[i])
    BY <1>3, <1>5, <1>6, <1>7, <1>8, <1>9
<1> QED
    BY <1>2, <1>10

-----------------------------------------------------------------------------
(* An invoice is cancelled.                                                *)

\* A finite set put in some order.
LEMMA InOrder ==
    ASSUME NEW S, IsFiniteSet(S)
    PROVE  /\ SetToSeq(S) \in Seq(S) /\ Len(SetToSeq(S)) \in Nat
           /\ \A i, j \in 1..Len(SetToSeq(S)) : SetToSeq(S)[i] = SetToSeq(S)[j] => i = j
           /\ {SetToSeq(S)[i] : i \in 1..Len(SetToSeq(S))} = S
<1>1. PICK n : n = Cardinality(S)
    OBVIOUS
<1>2. n \in Nat /\ ExistsBijection(1..n, S)
    BY <1>1, FS_CardinalityType
<1>3. \E f \in [1..n -> S] : IsInjective(f)
    BY <1>2 DEF ExistsBijection, Bijection, Injection
<1>4. PICK s : s = SetToSeq(S)
    OBVIOUS
<1>5. s \in [1..n -> S] /\ IsInjective(s)
    BY <1>1, <1>3, <1>4 DEF SetToSeq
<1>6. s \in Seq(S) /\ Len(s) = n
    BY <1>2, <1>5
<1>7. s \in Surjection(1..n, S)
    <2>1. s \in Injection(1..n, S)
        BY <1>5 DEF Injection
    <2>2. Cardinality(1..n) = n
        BY <1>2, FS_Interval, 1 \in Int, n \in Int
    <2>3. Cardinality(1..n) = Cardinality(S)
        BY <1>1, <2>2
    <2> QED
        BY <2>1, <2>3, FS_Injection
<1>8. {s[i] : i \in 1..n} = S
    BY <1>5, <1>7 DEF Surjection
<1>9. \A i, j \in 1..n : s[i] = s[j] => i = j
    BY <1>5 DEF IsInjective
<1> QED
    BY <1>2, <1>4, <1>6, <1>8, <1>9

\* What of the payments in W covers r, itself or by an advance that comes from it.
PaidIn(W, r)    == [p \in Payments |-> IF p \in W THEN paid[r][p] ELSE 0]
AppliedIn(W, r) == [a \in Advances |-> IF a \in 1..Len(advances) /\ advances[a].payment \in W
                                       THEN applied[r][a] ELSE 0]
AmountIn(W, x)  == IF x.payment \in W THEN x.amount ELSE 0

\* The sources of a receivable's coverage.
LEMMA SourceRows ==
    ASSUME TypeOK, NEW r \in Receivables
    PROVE  \A x \in CoverageSources(r) :
              /\ x.payment \in Payments \cup {None} /\ x.amount \in Nat \ {0}
              /\ x.payment \in Payments =>
                    paid[r][x.payment] > 0 \/ \E a \in 1..Len(advances) : advances[a].payment = x.payment
<1>1. /\ paid[r] \in [Payments -> Nat] /\ applied[r] \in [Advances -> Nat]
      /\ DOMAIN advances = 1..Len(advances)
      /\ \A a \in 1..Len(advances) : a \in Advances /\ advances[a] \in AdvanceRow
    BY Figures
<1>2. SUFFICES ASSUME NEW x \in CoverageSources(r)
               PROVE  /\ x.payment \in Payments \cup {None} /\ x.amount \in Nat \ {0}
                      /\ x.payment \in Payments =>
                            \/ paid[r][x.payment] > 0
                            \/ \E a \in 1..Len(advances) : advances[a].payment = x.payment
    OBVIOUS
<1>3. CASE \E p \in Payments : /\ paid[r][p] > 0
                               /\ x = [payment |-> p, amount |-> paid[r][p], advance |-> None]
    BY <1>1, <1>3
<1>4. CASE \E a \in 1..Len(advances) :
              /\ applied[r][a] > 0
              /\ x = [payment |-> advances[a].payment, amount |-> applied[r][a], advance |-> a]
    BY <1>1, <1>4 DEF AdvanceRow
<1> QED
    BY <1>1, <1>2, <1>3, <1>4 DEF CoverageSources

\* They are finitely many, and add up to the coverage.
LEMMA SourcesTotal ==
    ASSUME TypeOK, Links, NEW r \in Receivables, NEW W
    PROVE  /\ IsFiniteSet(CoverageSources(r))
           /\ Sum([x \in CoverageSources(r) |-> AmountIn(W, x)])
                = Sum(PaidIn(W, r)) + Sum(AppliedIn(W, r))
           /\ PaidIn(W, r) \in [Payments -> Nat] /\ AppliedIn(W, r) \in [Advances -> Nat]
<1>1. /\ paid[r] \in [Payments -> Nat] /\ applied[r] \in [Advances -> Nat]
      /\ DOMAIN advances = 1..Len(advances)
      /\ \A a \in 1..Len(advances) : a \in Advances
    BY Figures
<1>2. PICK S : S = CoverageSources(r)
    OBVIOUS
<1>3. PICK Q : Q = {q \in Payments : paid[r][q] > 0}
    OBVIOUS
<1>4. PICK B : B = {b \in 1..Len(advances) : applied[r][b] > 0}
    OBVIOUS
<1>5. PICK h : h = [p \in Q |-> [payment |-> p, amount |-> paid[r][p], advance |-> None]]
    OBVIOUS
<1>6. PICK k : k = [a \in B |-> [payment |-> advances[a].payment, amount |-> applied[r][a],
                                 advance |-> a]]
    OBVIOUS
<1>7. PICK C : C = {h[p] : p \in Q}
    OBVIOUS
<1>8. PICK D : D = {k[a] : a \in B}
    OBVIOUS
<1>9. S = C \cup D
    <2>1. C = {[payment |-> p, amount |-> paid[r][p], advance |-> None] : p \in Q}
        BY <1>5, <1>7
    <2>2. D = {[payment |-> advances[a].payment, amount |-> applied[r][a], advance |-> a] : a \in B}
        BY <1>6, <1>8
    <2> QED
        BY <1>1, <1>2, <1>3, <1>4, <2>1, <2>2 DEF CoverageSources
<1>10. C \cap D = {}
    <2>1. \A x \in C : x.advance = None
        BY <1>5, <1>7
    <2>2. \A x \in D : x.advance \in Advances
        BY <1>1, <1>4, <1>6, <1>8
    <2> QED
        BY <2>1, <2>2, ReceivablesAssumption
<1>11. PICK e : e = [x \in S |-> AmountIn(W, x)]
    OBVIOUS
<1>12. PICK F : F = PaidIn(W, r)
    OBVIOUS
<1>13. PICK G : G = AppliedIn(W, r)
    OBVIOUS
<1>14. F \in [Payments -> Nat] /\ G \in [Advances -> Nat]
    <2>1. F \in [Payments -> Nat]
        BY <1>1, <1>12 DEF PaidIn
    <2>2. G \in [Advances -> Nat]
        BY <1>1, <1>13 DEF AppliedIn
    <2> QED
        BY <2>1, <2>2
<1>15. \A p \in Q : e[h[p]] = F[p] /\ F[p] \in Int
    BY <1>3, <1>5, <1>7, <1>9, <1>11, <1>12, <1>14 DEF PaidIn, AmountIn
<1>16. \A a \in B : e[k[a]] = G[a] /\ G[a] \in Int
    BY <1>1, <1>4, <1>6, <1>8, <1>9, <1>11, <1>13, <1>14 DEF AppliedIn, AmountIn
<1>17. Q \subseteq Payments /\ B \subseteq Advances /\ IsFiniteSet(Q) /\ IsFiniteSet(B)
    <2>1. Q \subseteq Payments /\ B \subseteq Advances
        BY <1>1, <1>3, <1>4
    <2> QED
        BY <2>1, BaseSets, FS_Subset
<1>18. \A p, q \in Q : h[p] = h[q] => p = q
    BY <1>5
<1>19. \A a, b \in B : k[a] = k[b] => a = b
    BY <1>6
<1>20. IsFiniteSet(C) /\ SumFunctionOnSet(e, C) = SumFunctionOnSet(F, Q)
    <2>1. /\ IsFiniteSet({h[p] : p \in Q})
          /\ SumFunctionOnSet(e, {h[p] : p \in Q}) = SumFunctionOnSet(F, Q)
        BY ONLY <1>15, <1>17, <1>18, SumRename
    <2> QED
        BY <1>7, <2>1
<1>21. IsFiniteSet(D) /\ SumFunctionOnSet(e, D) = SumFunctionOnSet(G, B)
    <2>1. /\ IsFiniteSet({k[a] : a \in B})
          /\ SumFunctionOnSet(e, {k[a] : a \in B}) = SumFunctionOnSet(G, B)
        BY ONLY <1>16, <1>17, <1>19, SumRename
    <2> QED
        BY <1>8, <2>1
<1>22. SumFunctionOnSet(F, Payments) = SumFunctionOnSet(F, Q)
    <2>1. \A p \in Payments : F[p] = IF p \in Q THEN F[p] ELSE 0
        BY <1>1, <1>3, <1>12 DEF PaidIn
    <2> QED
        BY <1>15, <1>17, <2>1, BaseSets, SumOver
<1>23. SumFunctionOnSet(G, Advances) = SumFunctionOnSet(G, B)
    <2>1. \A a \in Advances : G[a] = IF a \in B THEN G[a] ELSE 0
        BY <1>1, <1>4, <1>13 DEF AppliedIn
    <2> QED
        BY <1>16, <1>17, <2>1, BaseSets, SumOver
<1>24. IsFiniteSet(S)
    BY <1>9, <1>20, <1>21, FS_Union
<1>25. SumFunctionOnSet(e, S) = SumFunctionOnSet(e, C) + SumFunctionOnSet(e, D)
    <2>1. \A x \in S : e[x] \in Int
        BY <1>7, <1>8, <1>9, <1>15, <1>16
    <2>2. C \in SUBSET S /\ S \ C = D
        BY <1>9, <1>10
    <2>3. SumFunctionOnSet(e, S) = SumFunctionOnSet(e, C) + SumFunctionOnSet(e, S \ C)
        BY ONLY <1>24, <2>1, <2>2, SumSplit
    <2> QED
        BY <2>2, <2>3
<1>26. Sum(e) = SumFunctionOnSet(e, S) /\ Sum(F) = SumFunctionOnSet(F, Payments)
         /\ Sum(G) = SumFunctionOnSet(G, Advances)
    BY <1>11, <1>14, TotalIs
<1> QED
    BY <1>2, <1>11, <1>12, <1>13, <1>14, <1>20, <1>21, <1>22, <1>23, <1>24, <1>25, <1>26

\* A credit note appends an advance for every source.
LEMMA NoteAdvances ==
    ASSUME TypeOK, Links, NEW r \in Receivables, IssueCreditNote(r)
    PROVE  /\ advances' \in Seq(AdvanceRow) /\ Len(advances') <= MaxAdvances
           /\ Len(advances) <= Len(advances')
           /\ \A a \in 1..Len(advances) : advances'[a] = advances[a]
           /\ \E s : /\ \A i, j \in 1..Len(s) : s[i] = s[j] => i = j
                     /\ {s[i] : i \in 1..Len(s)} = CoverageSources(r)
                     /\ Len(s) \in Nat /\ Len(advances') = Len(advances) + Len(s)
                     /\ \A a \in More : /\ a - Len(advances) \in 1..Len(s)
                                        /\ advances'[a] = Release(s[a - Len(advances)])
                     /\ \A i \in 1..Len(s) : i + Len(advances) \in More
<1>1. PICK S : S = CoverageSources(r)
    OBVIOUS
<1>2. PICK s : s = SetToSeq(S)
    OBVIOUS
<1>3. PICK t : t = [i \in DOMAIN s |-> Release(s[i])]
    OBVIOUS
<1>4. Len(advances) + Len(s) <= MaxAdvances /\ advances' = advances \o t
    BY <1>1, <1>2, <1>3 DEF IssueCreditNote
<1>5. IsFiniteSet(S)
    BY <1>1, SourcesTotal
<1>6. /\ s \in Seq(S) /\ Len(s) \in Nat /\ {s[i] : i \in 1..Len(s)} = S
      /\ \A i, j \in 1..Len(s) : s[i] = s[j] => i = j
    BY <1>2, <1>5, InOrder
<1>7. DOMAIN s = 1..Len(s)
    BY <1>6
<1>8. ASSUME NEW i \in 1..Len(s) PROVE Release(s[i]) \in AdvanceRow
    <2>1. s[i] \in CoverageSources(r)
        BY <1>1, <1>6
    <2>2. s[i].payment \in Payments \cup {None} /\ s[i].amount \in Nat \ {0}
        BY <2>1, SourceRows
    <2> QED
        BY <2>2 DEF Release, AdvanceRow
<1>9. t \in Seq(AdvanceRow) /\ Len(t) = Len(s) /\ \A i \in 1..Len(s) : t[i] = Release(s[i])
    <2>1. t \in [1..Len(s) -> AdvanceRow]
        BY <1>3, <1>7, <1>8
    <2> QED
        BY <1>3, <1>6, <1>7, <2>1
<1>10. advances \in Seq(AdvanceRow) /\ Len(advances) \in Nat
    BY DEF TypeOK
<1>11. /\ advances' \in Seq(AdvanceRow) /\ Len(advances') = Len(advances) + Len(s)
       /\ \A a \in 1..Len(advances) : advances'[a] = advances[a]
       /\ \A a \in (Len(advances) + 1)..(Len(advances) + Len(s)) : advances'[a] = t[a - Len(advances)]
    <2>1. PICK v : v = advances \o t
        OBVIOUS
    <2>2. /\ v \in Seq(AdvanceRow) /\ Len(v) = Len(advances) + Len(t)
          /\ \A i \in 1..(Len(advances) + Len(t)) :
                v[i] = IF i <= Len(advances) THEN advances[i] ELSE t[i - Len(advances)]
        <3>1. advances \in Seq(AdvanceRow) /\ t \in Seq(AdvanceRow)
            BY <1>9, <1>10
        <3>2. /\ advances \o t \in Seq(AdvanceRow)
              /\ Len(advances \o t) = Len(advances) + Len(t)
              /\ \A i \in 1..(Len(advances) + Len(t)) :
                    (advances \o t)[i] = IF i <= Len(advances) THEN advances[i]
                                                              ELSE t[i - Len(advances)]
            BY ONLY <3>1, ConcatProperties, Zenon
        <3> QED
            BY <2>1, <3>2
    <2>3. advances' = v
        BY <1>4, <2>1
    <2>4. PICK n : n = Len(advances)
        OBVIOUS
    <2>5. PICK m : m = Len(s)
        OBVIOUS
    <2>6. n \in Nat /\ m \in Nat /\ Len(t) = m
        BY <1>6, <1>9, <1>10, <2>4, <2>5
    <2>7. \A a \in 1..n : v[a] = advances[a]
        BY ONLY <2>2, <2>4, <2>6
    <2>8. \A a \in (n + 1)..(n + m) : v[a] = t[a - n]
        BY ONLY <2>2, <2>4, <2>6
    <2> QED
        BY <2>2, <2>3, <2>4, <2>5, <2>6, <2>7, <2>8
<1>12. /\ \A a \in More : /\ a - Len(advances) \in 1..Len(s)
                          /\ advances'[a] = Release(s[a - Len(advances)])
       /\ \A i \in 1..Len(s) : i + Len(advances) \in More
    <2>1. PICK n : n = Len(advances)
        OBVIOUS
    <2>2. PICK m : m = Len(s)
        OBVIOUS
    <2>3. n \in Nat /\ m \in Nat /\ Len(advances') = n + m
        BY <1>6, <1>10, <1>11, <2>1, <2>2
    <2>4. More = (n + 1)..(n + m)
        BY <2>1, <2>3 DEF More
    <2>5. \A a \in More : a - n \in 1..m
        BY <2>3, <2>4
    <2>6. \A i \in 1..m : i + n \in More
        BY <2>3, <2>4
    <2>7. \A a \in More : advances'[a] = t[a - n]
        BY <1>11, <2>1, <2>2, <2>4
    <2>8. \A a \in More : advances'[a] = Release(s[a - n])
        BY <1>9, <2>2, <2>5, <2>7
    <2> QED
        BY <2>1, <2>2, <2>5, <2>6, <2>8
<1>13. /\ \A i, j \in 1..Len(s) : s[i] = s[j] => i = j
       /\ {s[i] : i \in 1..Len(s)} = CoverageSources(r)
       /\ Len(s) \in Nat /\ Len(advances') = Len(advances) + Len(s)
    BY <1>1, <1>6, <1>11
<1>14. Len(advances') <= MaxAdvances /\ Len(advances) <= Len(advances')
    BY <1>4, <1>10, <1>13
<1> QED
    BY <1>11, <1>12, <1>13, <1>14

\* What it releases is what covered the receivable, payment by payment.
LEMMA NoteTotal ==
    ASSUME TypeOK, Links, NEW r \in Receivables, IssueCreditNote(r), NEW W
    PROVE  LET g == [a \in Advances |-> IF a \in More THEN AmountIn(W, advances'[a]) ELSE 0]
           IN  g \in [Advances -> Nat] /\ Sum(g) = Sum(PaidIn(W, r)) + Sum(AppliedIn(W, r))
<1>1. PICK n : n = Len(advances)
    OBVIOUS
<1>2. PICK M : M = More
    OBVIOUS
<1>3. PICK s : /\ \A i, j \in 1..Len(s) : s[i] = s[j] => i = j
               /\ {s[i] : i \in 1..Len(s)} = CoverageSources(r)
               /\ Len(s) \in Nat
               /\ \A a \in M : a - n \in 1..Len(s) /\ advances'[a] = Release(s[a - n])
               /\ \A i \in 1..Len(s) : i + n \in M
    BY <1>1, <1>2, NoteAdvances
<1>4. PICK S : S = CoverageSources(r)
    OBVIOUS
<1>5. PICK e : e = [x \in S |-> AmountIn(W, x)]
    OBVIOUS
<1>6. \A x \in S : x.amount \in Nat
    BY <1>4, SourceRows
<1>7. PICK h : h = [a \in M |-> s[a - n]]
    OBVIOUS
<1>8. PICK f : f = [a \in M |-> AmountIn(W, advances'[a])]
    OBVIOUS
<1>9. n \in Nat /\ M \subseteq Advances /\ IsFiniteSet(M)
    <2>1. advances \in Seq(AdvanceRow) /\ advances' \in Seq(AdvanceRow) /\ Len(advances') <= MaxAdvances
        BY NoteAdvances DEF TypeOK
    <2>2. n \in Nat /\ Len(advances') \in Nat /\ Len(advances') <= MaxAdvances /\ MaxAdvances \in Nat
        BY <1>1, <2>1, ReceivablesAssumption
    <2>3. M \subseteq Advances
        BY <1>1, <1>2, <2>2 DEF More, Advances
    <2> QED
        BY <2>2, <2>3, BaseSets, FS_Subset
<1>10. \A a \in M : a \in Int
    BY <1>9 DEF Advances
<1>11. \A a, b \in M : h[a] = h[b] => a = b
    <2>1. SUFFICES ASSUME NEW a \in M, NEW b \in M, h[a] = h[b] PROVE a = b
        OBVIOUS
    <2>2. a - n = b - n
        BY <1>3, <1>7, <2>1
    <2> QED
        BY <1>9, <1>10, <2>2
<1>12. {h[a] : a \in M} = S
    <2>1. ASSUME NEW i \in 1..Len(s) PROVE \E a \in M : h[a] = s[i]
        <3>1. PICK a : a = i + n
            OBVIOUS
        <3>2. a \in M /\ a - n = i
            BY <1>3, <1>9, <3>1
        <3> QED
            BY <1>7, <3>2
    <2>2. \A a \in M : h[a] \in S
        BY <1>3, <1>4, <1>7
    <2> QED
        BY <1>3, <1>4, <2>1, <2>2
<1>13. \A a \in M : f[a] \in Nat /\ e[h[a]] = f[a]
    <2>1. SUFFICES ASSUME NEW a \in M PROVE f[a] \in Nat /\ e[h[a]] = f[a]
        OBVIOUS
    <2>2. h[a] \in S /\ advances'[a] = Release(h[a])
        BY <1>3, <1>7, <1>12
    <2>3. AmountIn(W, Release(h[a])) = AmountIn(W, h[a])
        BY DEF AmountIn, Release
    <2> QED
        BY <1>5, <1>6, <1>8, <2>2, <2>3 DEF AmountIn
<1>14. SumFunctionOnSet(e, S) = SumFunctionOnSet(f, M)
    <2>1. \A a \in M : f[a] \in Int /\ e[h[a]] = f[a]
        BY <1>13
    <2>2. SumFunctionOnSet(e, {h[a] : a \in M}) = SumFunctionOnSet(f, M)
        BY ONLY <1>9, <1>11, <2>1, SumRename
    <2> QED
        BY <1>12, <2>2
<1>15. Sum(e) = Sum(f)
    <2>1. DOMAIN e = S /\ DOMAIN f = M
        BY <1>5, <1>8
    <2> QED
        BY <1>14, <2>1, TotalIs
<1>16. PICK g : g = [a \in Advances |-> IF a \in More THEN AmountIn(W, advances'[a]) ELSE 0]
    OBVIOUS
<1>17. /\ f \in [M -> Int] /\ g \in [Advances -> Nat]
       /\ \A a \in Advances : g[a] = IF a \in M THEN f[a] ELSE 0
    <2>1. \A a \in Advances : g[a] = IF a \in M THEN f[a] ELSE 0
        BY <1>2, <1>8, <1>16
    <2>2. \A a \in M : f[a] \in Nat
        BY <1>13
    <2>3. \A a \in Advances : g[a] \in Nat
        BY <2>1, <2>2
    <2> QED
        BY <1>8, <1>16, <2>1, <2>2, <2>3
<1>18. Sum(g) = Sum(f)
    BY ONLY <1>9, <1>17, OverAdvances
<1>19. Sum(e) = Sum(PaidIn(W, r)) + Sum(AppliedIn(W, r))
    BY <1>4, <1>5, SourcesTotal
<1> QED
    BY <1>15, <1>16, <1>17, <1>18, <1>19

\* The advances it appends.
LEMMA NoteRows ==
    ASSUME TypeOK, Links, NEW r \in Receivables, IssueCreditNote(r), NEW a \in More
    PROVE  /\ advances'[a].source = "CREDIT_NOTE" /\ advances'[a].amount \in Nat \ {0}
           /\ advances'[a].payment \in Payments \cup {None}
           /\ advances'[a].payment \in Payments => received[advances'[a].payment] # 0
<1>1. PICK s : /\ {s[i] : i \in 1..Len(s)} = CoverageSources(r)
               /\ \A b \in More : /\ b - Len(advances) \in 1..Len(s)
                                  /\ advances'[b] = Release(s[b - Len(advances)])
    BY NoteAdvances
<1>2. PICK x \in CoverageSources(r) : advances'[a] = Release(x)
    BY <1>1
<1>3. /\ x.payment \in Payments \cup {None} /\ x.amount \in Nat \ {0}
      /\ x.payment \in Payments =>
            paid[r][x.payment] > 0 \/ \E b \in 1..Len(advances) : advances[b].payment = x.payment
    BY SourceRows
<1>4. ASSUME x.payment \in Payments PROVE received[x.payment] # 0
    <2>1. SUFFICES ASSUME received[x.payment] = 0 PROVE FALSE
        OBVIOUS
    <2>2. /\ paid[r][x.payment] = 0
          /\ \A b \in 1..Len(advances) : advances[b].payment # x.payment
        BY <1>4, <2>1 DEF Links
    <2> QED
        BY <1>3, <1>4, <2>2
<1> QED
    BY <1>2, <1>3, <1>4 DEF Release

\* All of them add up to the coverage of the invoice ...
LEMMA NoteCovers ==
    ASSUME TypeOK, Links, NEW r \in Receivables, IssueCreditNote(r)
    PROVE  LET h == [a \in Advances |-> IF a \in More THEN advances'[a].amount ELSE 0]
           IN  h \in [Advances -> Nat] /\ Sum(h) = Covered(r)
<1>1. PICK W : W = Payments \cup {None}
    OBVIOUS
<1>2. PICK g : g = [a \in Advances |-> IF a \in More THEN AmountIn(W, advances'[a]) ELSE 0]
    OBVIOUS
<1>3. g \in [Advances -> Nat] /\ Sum(g) = Sum(PaidIn(W, r)) + Sum(AppliedIn(W, r))
    BY <1>2, NoteTotal
<1>4. /\ paid[r] \in [Payments -> Nat] /\ applied[r] \in [Advances -> Nat]
      /\ \A a \in 1..Len(advances) : a \in Advances /\ advances[a] \in AdvanceRow
    BY Figures
<1>5. PaidIn(W, r) = paid[r]
    BY <1>1, <1>4 DEF PaidIn
<1>6. AppliedIn(W, r) = applied[r]
    <2>1. \A a \in 1..Len(advances) : advances[a].payment \in W
        BY <1>1, <1>4 DEF AdvanceRow
    <2>2. \A a \in Advances : a \notin 1..Len(advances) => applied[r][a] = 0
        BY DEF Links
    <2> QED
        BY <1>4, <2>1, <2>2 DEF AppliedIn
<1>7. g = [a \in Advances |-> IF a \in More THEN advances'[a].amount ELSE 0]
    BY <1>1, <1>2, NoteRows DEF AmountIn
<1> QED
    BY <1>3, <1>5, <1>6, <1>7 DEF Covered

\* ... and those that come from a payment to what it covered of the invoice.
LEMMA NoteReleases ==
    ASSUME TypeOK, TypeOK', Links, NEW r \in Receivables, IssueCreditNote(r), NEW p \in Payments
    PROVE  /\ [a \in Advances |-> Released(p, a)] \in [Advances -> Nat]
           /\ Sum([a \in Advances |-> Released(p, a)])'
                = Sum([a \in Advances |-> Released(p, a)]) + CoverFrom(p, r)
<1>1. PICK g : g = [a \in Advances |-> IF a \in More THEN AmountIn({p}, advances'[a]) ELSE 0]
    OBVIOUS
<1>2. g \in [Advances -> Nat] /\ Sum(g) = Sum(PaidIn({p}, r)) + Sum(AppliedIn({p}, r))
    BY <1>1, NoteTotal
<1>3. /\ paid[r] \in [Payments -> Nat] /\ applied[r] \in [Advances -> Nat]
      /\ DOMAIN advances = 1..Len(advances) /\ Len(advances) \in Nat
      /\ \A a \in 1..Len(advances) : advances[a].amount \in Nat
    BY Figures
<1>4. Sum(PaidIn({p}, r)) = paid[r][p]
    <2>1. PICK F : F = PaidIn({p}, r)
        OBVIOUS
    <2>2. F \in [Payments -> Int] /\ F[p] = paid[r][p] /\ \A q \in Payments : q # p => F[q] = 0
        BY <1>3, <2>1 DEF PaidIn
    <2>3. Sum(F) = F[p]
        BY <2>2, BaseSets, TotalOne
    <2> QED
        BY <2>1, <2>2, <2>3
<1>5. AppliedIn({p}, r) = [a \in Advances |-> CoverVia(p, r, a)]
    BY <1>3 DEF AppliedIn, CoverVia
<1>6. Sum(g) = CoverFrom(p, r)
    BY <1>2, <1>4, <1>5 DEF CoverFrom
<1>7. PICK F : F = [a \in Advances |-> Released(p, a)]
    OBVIOUS
<1>8. PICK G : G = [a \in Advances |-> Released(p, a)']
    OBVIOUS
<1>9. F \in [Advances -> Nat]
    BY <1>3, <1>7 DEF Released
<1>10. /\ DOMAIN advances' = 1..Len(advances') /\ Len(advances') \in Nat
       /\ Len(advances) <= Len(advances')
       /\ \A a \in 1..Len(advances) : advances'[a] = advances[a]
    BY NoteAdvances DEF TypeOK
<1>11. \A a \in Advances : G[a] = F[a] + g[a]
    <2>1. SUFFICES ASSUME NEW a \in Advances PROVE Released(p, a)' = Released(p, a) + g[a]
        BY <1>7, <1>8
    <2>2. CASE a \in 1..Len(advances)
        <3>1. a \notin More /\ a \in 1..Len(advances')
            BY <1>3, <1>10, <2>2 DEF More
        <3>2. g[a] = 0
            BY <1>1, <3>1
        <3>3. Released(p, a) \in Nat
            BY <1>7, <1>9
        <3>4. Released(p, a)' = Released(p, a)
            BY <1>3, <1>10, <2>2, <3>1 DEF Released
        <3> QED
            BY <3>2, <3>3, <3>4
    <2>3. CASE a \in More
        <3>1. a \notin 1..Len(advances) /\ a \in 1..Len(advances')
            BY <2>3 DEF More
        <3>2. Released(p, a) = 0
            BY <1>3, <3>1 DEF Released
        <3>3. g[a] = IF advances'[a].payment = p THEN advances'[a].amount ELSE 0
            BY <1>1, <2>3 DEF AmountIn
        <3>4. advances'[a].source = "CREDIT_NOTE" /\ advances'[a].amount \in Nat
            BY <2>3, NoteRows
        <3>5. Released(p, a)' = g[a]
            BY <1>10, <3>1, <3>3, <3>4 DEF Released
        <3>6. g[a] \in Nat
            BY <1>2
        <3> QED
            BY <3>2, <3>5, <3>6
    <2>4. CASE a \notin 1..Len(advances')
        <3>1. a \notin 1..Len(advances) /\ a \notin More
            BY <1>3, <1>10, <2>4 DEF More
        <3>2. Released(p, a)' = 0 /\ Released(p, a) = 0
            BY <1>3, <1>10, <2>4, <3>1 DEF Released
        <3>3. g[a] = 0
            BY <1>1, <3>1
        <3> QED
            BY <3>2, <3>3
    <2> QED
        BY <2>2, <2>3, <2>4 DEF More
<1>12. \A a \in Advances : F[a] \in Nat /\ g[a] \in Nat /\ G[a] \in Nat
    BY <1>2, <1>9, <1>11
<1>13. /\ F \in [Advances -> Int] /\ g \in [Advances -> Int] /\ G \in [Advances -> Int]
    BY <1>2, <1>8, <1>9, <1>12
<1>14. Sum(G) = Sum(F) + Sum(g)
    BY <1>11, <1>13, BaseSets, TotalPlus
<1> QED
    BY <1>6, <1>7, <1>8, <1>9, <1>14

LEMMA CancelInvoiceKeeps ==
    ASSUME Inv, NEW r \in Receivables, NEW charge \in Receivables \cup {None},
           CancelInvoice(r, charge)
    PROVE  Inv'
<1>1. TypeOK /\ Links /\ Closed /\ Solvent /\ Books /\ Traced
    BY DEF Inv
<1>2. PICK fee : fee = IF charge = None THEN 0 ELSE AmountOf[charge]
    OBVIOUS
<1>3. PICK reduction : reduction = AmountOf[r] - Covered(r)
    OBVIOUS
<1>4. /\ r \in Opened /\ status[r] \in {"UNPAID", "PARTIAL", "PAID"}
      /\ charge # None => charge \notin Opened
      /\ IssueCreditNote(r)
      /\ status' = [status EXCEPT ![r] = CancelledStatus(r)]
      /\ opened' = IF charge = None THEN opened ELSE Append(opened, charge)
      /\ outstanding' = outstanding - reduction + fee
      /\ advanceBalance' = advanceBalance + Covered(r)
      /\ Enter([CREDIT_NOTE |-> reduction, ADVANCE |-> Covered(r), CANCELLATION_CHARGE |-> fee])
      /\ Post(fee - reduction, 0, Covered(r))
      /\ UNCHANGED <<received, paid, applied, refunded, attempts, settled, found>>
    BY <1>2, <1>3 DEF CancelInvoice
<1>5. PICK covered : covered = Covered(r)
    OBVIOUS
<1>6. /\ covered \in Nat /\ AmountOf[r] \in Nat /\ credited[r] = 0 /\ fee \in Nat
      /\ Outstanding(r) = reduction /\ reduction \in Nat
      /\ reduction = AmountOf[r] - covered
    <2>1. Covered(r) \in Nat /\ Outstanding(r) \in Int /\ Outstanding(r) >= 0
        BY <1>1, Figures DEF Solvent
    <2>2. AmountOf[r] \in Nat /\ fee \in Nat
        BY <1>2, ReceivablesAssumption
    <2>3. credited[r] = 0
        BY <1>1, <1>4 DEF Closed, Cancelled
    <2>4. Outstanding(r) = AmountOf[r] - Covered(r) - credited[r]
        BY DEF Outstanding
    <2> QED
        BY <1>3, <1>5, <2>1, <2>2, <2>3, <2>4
<1>7. Effects(fee - reduction, covered)
    BY <1>1, <1>4, <1>5, <1>6, EffectOfCancellation
<1>8. gl' \in [Accounts -> Int]
    <2>1. PICK x : x = fee - reduction
        OBVIOUS
    <2>2. x \in Int /\ 0 \in Int /\ covered \in Int /\ Post(x, 0, covered)
        BY <1>4, <1>5, <1>6, <2>1
    <2> QED
        BY <1>1, <2>2, Posted
<1>9. /\ opened' \in Seq(Receivables)
      /\ Opened' = IF charge = None THEN Opened ELSE Opened \cup {charge}
      /\ \A i, j \in 1..Len(opened') : opened'[i] = opened'[j] => i = j
      /\ found' # None => /\ Len(found') <= Len(opened')
                          /\ \A i \in 1..Len(found') : found'[i] = opened'[i]
    <2>1. CASE charge = None
        BY <1>1, <1>4, <2>1 DEF TypeOK, Links, Opened
    <2>2. CASE charge # None
        BY <1>1, <1>4, <2>2, OpenedGrows
    <2> QED
        BY <2>1, <2>2
<1>10. /\ advances' \in Seq(AdvanceRow) /\ Len(advances') <= MaxAdvances
       /\ Len(advances) <= Len(advances')
       /\ \A a \in 1..Len(advances) : advances'[a] = advances[a]
    BY <1>1, <1>4, NoteAdvances
<1>11. \A a \in More : /\ advances'[a].source = "CREDIT_NOTE" /\ advances'[a].amount \in Nat \ {0}
                       /\ advances'[a].payment \in Payments \cup {None}
                       /\ advances'[a].payment \in Payments => received[advances'[a].payment] # 0
    BY <1>1, <1>4, NoteRows
<1>12. /\ credited' \in [Receivables -> Nat] /\ credited'[r] = reduction
       /\ \A q \in Receivables : q # r => credited'[q] = credited[q]
    <2>1. credited' = [credited EXCEPT ![r] = @ + AmountOf[r] - Covered(r)]
        BY <1>4 DEF IssueCreditNote
    <2>2. credited \in [Receivables -> Nat]
        BY <1>1 DEF TypeOK
    <2>3. 0 + AmountOf[r] - covered = reduction
        BY <1>6
    <2>4. credited'[r] = reduction
        BY <1>5, <1>6, <2>1, <2>2, <2>3
    <2> QED
        BY <1>6, <2>1, <2>2, <2>4
<1>13. /\ status' \in [Receivables -> Statuses] /\ status'[r] \in Cancelled
       /\ \A q \in Receivables : q # r => status'[q] = status[q]
    <2>1. CancelledStatus(r) \in Cancelled
        BY DEF CancelledStatus, Cancelled
    <2> QED
        BY <1>1, <1>4, <2>1 DEF TypeOK, Statuses
<1>14. TypeOK'
    <2>1. advanceBalance' \in Int /\ outstanding' \in Int
        <3>1. advanceBalance \in Int /\ outstanding \in Int
            BY <1>1 DEF TypeOK
        <3> QED
            BY <1>4, <1>5, <1>6, <3>1
    <2>2. entries' \in [EntryKinds -> Nat]
        BY <1>7 DEF Effects
    <2> QED
        BY <1>1, <1>4, <1>8, <1>9, <1>10, <1>12, <1>13, <2>1, <2>2 DEF TypeOK
<1>15. /\ \A q \in Receivables : q # r => Outstanding(q)' = Outstanding(q)
       /\ Outstanding(r)' = 0
    <2>1. \A q \in Receivables : q # r => Outstanding(q)' = Outstanding(q)
        BY <1>4, <1>12 DEF Outstanding, Covered
    <2>2. Outstanding(r)' = AmountOf[r] - covered - reduction
        BY <1>4, <1>5, <1>12 DEF Outstanding, Covered
    <2> QED
        BY <1>6, <2>1, <2>2
<1>16. /\ \A a \in 1..Len(advances) : Booked(a)' = Booked(a) /\ Available(a)' = Available(a)
       /\ \A a \in More : Available(a)' = advances'[a].amount
       /\ \A a \in Advances : Held(a)' = Held(a) + IF a \in More THEN advances'[a].amount ELSE 0
       /\ \A p \in Payments : \A q \in Receivables : \A a \in Advances :
             CoverVia(p, q, a)' = CoverVia(p, q, a)
       /\ 1..Len(advances') \subseteq Advances /\ DOMAIN advances' = 1..Len(advances')
       /\ DOMAIN advances = 1..Len(advances)
    BY <1>1, <1>4, <1>10, MoreAdvances, Figures
<1>17. \A p \in Payments : Unapplied(p)' = Unapplied(p) /\ Unapplied(p) \in Int
    <2>1. SUFFICES ASSUME NEW p \in Payments
                   PROVE  Unapplied(p)' = Unapplied(p) /\ Unapplied(p) \in Int
        OBVIOUS
    <2>2. \A a \in More : advances'[a].source # "PAYMENT"
        BY <1>11
    <2>3. ConvertedOf(advances', p) = ConvertedOf(advances, p)
        BY <1>1, <1>10, <2>2, ConvertedKept
    <2>4. /\ Unapplied(p) \in Int
          /\ Unapplied(p) = received[p] - Sum([q \in Receivables |-> paid[q][p]])
                                        - Sum(ConvertedOf(advances, p))
        BY <1>1, Figures
    <2>5. Unapplied(p)' = received[p] - Sum([q \in Receivables |-> paid[q][p]])
                                      - Sum(ConvertedOf(advances', p))
        BY <1>4, <1>16 DEF Unapplied, Converted, ConvertedOf
    <2> QED
        BY <2>3, <2>4, <2>5
<1>18. 1..Len(advances') = 1..Len(advances) \cup More
    <2>1. Len(advances) \in Nat /\ Len(advances') \in Nat
        BY <1>1, <1>10 DEF TypeOK
    <2> QED
        BY <1>10, <2>1 DEF More
<1>19. Links'
    <2>1. \A q \in Receivables \ Opened' : q # r /\ q \notin Opened
        BY <1>4, <1>9
    <2>2. \A q \in Receivables \ Opened' :
              /\ status'[q] = "UNPAID" /\ credited'[q] = 0
              /\ \A p \in Payments : paid'[q][p] = 0
              /\ \A a \in Advances : applied'[q][a] = 0
        BY <1>1, <1>4, <1>12, <1>13, <2>1 DEF Links
    <2>3. \A p \in Payments : received'[p] = 0 =>
              /\ \A q \in Receivables : paid'[q][p] = 0
              /\ \A a \in 1..Len(advances') : advances'[a].payment # p
        <3>1. SUFFICES ASSUME NEW p \in Payments, received[p] = 0
                       PROVE  /\ \A q \in Receivables : paid[q][p] = 0
                              /\ \A a \in 1..Len(advances') : advances'[a].payment # p
            BY <1>4
        <3>2. \A a \in 1..Len(advances) : advances'[a].payment # p
            BY <1>1, <1>10, <3>1 DEF Links
        <3>3. \A a \in More : advances'[a].payment # p
            BY <1>11, <3>1
        <3>4. \A q \in Receivables : paid[q][p] = 0
            BY <1>1, <3>1 DEF Links
        <3> QED
            BY <1>18, <3>2, <3>3, <3>4
    <2>4. \A a \in Advances \ (1..Len(advances')) :
              refunded'[a] = 0 /\ \A q \in Receivables : applied'[q][a] = 0
        BY <1>1, <1>4, <1>18 DEF Links
    <2>5. \A k \in RefundKeys : attempts'[k] # None => attempts'[k].advance \in 1..Len(advances')
        BY <1>1, <1>4, <1>18 DEF Links
    <2>6. \A a \in 1..Len(advances') :
              /\ advances'[a].source = "OPENING" => advances'[a].payment = None
              /\ advances'[a].source = "PAYMENT" => advances'[a].payment # None
        <3>1. \A a \in 1..Len(advances) :
                  /\ advances'[a].source = "OPENING" => advances'[a].payment = None
                  /\ advances'[a].source = "PAYMENT" => advances'[a].payment # None
            BY <1>1, <1>10 DEF Links
        <3>2. \A a \in More : advances'[a].source = "CREDIT_NOTE"
            BY <1>11
        <3> QED
            BY <1>18, <3>1, <3>2
    <2> QED
        BY <1>9, <2>2, <2>3, <2>4, <2>5, <2>6 DEF Links
<1>20. Closed'
    <2>1. SUFFICES ASSUME NEW q \in Receivables
                   PROVE  IF status'[q] \in Cancelled THEN Outstanding(q)' = 0 ELSE credited'[q] = 0
        BY DEF Closed
    <2>2. CASE q = r
        BY <1>13, <1>15, <2>2
    <2>3. CASE q # r
        BY <1>1, <1>12, <1>13, <1>15, <2>3 DEF Closed
    <2> QED
        BY <2>2, <2>3
<1>21. Solvent'
    <2>1. \A q \in Receivables : Outstanding(q)' >= 0
        <3>1. SUFFICES ASSUME NEW q \in Receivables PROVE Outstanding(q)' >= 0
            OBVIOUS
        <3>2. CASE q = r
            BY <1>15, <3>2
        <3>3. CASE q # r
            BY <1>1, <1>15, <3>3 DEF Solvent
        <3> QED
            BY <3>2, <3>3
    <2>2. \A p \in Payments : Unapplied(p)' >= 0
        BY <1>1, <1>17 DEF Solvent
    <2>3. \A a \in 1..Len(advances') : Available(a)' >= 0
        <3>1. \A a \in 1..Len(advances) : Available(a)' >= 0
            BY <1>1, <1>16 DEF Solvent
        <3>2. \A a \in More : Available(a)' >= 0
            BY <1>11, <1>16
        <3> QED
            BY <1>18, <3>1, <3>2
    <2> QED
        BY <2>1, <2>2, <2>3 DEF Solvent
<1>22. Books'
    <2>1. PICK w : w = 0 - reduction
        OBVIOUS
    <2>2. w \in Int /\ w + fee = fee - reduction
        BY <1>6, <2>1
    <2>3. PICK d : d = [q \in Receivables |-> IF q = r THEN w ELSE 0]
        OBVIOUS
    <2>4. PICK c : c = [q \in Receivables |-> IF q = charge THEN fee ELSE 0]
        OBVIOUS
    <2>5. PICK o : o = [q \in Receivables |-> d[q] + c[q]]
        OBVIOUS
    <2>6. d \in [Receivables -> Int] /\ d[r] = w /\ \A q \in Receivables : q # r => d[q] = 0
        BY <2>2, <2>3
    <2>7. c \in [Receivables -> Int]
        BY <1>6, <2>4
    <2>8. o \in [Receivables -> Int] /\ \A q \in Receivables : o[q] = d[q] + c[q]
        BY <2>5, <2>6, <2>7
    <2>9. Sum(d) = w
        BY <2>6, BaseSets, TotalOne
    <2>10. Sum(c) = fee
        <3>1. CASE charge = None
            <4>1. fee = 0
                BY <1>2, <3>1
            <4>2. \A q \in Receivables : c[q] = 0
                BY <2>4, <4>1
            <4>3. Sum(c) = 0
                BY <2>7, <4>2, BaseSets, TotalZero
            <4> QED
                BY <4>1, <4>3
        <3>2. CASE charge # None
            <4>1. charge \in Receivables
                BY <3>2
            <4>2. c[charge] = fee /\ \A q \in Receivables : q # charge => c[q] = 0
                BY <2>4, <4>1
            <4>3. Sum(c) = c[charge]
                BY <2>7, <4>1, <4>2, BaseSets, TotalOne
            <4> QED
                BY <4>2, <4>3
        <3> QED
            BY <3>1, <3>2
    <2>11. Sum(o) = fee - reduction
        <3>1. Sum(o) = Sum(d) + Sum(c)
            BY <2>6, <2>7, <2>8, BaseSets, TotalPlus
        <3> QED
            BY <2>2, <2>9, <2>10, <3>1
    <2>12. PICK h : h = [a \in Advances |-> IF a \in More THEN advances'[a].amount ELSE 0]
        OBVIOUS
    <2>13. h \in [Advances -> Nat] /\ Sum(h) = covered
        BY <1>1, <1>4, <1>5, <2>12, NoteCovers
    <2>14. h \in [Advances -> Int]
        BY <2>13
    <2>15. PICK u : u = [p \in Payments |-> 0]
        OBVIOUS
    <2>16. u \in [Payments -> Int] /\ \A p \in Payments : u[p] = 0
        BY <2>15
    <2>17. Sum(u) = 0
        BY <2>16, BaseSets, TotalZero
    <2>18. \A q \in Receivables : Owing(q)' = Owing(q) + o[q]
        <3>1. SUFFICES ASSUME NEW q \in Receivables PROVE Owing(q)' = Owing(q) + d[q] + c[q]
            <4>1. \A q \in Receivables : Owing(q) \in Int /\ d[q] \in Int /\ c[q] \in Int
                BY <1>1, <2>6, <2>7, MoreFigures
            <4> QED
                BY <2>8, <4>1
        <3>2. Owing(q) \in Int /\ Outstanding(q) \in Int
            BY <1>1, MoreFigures, Figures
        <3>3. CASE q = r
            <4>1. c[q] = 0
                BY <1>2, <1>4, <2>4, <3>3
            <4>2. Owing(q)' = 0
                BY <1>4, <1>9, <1>15, <3>3 DEF Owing
            <4>3. Owing(q) = reduction
                BY <1>4, <1>6, <3>3 DEF Owing
            <4> QED
                BY <1>6, <2>1, <2>6, <3>3, <4>1, <4>2, <4>3
        <3>4. CASE q # r /\ q = charge /\ charge # None
            <4>1. q \notin Opened /\ q \in Opened'
                BY <1>4, <1>9, <3>4
            <4>2. Owing(q) = 0 /\ Owing(q)' = Outstanding(q)
                BY <1>15, <3>4, <4>1 DEF Owing
            <4>3. /\ credited[q] = 0 /\ \A p \in Payments : paid[q][p] = 0
                  /\ \A a \in Advances : applied[q][a] = 0
                BY <1>1, <4>1 DEF Links
            <4>4. paid[q] \in [Payments -> Nat] /\ applied[q] \in [Advances -> Nat]
                BY <1>1, Figures
            <4>5. paid[q] \in [Payments -> Int] /\ applied[q] \in [Advances -> Int]
                BY <4>4
            <4>6. Sum(paid[q]) = 0
                BY <4>3, <4>5, BaseSets, TotalZero
            <4>7. Sum(applied[q]) = 0
                BY <4>3, <4>5, BaseSets, TotalZero
            <4>8. AmountOf[q] \in Nat
                BY ReceivablesAssumption
            <4>9. Outstanding(q) = AmountOf[q]
                BY <4>3, <4>6, <4>7, <4>8 DEF Outstanding, Covered
            <4>10. c[q] = AmountOf[q] /\ d[q] = 0
                BY <1>2, <2>4, <2>6, <3>4
            <4> QED
                BY <4>2, <4>8, <4>9, <4>10
        <3>5. CASE q # r /\ ~(q = charge /\ charge # None)
            <4>1. d[q] = 0 /\ c[q] = 0
                BY <1>2, <2>4, <2>6, <3>5
            <4>2. q \in Opened' <=> q \in Opened
                BY <1>9, <3>5
            <4>3. Owing(q)' = Owing(q)
                BY <1>15, <3>5, <4>2 DEF Owing
            <4> QED
                BY <3>2, <4>1, <4>3
        <3> QED
            BY <3>3, <3>4, <3>5
    <2>19. \A a \in Advances : Held(a)' = Held(a) + h[a]
        BY <1>16, <2>12
    <2>20. \A p \in Payments : Unapplied(p)' = Unapplied(p) + u[p]
        BY <1>17, <2>16
    <2>21. /\ outstanding' = outstanding + Sum(o) /\ advanceBalance' = advanceBalance + Sum(h)
           /\ Post(Sum(o), Sum(u), Sum(h)) /\ Effects(Sum(o), Sum(h))
        <3>1. outstanding \in Int
            BY <1>1 DEF TypeOK
        <3>2. outstanding' = outstanding + Sum(o)
            BY <1>4, <1>6, <2>11, <3>1
        <3> QED
            BY <1>4, <1>5, <1>7, <2>11, <2>13, <2>17, <3>2
    <2> QED
        BY <1>1, <2>8, <2>14, <2>16, <2>18, <2>19, <2>20, <2>21, BooksMove
<1>23. Traced'
    <2>1. SUFFICES ASSUME NEW p \in Payments
                   PROVE  Sum([a \in Advances |-> Released(p, a)])'
                            = Sum([q \in Receivables |-> Undone(p, q)])'
        BY DEF Traced
    <2>2. /\ [a \in Advances |-> Released(p, a)] \in [Advances -> Nat]
          /\ Sum([a \in Advances |-> Released(p, a)])'
               = Sum([a \in Advances |-> Released(p, a)]) + CoverFrom(p, r)
        BY <1>1, <1>4, <1>14, NoteReleases
    <2>3. \A q \in Receivables : CoverFrom(p, q)' = CoverFrom(p, q)
        <3>1. SUFFICES ASSUME NEW q \in Receivables PROVE CoverFrom(p, q)' = CoverFrom(p, q)
            OBVIOUS
        <3>2. \A a \in Advances : CoverVia(p, q, a)' = CoverVia(p, q, a)
            BY <1>16
        <3> QED
            BY <1>4, <3>2 DEF CoverFrom
    <2>4. \A q \in Receivables : CoverFrom(p, q) \in Nat
        <3>1. SUFFICES ASSUME NEW q \in Receivables PROVE CoverFrom(p, q) \in Nat
            OBVIOUS
        <3>2. paid[q] \in [Payments -> Nat] /\ applied[q] \in [Advances -> Nat]
            BY <1>1, Figures
        <3>3. PICK v : v = [a \in Advances |-> CoverVia(p, q, a)]
            OBVIOUS
        <3>4. v \in [Advances -> Nat]
            BY <3>2, <3>3 DEF CoverVia
        <3>5. Sum(v) \in Nat
            BY <3>4, BaseSets, TotalNat
        <3> QED
            BY <3>2, <3>3, <3>5 DEF CoverFrom
    <2>5. PICK F : F = [q \in Receivables |-> Undone(p, q)]
        OBVIOUS
    <2>6. PICK G : G = [q \in Receivables |-> Undone(p, q)']
        OBVIOUS
    <2>7. \A q \in Receivables : F[q] = IF status[q] \in Cancelled THEN CoverFrom(p, q) ELSE 0
        BY <2>5 DEF Undone
    <2>8. \A q \in Receivables : G[q] = IF status'[q] \in Cancelled THEN CoverFrom(p, q) ELSE 0
        BY <2>3, <2>6 DEF Undone
    <2>9. F \in [Receivables -> Nat] /\ G \in [Receivables -> Nat]
        BY <2>4, <2>5, <2>6, <2>7, <2>8
    <2>10. F \in [Receivables -> Int] /\ G \in [Receivables -> Int]
        BY <2>9
    <2>11. F[r] = 0 /\ G[r] = CoverFrom(p, r)
        BY <1>4, <1>13, <2>7, <2>8 DEF Cancelled
    <2>12. \A q \in Receivables : q # r => G[q] = F[q]
        BY <1>13, <2>7, <2>8
    <2>13. Sum(G) = Sum(F) - F[r] + G[r]
        BY <2>10, <2>12, BaseSets, TotalChange
    <2>14. Sum(F) \in Nat
        BY <2>9, BaseSets, TotalNat
    <2>15. Sum([a \in Advances |-> Released(p, a)]) = Sum(F)
        BY <1>1, <2>5 DEF Traced
    <2>16. Sum(G) = Sum([q \in Receivables |-> Undone(p, q)])'
        BY <2>6
    <2> QED
        BY <2>2, <2>4, <2>11, <2>13, <2>14, <2>15, <2>16
<1> QED
    BY <1>14, <1>19, <1>20, <1>21, <1>22, <1>23 DEF Inv

-----------------------------------------------------------------------------
(* Every step keeps the invariant.                                         *)

LEMMA InvStep == Inv /\ [Next]_vars => Inv'
<1> SUFFICES ASSUME Inv, [Next]_vars PROVE Inv'
    OBVIOUS
<1>1. CASE UNCHANGED vars
    <2>1. /\ opened' = opened /\ status' = status /\ credited' = credited /\ received' = received
          /\ paid' = paid /\ advances' = advances /\ applied' = applied /\ refunded' = refunded
          /\ attempts' = attempts /\ settled' = settled /\ found' = found
          /\ outstanding' = outstanding /\ advanceBalance' = advanceBalance
          /\ entries' = entries /\ gl' = gl
        BY <1>1 DEF vars, facts
    <2>2. TypeOK'
        BY <2>1 DEF Inv, TypeOK
    <2>3. \A a \in Advances : Reserved(a)' = Reserved(a)
        BY <2>1, AttemptsKept
    <2>4. \A a \in 1..Len(advances) : Reserved(a)' <= Booked(a)
        <3>1. SUFFICES ASSUME NEW a \in 1..Len(advances) PROVE Reserved(a)' <= Booked(a)
            OBVIOUS
        <3>2. a \in Advances /\ Booked(a) \in Int
            BY Figures DEF Inv
        <3>3. Reserved(a) \in Nat
            BY <3>2, Figures DEF Inv
        <3>4. Booked(a) - Reserved(a) >= 0
            BY DEF Inv, Solvent, Available
        <3> QED
            BY <2>3, <3>2, <3>3, <3>4
    <2>5. \A k \in RefundKeys : attempts'[k] # None => attempts'[k].advance \in 1..Len(advances)
        BY <2>1 DEF Inv, Links
    <2> QED
        BY <2>1, <2>2, <2>4, <2>5, QuietKeeps
<1>2. ASSUME NEW r \in Receivables, IssueInvoice(r) \/ ChargeCancellation(r) \/ OpenReceivable(r)
      PROVE  Inv'
    BY <1>2, RecordKeeps DEF IssueInvoice, ChargeCancellation, OpenReceivable
<1>3. ASSUME FindCandidates PROVE Inv'
    BY <1>3, FindCandidatesKeeps
<1>4. ASSUME NEW amount \in Amounts, OpenAdvance(amount) PROVE Inv'
    BY <1>4, OpenAdvanceKeeps
<1>5. ASSUME NEW amount \in Amounts, NEW p \in Payments, NEW r \in Receivables,
             PayInvoice(p, r, amount)
      PROVE  Inv'
    BY <1>5, PayInvoiceKeeps
<1>6. ASSUME NEW amount \in Amounts, NEW p \in Payments, Collect(p, amount) PROVE Inv'
    BY <1>6, CollectKeeps
<1>7. ASSUME NEW amount \in Amounts, NEW p \in Payments, ConvertToAdvance(p, amount) PROVE Inv'
    BY <1>7, ConvertKeeps
<1>8. ASSUME NEW amount \in Amounts, NEW a \in Advances, NEW r \in Receivables,
             ApplyAdvance(a, r, amount)
      PROVE  Inv'
    BY <1>8, ApplyAdvanceKeeps
<1>9. ASSUME NEW amount \in Amounts, NEW a \in Advances, LocalRefund(a, amount) PROVE Inv'
    BY <1>9, LocalRefundKeeps
<1>10. ASSUME NEW amount \in Amounts, NEW a \in Advances, NEW k \in RefundKeys,
              ReserveRefund(k, a, amount)
       PROVE  Inv'
    BY <1>10, ReserveRefundKeeps
<1>11. ASSUME NEW r \in Receivables, NEW c \in Receivables \cup {None}, CancelInvoice(r, c)
       PROVE  Inv'
    BY <1>11, CancelInvoiceKeeps
<1>12. ASSUME NEW k \in RefundKeys, NEW result \in {"SUCCEEDED", "FAILED"}, RefundResult(k, result)
       PROVE  Inv'
    BY <1>12, RefundResultKeeps
<1>13. ASSUME NEW p \in Payments, Settle(p) PROVE Inv'
    BY <1>13, SettleKeeps
<1> QED
    BY <1>1, <1>2, <1>3, <1>4, <1>5, <1>6, <1>7, <1>8, <1>9, <1>10, <1>11, <1>12, <1>13 DEF Next

-----------------------------------------------------------------------------
(* The unapplied money of the statement.                                   *)

\* What was received of a payment and not given to receivables, converted or not.
Kept(p) == received[p] - Sum([r \in Receivables |-> paid[r][p]])

\* The lines of the statement add up to that.
LinesAgree == UnappliedEffect = Sum([p \in Payments |-> Kept(p)])

LEMMA KeptIs == ASSUME TypeOK PROVE \A p \in Payments : Kept(p) \in Int
<1>1. \A p \in Payments : Sum([r \in Receivables |-> paid[r][p]]) \in Nat /\ received[p] \in Nat
    BY Figures DEF TypeOK
<1> QED
    BY <1>1 DEF Kept

\* At first there are neither lines nor payments.
LEMMA NoLines == Init => LinesAgree
<1> SUFFICES ASSUME Init PROVE LinesAgree
    OBVIOUS
<1>1. TypeOK /\ UnappliedEffect = 0
    <2>1. UnappliedEffect = 0
        BY DEF Init, EntryKinds, UnappliedEffect
    <2> QED
        BY <2>1, InvInit DEF Inv
<1>2. PICK f : f = [p \in Payments |-> Kept(p)]
    OBVIOUS
<1>3. \A p \in Payments : f[p] = 0
    <2> SUFFICES ASSUME NEW p \in Payments PROVE Kept(p) = 0
        BY <1>2
    <2>1. PICK g : g = [r \in Receivables |-> paid[r][p]]
        OBVIOUS
    <2>2. g \in [Receivables -> Int] /\ \A r \in Receivables : g[r] = 0
        BY <2>1 DEF Init
    <2>3. Sum(g) = 0
        BY <2>2, BaseSets, TotalZero
    <2> QED
        BY <2>1, <2>3 DEF Init, Kept
<1>4. f \in [Payments -> Int]
    BY <1>2, <1>3
<1>5. Sum(f) = 0
    BY <1>3, <1>4, BaseSets, TotalZero
<1> QED
    BY <1>1, <1>2, <1>5 DEF LinesAgree

\* A payment enters the statement by what it leaves of itself.
LEMMA PaymentAddsLines ==
    ASSUME Inv, LinesAgree, NEW p \in Payments, NEW amount \in Nat, NEW share \in [Receivables -> Nat],
           TakePayment(p, amount, share)
    PROVE  LinesAgree'
<1>1. TypeOK /\ Links /\ received[p] = 0
    BY DEF Inv, TakePayment
<1>2. /\ paid' \in [Receivables -> [Payments -> Nat]] /\ received' \in [Payments -> Nat]
      /\ \A r \in Receivables : paid'[r][p] = share[r]
      /\ \A r \in Receivables : \A q \in Payments : q # p => paid'[r][q] = paid[r][q]
      /\ received'[p] = amount /\ \A q \in Payments : q # p => received'[q] = received[q]
    BY <1>1, PaymentRows
<1>3. UnappliedEffect \in Int /\ UnappliedEffect' = UnappliedEffect + amount - Sum(share)
    <2>1. PICK x, y, z : /\ x = Share(share, "INVOICE") /\ y = Share(share, "OPENING")
                         /\ z = Share(share, "CANCELLATION_CHARGE")
        OBVIOUS
    <2>2. x \in Nat /\ y \in Nat /\ z \in Nat /\ Sum(share) = x + y + z
        BY <2>1, SharesByKind
    <2>3. PICK kinds : kinds = Lines(amount, share)
        OBVIOUS
    <2>4. /\ DOMAIN kinds = {"PAYMENT", "PAYMENT_ALLOCATION", "OPENING_RECEIVABLE_PAYMENT_APPLIED",
                             "CANCELLATION_CHARGE_PAYMENT_APPLIED"}
          /\ kinds["PAYMENT"] = amount /\ kinds["PAYMENT_ALLOCATION"] = x
          /\ kinds["OPENING_RECEIVABLE_PAYMENT_APPLIED"] = y
          /\ kinds["CANCELLATION_CHARGE_PAYMENT_APPLIED"] = z
        BY <2>1, <2>3 DEF Lines
    <2>5. \A k \in DOMAIN kinds : k \in EntryKinds /\ kinds[k] \in Nat
        BY <2>2, <2>4 DEF EntryKinds
    <2>6. Enter(kinds)
        BY <2>3 DEF TakePayment
    <2>7. /\ \A k \in EntryKinds : entries[k] \in Nat
          /\ \A k \in DOMAIN kinds : entries'[k] = entries[k] + kinds[k]
        BY <1>1, <2>5, <2>6, Entered
    <2> QED
        BY <2>2, <2>4, <2>7 DEF UnappliedEffect, EntryKinds
<1>4. PICK f, g : f = [q \in Payments |-> Kept(q)] /\ g = [q \in Payments |-> Kept(q)']
    OBVIOUS
<1>5. \A q \in Payments : q # p => g[q] = f[q]
    <2> SUFFICES ASSUME NEW q \in Payments, q # p PROVE Kept(q)' = Kept(q)
        BY <1>4
    <2>1. [r \in Receivables |-> paid'[r][q]] = [r \in Receivables |-> paid[r][q]]
        BY <1>2
    <2> QED
        BY <1>2, <2>1 DEF Kept
<1>6. f[p] = 0
    <2>1. PICK h : h = [r \in Receivables |-> paid[r][p]]
        OBVIOUS
    <2>2. \A r \in Receivables : paid[r][p] = 0
        BY <1>1 DEF Links
    <2>3. h \in [Receivables -> Int] /\ \A r \in Receivables : h[r] = 0
        BY <2>1, <2>2
    <2>4. Sum(h) = 0
        BY <2>3, BaseSets, TotalZero
    <2> QED
        BY <1>1, <1>4, <2>1, <2>4 DEF Kept
<1>7. g[p] = amount - Sum(share)
    <2>1. [r \in Receivables |-> paid'[r][p]] = share
        BY <1>2
    <2> QED
        BY <1>2, <1>4, <2>1 DEF Kept
<1>8. Sum(share) \in Nat
    BY BaseSets, TotalNat
<1>9. f \in [Payments -> Int] /\ g \in [Payments -> Int]
    <2>1. f \in [Payments -> Int]
        BY <1>1, <1>4, KeptIs
    <2> QED
        BY <1>4, <1>5, <1>7, <1>8, <2>1
<1>10. Sum(g) = Sum(f) - f[p] + g[p] /\ Sum(f) \in Int
    BY <1>5, <1>9, BaseSets, TotalChange, TotalInt
<1> QED
    BY <1>3, <1>4, <1>6, <1>7, <1>8, <1>10 DEF LinesAgree

PaymentLines == {"PAYMENT", "PAYMENT_ALLOCATION", "OPENING_RECEIVABLE_PAYMENT_APPLIED",
                 "CANCELLATION_CHARGE_PAYMENT_APPLIED"}

\* What leaves payments and their lines alone leaves their sum alone.
LEMMA OtherLines ==
    ASSUME TypeOK, LinesAgree, NEW kinds, PaymentLines \cap DOMAIN kinds = {},
           Enter(kinds) \/ UNCHANGED entries, UNCHANGED <<received, paid>>
    PROVE  LinesAgree'
<1>1. \A k \in PaymentLines : k \in EntryKinds /\ entries[k] \in Nat /\ k \notin DOMAIN kinds
    BY DEF TypeOK, PaymentLines, EntryKinds
<1>2. \A k \in PaymentLines : entries'[k] = entries[k]
    <2>1. CASE Enter(kinds)
        BY <1>1, <2>1 DEF Enter
    <2> QED
        BY <2>1
<1>3. UnappliedEffect' = UnappliedEffect
    BY <1>2 DEF UnappliedEffect, PaymentLines
<1>4. \A p \in Payments : Kept(p)' = Kept(p)
    BY DEF Kept
<1>5. [p \in Payments |-> Kept(p)'] = [p \in Payments |-> Kept(p)]
    BY <1>4
<1> QED
    BY <1>3, <1>5 DEF LinesAgree

\* Every step keeps the lines of payments right.
LEMMA LinesStep ==
    ASSUME Inv, LinesAgree, [Next]_vars
    PROVE  LinesAgree'
<1>1. TypeOK /\ Links /\ Solvent
    BY DEF Inv
<1>2. PICK none : DOMAIN none = {}
    <2>1. DOMAIN [k \in {} |-> 0] = {}
        OBVIOUS
    <2> QED
        BY <2>1
<1>3. ASSUME UNCHANGED <<entries, received, paid>> PROVE LinesAgree'
    BY <1>1, <1>2, <1>3, OtherLines
<1>4. ASSUME NEW r \in Receivables, IssueInvoice(r) \/ ChargeCancellation(r) \/ OpenReceivable(r)
      PROVE  LinesAgree'
    <2>1. PICK kind \in {"INVOICE", "OPENING_RECEIVABLE", "CANCELLATION_CHARGE"} : Record(r, kind)
        BY <1>4 DEF IssueInvoice, ChargeCancellation, OpenReceivable
    <2>2. PICK kinds : kinds = [k \in {kind} |-> AmountOf[r]] /\ DOMAIN kinds = {kind}
        <3>1. DOMAIN [k \in {kind} |-> AmountOf[r]] = {kind}
            OBVIOUS
        <3> QED
            BY <3>1
    <2>3. PaymentLines \cap DOMAIN kinds = {}
        BY <2>2 DEF PaymentLines
    <2>4. Enter(kinds) /\ UNCHANGED <<received, paid>>
        BY <2>1, <2>2 DEF Record
    <2> QED
        BY <1>1, <2>3, <2>4, OtherLines
<1>5. ASSUME NEW amount \in Amounts, OpenAdvance(amount) PROVE LinesAgree'
    <2>1. PaymentLines \cap DOMAIN [OPENING_ADVANCE |-> amount] = {}
        BY DEF PaymentLines
    <2>2. Enter([OPENING_ADVANCE |-> amount]) /\ UNCHANGED <<received, paid>>
        BY <1>5 DEF OpenAdvance
    <2> QED
        BY <1>1, <2>1, <2>2, OtherLines
<1>6. ASSUME NEW amount \in Amounts, NEW p \in Payments, ConvertToAdvance(p, amount) PROVE LinesAgree'
    <2>1. PaymentLines \cap DOMAIN [ADVANCE |-> amount] = {}
        BY DEF PaymentLines
    <2>2. Enter([ADVANCE |-> amount]) /\ UNCHANGED <<received, paid>>
        BY <1>6 DEF ConvertToAdvance
    <2> QED
        BY <1>1, <2>1, <2>2, OtherLines
<1>7. ASSUME NEW amount \in Amounts, NEW a \in Advances, NEW r \in Receivables,
             ApplyAdvance(a, r, amount)
      PROVE  LinesAgree'
    <2>1. PaymentLines \cap DOMAIN [ADVANCE_APPLIED |-> amount] = {}
        BY DEF PaymentLines
    <2>2. Enter([ADVANCE_APPLIED |-> amount]) /\ UNCHANGED <<received, paid>>
        BY <1>7 DEF ApplyAdvance
    <2> QED
        BY <1>1, <2>1, <2>2, OtherLines
<1>8. ASSUME NEW a, NEW amount, PayOut(a, amount), UNCHANGED <<received, paid>> PROVE LinesAgree'
    <2>1. PaymentLines \cap DOMAIN [REFUND |-> amount] = {}
        BY DEF PaymentLines
    <2>2. Enter([REFUND |-> amount])
        BY <1>8 DEF PayOut
    <2> QED
        BY <1>1, <1>8, <2>1, <2>2, OtherLines
<1>9. ASSUME NEW r \in Receivables, NEW c \in Receivables \cup {None}, CancelInvoice(r, c)
      PROVE  LinesAgree'
    <2>1. \E x, y, z : Enter([CREDIT_NOTE |-> x, ADVANCE |-> y, CANCELLATION_CHARGE |-> z])
        BY <1>9 DEF CancelInvoice
    <2>2. PICK x, y, z : Enter([CREDIT_NOTE |-> x, ADVANCE |-> y, CANCELLATION_CHARGE |-> z])
        BY <2>1
    <2>3. PaymentLines \cap DOMAIN [CREDIT_NOTE |-> x, ADVANCE |-> y, CANCELLATION_CHARGE |-> z] = {}
        BY DEF PaymentLines
    <2>4. UNCHANGED <<received, paid>>
        BY <1>9 DEF CancelInvoice
    <2> QED
        BY <1>1, <2>2, <2>3, <2>4, OtherLines
<1>10. ASSUME NEW amount \in Amounts, NEW p \in Payments, NEW r \in Receivables,
              PayInvoice(p, r, amount)
       PROVE  LinesAgree'
    <2>1. PICK share : share = [q \in Receivables |-> IF q = r THEN amount ELSE 0]
        OBVIOUS
    <2>2. amount \in Nat /\ share \in [Receivables -> Nat]
        BY <2>1, ReceivablesAssumption
    <2>3. TakePayment(p, amount, share)
        BY <1>10, <2>1 DEF PayInvoice
    <2> QED
        BY <2>2, <2>3, PaymentAddsLines
<1>11. ASSUME NEW amount \in Amounts, NEW p \in Payments, Collect(p, amount) PROVE LinesAgree'
    <2>1. PICK share : share = Fifo(amount)
        OBVIOUS
    <2>2. amount \in Nat
        BY ReceivablesAssumption
    <2>3. found # None /\ TakePayment(p, amount, share)
        BY <1>11, <2>1 DEF Collect
    <2>4. share \in [Receivables -> Nat]
        BY <1>1, <2>1, <2>2, <2>3, FifoShares
    <2> QED
        BY <2>2, <2>3, <2>4, PaymentAddsLines
<1>12. ASSUME FindCandidates \/ UNCHANGED vars PROVE LinesAgree'
    BY <1>3, <1>12 DEF FindCandidates, facts, vars
<1>13. ASSUME NEW amount \in Amounts, NEW a \in Advances, NEW k \in RefundKeys,
              LocalRefund(a, amount) \/ ReserveRefund(k, a, amount)
       PROVE  LinesAgree'
    BY <1>3, <1>8, <1>13 DEF LocalRefund, ReserveRefund
<1>14. ASSUME NEW amount \in Amounts, NEW a \in Advances, LocalRefund(a, amount) PROVE LinesAgree'
    BY <1>8, <1>14 DEF LocalRefund
<1>15. ASSUME NEW k \in RefundKeys, NEW result \in {"SUCCEEDED", "FAILED"}, RefundResult(k, result)
       PROVE  LinesAgree'
    BY <1>3, <1>8, <1>15 DEF RefundResult
<1>16. ASSUME NEW p \in Payments, Settle(p) PROVE LinesAgree'
    BY <1>3, <1>16 DEF Settle
<1> QED
    BY <1>4, <1>5, <1>6, <1>7, <1>9, <1>10, <1>11, <1>12, <1>13, <1>14, <1>15, <1>16 DEF Next

-----------------------------------------------------------------------------
(* Theorems.                                                               *)

\* The inductive invariant: rows refer to what exists, a cancelled invoice owes nothing,
\* nothing is overspent, the books agree, and credit notes give back what covered an invoice.
THEOREM InvHolds == Spec => []Inv
BY InvInit, InvStep, PTL DEF Spec

\* Every variable keeps its type.
THEOREM TypeCorrect == Spec => []TypeOK
<1>1. Inv => TypeOK
    BY DEF Inv
<1> QED
    BY <1>1, InvHolds, PTL

\* Nothing is spent twice: no receivable is covered beyond its principal, no payment used
\* beyond its amount, no advance applied, refunded and promised beyond its amount.
THEOREM NothingIsOverspent == Spec => []NothingOverspent
<1>1. Inv => NothingOverspent
    <2> SUFFICES ASSUME Inv PROVE NothingOverspent
        OBVIOUS
    <2>1. TypeOK /\ Solvent /\ opened \in Seq(Receivables)
        BY DEF Inv, TypeOK
    <2>2. Opened \subseteq Receivables /\ DOMAIN advances = 1..Len(advances)
        BY <2>1, OpenedRange, Figures
    <2> QED
        BY <2>1, <2>2 DEF NothingOverspent, Solvent
<1> QED
    BY <1>1, InvHolds, PTL

\* The facts, the stored balances, the general ledger and the statement agree.
LEMMA BooksAgreeHere ==
    ASSUME Inv, LinesAgree
    PROVE  BooksAgree
<1>1. TypeOK /\ Books /\ opened \in Seq(Receivables)
    BY DEF Inv, TypeOK
<1>2. /\ Opened \subseteq Receivables /\ DOMAIN advances = 1..Len(advances)
      /\ 1..Len(advances) \subseteq Advances
      /\ \A r \in Receivables : Outstanding(r) \in Int
      /\ \A a \in 1..Len(advances) : Booked(a) \in Int
    BY <1>1, OpenedRange, Figures
<1>3. SumReceivablesOutstanding = Debt
    <2>1. PICK f : f = [r \in Opened |-> Outstanding(r)]
        OBVIOUS
    <2>2. PICK g : g = [r \in Receivables |-> Owing(r)]
        OBVIOUS
    <2>3. /\ f \in [Opened -> Int] /\ g \in [Receivables -> Int]
          /\ \A r \in Receivables : g[r] = IF r \in Opened THEN f[r] ELSE 0
        BY <1>2, <2>1, <2>2 DEF Owing
    <2>4. Opened \subseteq Receivables /\ IsFiniteSet(Receivables)
        BY <1>2, BaseSets
    <2>5. Sum(g) = Sum(f)
        BY ONLY <2>3, <2>4, TotalOver
    <2> QED
        BY <2>1, <2>2, <2>5 DEF SumReceivablesOutstanding, Debt
<1>4. SumAdvances = Credit
    <2>1. PICK T : T = DOMAIN advances
        OBVIOUS
    <2>2. PICK f : f = [a \in T |-> Booked(a)]
        OBVIOUS
    <2>3. PICK g : g = [a \in Advances |-> Held(a)]
        OBVIOUS
    <2>4. /\ f \in [T -> Int] /\ g \in [Advances -> Int] /\ T \subseteq Advances
          /\ \A a \in Advances : g[a] = IF a \in T THEN f[a] ELSE 0
        BY <1>2, <2>1, <2>2, <2>3 DEF Held
    <2>5. Sum(g) = Sum(f)
        BY ONLY <2>4, BaseSets, TotalOver
    <2> QED
        BY <2>1, <2>2, <2>3, <2>5 DEF SumAdvances, Credit
<1>5. UnappliedEffect = SumUnappliedReceipts + SumConversions
    <2>1. PICK f : f = [p \in Payments |-> Unapplied(p)]
        OBVIOUS
    <2>2. PICK g : g = [p \in Payments |-> Sum([a \in Converted(p) |-> advances[a].amount])]
        OBVIOUS
    <2>3. PICK h : h = [p \in Payments |-> Kept(p)]
        OBVIOUS
    <2>4. ASSUME NEW p \in Payments
          PROVE  f[p] \in Int /\ g[p] \in Int /\ h[p] \in Int /\ h[p] = f[p] + g[p]
        <3>1. Sum([a \in Converted(p) |-> advances[a].amount]) = Sum(ConvertedOf(advances, p))
            BY <1>2 DEF Converted, ConvertedOf
        <3>2. /\ f[p] = Unapplied(p) /\ h[p] = Kept(p) /\ g[p] = Sum(ConvertedOf(advances, p))
            BY <2>1, <2>2, <2>3, <3>1
        <3>3. /\ received[p] \in Nat /\ Sum([r \in Receivables |-> paid[r][p]]) \in Nat
              /\ g[p] \in Nat
              /\ f[p] = received[p] - Sum([r \in Receivables |-> paid[r][p]]) - g[p]
            BY <1>1, <3>2, Figures DEF TypeOK
        <3> QED
            BY <3>2, <3>3 DEF Kept
    <2>5. f \in [Payments -> Int] /\ g \in [Payments -> Int] /\ h \in [Payments -> Int]
        BY <2>1, <2>2, <2>3, <2>4
    <2>6. Sum(h) = Sum(f) + Sum(g)
        BY <2>4, <2>5, BaseSets, TotalPlus
    <2> QED
        BY <2>1, <2>2, <2>3, <2>6 DEF LinesAgree, SumUnappliedReceipts, SumConversions
<1> QED
    BY <1>1, <1>3, <1>4, <1>5 DEF BooksAgree, Books

\* The four records of an account agree: the facts, the stored balances, the control
\* accounts of the general ledger, and the effects of the statement's lines, of which the
\* third exceeds the summary's unapplied money by what was converted to advances.
THEOREM BooksAlwaysAgree == Spec => []BooksAgree
<1>1. Inv /\ LinesAgree /\ [Next]_vars => LinesAgree'
    BY LinesStep
<1>2. Inv /\ LinesAgree => BooksAgree
    BY BooksAgreeHere
<1> QED
    BY <1>1, <1>2, NoLines, InvHolds, PTL DEF Spec

\* What payment p covers of each receivable through advances that come from it.
ViaAdvances(p) == [r \in Receivables |-> Sum([a \in Advances |-> CoverVia(p, r, a)])]
ComesFrom(p)   == {a \in DOMAIN advances : advances[a].payment = p}

LEMMA ViaFigures ==
    ASSUME TypeOK, NEW p \in Payments
    PROVE  /\ ViaAdvances(p) \in [Receivables -> Nat]
           /\ ComesFrom(p) \subseteq Advances /\ IsFiniteSet(ComesFrom(p))
           /\ \A r \in Receivables :
                 ViaAdvances(p)[r] = Sum([a \in ComesFrom(p) |-> applied[r][a]])
           /\ Sum(ViaAdvances(p))
                = Sum([a \in Advances |-> IF a \in ComesFrom(p) THEN Drawn(a) ELSE 0])
<1>1. /\ applied \in [Receivables -> [Advances -> Nat]] /\ DOMAIN advances = 1..Len(advances)
      /\ \A a \in 1..Len(advances) : a \in Advances
    BY Figures DEF TypeOK
<1>2. PICK C : C = ComesFrom(p)
    OBVIOUS
<1>3. C \subseteq Advances /\ IsFiniteSet(C)
    <2>1. C \subseteq Advances
        BY <1>1, <1>2 DEF ComesFrom
    <2> QED
        BY <2>1, BaseSets, FS_Subset
<1>4. PICK F : F = [r \in Receivables |-> [a \in Advances |-> CoverVia(p, r, a)]]
    OBVIOUS
<1>5. \A r \in Receivables : \A a \in Advances :
          F[r][a] = (IF a \in C THEN applied[r][a] ELSE 0) /\ F[r][a] \in Nat
    BY <1>1, <1>2, <1>4 DEF CoverVia, ComesFrom
<1>6. PICK g : g = ViaAdvances(p)
    OBVIOUS
<1>7. \A r \in Receivables : F[r] \in [Advances -> Nat] /\ g[r] = Sum(F[r])
    BY <1>4, <1>5, <1>6 DEF ViaAdvances
<1>8. g \in [Receivables -> Nat]
    <2>1. \A r \in Receivables : g[r] \in Nat
        BY <1>7, BaseSets, TotalNat
    <2> QED
        BY <1>6, <2>1 DEF ViaAdvances
<1>9. ASSUME NEW r \in Receivables PROVE g[r] = Sum([a \in C |-> applied[r][a]])
    <2>1. PICK f : f = [a \in C |-> applied[r][a]]
        OBVIOUS
    <2>2. /\ f \in [C -> Int] /\ F[r] \in [Advances -> Int]
          /\ \A a \in Advances : F[r][a] = IF a \in C THEN f[a] ELSE 0
        BY <1>1, <1>3, <1>5, <1>7, <2>1
    <2>3. Sum(F[r]) = Sum(f)
        BY ONLY <1>3, <2>2, BaseSets, TotalOver
    <2> QED
        BY <1>7, <2>1, <2>3
<1>10. PICK h : h = [a \in Advances |-> IF a \in C THEN Drawn(a) ELSE 0]
    OBVIOUS
<1>11. PICK G : G = [a \in Advances |-> [r \in Receivables |-> F[r][a]]]
    OBVIOUS
<1>12. ASSUME NEW a \in Advances PROVE h[a] = SumFunctionOnSet(G[a], Receivables)
    <2>1. PICK c : c = [r \in Receivables |-> F[r][a]] /\ c = G[a]
        BY <1>11
    <2>2. CASE a \in C
        <3>1. c = [r \in Receivables |-> applied[r][a]]
            BY <1>5, <2>1, <2>2
        <3>2. Drawn(a) = Sum(c)
            BY <3>1 DEF Drawn
        <3> QED
            BY <1>10, <2>1, <2>2, <3>2, TotalIs
    <2>3. CASE a \notin C
        <3>1. \A r \in Receivables : c[r] = 0
            BY <1>5, <2>1, <2>3
        <3>2. SumFunctionOnSet(c, Receivables) = 0
            BY <3>1, BaseSets, SumZero
        <3> QED
            BY <1>10, <2>1, <2>3, <3>2
    <2> QED
        BY <2>2, <2>3
<1>13. \A r \in Receivables : g[r] = SumFunctionOnSet(F[r], Advances)
    BY <1>7, TotalIs
<1>14. \A r \in Receivables, a \in Advances : F[r][a] \in Int /\ G[a][r] = F[r][a]
    BY <1>5, <1>11
<1>15. SumFunctionOnSet(g, Receivables) = SumFunctionOnSet(h, Advances)
    <2>1. \A a \in Advances : h[a] = SumFunctionOnSet(G[a], Receivables)
        BY <1>12
    <2>2. IsFiniteSet(Receivables)
        BY BaseSets
    <2>3. IsFiniteSet(Advances)
        BY BaseSets
    <2>4. AddsRows(g, F, Receivables, Advances)
        BY <1>13, <1>14 DEF AddsRows
    <2>5. AddsRows(h, G, Advances, Receivables)
        BY <1>14, <2>1 DEF AddsRows
    <2>6. Transposed(G, F, Receivables, Advances)
        BY <1>14 DEF Transposed
    <2> QED
        BY ONLY <2>2, <2>3, <2>4, <2>5, <2>6, SumSwap
<1>16. DOMAIN g = Receivables /\ DOMAIN h = Advances
    BY <1>6, <1>10 DEF ViaAdvances
<1>17. Sum(g) = Sum(h)
    BY <1>15, <1>16, TotalIs
<1> QED
    BY <1>2, <1>3, <1>6, <1>8, <1>9, <1>10, <1>17

\* Where the money of a payment went, by receivable: what covers the standing ones, and
\* what credit notes gave back of the others.
LEMMA TracedByReceivable ==
    ASSUME TypeOK, Links, NEW p \in Payments, NEW T, T = {r \in Opened : status[r] \notin Cancelled}
    PROVE  /\ Sum([r \in T |-> paid[r][p]]) \in Int
           /\ Sum([x \in T \X ComesFrom(p) |-> applied[x[1]][x[2]]]) \in Int
           /\ Sum([r \in Receivables |-> Undone(p, r)]) \in Int
           /\ Sum([r \in Receivables |-> paid[r][p]]) + Sum(ViaAdvances(p))
                = Sum([r \in T |-> paid[r][p]])
                + Sum([x \in T \X ComesFrom(p) |-> applied[x[1]][x[2]]])
                + Sum([r \in Receivables |-> Undone(p, r)])
<1>1. /\ paid \in [Receivables -> [Payments -> Nat]] /\ applied \in [Receivables -> [Advances -> Nat]]
      /\ opened \in Seq(Receivables)
    BY DEF TypeOK
<1>2. T \subseteq Receivables /\ IsFiniteSet(T)
    <2>1. T \subseteq Receivables
        BY <1>1, OpenedRange
    <2> QED
        BY <2>1, BaseSets, FS_Subset
<1>3. PICK C : C = ComesFrom(p)
    OBVIOUS
<1>4. PICK X : X = ViaAdvances(p)
    OBVIOUS
<1>5. /\ X \in [Receivables -> Nat] /\ C \subseteq Advances /\ IsFiniteSet(C)
      /\ \A r \in Receivables : X[r] = Sum([a \in C |-> applied[r][a]])
    BY <1>3, <1>4, ViaFigures
<1>6. PICK P : P = [r \in Receivables |-> paid[r][p]]
    OBVIOUS
<1>7. P \in [Receivables -> Nat]
    BY <1>1, <1>6
<1>8. PICK U : U = [r \in Receivables |-> Undone(p, r)]
    OBVIOUS
<1>9. \A r \in Receivables : U[r] = IF status[r] \in Cancelled THEN P[r] + X[r] ELSE 0
    BY <1>4, <1>6, <1>8 DEF Undone, CoverFrom, ViaAdvances
<1>10. PICK A : A = [r \in Receivables |-> IF r \in T THEN P[r] ELSE 0]
    OBVIOUS
<1>11. PICK B : B = [r \in Receivables |-> IF r \in T THEN X[r] ELSE 0]
    OBVIOUS
<1>12. PICK Y : Y = [r \in Receivables |-> P[r] + X[r]]
    OBVIOUS
<1>13. PICK Z : Z = [r \in Receivables |-> A[r] + B[r]]
    OBVIOUS
<1>14. \A r \in Receivables : P[r] \in Nat /\ X[r] \in Nat
    BY <1>5, <1>7
<1>15. /\ A \in [Receivables -> Int] /\ B \in [Receivables -> Int] /\ Y \in [Receivables -> Int]
       /\ Z \in [Receivables -> Int] /\ U \in [Receivables -> Int]
       /\ P \in [Receivables -> Int] /\ X \in [Receivables -> Int]
    <2>1. A \in [Receivables -> Int] /\ B \in [Receivables -> Int]
        BY <1>10, <1>11, <1>14
    <2>2. U \in [Receivables -> Int]
        BY <1>8, <1>9, <1>14
    <2>3. Y \in [Receivables -> Int]
        BY <1>12, <1>14
    <2>4. Z \in [Receivables -> Int]
        BY <1>13, <2>1
    <2> QED
        BY <1>5, <1>7, <2>1, <2>2, <2>3, <2>4
<1>16. \A r \in Receivables : r \notin Opened => P[r] = 0 /\ X[r] = 0
    <2>1. SUFFICES ASSUME NEW r \in Receivables, r \notin Opened PROVE P[r] = 0 /\ X[r] = 0
        OBVIOUS
    <2>2. \A a \in Advances : applied[r][a] = 0
        BY <2>1 DEF Links
    <2>3. P[r] = 0
        BY <1>6, <2>1 DEF Links
    <2>4. PICK f : f = [a \in C |-> applied[r][a]]
        OBVIOUS
    <2>5. f \in [C -> Int] /\ \A a \in C : f[a] = 0
        BY <1>5, <2>2, <2>4
    <2>6. Sum(f) = 0
        BY <1>5, <2>5, TotalZero
    <2> QED
        BY <1>5, <2>3, <2>4, <2>6
<1>17. \A r \in Receivables : Y[r] = Z[r] + U[r]
    <2>1. SUFFICES ASSUME NEW r \in Receivables PROVE Y[r] = Z[r] + U[r]
        OBVIOUS
    <2>2. Y[r] = P[r] + X[r] /\ Z[r] = A[r] + B[r]
        BY <1>12, <1>13
    <2>3. CASE r \in T
        BY <1>9, <1>10, <1>11, <1>14, <2>2, <2>3
    <2>4. CASE r \notin T /\ status[r] \in Cancelled
        BY <1>9, <1>10, <1>11, <1>14, <2>2, <2>4
    <2>5. CASE r \notin T /\ status[r] \notin Cancelled
        BY <1>9, <1>10, <1>11, <1>16, <2>2, <2>5
    <2> QED
        BY <2>3, <2>4, <2>5
<1>18. Sum(Y) = Sum(P) + Sum(X)
    <2>1. \A r \in Receivables : Y[r] = P[r] + X[r]
        BY <1>12
    <2> QED
        BY ONLY <1>15, <2>1, BaseSets, TotalPlus
<1>19. Sum(Z) = Sum(A) + Sum(B)
    <2>1. \A r \in Receivables : Z[r] = A[r] + B[r]
        BY <1>13
    <2> QED
        BY ONLY <1>15, <2>1, BaseSets, TotalPlus
<1>20. Sum(Y) = Sum(Z) + Sum(U)
    BY ONLY <1>15, <1>17, BaseSets, TotalPlus
<1>21. Sum(A) \in Int /\ Sum(B) \in Int /\ Sum(U) \in Int /\ Sum(P) \in Int /\ Sum(X) \in Int
    BY ONLY <1>15, BaseSets, TotalInt
<1>22. Sum(A) = Sum([r \in T |-> paid[r][p]])
    <2>1. PICK f : f = [r \in T |-> paid[r][p]]
        OBVIOUS
    <2>2. f \in [T -> Int] /\ \A r \in Receivables : A[r] = IF r \in T THEN f[r] ELSE 0
        BY <1>2, <1>6, <1>10, <1>14, <2>1
    <2>3. Sum(A) = Sum(f)
        BY ONLY <1>2, <1>15, <2>2, BaseSets, TotalOver
    <2> QED
        BY <2>1, <2>3
<1>23. Sum(B) = Sum([x \in T \X C |-> applied[x[1]][x[2]]])
    <2>1. PICK g : g = [r \in T |-> X[r]]
        OBVIOUS
    <2>2. g \in [T -> Int] /\ \A r \in Receivables : B[r] = IF r \in T THEN g[r] ELSE 0
        BY <1>2, <1>11, <1>14, <2>1
    <2>3. Sum(B) = Sum(g)
        BY ONLY <1>2, <1>15, <2>2, BaseSets, TotalOver
    <2>4. PICK f : f = [x \in T \X C |-> applied[x[1]][x[2]]]
        OBVIOUS
    <2>5. PICK F : F = [r \in T |-> [a \in C |-> applied[r][a]]]
        OBVIOUS
    <2>6. \A r \in T : g[r] = SumFunctionOnSet(F[r], C)
        <3>1. SUFFICES ASSUME NEW r \in T PROVE g[r] = SumFunctionOnSet(F[r], C)
            OBVIOUS
        <3>2. g[r] = Sum(F[r]) /\ DOMAIN F[r] = C
            BY <1>2, <1>5, <2>1, <2>5
        <3> QED
            BY <3>2, TotalIs
    <2>7. \A r \in T, a \in C : F[r][a] \in Int /\ f[<<r, a>>] = F[r][a]
        BY <1>1, <1>2, <1>5, <2>4, <2>5
    <2>8. SumFunctionOnSet(f, T \X C) = SumFunctionOnSet(g, T)
        <3>1. IsFiniteSet(T)
            BY <1>2
        <3>2. IsFiniteSet(C)
            BY <1>5
        <3>3. AddsRows(g, F, T, C)
            BY <2>6, <2>7 DEF AddsRows
        <3>4. \A r \in T, a \in C : f[<<r, a>>] = F[r][a]
            BY <2>7
        <3> QED
            BY ONLY <3>1, <3>2, <3>3, <3>4, SumPairs
    <2>9. DOMAIN f = T \X C /\ DOMAIN g = T
        BY <2>1, <2>4
    <2>10. Sum(f) = Sum(g)
        BY <2>8, <2>9, TotalIs
    <2> QED
        BY <2>3, <2>4, <2>10
<1> QED
    BY <1>3, <1>4, <1>6, <1>8, <1>18, <1>19, <1>20, <1>21, <1>22, <1>23

\* And by advance: what was converted of the payment and what credit notes gave back.
LEMMA TracedByAdvance ==
    ASSUME TypeOK, Links, NEW p \in Payments
    PROVE  /\ Sum([a \in ComesFrom(p) |-> Booked(a)]) \in Int
           /\ Sum([a \in ComesFrom(p) |-> refunded[a]]) \in Int
           /\ Sum(ViaAdvances(p)) \in Int
           /\ Sum([a \in ComesFrom(p) |-> Booked(a)]) + Sum([a \in ComesFrom(p) |-> refunded[a]])
                + Sum(ViaAdvances(p))
                = Sum(ConvertedOf(advances, p)) + Sum([a \in Advances |-> Released(p, a)])
<1>1. /\ DOMAIN advances = 1..Len(advances) /\ Len(advances) \in Nat /\ Len(advances) <= MaxAdvances
      /\ \A a \in Advances : Drawn(a) \in Nat
      /\ \A a \in 1..Len(advances) : /\ a \in Advances /\ advances[a] \in AdvanceRow
                                     /\ advances[a].amount \in Nat /\ Booked(a) \in Int
      /\ \A a \in Advances : refunded[a] \in Nat
    BY Figures DEF TypeOK
<1>2. PICK C : C = ComesFrom(p)
    OBVIOUS
<1>3. C \subseteq Advances /\ \A a \in C : a \in 1..Len(advances) /\ advances[a].payment = p
    BY <1>1, <1>2 DEF ComesFrom
<1>4. PICK y : y = [a \in Advances |-> IF a \in C THEN Booked(a) ELSE 0]
    OBVIOUS
<1>5. PICK z : z = [a \in Advances |-> IF a \in C THEN refunded[a] ELSE 0]
    OBVIOUS
<1>6. PICK d : d = [a \in Advances |-> IF a \in C THEN Drawn(a) ELSE 0]
    OBVIOUS
<1>7. PICK k : k = [a \in Advances |-> ConvertOf(advances, a, p)]
    OBVIOUS
<1>8. PICK f : f = [a \in Advances |-> Released(p, a)]
    OBVIOUS
<1>9. PICK v : v = [a \in Advances |-> y[a] + z[a]]
    OBVIOUS
<1>10. PICK w : w = [a \in Advances |-> k[a] + f[a]]
    OBVIOUS
<1>11. /\ y \in [Advances -> Int] /\ z \in [Advances -> Int] /\ d \in [Advances -> Int]
       /\ k \in [Advances -> Int] /\ f \in [Advances -> Int]
    <2>1. y \in [Advances -> Int]
        BY <1>1, <1>3, <1>4
    <2>2. z \in [Advances -> Int] /\ d \in [Advances -> Int]
        BY <1>1, <1>5, <1>6
    <2>3. k \in [Advances -> Int]
        BY <1>1, <1>7 DEF ConvertOf, Converts
    <2>4. f \in [Advances -> Int]
        BY <1>1, <1>8 DEF Released
    <2> QED
        BY <2>1, <2>2, <2>3, <2>4
<1>12. v \in [Advances -> Int] /\ w \in [Advances -> Int]
    <2>1. \A a \in Advances : y[a] \in Int /\ z[a] \in Int /\ k[a] \in Int /\ f[a] \in Int
        BY <1>11
    <2> QED
        BY <1>9, <1>10, <2>1
<1>13. \A a \in Advances : w[a] = v[a] + d[a]
    <2>1. SUFFICES ASSUME NEW a \in Advances PROVE k[a] + f[a] = y[a] + z[a] + d[a]
        BY <1>9, <1>10
    <2>2. CASE a \in C
        <3>1. y[a] = Booked(a) /\ z[a] = refunded[a] /\ d[a] = Drawn(a)
            BY <1>4, <1>5, <1>6, <2>2
        <3>2. a \in 1..Len(advances) /\ advances[a].payment = p
            BY <1>3, <2>2
        <3>3. PICK x : x = advances[a]
            OBVIOUS
        <3>4. x.source \in {"PAYMENT", "OPENING", "CREDIT_NOTE"} /\ x.payment = p /\ x.amount \in Nat
            BY <1>1, <3>2, <3>3 DEF AdvanceRow
        <3>5. x.source # "OPENING"
            <4>1. x.source = "OPENING" => x.payment = None
                BY <3>2, <3>3 DEF Links
            <4> QED
                BY <3>4, <4>1, ReceivablesAssumption
        <3>6. k[a] = IF x.source = "PAYMENT" THEN x.amount ELSE 0
            BY <1>7, <3>2, <3>3 DEF ConvertOf, Converts
        <3>7. f[a] = IF x.source = "CREDIT_NOTE" THEN x.amount ELSE 0
            BY <1>1, <1>8, <3>2, <3>3 DEF Released
        <3>8. k[a] + f[a] = x.amount
            BY <3>4, <3>5, <3>6, <3>7
        <3>9. Booked(a) = x.amount - Drawn(a) - refunded[a]
            BY <3>3 DEF Booked
        <3>10. Drawn(a) \in Nat /\ refunded[a] \in Nat
            BY <1>1
        <3> QED
            BY <3>1, <3>4, <3>8, <3>9, <3>10
    <2>3. CASE a \notin C
        <3>1. ~(a \in 1..Len(advances) /\ advances[a].payment = p)
            BY <1>1, <1>2, <2>3 DEF ComesFrom
        <3>2. k[a] = 0 /\ f[a] = 0
            BY <1>1, <1>7, <1>8, <3>1 DEF ConvertOf, Converts, Released
        <3> QED
            BY <1>4, <1>5, <1>6, <2>3, <3>2
    <2> QED
        BY <2>2, <2>3
<1>14. Sum(v) = Sum(y) + Sum(z)
    <2>1. \A a \in Advances : v[a] = y[a] + z[a]
        BY <1>9
    <2> QED
        BY ONLY <1>11, <1>12, <2>1, BaseSets, TotalPlus
<1>15. Sum(w) = Sum(k) + Sum(f)
    <2>1. \A a \in Advances : w[a] = k[a] + f[a]
        BY <1>10
    <2> QED
        BY ONLY <1>11, <1>12, <2>1, BaseSets, TotalPlus
<1>16. Sum(w) = Sum(v) + Sum(d)
    BY ONLY <1>11, <1>12, <1>13, BaseSets, TotalPlus
<1>17. Sum(y) \in Int /\ Sum(z) \in Int /\ Sum(d) \in Int
    BY ONLY <1>11, BaseSets, TotalInt
<1>18. Sum(y) = Sum([a \in C |-> Booked(a)])
    <2>1. PICK b : b = [a \in C |-> Booked(a)]
        OBVIOUS
    <2>2. b \in [C -> Int] /\ \A a \in Advances : y[a] = IF a \in C THEN b[a] ELSE 0
        BY <1>1, <1>3, <1>4, <2>1
    <2>3. Sum(y) = Sum(b)
        <3>1. b \in [C -> Int]
            BY <2>2
        <3>2. y \in [Advances -> Int] /\ IsFiniteSet(Advances) /\ C \subseteq Advances
            BY <1>3, <1>11, BaseSets
        <3>3. \A a \in Advances : y[a] = IF a \in C THEN b[a] ELSE 0
            BY <2>2
        <3> QED
            BY ONLY <3>1, <3>2, <3>3, TotalOver
    <2> QED
        BY <2>1, <2>3
<1>19. Sum(z) = Sum([a \in C |-> refunded[a]])
    <2>1. PICK b : b = [a \in C |-> refunded[a]]
        OBVIOUS
    <2>2. b \in [C -> Int] /\ \A a \in Advances : z[a] = IF a \in C THEN b[a] ELSE 0
        BY <1>1, <1>3, <1>5, <2>1
    <2>3. Sum(z) = Sum(b)
        <3>1. b \in [C -> Int]
            BY <2>2
        <3>2. z \in [Advances -> Int] /\ IsFiniteSet(Advances) /\ C \subseteq Advances
            BY <1>3, <1>11, BaseSets
        <3>3. \A a \in Advances : z[a] = IF a \in C THEN b[a] ELSE 0
            BY <2>2
        <3> QED
            BY ONLY <3>1, <3>2, <3>3, TotalOver
    <2> QED
        BY <2>1, <2>3
<1>20. Sum(ViaAdvances(p)) = Sum(d)
    BY <1>2, <1>6, ViaFigures
<1>21. Sum(ConvertedOf(advances, p)) = Sum(k)
    BY <1>1, <1>7, ConvertedIs
<1> QED
    BY <1>2, <1>8, <1>14, <1>15, <1>16, <1>17, <1>18, <1>19, <1>20, <1>21

LEMMA MoneyIsTracedHere == Inv => MoneyIsTraced
<1> SUFFICES ASSUME Inv, NEW T, T = {r \in Opened : status[r] \notin Cancelled}, NEW p \in Payments
             PROVE  received[p] = Unapplied(p)
                                + Sum([r \in T |-> paid[r][p]])
                                + Sum([x \in T \X ComesFrom(p) |-> applied[x[1]][x[2]]])
                                + Sum([a \in ComesFrom(p) |-> Booked(a)])
                                + Sum([a \in ComesFrom(p) |-> refunded[a]])
    BY DEF MoneyIsTraced, ComesFrom
<1>1. TypeOK /\ Links /\ Traced
    BY DEF Inv
<1>2. PICK P : P = Sum([r \in Receivables |-> paid[r][p]])
    OBVIOUS
<1>3. PICK K : K = Sum(ConvertedOf(advances, p))
    OBVIOUS
<1>4. PICK V : V = Sum(ViaAdvances(p))
    OBVIOUS
<1>5. PICK U : U = Sum([r \in Receivables |-> Undone(p, r)])
    OBVIOUS
<1>6. PICK A : A = Sum([r \in T |-> paid[r][p]])
    OBVIOUS
<1>7. PICK X : X = Sum([x \in T \X ComesFrom(p) |-> applied[x[1]][x[2]]])
    OBVIOUS
<1>8. PICK B : B = Sum([a \in ComesFrom(p) |-> Booked(a)])
    OBVIOUS
<1>9. PICK R : R = Sum([a \in ComesFrom(p) |-> refunded[a]])
    OBVIOUS
<1>10. P \in Nat /\ K \in Nat /\ received[p] \in Nat /\ Unapplied(p) = received[p] - P - K
    BY <1>1, <1>2, <1>3, Figures DEF TypeOK
<1>11. A \in Int /\ X \in Int /\ U \in Int /\ P + V = A + X + U
    BY <1>1, <1>2, <1>4, <1>5, <1>6, <1>7, TracedByReceivable
<1>12. B \in Int /\ R \in Int /\ V \in Int /\ B + R + V = K + U
    <2>1. Sum([a \in Advances |-> Released(p, a)]) = U
        BY <1>1, <1>5 DEF Traced
    <2> QED
        BY <1>1, <1>3, <1>4, <1>8, <1>9, <2>1, TracedByAdvance
<1>13. received[p] = Unapplied(p) + A + X + B + R
    BY ONLY <1>10, <1>11, <1>12
<1> QED
    BY <1>6, <1>7, <1>8, <1>9, <1>13

\* No unit of a payment is lost or doubled: it is unapplied, covers a receivable that stands,
\* is booked on an advance that comes from it, or was paid out.
THEOREM MoneyIsAlwaysTraced == Spec => []MoneyIsTraced
BY MoneyIsTracedHere, InvHolds, PTL

-----------------------------------------------------------------------------
(* The order in which receipts pay.                                        *)

\* A receivable is paid by a payment only if it got a share of it.
LEMMA PaidByShare ==
    ASSUME TypeOK, Links, NEW p \in Payments, NEW amount \in Nat, NEW share \in [Receivables -> Nat],
           TakePayment(p, amount, share), NEW r \in Receivables, paid'[r] # paid[r]
    PROVE  share[r] # 0
<1>1. SUFFICES ASSUME share[r] = 0 PROVE paid'[r] = paid[r]
    OBVIOUS
<1>2. /\ paid' \in [Receivables -> [Payments -> Nat]] /\ paid'[r][p] = 0
      /\ \A q \in Payments : q # p => paid'[r][q] = paid[r][q]
    BY <1>1, PaymentRows
<1>3. paid[r][p] = 0
    BY NotYetReceived DEF TakePayment
<1>4. paid \in [Receivables -> [Payments -> Nat]]
    BY DEF TypeOK
<1>5. paid[r] \in [Payments -> Nat] /\ paid'[r] \in [Payments -> Nat]
    BY <1>2, <1>4
<1>6. \A q \in Payments : paid'[r][q] = paid[r][q]
    BY <1>2, <1>3
<1> QED
    BY <1>5, <1>6

\* A receipt that gave something to a younger receivable has closed the older ones.
LEMMA CollectInOrder ==
    ASSUME Inv, Inv', NEW p \in Payments, NEW amount \in Amounts, Collect(p, amount),
           NEW i \in DOMAIN opened, NEW j \in DOMAIN opened, i < j, opened[i] \in Range(found),
           paid'[opened[j]] # paid[opened[j]]
    PROVE  OwedAfter(opened[i]) = 0
<1>1. TypeOK /\ Links /\ Solvent /\ TypeOK'
    BY DEF Inv
<1>2. found # None /\ TakePayment(p, amount, Fifo(amount)) /\ amount \in Nat
    BY ReceivablesAssumption DEF Collect
<1>3. /\ opened \in Seq(Receivables) /\ DOMAIN opened = 1..Len(opened) /\ Len(opened) \in Nat
      /\ Len(found) <= Len(opened) /\ \A k \in 1..Len(found) : found[k] = opened[k]
      /\ \A k, l \in 1..Len(opened) : opened[k] = opened[l] => k = l
    <2>1. opened \in Seq(Receivables)
        BY <1>1 DEF TypeOK
    <2>2. /\ Len(found) <= Len(opened) /\ \A k \in 1..Len(found) : found[k] = opened[k]
          /\ \A k, l \in 1..Len(opened) : opened[k] = opened[l] => k = l
        BY <1>1, <1>2 DEF Links
    <2> QED
        BY <2>1, <2>2
<1>4. /\ Len(found) \in Nat /\ Range(found) = {found[k] : k \in 1..Len(found)}
      /\ \A k \in 1..Len(found) : found[k] \in Receivables
    BY <1>1, <1>2, Candidates DEF Leading
<1>5. \A k \in DOMAIN opened : opened[k] \in Range(found) => k \in 1..Len(found) /\ opened[k] = found[k]
    <2>1. SUFFICES ASSUME NEW k \in DOMAIN opened, opened[k] \in Range(found)
                   PROVE  k \in 1..Len(found) /\ opened[k] = found[k]
        OBVIOUS
    <2>2. PICK l \in 1..Len(found) : opened[k] = found[l]
        BY <1>4, <2>1
    <2>3. l \in 1..Len(opened) /\ opened[k] = opened[l]
        BY <1>3, <1>4, <2>2
    <2> QED
        BY <1>3, <2>2, <2>3
<1>6. PICK f : f = Fifo(amount)
    OBVIOUS
<1>7. f \in [Receivables -> Nat] /\ \A r \in Receivables : r \notin Range(found) => f[r] = 0
    BY <1>1, <1>2, <1>6, FifoShares
<1>8. opened[j] \in Receivables /\ opened[i] \in Receivables
    BY <1>3
<1>9. f[opened[j]] # 0
    BY <1>1, <1>2, <1>6, <1>7, <1>8, PaidByShare
<1>10. /\ i \in 1..Len(found) /\ opened[i] = found[i]
       /\ j \in 1..Len(found) /\ opened[j] = found[j]
    BY <1>5, <1>7, <1>8, <1>9
<1>11. f[found[i]] = Outstanding(found[i])
    BY <1>1, <1>2, <1>6, <1>9, <1>10, FifoOldestFirst
<1>12. PICK r : r = opened[i]
    OBVIOUS
<1>13. r \in Receivables /\ f[r] = Outstanding(r)
    BY <1>8, <1>10, <1>11, <1>12
<1>14. Outstanding(r) \in Int /\ Outstanding(r)' = Outstanding(r) - f[r]
    BY <1>1, <1>2, <1>6, <1>7, <1>13, PaymentFigures
<1>15. Outstanding(r)' = 0
    BY <1>13, <1>14
<1>16. /\ paid' \in [Receivables -> [Payments -> Nat]]
       /\ applied' \in [Receivables -> [Advances -> Nat]]
       /\ credited'[r] \in Nat /\ AmountOf[r] \in Nat
    BY <1>1, <1>13, ReceivablesAssumption DEF TypeOK
<1>17. Sum(paid'[r]) \in Nat /\ Sum(applied'[r]) \in Nat
    <2>1. paid'[r] \in [Payments -> Nat] /\ applied'[r] \in [Advances -> Nat]
        BY <1>13, <1>16
    <2>2. Sum(paid'[r]) \in Nat
        BY <2>1, BaseSets, TotalNat
    <2>3. Sum(applied'[r]) \in Nat
        BY <2>1, BaseSets, TotalNat
    <2> QED
        BY <2>2, <2>3
<1>18. Outstanding(r)' = AmountOf[r] - (Sum(paid'[r]) + Sum(applied'[r])) - credited'[r]
    BY DEF Outstanding, Covered
<1>19. OwedAfter(r) = 0
    BY <1>15, <1>16, <1>17, <1>18 DEF OwedAfter
<1> QED
    BY <1>12, <1>19

\* Only a receipt forgets the candidates it found.
LEMMA OnlyCollectEnds ==
    ASSUME [Next]_vars, found # None, found' = None
    PROVE  \E p \in Payments, amount \in Amounts : Collect(p, amount)
<1>1. ~ UNCHANGED found
    OBVIOUS
<1>2. ASSUME NEW r \in Receivables, IssueInvoice(r) \/ ChargeCancellation(r) \/ OpenReceivable(r)
      PROVE  FALSE
    BY <1>1, <1>2 DEF IssueInvoice, ChargeCancellation, OpenReceivable, Record
<1>3. ~ FindCandidates
    BY DEF FindCandidates
<1>4. \A amount \in Amounts : ~ OpenAdvance(amount)
    BY <1>1 DEF OpenAdvance
<1>5. \A amount \in Amounts, p \in Payments, r \in Receivables : ~ PayInvoice(p, r, amount)
    BY <1>1 DEF PayInvoice
<1>6. \A amount \in Amounts, p \in Payments : ~ ConvertToAdvance(p, amount)
    BY <1>1 DEF ConvertToAdvance
<1>7. \A amount \in Amounts, a \in Advances, r \in Receivables : ~ ApplyAdvance(a, r, amount)
    BY <1>1 DEF ApplyAdvance
<1>8. \A amount \in Amounts, a \in Advances : ~ LocalRefund(a, amount)
    BY <1>1 DEF LocalRefund
<1>9. \A amount \in Amounts, a \in Advances, k \in RefundKeys : ~ ReserveRefund(k, a, amount)
    BY <1>1 DEF ReserveRefund
<1>10. \A r \in Receivables, c \in Receivables \cup {None} : ~ CancelInvoice(r, c)
    BY <1>1 DEF CancelInvoice
<1>11. \A k \in RefundKeys, result \in {"SUCCEEDED", "FAILED"} : ~ RefundResult(k, result)
    BY <1>1 DEF RefundResult
<1>12. \A p \in Payments : ~ Settle(p)
    BY <1>1 DEF Settle
<1>13. ~ UNCHANGED vars
    BY <1>1 DEF vars
<1> QED
    BY <1>2, <1>3, <1>4, <1>5, <1>6, <1>7, <1>8, <1>9, <1>10, <1>11, <1>12, <1>13 DEF Next

\* A receipt pays the oldest first: a receivable gets money only if every older one that the
\* receipt found is closed by then.
THEOREM ReceiptsPayOldestFirst == Spec => OldestFirst
<1>1. Inv /\ Inv' /\ [Next]_vars =>
         (found # None /\ found' = None =>
            \A i, j \in DOMAIN opened :
               /\ i < j /\ opened[i] \in Range(found)
               /\ paid'[opened[j]] # paid[opened[j]]
               => OwedAfter(opened[i]) = 0)
    BY OnlyCollectEnds, CollectInOrder
<1>2. [][found # None /\ found' = None =>
            \A i, j \in DOMAIN opened :
               /\ i < j /\ opened[i] \in Range(found)
               /\ paid'[opened[j]] # paid[opened[j]]
               => OwedAfter(opened[i]) = 0]_vars => OldestFirst
    BY DEF OldestFirst
<1> QED
    BY <1>1, <1>2, InvInit, InvStep, PTL DEF Spec

-----------------------------------------------------------------------------
(* The account implements the abstract ledger.                             *)

\* No control account is overdrawn.
LEMMA NotOverdrawn ==
    ASSUME Inv
    PROVE  gl["AR"] \in Nat /\ gl["UNAPPLIED_RECEIPTS"] \in Nat /\ gl["CUSTOMER_ADVANCES"] \in Nat
<1>1. TypeOK /\ Solvent /\ Books
    BY DEF Inv
<1>2. Debt \in Nat
    <2>1. PICK f : f = [r \in Receivables |-> Owing(r)]
        OBVIOUS
    <2>2. \A r \in Receivables : Owing(r) \in Nat
        BY <1>1, Figures DEF Owing, Solvent
    <2>3. f \in [Receivables -> Nat]
        BY <2>1, <2>2
    <2>4. Sum(f) \in Nat
        BY <2>3, BaseSets, TotalNat
    <2> QED
        BY <2>1, <2>4 DEF Debt
<1>3. Credit \in Nat
    <2>1. PICK f : f = [a \in Advances |-> Held(a)]
        OBVIOUS
    <2>2. ASSUME NEW a \in 1..Len(advances) PROVE Booked(a) \in Nat
        <3>1. a \in Advances /\ Booked(a) \in Int
            BY <1>1, Figures
        <3>2. Reserved(a) \in Nat
            BY <1>1, <3>1, Figures
        <3>3. Booked(a) - Reserved(a) >= 0
            BY <1>1 DEF Solvent, Available
        <3> QED
            BY <3>1, <3>2, <3>3
    <2>3. \A a \in Advances : Held(a) \in Nat
        <3>1. DOMAIN advances = 1..Len(advances)
            BY <1>1, Figures
        <3> QED
            BY <2>2, <3>1 DEF Held
    <2>4. f \in [Advances -> Nat]
        BY <2>1, <2>3
    <2>5. Sum(f) \in Nat
        BY <2>4, BaseSets, TotalNat
    <2> QED
        BY <2>1, <2>5 DEF Credit
<1>4. SumUnappliedReceipts \in Nat
    <2>1. PICK f : f = [p \in Payments |-> Unapplied(p)]
        OBVIOUS
    <2>2. \A p \in Payments : Unapplied(p) \in Nat
        <3>1. \A p \in Payments : Unapplied(p) \in Int
            BY <1>1, Figures
        <3>2. \A p \in Payments : Unapplied(p) >= 0
            BY <1>1 DEF Solvent
        <3> QED
            BY <3>1, <3>2
    <2>3. f \in [Payments -> Nat]
        BY <2>1, <2>2
    <2>4. Sum(f) \in Nat
        BY <2>3, BaseSets, TotalNat
    <2> QED
        BY <2>1, <2>4 DEF SumUnappliedReceipts
<1> QED
    BY <1>1, <1>2, <1>3, <1>4 DEF Books

\* Each journal is one that the ledger allows.
LEMMA Journals ==
    ASSUME Inv, Inv', NEW x \in Int, NEW y \in Int, NEW z \in Int, Post(x, y, z)
    PROVE  /\ gl["AR"] \in Nat /\ gl["UNAPPLIED_RECEIPTS"] \in Nat /\ gl["CUSTOMER_ADVANCES"] \in Nat
           /\ gl'["AR"] \in Nat /\ gl'["UNAPPLIED_RECEIPTS"] \in Nat /\ gl'["CUSTOMER_ADVANCES"] \in Nat
           /\ gl'["AR"] = gl["AR"] + x
           /\ gl'["UNAPPLIED_RECEIPTS"] = gl["UNAPPLIED_RECEIPTS"] + y
           /\ gl'["CUSTOMER_ADVANCES"] = gl["CUSTOMER_ADVANCES"] + z
<1>1. TypeOK
    BY DEF Inv
<1>2. /\ gl'["AR"] = gl["AR"] + x
      /\ gl'["UNAPPLIED_RECEIPTS"] = gl["UNAPPLIED_RECEIPTS"] + y
      /\ gl'["CUSTOMER_ADVANCES"] = gl["CUSTOMER_ADVANCES"] + z
    BY <1>1, Posted
<1>3. /\ gl["AR"] \in Nat /\ gl["UNAPPLIED_RECEIPTS"] \in Nat /\ gl["CUSTOMER_ADVANCES"] \in Nat
      /\ (gl["AR"] \in Nat)' /\ (gl["UNAPPLIED_RECEIPTS"] \in Nat)' /\ (gl["CUSTOMER_ADVANCES"] \in Nat)'
    BY NotOverdrawn, PTL
<1> QED
    BY <1>2, <1>3

\* A receivable comes with its journal, and so does every other operation.
LEMMA BillingBills ==
    ASSUME Inv, Inv', NEW r \in Receivables,
           IssueInvoice(r) \/ ChargeCancellation(r) \/ OpenReceivable(r)
    PROVE  Ledger!Bill
<1>1. PICK x : x = AmountOf[r]
    OBVIOUS
<1>2. x \in Int /\ x > 0 /\ 0 \in Int
    BY <1>1, ReceivablesAssumption
<1>3. Post(x, 0, 0)
    BY <1>1 DEF IssueInvoice, ChargeCancellation, OpenReceivable, Record
<1> QED
    BY <1>2, <1>3, Journals DEF Ledger!Bill

LEMMA PaymentTakesIn ==
    ASSUME Inv, Inv', NEW p \in Payments, NEW amount \in Nat \ {0},
           NEW share \in [Receivables -> Nat], TakePayment(p, amount, share)
    PROVE  Ledger!TakeIn
<1>1. PICK x : x = Sum(share)
    OBVIOUS
<1>2. x \in Nat
    BY <1>1, BaseSets, TotalNat
<1>3. PICK y : y = -x
    OBVIOUS
<1>4. PICK w : w = amount - x
    OBVIOUS
<1>5. y \in Int /\ w \in Int /\ 0 \in Int
    BY <1>2, <1>3, <1>4
<1>6. Post(y, w, 0)
    BY <1>1, <1>3, <1>4 DEF TakePayment
<1>7. w >= 0
    <2>1. TypeOK /\ Links
        BY DEF Inv
    <2>2. Unapplied(p)' = amount - Sum(share)
        BY <2>1, PaymentFigures
    <2>3. Unapplied(p)' >= 0
        BY DEF Inv, Solvent
    <2> QED
        BY <1>1, <1>4, <2>2, <2>3
<1>8. /\ gl["AR"] \in Nat /\ gl["UNAPPLIED_RECEIPTS"] \in Nat /\ gl["CUSTOMER_ADVANCES"] \in Nat
      /\ gl'["AR"] \in Nat /\ gl'["UNAPPLIED_RECEIPTS"] \in Nat
      /\ gl'["AR"] = gl["AR"] + y
      /\ gl'["UNAPPLIED_RECEIPTS"] = gl["UNAPPLIED_RECEIPTS"] + w
      /\ gl'["CUSTOMER_ADVANCES"] = gl["CUSTOMER_ADVANCES"] + 0
    BY <1>5, <1>6, Journals
<1>9. x \in 0..gl["AR"] /\ gl'["AR"] = gl["AR"] - x
    BY <1>2, <1>3, <1>8
<1>10. /\ gl'["UNAPPLIED_RECEIPTS"] >= gl["UNAPPLIED_RECEIPTS"]
       /\ gl'["UNAPPLIED_RECEIPTS"] - gl["UNAPPLIED_RECEIPTS"] + x > 0
       /\ gl'["CUSTOMER_ADVANCES"] = gl["CUSTOMER_ADVANCES"]
    BY <1>2, <1>4, <1>7, <1>8
<1> QED
    BY <1>8, <1>9, <1>10 DEF Ledger!TakeIn

LEMMA AdvanceSetsAside ==
    ASSUME Inv, Inv', NEW amount \in Amounts,
           OpenAdvance(amount) \/ \E p \in Payments : ConvertToAdvance(p, amount)
    PROVE  Ledger!SetAside
<1>1. amount \in Nat \ {0}
    BY ReceivablesAssumption
<1>2. CASE OpenAdvance(amount)
    <2>1. Post(0, 0, amount) /\ 0 \in Int /\ amount \in Int
        BY <1>1, <1>2 DEF OpenAdvance
    <2>2. /\ gl["AR"] \in Nat /\ gl["UNAPPLIED_RECEIPTS"] \in Nat /\ gl["CUSTOMER_ADVANCES"] \in Nat
          /\ gl'["AR"] = gl["AR"] + 0
          /\ gl'["UNAPPLIED_RECEIPTS"] = gl["UNAPPLIED_RECEIPTS"] + 0
          /\ gl'["CUSTOMER_ADVANCES"] = gl["CUSTOMER_ADVANCES"] + amount
        BY <2>1, Journals
    <2>3. /\ 0 \in 0..gl["UNAPPLIED_RECEIPTS"]
          /\ gl'["UNAPPLIED_RECEIPTS"] = gl["UNAPPLIED_RECEIPTS"] - 0
          /\ gl'["CUSTOMER_ADVANCES"] \in Nat /\ gl'["CUSTOMER_ADVANCES"] > gl["CUSTOMER_ADVANCES"]
          /\ gl'["AR"] = gl["AR"]
        BY <1>1, <2>2
    <2> QED
        BY <2>3 DEF Ledger!SetAside
<1>3. CASE \E p \in Payments : ConvertToAdvance(p, amount)
    <2>1. PICK w : w = -amount
        OBVIOUS
    <2>2. w \in Int /\ 0 \in Int /\ amount \in Int
        BY <1>1, <2>1
    <2>3. Post(0, w, amount)
        BY <1>3, <2>1 DEF ConvertToAdvance
    <2>4. /\ gl["AR"] \in Nat /\ gl["UNAPPLIED_RECEIPTS"] \in Nat /\ gl["CUSTOMER_ADVANCES"] \in Nat
          /\ gl'["UNAPPLIED_RECEIPTS"] \in Nat
          /\ gl'["AR"] = gl["AR"] + 0
          /\ gl'["UNAPPLIED_RECEIPTS"] = gl["UNAPPLIED_RECEIPTS"] + w
          /\ gl'["CUSTOMER_ADVANCES"] = gl["CUSTOMER_ADVANCES"] + amount
        BY <2>2, <2>3, Journals
    <2>5. /\ amount \in 0..gl["UNAPPLIED_RECEIPTS"]
          /\ gl'["UNAPPLIED_RECEIPTS"] = gl["UNAPPLIED_RECEIPTS"] - amount
          /\ gl'["CUSTOMER_ADVANCES"] \in Nat /\ gl'["CUSTOMER_ADVANCES"] > gl["CUSTOMER_ADVANCES"]
          /\ amount = gl'["CUSTOMER_ADVANCES"] - gl["CUSTOMER_ADVANCES"]
          /\ gl'["AR"] = gl["AR"]
        BY <1>1, <2>1, <2>4
    <2> QED
        BY <2>5 DEF Ledger!SetAside
<1> QED
    BY <1>2, <1>3

LEMMA ApplicationOffsets ==
    ASSUME Inv, Inv', NEW a \in Advances, NEW r \in Receivables, NEW amount \in Amounts,
           ApplyAdvance(a, r, amount)
    PROVE  Ledger!Offset
<1>1. amount \in Nat \ {0}
    BY ReceivablesAssumption
<1>2. PICK w : w = -amount
    OBVIOUS
<1>3. w \in Int /\ 0 \in Int
    BY <1>1, <1>2
<1>4. Post(w, 0, w)
    BY <1>2 DEF ApplyAdvance
<1>5. /\ gl["AR"] \in Nat /\ gl["UNAPPLIED_RECEIPTS"] \in Nat /\ gl["CUSTOMER_ADVANCES"] \in Nat
      /\ gl'["AR"] \in Nat /\ gl'["CUSTOMER_ADVANCES"] \in Nat
      /\ gl'["AR"] = gl["AR"] + w
      /\ gl'["UNAPPLIED_RECEIPTS"] = gl["UNAPPLIED_RECEIPTS"] + 0
      /\ gl'["CUSTOMER_ADVANCES"] = gl["CUSTOMER_ADVANCES"] + w
    BY <1>3, <1>4, Journals
<1>6. /\ amount \in 1..gl["AR"] /\ amount <= gl["CUSTOMER_ADVANCES"]
      /\ gl'["AR"] = gl["AR"] - amount
      /\ gl'["CUSTOMER_ADVANCES"] = gl["CUSTOMER_ADVANCES"] - amount
      /\ gl'["UNAPPLIED_RECEIPTS"] = gl["UNAPPLIED_RECEIPTS"]
    BY <1>1, <1>2, <1>5
<1> QED
    BY <1>6 DEF Ledger!Offset

LEMMA CancellationUndoes ==
    ASSUME Inv, Inv', NEW r \in Receivables, NEW charge \in Receivables \cup {None},
           CancelInvoice(r, charge)
    PROVE  Ledger!Undo
<1>1. PICK x : x = (IF charge = None THEN 0 ELSE AmountOf[charge]) - (AmountOf[r] - Covered(r))
    OBVIOUS
<1>2. PICK z : z = Covered(r)
    OBVIOUS
<1>3. z \in Nat
    BY <1>2, Figures DEF Inv
<1>4. x \in Int /\ 0 \in Int /\ z \in Int
    BY <1>1, <1>2, <1>3, ReceivablesAssumption
<1>5. Post(x, 0, z)
    BY <1>1, <1>2 DEF CancelInvoice
<1>6. /\ gl["UNAPPLIED_RECEIPTS"] \in Nat /\ gl["CUSTOMER_ADVANCES"] \in Nat
      /\ gl'["AR"] \in Nat /\ gl'["CUSTOMER_ADVANCES"] \in Nat
      /\ gl'["UNAPPLIED_RECEIPTS"] = gl["UNAPPLIED_RECEIPTS"] + 0
      /\ gl'["CUSTOMER_ADVANCES"] = gl["CUSTOMER_ADVANCES"] + z
    BY <1>4, <1>5, Journals
<1>7. gl'["CUSTOMER_ADVANCES"] >= gl["CUSTOMER_ADVANCES"]
        /\ gl'["UNAPPLIED_RECEIPTS"] = gl["UNAPPLIED_RECEIPTS"]
    BY <1>3, <1>6
<1> QED
    BY <1>6, <1>7 DEF Ledger!Undo

LEMMA RefundPaysOut ==
    ASSUME Inv, Inv', NEW a, NEW amount \in Nat \ {0}, PayOut(a, amount)
    PROVE  Ledger!PayOut
<1>1. PICK w : w = -amount
    OBVIOUS
<1>2. w \in Int /\ 0 \in Int
    BY <1>1
<1>3. Post(0, 0, w)
    BY <1>1 DEF PayOut
<1>4. /\ gl["AR"] \in Nat /\ gl["UNAPPLIED_RECEIPTS"] \in Nat /\ gl["CUSTOMER_ADVANCES"] \in Nat
      /\ gl'["CUSTOMER_ADVANCES"] \in Nat
      /\ gl'["AR"] = gl["AR"] + 0
      /\ gl'["UNAPPLIED_RECEIPTS"] = gl["UNAPPLIED_RECEIPTS"] + 0
      /\ gl'["CUSTOMER_ADVANCES"] = gl["CUSTOMER_ADVANCES"] + w
    BY <1>2, <1>3, Journals
<1>5. /\ amount \in 1..gl["CUSTOMER_ADVANCES"]
      /\ gl'["CUSTOMER_ADVANCES"] = gl["CUSTOMER_ADVANCES"] - amount
      /\ gl'["AR"] = gl["AR"] /\ gl'["UNAPPLIED_RECEIPTS"] = gl["UNAPPLIED_RECEIPTS"]
    BY <1>1, <1>4
<1> QED
    BY <1>5 DEF Ledger!PayOut

\* Every step is one of the ledger, or leaves it alone.
LEMMA StepsOfLedger ==
    ASSUME Inv, Inv', [Next]_vars
    PROVE  [Ledger!LedgerNext]_(Ledger!ledger)
<1> USE DEF Ledger!LedgerNext
<1>0. ASSUME gl' = gl PROVE UNCHANGED Ledger!ledger
    BY <1>0 DEF Ledger!ledger
<1>1. CASE UNCHANGED vars
    BY <1>0, <1>1 DEF vars
<1>2. ASSUME NEW r \in Receivables, IssueInvoice(r) \/ ChargeCancellation(r) \/ OpenReceivable(r)
      PROVE  Ledger!LedgerNext
    BY <1>2, BillingBills
<1>3. CASE FindCandidates
    BY <1>0, <1>3 DEF FindCandidates
<1>4. ASSUME NEW amount \in Amounts, OpenAdvance(amount) PROVE Ledger!LedgerNext
    BY <1>4, AdvanceSetsAside
<1>5. ASSUME NEW amount \in Amounts, NEW p \in Payments, NEW r \in Receivables,
             PayInvoice(p, r, amount)
      PROVE  Ledger!LedgerNext
    <2>1. PICK share : share = [q \in Receivables |-> IF q = r THEN amount ELSE 0]
        OBVIOUS
    <2>2. amount \in Nat \ {0} /\ share \in [Receivables -> Nat] /\ TakePayment(p, amount, share)
        BY <1>5, <2>1, ReceivablesAssumption DEF PayInvoice
    <2> QED
        BY <2>2, PaymentTakesIn
<1>6. ASSUME NEW amount \in Amounts, NEW p \in Payments, Collect(p, amount)
      PROVE  Ledger!LedgerNext
    <2>1. PICK share : share = Fifo(amount)
        OBVIOUS
    <2>2. amount \in Nat \ {0} /\ found # None /\ TakePayment(p, amount, share)
        BY <1>6, <2>1, ReceivablesAssumption DEF Collect
    <2>3. share \in [Receivables -> Nat]
        BY <2>1, <2>2, FifoShares DEF Inv
    <2> QED
        BY <2>2, <2>3, PaymentTakesIn
<1>7. ASSUME NEW amount \in Amounts, NEW p \in Payments, ConvertToAdvance(p, amount)
      PROVE  Ledger!LedgerNext
    BY <1>7, AdvanceSetsAside
<1>8. ASSUME NEW amount \in Amounts, NEW a \in Advances, NEW r \in Receivables,
             ApplyAdvance(a, r, amount)
      PROVE  Ledger!LedgerNext
    BY <1>8, ApplicationOffsets
<1>9. ASSUME NEW amount \in Amounts, NEW a \in Advances, LocalRefund(a, amount)
      PROVE  Ledger!LedgerNext
    BY <1>9, RefundPaysOut, ReceivablesAssumption DEF LocalRefund
<1>10. ASSUME NEW amount \in Amounts, NEW a \in Advances, NEW k \in RefundKeys,
              ReserveRefund(k, a, amount)
       PROVE  UNCHANGED Ledger!ledger
    BY <1>0, <1>10 DEF ReserveRefund
<1>11. ASSUME NEW r \in Receivables, NEW c \in Receivables \cup {None}, CancelInvoice(r, c)
       PROVE  Ledger!LedgerNext
    BY <1>11, CancellationUndoes
<1>12. ASSUME NEW k \in RefundKeys, NEW result \in {"SUCCEEDED", "FAILED"}, RefundResult(k, result)
       PROVE  [Ledger!LedgerNext]_(Ledger!ledger)
    <2>1. CASE result = "SUCCEEDED"
        <3>1. PICK a, amount : a = attempts[k].advance /\ amount = attempts[k].amount
            OBVIOUS
        <3>2. PayOut(a, amount) /\ attempts[k] # None
            BY <1>12, <2>1, <3>1 DEF RefundResult
        <3>3. amount \in Nat \ {0}
            BY <3>1, <3>2 DEF Inv, TypeOK, RefundAttempt
        <3> QED
            BY <3>2, <3>3, RefundPaysOut
    <2>2. CASE result # "SUCCEEDED"
        BY <1>0, <1>12, <2>2 DEF RefundResult
    <2> QED
        BY <2>1, <2>2
<1>13. ASSUME NEW p \in Payments, Settle(p) PROVE UNCHANGED Ledger!ledger
    BY <1>0, <1>13 DEF Settle
<1> QED
    BY <1>1, <1>2, <1>3, <1>4, <1>5, <1>6, <1>7, <1>8, <1>9, <1>10, <1>11, <1>12, <1>13 DEF Next

\* The control accounts of the general ledger move only as the abstract ledger allows, and
\* no account of a customer is ever overdrawn.
THEOREM AccountImplementsLedger == Spec => ImplementsLedger
<1>1. Init => Ledger!LedgerInit
    BY DEF Init, Ledger!LedgerInit, Accounts
<1>2. Inv /\ Inv' /\ [Next]_vars => [Ledger!LedgerNext]_(Ledger!ledger)
    BY StepsOfLedger
<1> QED
    BY <1>1, <1>2, InvInit, InvStep, PTL DEF Spec, ImplementsLedger, Ledger!LedgerSpec

=============================================================================
