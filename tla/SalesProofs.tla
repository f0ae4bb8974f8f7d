----------------------------- MODULE SalesProofs -----------------------------
(***************************************************************************)
(* Proofs about sales, cancellations, credit and the general ledger.       *)
(***************************************************************************)
EXTENDS Sales, SumTheorems, SequenceTheorems, TLAPS

-----------------------------------------------------------------------------
(* What a transaction has left to do.                                      *)

Steps == DocumentTypes \cup Kinds \cup {"account"}

\* The order its steps come in.
Rank == [x \in Steps |->
    CASE x = "account" -> 1
      [] x = "ORDER" -> 2
      [] x = "INVOICE" -> 3
      [] x = "CREDIT_NOTE" -> 4
      [] x = "walk_in_sale" -> 5
      [] x = "invoice_ar" -> 6
      [] x = "customer_advance_application" -> 7
      [] x = "payment_allocation" -> 8
      [] x = "credit_note" -> 9
      [] x = "CANCELLATION_CHARGE" -> 10
      [] x = "cancellation_charge" -> 11]

Ordered(q) == \A i, j \in 1..Len(q) : i < j => Rank[q[i]] < Rank[q[j]]
Left(q) == {q[i] : i \in 1..Len(q)}

\* The first step is done: it is not left, and whatever is left comes after it.
LEMMA TodoTail ==
    ASSUME NEW q \in Seq(Steps), q # <<>>, Ordered(q)
    PROVE  /\ Tail(q) \in Seq(Steps) /\ Ordered(Tail(q))
           /\ Head(q) \in Left(q) /\ Left(Tail(q)) = Left(q) \ {Head(q)}
           /\ \A x \in Left(q) : x # Head(q) => Rank[Head(q)] < Rank[x]
<1>1. /\ Tail(q) \in Seq(Steps) /\ Len(Tail(q)) = Len(q) - 1 /\ Len(q) \in Nat \ {0}
      /\ \A i \in 1..Len(Tail(q)) : Tail(q)[i] = q[i + 1]
    BY HeadTailProperties
<1>2. Head(q) = q[1] /\ \A i \in 1..Len(q) : q[i] \in Steps
    OBVIOUS
<1>3. \A x \in Steps : Rank[x] \in Nat
    BY DEF Rank, Steps, DocumentTypes, Kinds
<1>4. Ordered(Tail(q))
    BY <1>1 DEF Ordered
<1>5. \A i \in 1..Len(q) : i # 1 => Rank[q[1]] < Rank[q[i]] /\ q[i] # q[1]
    BY <1>1, <1>2, <1>3 DEF Ordered
<1>6. \A i \in 1..Len(q) : i # 1 => i - 1 \in 1..Len(Tail(q)) /\ q[i] = Tail(q)[i - 1]
    BY <1>1
<1>7. Head(q) \in Left(q)
    BY <1>1, <1>2 DEF Left
<1>8. Left(Tail(q)) = Left(q) \ {Head(q)}
    <2>1. ASSUME NEW i \in 1..Len(Tail(q)) PROVE Tail(q)[i] \in Left(q) \ {Head(q)}
        <3>1. i + 1 \in 1..Len(q) /\ i + 1 # 1 /\ Tail(q)[i] = q[i + 1]
            BY <1>1
        <3> QED
            BY <1>2, <1>5, <3>1 DEF Left
    <2>2. ASSUME NEW i \in 1..Len(q), q[i] # Head(q) PROVE q[i] \in Left(Tail(q))
        BY <1>2, <1>6, <2>2 DEF Left
    <2> QED
        BY <2>1, <2>2 DEF Left
<1>9. \A x \in Left(q) : x # Head(q) => Rank[Head(q)] < Rank[x]
    BY <1>2, <1>5 DEF Left
<1> QED
    BY <1>1, <1>4, <1>7, <1>8, <1>9

\* Steps, and then steps that come after them.
LEMMA TodoConcat ==
    ASSUME NEW q \in Seq(Steps), NEW r \in Seq(Steps), Ordered(q), Ordered(r),
           \A x \in Left(q), y \in Left(r) : Rank[x] < Rank[y]
    PROVE  q \o r \in Seq(Steps) /\ Ordered(q \o r) /\ Left(q \o r) = Left(q) \cup Left(r)
<1>1. /\ q \o r \in Seq(Steps) /\ Len(q \o r) = Len(q) + Len(r) /\ Len(q) \in Nat /\ Len(r) \in Nat
      /\ \A i \in 1..Len(q \o r) : (q \o r)[i] = IF i <= Len(q) THEN q[i] ELSE r[i - Len(q)]
    BY ConcatProperties
<1>2. \A i \in 1..Len(q) : q[i] \in Left(q)
    BY DEF Left
<1>3. \A i \in 1..Len(r) : r[i] \in Left(r)
    BY DEF Left
<1>4. Ordered(q \o r)
    <2>1. SUFFICES ASSUME NEW i \in 1..Len(q \o r), NEW j \in 1..Len(q \o r), i < j
                   PROVE  Rank[(q \o r)[i]] < Rank[(q \o r)[j]]
        BY DEF Ordered
    <2>2. CASE j <= Len(q)
        BY <1>1, <2>1, <2>2 DEF Ordered
    <2>3. CASE i > Len(q)
        <3>1. i - Len(q) \in 1..Len(r) /\ j - Len(q) \in 1..Len(r) /\ i - Len(q) < j - Len(q)
            BY <1>1, <2>1, <2>3
        <3>2. (q \o r)[i] = r[i - Len(q)] /\ (q \o r)[j] = r[j - Len(q)]
            BY <1>1, <2>1, <2>3
        <3> QED
            BY <3>1, <3>2 DEF Ordered
    <2>4. CASE i <= Len(q) /\ j > Len(q)
        <3>1. i \in 1..Len(q) /\ j - Len(q) \in 1..Len(r)
            BY <1>1, <2>1, <2>4
        <3>2. (q \o r)[i] = q[i] /\ (q \o r)[j] = r[j - Len(q)]
            BY <1>1, <2>1, <2>4
        <3> QED
            BY <1>2, <1>3, <3>1, <3>2
    <2> QED
        BY <1>1, <2>2, <2>3, <2>4
<1>5. Left(q \o r) \subseteq Left(q) \cup Left(r)
    <2>1. SUFFICES ASSUME NEW i \in 1..Len(q \o r) PROVE (q \o r)[i] \in Left(q) \cup Left(r)
        BY DEF Left
    <2>2. CASE i <= Len(q)
        BY <1>1, <1>2, <2>2
    <2>3. CASE i > Len(q)
        <3>1. i - Len(q) \in 1..Len(r)
            BY <1>1, <2>3
        <3> QED
            BY <1>1, <1>3, <2>3, <3>1
    <2> QED
        BY <1>1, <2>2, <2>3
<1>6. Left(q) \subseteq Left(q \o r)
    <2>1. SUFFICES ASSUME NEW i \in 1..Len(q) PROVE q[i] \in Left(q \o r)
        BY DEF Left
    <2>2. i \in 1..Len(q \o r) /\ (q \o r)[i] = q[i]
        BY <1>1
    <2> QED
        BY <2>2 DEF Left
<1>7. Left(r) \subseteq Left(q \o r)
    <2>1. SUFFICES ASSUME NEW i \in 1..Len(r) PROVE r[i] \in Left(q \o r)
        BY DEF Left
    <2>2. i + Len(q) \in 1..Len(q \o r) /\ (q \o r)[i + Len(q)] = r[i]
        BY <1>1
    <2> QED
        BY <2>2 DEF Left
<1> QED
    BY <1>1, <1>4, <1>5, <1>6, <1>7

\* No step is left of none.
LEMMA TodoNone == <<>> \in Seq(Steps) /\ Ordered(<<>>) /\ Left(<<>>) = {}
    BY DEF Ordered, Left

\* One step is left of one.
LEMMA TodoOne ==
    ASSUME NEW x \in Steps
    PROVE  <<x>> \in Seq(Steps) /\ Ordered(<<x>>) /\ Left(<<x>>) = {x}
<1>1. <<x>> \in Seq(Steps) /\ Len(<<x>>) = 1 /\ <<x>>[1] = x
    OBVIOUS
<1> QED
    BY <1>1 DEF Ordered, Left

\* What a walk-in sale does.
LEMMA TodoAnonymous ==
    /\ AnonymousSteps \in Seq(Steps) /\ Ordered(AnonymousSteps)
    /\ Left(AnonymousSteps) = {"ORDER", "INVOICE", "walk_in_sale"}
<1> DEFINE q == AnonymousSteps
<1>1. q \in Seq(Steps) /\ Len(q) = 3 /\ q[1] = "ORDER" /\ q[2] = "INVOICE" /\ q[3] = "walk_in_sale"
    BY DEF AnonymousSteps, Steps, DocumentTypes, Kinds
<1> HIDE DEF q
<1>2. \A i \in 1..Len(q) : i = 1 \/ i = 2 \/ i = 3
    BY <1>1
<1>3. Rank["ORDER"] < Rank["INVOICE"] /\ Rank["ORDER"] < Rank["walk_in_sale"] /\ Rank["INVOICE"] < Rank["walk_in_sale"]
    BY DEF Rank, Steps, DocumentTypes, Kinds
<1>4. Ordered(q)
    BY <1>1, <1>2, <1>3 DEF Ordered
<1>5. Left(q) = {"ORDER", "INVOICE", "walk_in_sale"}
    BY <1>1, <1>2 DEF Left
<1> QED
    BY <1>1, <1>4, <1>5 DEF q


\* What the sale to a customer does.
LEMMA TodoCustomer ==
    ASSUME NEW p \in PlanRows
    PROVE  /\ CustomerSteps(p) \in Seq(Steps) /\ Ordered(CustomerSteps(p))
           /\ Left(CustomerSteps(p)) =
                 {"account", "ORDER", "INVOICE", "invoice_ar"}
                 \cup (IF p.advance > 0 THEN {"customer_advance_application"} ELSE {})
                 \cup (IF p.tender > 0 THEN {"payment_allocation"} ELSE {})
<1> DEFINE q == <<"account", "ORDER", "INVOICE", "invoice_ar">>
           a == If(p.advance > 0, "customer_advance_application")
           b == If(p.tender > 0, "payment_allocation")
<1>1. /\ q \in Seq(Steps) /\ Len(q) = 4
      /\ q[1] = "account" /\ q[2] = "ORDER" /\ q[3] = "INVOICE" /\ q[4] = "invoice_ar"
    BY DEF Steps, DocumentTypes, Kinds
<1>2. /\ Rank["account"] = 1 /\ Rank["ORDER"] = 2 /\ Rank["INVOICE"] = 3 /\ Rank["invoice_ar"] = 6
      /\ Rank["customer_advance_application"] = 7 /\ Rank["payment_allocation"] = 8
    BY DEF Rank, Steps, DocumentTypes, Kinds
<1>3. /\ a \in Seq(Steps) /\ Ordered(a)
      /\ Left(a) = IF p.advance > 0 THEN {"customer_advance_application"} ELSE {}
    BY TodoOne, TodoNone DEF If, Steps, Kinds
<1>4. /\ b \in Seq(Steps) /\ Ordered(b)
      /\ Left(b) = IF p.tender > 0 THEN {"payment_allocation"} ELSE {}
    BY TodoOne, TodoNone DEF If, Steps, Kinds
<1>5. CustomerSteps(p) = (q \o a) \o b
    BY DEF CustomerSteps
<1> HIDE DEF q, a, b
<1>6. \A i \in 1..Len(q) : i = 1 \/ i = 2 \/ i = 3 \/ i = 4
    BY <1>1
<1>7. Ordered(q)
    BY <1>1, <1>2, <1>6 DEF Ordered
<1>8. Left(q) = {"account", "ORDER", "INVOICE", "invoice_ar"}
    BY <1>1, <1>6 DEF Left
<1>9. \A x \in Left(q), y \in Left(a) : Rank[x] < Rank[y]
    BY <1>2, <1>3, <1>8
<1>10. q \o a \in Seq(Steps) /\ Ordered(q \o a) /\ Left(q \o a) = Left(q) \cup Left(a)
    BY <1>1, <1>3, <1>7, <1>9, TodoConcat
<1>11. \A x \in Left(q \o a), y \in Left(b) : Rank[x] < Rank[y]
    BY <1>2, <1>3, <1>4, <1>8, <1>10
<1>12. /\ (q \o a) \o b \in Seq(Steps) /\ Ordered((q \o a) \o b)
       /\ Left((q \o a) \o b) = Left(q \o a) \cup Left(b)
    BY <1>4, <1>10, <1>11, TodoConcat
<1> QED
    BY <1>3, <1>4, <1>5, <1>8, <1>10, <1>12

\* What a charge adds to a cancellation.
LEMMA TodoCharge ==
    ASSUME NEW charged \in BOOLEAN
    PROVE  /\ ChargeSteps(charged) \in Seq(Steps) /\ Ordered(ChargeSteps(charged))
           /\ Left(ChargeSteps(charged)) =
                 IF charged THEN {"CANCELLATION_CHARGE", "cancellation_charge"} ELSE {}
<1> DEFINE q == <<"CANCELLATION_CHARGE", "cancellation_charge">>
<1>1. q \in Seq(Steps) /\ Len(q) = 2 /\ q[1] = "CANCELLATION_CHARGE" /\ q[2] = "cancellation_charge"
    BY DEF Steps, DocumentTypes, Kinds
<1>2. ChargeSteps(charged) = IF charged THEN q ELSE <<>>
    BY DEF ChargeSteps
<1> HIDE DEF q
<1>3. Rank["CANCELLATION_CHARGE"] < Rank["cancellation_charge"]
    BY DEF Rank, Steps, DocumentTypes, Kinds
<1>4. \A i \in 1..Len(q) : i = 1 \/ i = 2
    BY <1>1
<1>5. Ordered(q) /\ Left(q) = {"CANCELLATION_CHARGE", "cancellation_charge"}
    BY <1>1, <1>3, <1>4 DEF Ordered, Left
<1> QED
    BY <1>1, <1>2, <1>5, TodoNone

\* What the cancellation of a draft does.
LEMMA TodoDraft ==
    ASSUME NEW charged \in BOOLEAN
    PROVE  /\ If(charged, "account") \o ChargeSteps(charged) \in Seq(Steps)
           /\ Ordered(If(charged, "account") \o ChargeSteps(charged))
           /\ Left(If(charged, "account") \o ChargeSteps(charged)) =
                 IF charged THEN {"account", "CANCELLATION_CHARGE", "cancellation_charge"} ELSE {}
<1> DEFINE q == If(charged, "account")
           r == ChargeSteps(charged)
<1>1. q \in Seq(Steps) /\ Ordered(q) /\ Left(q) = IF charged THEN {"account"} ELSE {}
    BY TodoOne, TodoNone DEF If, Steps
<1>2. /\ r \in Seq(Steps) /\ Ordered(r)
      /\ Left(r) = IF charged THEN {"CANCELLATION_CHARGE", "cancellation_charge"} ELSE {}
    BY TodoCharge
<1> HIDE DEF q, r
<1>3. Rank["account"] < Rank["CANCELLATION_CHARGE"] /\ Rank["account"] < Rank["cancellation_charge"]
    BY DEF Rank, Steps, DocumentTypes, Kinds
<1>4. \A x \in Left(q), y \in Left(r) : Rank[x] < Rank[y]
    BY <1>1, <1>2, <1>3
<1>5. q \o r \in Seq(Steps) /\ Ordered(q \o r) /\ Left(q \o r) = Left(q) \cup Left(r)
    BY <1>1, <1>2, <1>4, TodoConcat
<1> QED
    BY <1>1, <1>2, <1>5 DEF q, r

\* What the cancellation of an invoiced order does.
LEMMA TodoInvoiced ==
    ASSUME NEW charged \in BOOLEAN
    PROVE  /\ <<"account", "CREDIT_NOTE", "credit_note">> \o ChargeSteps(charged) \in Seq(Steps)
           /\ Ordered(<<"account", "CREDIT_NOTE", "credit_note">> \o ChargeSteps(charged))
           /\ Left(<<"account", "CREDIT_NOTE", "credit_note">> \o ChargeSteps(charged)) =
                 {"account", "CREDIT_NOTE", "credit_note"} \cup
                 IF charged THEN {"CANCELLATION_CHARGE", "cancellation_charge"} ELSE {}
<1> DEFINE q == <<"account", "CREDIT_NOTE", "credit_note">>
           r == ChargeSteps(charged)
<1>1. /\ q \in Seq(Steps) /\ Len(q) = 3
      /\ q[1] = "account" /\ q[2] = "CREDIT_NOTE" /\ q[3] = "credit_note"
    BY DEF Steps, DocumentTypes, Kinds
<1>2. /\ r \in Seq(Steps) /\ Ordered(r)
      /\ Left(r) = IF charged THEN {"CANCELLATION_CHARGE", "cancellation_charge"} ELSE {}
    BY TodoCharge
<1> HIDE DEF q, r
<1>3. /\ Rank["account"] = 1 /\ Rank["CREDIT_NOTE"] = 4 /\ Rank["credit_note"] = 9
      /\ Rank["CANCELLATION_CHARGE"] = 10 /\ Rank["cancellation_charge"] = 11
    BY DEF Rank, Steps, DocumentTypes, Kinds
<1>4. \A i \in 1..Len(q) : i = 1 \/ i = 2 \/ i = 3
    BY <1>1
<1>5. Ordered(q) /\ Left(q) = {"account", "CREDIT_NOTE", "credit_note"}
    BY <1>1, <1>3, <1>4 DEF Ordered, Left
<1>6. \A x \in Left(q), y \in Left(r) : Rank[x] < Rank[y]
    BY <1>2, <1>3, <1>5
<1>7. q \o r \in Seq(Steps) /\ Ordered(q \o r) /\ Left(q \o r) = Left(q) \cup Left(r)
    BY <1>1, <1>2, <1>5, <1>6, TodoConcat
<1> QED
    BY <1>2, <1>5, <1>7 DEF q, r

-----------------------------------------------------------------------------
(* The invariant.                                                          *)

\* A transaction holds its order, which is what its user saw, and no two hold the same row.
Holds(s) ==
    /\ tx[s].order \in tx[s].locks
    /\ order[tx[s].order] # None
    /\ seen[s] = [of |-> tx[s].order, row |-> order[tx[s].order]]
Locks ==
    /\ \A s \in Slots : Open(s) => Holds(s)
    /\ \A s, u \in Slots : Open(s) /\ Open(u) /\ s # u => tx[s].locks \cap tx[u].locks = {}

\* A row that was seen is the row, unless its version has moved on.
Saw(s) ==
    LET x == seen[s].of IN
    /\ Row(x) # None
    /\ seen[s].row.version <= Row(x).version
    /\ seen[s].row.version = Row(x).version => seen[s].row = Row(x)
Seen == \A s \in Slots : seen[s] # None => Saw(s)

\* Which documents an order may have.
Orderly(o) ==
    /\ order[o] = None => invoice[o] = None /\ note[o] = 0 /\ charge[o] = 0
    /\ order[o] # None /\ order[o].status \in {"DRAFT", "HELD"} =>
          order[o].number = 0 /\ invoice[o] = None /\ note[o] = 0 /\ charge[o] = 0
    /\ order[o] # None /\ order[o].status = "CONFIRMED" => note[o] = 0 /\ charge[o] = 0
OrdersOK == \A o \in Orders : Orderly(o)

\* How far a sale is, given the transaction, the row of the order and the row of its invoice.
AnonymousWork == {"ORDER", "INVOICE", "walk_in_sale"}
CustomerWork  == {"account", "ORDER", "INVOICE", "invoice_ar",
                  "customer_advance_application", "payment_allocation"}
SaleOK(t, row, inv) ==
    /\ row.status = "DRAFT" /\ inv = None
    /\ t.numbers["CREDIT_NOTE"] = 0 /\ t.numbers["CANCELLATION_CHARGE"] = 0
    /\ t.numbers["ORDER"] > 0 <=> "ORDER" \notin Left(t.todo)
    /\ t.numbers["INVOICE"] > 0 <=> "INVOICE" \notin Left(t.todo)
    /\ t.plan.tender + t.plan.advance <= row.total
    /\ row.customer = None =>
          Left(t.todo) \subseteq AnonymousWork /\ t.plan.tender = row.total /\ t.mode = None
    /\ row.customer # None => /\ Left(t.todo) \subseteq CustomerWork
                              /\ "account" \notin Left(t.todo) => row.customer \in t.locks

\* How far a cancellation is, and whether there is a charge for it.
Charging(t) == t.numbers["CANCELLATION_CHARGE"] > 0 \/ "CANCELLATION_CHARGE" \in Left(t.todo)
CancelWork == {"account", "CREDIT_NOTE", "credit_note", "CANCELLATION_CHARGE", "cancellation_charge"}
CancelOK(t, row, inv) ==
    /\ t.numbers["ORDER"] = 0 /\ t.numbers["INVOICE"] = 0 /\ t.mode = None
    /\ Left(t.todo) \subseteq CancelWork
    /\ inv = None => /\ row.status \in {"DRAFT", "HELD"} /\ t.numbers["CREDIT_NOTE"] = 0
                     /\ "CREDIT_NOTE" \notin Left(t.todo) /\ "credit_note" \notin Left(t.todo)
    /\ inv # None => /\ row.status = "CONFIRMED" /\ row.customer # None
                     /\ t.numbers["CREDIT_NOTE"] > 0 <=> "CREDIT_NOTE" \notin Left(t.todo)
    /\ Left(t.todo) # {} \/ Charging(t) => row.customer # None
    /\ "account" \notin Left(t.todo) /\ (inv # None \/ Charging(t)) => row.customer \in t.locks

\* A journal that is dated beforehand has its date when its turn comes.
Dated(t) ==
    /\ t.date # None => t.date \in 1..Days
    /\ "walk_in_sale" \in Left(t.todo) /\ "INVOICE" \notin Left(t.todo) => t.date # None
    /\ "credit_note" \in Left(t.todo) /\ "account" \notin Left(t.todo) => t.date # None
    /\ "cancellation_charge" \in Left(t.todo) /\ "account" \notin Left(t.todo) => t.date # None

\* The numbers taken are those of counters that are held.
Numbered(t) == \A type \in DocumentTypes : t.numbers[type] > 0 =>
                  type \in t.locks /\ t.numbers[type] = counter[type]

Works(s) ==
    LET t == tx[s] row == order[tx[s].order] inv == invoice[tx[s].order] IN
    /\ Ordered(t.todo) /\ Dated(t) /\ Numbered(t)
    /\ t.plan # None => SaleOK(t, row, inv)
    /\ t.plan = None => CancelOK(t, row, inv)
WorkOK == \A s \in Slots : Open(s) => Works(s)

\* The credit that was given stands as long as the account is held.
Authorized(s) ==
    LET c == Customer(s) IN
    tx[s].mode # None =>
        /\ c \in Customers /\ c \in tx[s].locks /\ credit[c].enabled
        /\ tx[s].mode = "NORMAL" /\ credit[c].limit # None =>
              outstanding[c] + Owing(Total(s), tx[s].plan) <= credit[c].limit
CreditOK == \A s \in Slots : Open(s) => Authorized(s)

\* What is posted is posted in periods that are shared and open.
Shares(s) ==
    /\ \A d \in tx[s].shares : period[d] = "OPEN"
    /\ \A d \in 1..Days : d \notin tx[s].shares => \A a \in Ledger : tx[s].entries[d][a] = 0
SharesOK == \A s \in Slots : Open(s) => Shares(s)

IInv == TypeOK /\ Locks /\ Seen /\ OrdersOK /\ WorkOK /\ CreditOK /\ SharesOK

-----------------------------------------------------------------------------
(* What is posted, and what it comes to.                                   *)

\* What a journal of a kind enters in an account.
Entry(t, row, inv, kind, a) ==
    CASE kind = "walk_in_sale" -> (CASE a = "SALES" -> -row.total [] OTHER -> 0)
      [] kind = "invoice_ar"   -> (CASE a = "AR" -> row.total [] a = "SALES" -> -row.total [] OTHER -> 0)
      [] kind = "customer_advance_application" ->
            (CASE a = "ADVANCES" -> t.plan.advance [] a = "AR" -> -t.plan.advance [] OTHER -> 0)
      [] kind = "payment_allocation" -> (CASE a = "AR" -> -t.plan.tender [] OTHER -> 0)
      [] kind = "credit_note" ->
            (CASE a = "SALES" -> inv.total [] a = "AR" -> inv.paid - inv.total
               [] a = "ADVANCES" -> -inv.paid [] OTHER -> 0)
      [] kind = "cancellation_charge" -> (CASE a = "AR" -> Charge [] OTHER -> 0)

\* What is entered in account a, what is left to enter, and what both must come to.
Entered(t, a) == SumFunctionOnSet([d \in 1..Days |-> t.entries[d][a]], 1..Days)
Term(t, row, inv, kind, a) == IF kind \in Left(t.todo) THEN Entry(t, row, inv, kind, a) ELSE 0
Due(t, row, inv, a) ==
      Term(t, row, inv, "walk_in_sale", a) + Term(t, row, inv, "invoice_ar", a)
    + Term(t, row, inv, "customer_advance_application", a) + Term(t, row, inv, "payment_allocation", a)
    + Term(t, row, inv, "credit_note", a) + Term(t, row, inv, "cancellation_charge", a)

SaleEffect(t, row, a) ==
    CASE a = "AR" -> row.total - t.plan.tender - t.plan.advance
      [] a = "ADVANCES" -> t.plan.advance
      [] a = "SALES" -> -row.total
CancelEffect(t, inv, a) ==
    CASE a = "AR" -> (IF Charging(t) THEN Charge ELSE 0) - (IF inv = None THEN 0 ELSE inv.total - inv.paid)
      [] a = "ADVANCES" -> IF inv = None THEN 0 ELSE -inv.paid
      [] a = "SALES" -> IF inv = None THEN 0 ELSE inv.total
Effect(t, row, inv, a) == IF t.plan = None THEN CancelEffect(t, inv, a) ELSE SaleEffect(t, row, a)

Balanced(t, row, inv) ==
    \A a \in {"AR", "ADVANCES", "SALES"} : Entered(t, a) + Due(t, row, inv, a) = Effect(t, row, inv, a)
BalancedOK == \A s \in Slots : Open(s) => Balanced(tx[s], order[tx[s].order], invoice[tx[s].order])

-----------------------------------------------------------------------------
(* What the transactions that do not act see.                              *)

\* The fields of an open transaction.
LEMMA TxFacts ==
    ASSUME TypeOK, NEW s \in Slots, Open(s)
    PROVE  /\ tx[s] \in Transactions
           /\ tx[s].order \in Orders /\ tx[s].plan \in PlanRows \cup {None}
           /\ tx[s].date \in Nat \cup {None} /\ tx[s].todo \in Seq(Steps)
           /\ tx[s].locks \subseteq Orders \cup Customers \cup DocumentTypes
           /\ tx[s].shares \subseteq 1..Days
           /\ tx[s].mode \in Modes /\ tx[s].numbers \in [DocumentTypes -> Nat]
           /\ tx[s].entries \in Sums
<1>1. tx[s] \in Transactions
    BY DEF TypeOK, Open
<1> QED
    BY <1>1 DEF Transactions, Steps

\* A transaction keeps what it knows as long as nobody changes what it holds.
LEMMA SlotKeeps ==
    ASSUME NEW u \in Slots, TypeOK, Open(u), Holds(u), Works(u), Authorized(u), Shares(u),
           tx'[u] = tx[u], seen'[u] = seen[u],
           order'[tx[u].order] = order[tx[u].order],
           invoice'[tx[u].order] = invoice[tx[u].order],
           \A type \in DocumentTypes : type \in tx[u].locks => counter'[type] = counter[type],
           \A c \in Customers : c \in tx[u].locks =>
              credit'[c] = credit[c] /\ outstanding'[c] = outstanding[c],
           \A d \in tx[u].shares : period'[d] = period[d]
    PROVE  Open(u)' /\ Holds(u)' /\ Works(u)' /\ Authorized(u)' /\ Shares(u)'
<1>1. Open(u)' /\ Holds(u)'
    BY DEF Open, Holds
<1>2. Numbered(tx[u])'
    BY DEF Works, Numbered
<1>3. Works(u)'
    BY <1>2 DEF Works, Numbered
<1>4. Authorized(u)'
    BY DEF Authorized, Customer, Total
<1>5. Shares(u)'
    BY DEF Shares
<1> QED
    BY <1>1, <1>3, <1>4, <1>5

\* What leaves the transactions alone, and what they hold, keeps the invariant.
LEMMA QuietKeeps ==
    ASSUME IInv, TypeOK', Seen', OrdersOK', UNCHANGED <<invoice, counter, outstanding, tx>>,
           \A u \in Slots : Open(u) =>
              /\ seen'[u] = seen[u] /\ order'[tx[u].order] = order[tx[u].order]
              /\ \A c \in Customers : c \in tx[u].locks => credit'[c] = credit[c]
              /\ \A d \in tx[u].shares : period'[d] = period[d]
    PROVE  IInv'
<1>1. ASSUME NEW u \in Slots, Open(u)'
      PROVE  Holds(u)' /\ Works(u)' /\ Authorized(u)' /\ Shares(u)'
    <2>1. Open(u)
        BY <1>1 DEF Open
    <2>2. TypeOK /\ Holds(u) /\ Works(u) /\ Authorized(u) /\ Shares(u)
        BY <2>1 DEF IInv, Locks, WorkOK, CreditOK, SharesOK
    <2> QED
        BY <2>1, <2>2, SlotKeeps
<1>2. Locks'
    <2>1. \A s, u \in Slots : Open(s)' /\ Open(u)' /\ s # u => tx'[s].locks \cap tx'[u].locks = {}
        BY DEF IInv, Locks, Open
    <2> QED
        BY <1>1, <2>1 DEF Locks
<1> QED
    BY <1>1, <1>2 DEF IInv, WorkOK, CreditOK, SharesOK

-----------------------------------------------------------------------------
(* Drafts, credit configurations, days and periods.                        *)

\* Whoever has seen a row that changes has seen an old version of it.
LEMMA SeenMoves ==
    ASSUME TypeOK, TypeOK', Seen,
           \A u \in Slots : seen'[u] = seen[u] \/ seen'[u] = None,
           \A o \in Orders : order[o] = None \/ order'[o] = order[o]
                                \/ (order'[o] # None /\ order'[o].version > order[o].version),
           \A c \in Customers : credit'[c] = credit[c]
                                \/ (credit'[c] # None /\ credit'[c].version > credit[c].version)
    PROVE  Seen'
<1>1. SUFFICES ASSUME NEW u \in Slots, seen'[u] # None PROVE Saw(u)'
    BY DEF Seen
<1>2. seen'[u] = seen[u] /\ seen[u] # None /\ Saw(u) /\ seen[u] \in SeenRows
    BY <1>1 DEF Seen, TypeOK
<1>3. PICK x \in Orders \cup Customers : x = seen[u].of
    BY <1>2 DEF SeenRows
<1>4. PICK row \in OrderRows \cup CreditRows : row = seen[u].row
    BY <1>2 DEF SeenRows
<1>5. Row(x) # None /\ row.version <= Row(x).version /\ (row.version = Row(x).version => row = Row(x))
    BY <1>2, <1>3, <1>4 DEF Saw
<1>6. \/ Row(x)' = Row(x)
      \/ Row(x)' # None /\ Row(x)'.version > Row(x).version
    BY <1>3, <1>5 DEF Row
<1>7. row.version \in Nat /\ Row(x).version \in Nat
    BY <1>3, <1>4, <1>5 DEF OrderRows, CreditRows, Row, TypeOK
<1>8. CASE Row(x)' = Row(x)
    BY <1>2, <1>3, <1>4, <1>5, <1>8 DEF Saw, Row
<1>9. CASE Row(x)' # None /\ Row(x)'.version > Row(x).version
    <2>1. Row(x)' \in OrderRows \cup CreditRows
        BY <1>3, <1>9 DEF Row, TypeOK
    <2>2. Row(x)'.version \in Nat
        BY <2>1 DEF OrderRows, CreditRows
    <2>3. row.version < Row(x)'.version
        BY <1>5, <1>7, <1>9, <2>2
    <2>4. row.version <= Row(x)'.version /\ row.version # Row(x)'.version
        BY <1>7, <2>2, <2>3
    <2>5. Saw(u)' <=> LET y == x IN
                      /\ Row(y)' # None
                      /\ row.version <= Row(y)'.version
                      /\ row.version = Row(y)'.version => row = Row(y)'
        BY <1>2, <1>3, <1>4 DEF Saw, Row
    <2> QED
        BY <1>9, <2>4, <2>5
<1> QED
    BY <1>6, <1>8, <1>9

\* A draft is an order row, and so is one that has changed.
LEMMA OrderRowFacts ==
    ASSUME NEW row \in OrderRows, NEW c \in Associations, NEW n \in Totals,
           NEW status \in {"DRAFT", "HELD", "CONFIRMED", "CANCELLED"}, NEW k \in Nat
    PROVE  /\ [row EXCEPT !.version = @ + 1] \in OrderRows
           /\ [row EXCEPT !.customer = c, !.total = n] \in OrderRows
           /\ [row EXCEPT !.status = status] \in OrderRows
           /\ [row EXCEPT !.status = status, !.version = @ + 1] \in OrderRows
           /\ [row EXCEPT !.status = status, !.version = @ + 1, !.number = k] \in OrderRows
<1>1. row.version + 1 \in Nat
    BY DEF OrderRows
<1> DEFINE v == row.version + 1
<1> HIDE DEF v
<1>2. v \in Nat
    BY <1>1 DEF v
<1>3. /\ [row EXCEPT !.version = v] \in OrderRows
      /\ [row EXCEPT !.customer = c, !.total = n] \in OrderRows
      /\ [row EXCEPT !.status = status] \in OrderRows
      /\ [row EXCEPT !.status = status, !.version = v] \in OrderRows
      /\ [row EXCEPT !.status = status, !.version = v, !.number = k] \in OrderRows
    BY <1>2, Zenon DEF OrderRows, Associations
<1> QED
    BY <1>3 DEF v

\* A draft that is created.
LEMMA BlankFacts ==
    ASSUME NEW c \in Associations, NEW n \in Totals
    PROVE  Priced(Blank, c, n) \in OrderRows /\ Priced(Blank, c, n).number = 0
<1> DEFINE Wide == [status : {"DRAFT", "HELD", "CONFIRMED", "CANCELLED"}, version : Nat,
                    customer : Associations, total : Nat, number : Nat]
<1>1. Blank \in Wide
    BY DEF Blank, Associations
<1>2. [Blank EXCEPT !.customer = c, !.total = n] \in Wide
    BY <1>1, SalesAssumption, Zenon
<1>3. /\ [Blank EXCEPT !.customer = c, !.total = n].total = n
      /\ [Blank EXCEPT !.customer = c, !.total = n].number = 0
    BY <1>1 DEF Blank
<1> QED
    BY <1>2, <1>3 DEF OrderRows, Associations, Priced

\* Creating a draft keeps the invariant.
LEMMA CreateKeeps ==
    ASSUME IInv, NEW o \in Orders, NEW c \in Associations, NEW n \in Totals, Create(o, c, n)
    PROVE  IInv'
<1> DEFINE new == Priced(Blank, c, n)
<1>1. new \in OrderRows /\ new # None /\ new.number = 0
    BY BlankFacts, SalesAssumption
<1>2. /\ order[o] = None /\ order' = [order EXCEPT ![o] = new]
      /\ UNCHANGED <<documents, credit, books, period, today, seen, tx>>
    BY DEF Create
<1> HIDE DEF new
<1>3. TypeOK /\ Seen /\ OrdersOK /\ order \in [Orders -> OrderRows \cup {None}]
    BY DEF IInv, TypeOK
<1>4. /\ order' \in [Orders -> OrderRows \cup {None}]
      /\ order'[o] = new /\ \A p \in Orders \ {o} : order'[p] = order[p]
    BY <1>1, <1>2, <1>3
<1>5. TypeOK'
    BY <1>2, <1>3, <1>4 DEF TypeOK, documents, books
<1>6. Seen'
    BY <1>2, <1>3, <1>4, <1>5, SeenMoves
<1>7. OrdersOK'
    BY <1>1, <1>2, <1>3, <1>4 DEF OrdersOK, Orderly, documents
<1>8. \A u \in Slots : Open(u) => order'[tx[u].order] = order[tx[u].order]
    BY <1>2, <1>3, <1>4, TxFacts DEF IInv, Locks, Holds
<1> QED
    BY <1>2, <1>5, <1>6, <1>7, <1>8, QuietKeeps DEF documents, books

\* Looking at a row keeps the invariant: whoever looks has no transaction open.
LEMMA LookKeeps ==
    ASSUME IInv, NEW s \in Slots, NEW x \in Orders \cup Customers, Look(s, x)
    PROVE  IInv'
<1> DEFINE saw == [of |-> x, row |-> Row(x)]
<1>1. TypeOK /\ Seen /\ OrdersOK
    BY DEF IInv
<1>2. /\ ~Open(s) /\ Row(x) # None /\ seen' = [seen EXCEPT ![s] = saw]
      /\ UNCHANGED <<order, documents, credit, books, period, today, tx>>
    BY DEF Look
<1>3. Row(x) \in OrderRows \cup CreditRows
    BY <1>1, <1>2 DEF Row, TypeOK
<1>4. saw \in SeenRows
    BY <1>3 DEF SeenRows
<1>5. saw.of = x /\ saw.row = Row(x)
    OBVIOUS
<1> HIDE DEF saw
<1>6. /\ seen' \in [Slots -> SeenRows \cup {None}]
      /\ seen'[s] = saw /\ \A u \in Slots \ {s} : seen'[u] = seen[u]
    BY <1>1, <1>2, <1>4 DEF TypeOK
<1>7. TypeOK'
    BY <1>1, <1>2, <1>6 DEF TypeOK, documents, books
<1>8. Seen'
    <2>1. SUFFICES ASSUME NEW u \in Slots, seen'[u] # None PROVE Saw(u)'
        BY DEF Seen
    <2>2. CASE u = s
        <3>1. Row(x).version \in Nat
            BY <1>3 DEF OrderRows, CreditRows
        <3>2. Row(x)' = Row(x)
            BY <1>2 DEF Row
        <3> QED
            BY <1>2, <1>5, <1>6, <2>2, <3>1, <3>2 DEF Saw, Row
    <2>3. CASE u # s
        <3>1. seen'[u] = seen[u] /\ Saw(u)
            BY <1>1, <1>6, <2>1, <2>3 DEF Seen
        <3> QED
            BY <1>2, <3>1 DEF Saw, Row
    <2> QED
        BY <2>2, <2>3
<1>9. OrdersOK'
    BY <1>1, <1>2 DEF OrdersOK, Orderly, documents
<1>10. \A u \in Slots : Open(u) => seen'[u] = seen[u]
    BY <1>2, <1>6
<1> QED
    BY <1>2, <1>7, <1>8, <1>9, <1>10, QuietKeeps DEF documents, books

\* A user who acts has seen the row as it is.
LEMMA ActsFacts ==
    ASSUME IInv, NEW s \in Slots, NEW x \in Orders \cup Customers, Acts(s, x)
    PROVE  /\ ~Open(s) /\ Row(x) # None /\ Free(x)
           /\ seen[s] = [of |-> x, row |-> Row(x)]
<1>1. /\ ~Open(s) /\ seen[s] # None /\ seen[s].of = x /\ Free(x)
      /\ Row(x).version = seen[s].row.version
    BY DEF Acts
<1>2. Saw(s) /\ seen[s] \in SeenRows
    BY <1>1 DEF IInv, Seen, TypeOK
<1>3. Row(x) # None /\ seen[s].row = Row(x)
    BY <1>1, <1>2 DEF Saw
<1>4. seen[s] = [of |-> seen[s].of, row |-> seen[s].row]
    BY <1>2 DEF SeenRows
<1> QED
    BY <1>1, <1>3, <1>4

\* A change of an order that is not issued keeps the invariant.
LEMMA ChangeKeeps ==
    ASSUME IInv, NEW s \in Slots, NEW o \in Orders, Acts(s, o), NEW row \in OrderRows,
           order[o].status \in {"DRAFT", "HELD"}, row.status \in {"DRAFT", "HELD"},
           row.version = order[o].version, row.number = order[o].number, ChangeOrder(s, o, row)
    PROVE  IInv'
<1> DEFINE new == [row EXCEPT !.version = @ + 1]
<1>1. /\ new \in OrderRows /\ new.status = row.status /\ new.number = row.number
      /\ new.version = row.version + 1
    <2>1. PICK c \in Associations, n \in Totals : row.customer = c /\ row.total = n
        BY DEF OrderRows, Associations
    <2>2. new \in OrderRows
        BY <2>1, OrderRowFacts
    <2> QED
        BY <2>2 DEF OrderRows
<1>2. new # None
    BY <1>1, SalesAssumption
<1>3. /\ order' = [order EXCEPT ![o] = new] /\ Acted(s)
      /\ UNCHANGED <<documents, credit, books, period, today, tx>>
    BY DEF ChangeOrder
<1> HIDE DEF new
<1>4. TypeOK /\ Seen /\ OrdersOK /\ order \in [Orders -> OrderRows \cup {None}]
    BY DEF IInv, TypeOK
<1>5. ~Open(s) /\ order[o] # None /\ Free(o)
    BY ActsFacts DEF Row
<1>6. /\ order' \in [Orders -> OrderRows \cup {None}]
      /\ order'[o] = new /\ \A p \in Orders \ {o} : order'[p] = order[p]
    BY <1>1, <1>3, <1>4
<1>7. /\ seen' \in [Slots -> SeenRows \cup {None}]
      /\ seen'[s] = None /\ \A u \in Slots \ {s} : seen'[u] = seen[u]
    BY <1>3, <1>4 DEF TypeOK, Acted
<1>8. TypeOK'
    BY <1>3, <1>4, <1>6, <1>7 DEF TypeOK, documents, books
<1>9. order[o].version \in Nat
    BY <1>4, <1>5 DEF OrderRows
<1>10. Seen'
    <2>1. \A p \in Orders : order[p] = None \/ order'[p] = order[p]
                               \/ (order'[p] # None /\ order'[p].version > order[p].version)
        BY <1>1, <1>2, <1>6, <1>9
    <2>2. \A u \in Slots : seen'[u] = seen[u] \/ seen'[u] = None
        BY <1>7
    <2> QED
        BY <1>3, <1>4, <1>8, <2>1, <2>2, SeenMoves
<1>11. OrdersOK'
    <2>1. Orderly(o)'
        BY <1>1, <1>2, <1>3, <1>4, <1>5, <1>6 DEF OrdersOK, Orderly, documents
    <2>2. ASSUME NEW p \in Orders, p # o PROVE Orderly(p)'
        BY <1>3, <1>4, <1>6, <2>2 DEF OrdersOK, Orderly, documents
    <2> QED
        BY <2>1, <2>2 DEF OrdersOK
<1>12. ASSUME NEW u \in Slots, Open(u)
       PROVE  seen'[u] = seen[u] /\ order'[tx[u].order] = order[tx[u].order]
    <2>1. u # s /\ o \notin tx[u].locks /\ tx[u].order \in tx[u].locks /\ tx[u].order \in Orders
        BY <1>4, <1>5, <1>12, TxFacts DEF Free, IInv, Locks, Holds
    <2> QED
        BY <1>6, <1>7, <2>1
<1> QED
    BY <1>3, <1>8, <1>10, <1>11, <1>12, QuietKeeps DEF documents, books

\* Editing a draft keeps the invariant.
LEMMA EditKeeps ==
    ASSUME IInv, NEW s \in Slots, NEW o \in Orders, NEW c \in Associations, NEW n \in Totals,
           Edit(s, o, c, n)
    PROVE  IInv'
<1> DEFINE row == Priced(order[o], c, n)
<1>1. Acts(s, o) /\ order[o].status = "DRAFT" /\ ChangeOrder(s, o, row)
    BY DEF Edit
<1>2. order[o] \in OrderRows
    BY <1>1, ActsFacts DEF Row, IInv, TypeOK
<1>3. row \in OrderRows
    BY <1>2, OrderRowFacts DEF Priced
<1>4. row.status = "DRAFT" /\ row.version = order[o].version /\ row.number = order[o].number
    BY <1>1, <1>2 DEF Priced, OrderRows
<1> HIDE DEF row
<1> QED
    BY <1>1, <1>3, <1>4, ChangeKeeps

\* Holding and resuming a draft keep the invariant.
LEMMA TransitionKeeps ==
    ASSUME IInv, NEW s \in Slots, NEW o \in Orders, Hold(s, o) \/ Resume(s, o)
    PROVE  IInv'
<1>1. PICK from, to \in {"DRAFT", "HELD"} : Transition(s, o, from, to)
    BY DEF Hold, Resume
<1> DEFINE row == [order[o] EXCEPT !.status = to]
<1>2. Acts(s, o) /\ order[o].status = from /\ ChangeOrder(s, o, row)
    BY <1>1 DEF Transition
<1>3. order[o] \in OrderRows
    BY <1>2, ActsFacts DEF Row, IInv, TypeOK
<1>4. row \in OrderRows
    BY <1>3, Zenon DEF OrderRows
<1>5. row.status = to /\ row.version = order[o].version /\ row.number = order[o].number
    BY <1>3 DEF OrderRows
<1> HIDE DEF row
<1> QED
    BY <1>2, <1>4, <1>5, ChangeKeeps

\* Setting the credit of an account keeps the invariant: nobody holds the account.
LEMMA ConfigureKeeps ==
    ASSUME IInv, NEW s \in Slots, NEW c \in Customers, NEW terms \in Terms, ConfigureCredit(s, c, terms)
    PROVE  IInv'
<1> DEFINE new == [version |-> credit[c].version + 1, enabled |-> terms.enabled,
                   limit |-> IF terms.limit = None THEN credit[c].limit ELSE terms.limit]
<1>1. TypeOK /\ Seen /\ OrdersOK /\ credit \in [Customers -> CreditRows]
    BY DEF IInv, TypeOK
<1>2. /\ Acts(s, c) /\ credit' = [credit EXCEPT ![c] = new] /\ Acted(s)
      /\ UNCHANGED <<order, documents, books, period, today, tx>>
    BY <1>1 DEF ConfigureCredit
<1>3. credit[c] \in CreditRows /\ terms \in [enabled : BOOLEAN, limit : (Nat \ {0}) \cup {None}]
    BY <1>1, SalesAssumption
<1>4. new \in CreditRows
    BY <1>3 DEF CreditRows
<1>5. new.version > credit[c].version /\ credit[c].version \in Nat
    BY <1>3 DEF CreditRows
<1> HIDE DEF new
<1>6. ~Open(s) /\ Free(c)
    BY <1>2, ActsFacts
<1>7. /\ credit' \in [Customers -> CreditRows]
      /\ credit'[c] = new /\ \A d \in Customers \ {c} : credit'[d] = credit[d]
    BY <1>1, <1>2, <1>4
<1>8. /\ seen' \in [Slots -> SeenRows \cup {None}]
      /\ seen'[s] = None /\ \A u \in Slots \ {s} : seen'[u] = seen[u]
    BY <1>1, <1>2 DEF TypeOK, Acted
<1>9. TypeOK'
    BY <1>1, <1>2, <1>7, <1>8 DEF TypeOK, documents, books
<1>10. Seen'
    <2>1. \A d \in Customers : credit'[d] = credit[d]
                                \/ (credit'[d] # None /\ credit'[d].version > credit[d].version)
        BY <1>4, <1>5, <1>7, SalesAssumption
    <2>2. \A u \in Slots : seen'[u] = seen[u] \/ seen'[u] = None
        BY <1>8
    <2> QED
        BY <1>1, <1>2, <1>9, <2>1, <2>2, SeenMoves
<1>11. OrdersOK'
    BY <1>1, <1>2 DEF OrdersOK, Orderly, documents
<1>12. ASSUME NEW u \in Slots, Open(u)
       PROVE  /\ seen'[u] = seen[u]
              /\ \A d \in Customers : d \in tx[u].locks => credit'[d] = credit[d]
    BY <1>6, <1>7, <1>8, <1>12 DEF Free
<1> QED
    BY <1>2, <1>9, <1>10, <1>11, <1>12, QuietKeeps DEF documents, books

\* A day passes.
LEMMA NextDayKeeps ==
    ASSUME IInv, NextDay
    PROVE  IInv'
<1>1. TypeOK /\ Seen /\ OrdersOK
    BY DEF IInv
<1>2. /\ today < Days /\ today' = today + 1
      /\ UNCHANGED <<order, documents, credit, books, period, seen, tx>>
    BY DEF NextDay
<1>3. TypeOK'
    BY <1>1, <1>2, SalesAssumption DEF TypeOK, documents, books
<1>4. Seen'
    BY <1>1, <1>2 DEF Seen, Saw, Row
<1>5. OrdersOK'
    BY <1>1, <1>2 DEF OrdersOK, Orderly, documents
<1> QED
    BY <1>2, <1>3, <1>4, <1>5, QuietKeeps DEF documents, books

\* Closing a period keeps the invariant: nobody posts in it.
LEMMA ClosePeriodKeeps ==
    ASSUME IInv, NEW day \in Closing, ClosePeriod(day)
    PROVE  IInv'
<1>1. TypeOK /\ Seen /\ OrdersOK
    BY DEF IInv
<1>2. /\ Unshared(day) /\ period' = [period EXCEPT ![day] = "CLOSED"]
      /\ UNCHANGED <<order, documents, credit, books, today, seen, tx>>
    BY DEF ClosePeriod
<1>3. TypeOK'
    BY <1>1, <1>2, SalesAssumption DEF TypeOK, documents, books
<1>4. Seen'
    BY <1>1, <1>2 DEF Seen, Saw, Row
<1>5. OrdersOK'
    BY <1>1, <1>2 DEF OrdersOK, Orderly, documents
<1>6. ASSUME NEW u \in Slots, Open(u), NEW d \in tx[u].shares PROVE period'[d] = period[d]
    BY <1>1, <1>2, <1>6, TxFacts DEF Unshared, TypeOK
<1> QED
    BY <1>2, <1>3, <1>4, <1>5, <1>6, QuietKeeps DEF documents, books

-----------------------------------------------------------------------------
(* A transaction begins, and takes its steps.                              *)

\* What changes only one transaction keeps the invariant as long as that transaction keeps its part
\* of it, and takes rows that nobody holds.
LEMMA OneKeeps ==
    ASSUME IInv, NEW s \in Slots, NEW t \in Transactions, tx' = [tx EXCEPT ![s] = t],
           UNCHANGED <<order, documents, credit, books, period, today, seen>>,
           Holds(s)', Works(s)', Authorized(s)', Shares(s)',
           \A u \in Slots : u # s /\ Open(u) => t.locks \cap tx[u].locks = {}
    PROVE  IInv'
<1>1. TypeOK /\ Seen /\ OrdersOK
    BY DEF IInv
<1>2. /\ tx' \in [Slots -> Transactions \cup {None}]
      /\ tx'[s] = t /\ \A u \in Slots \ {s} : tx'[u] = tx[u]
    BY <1>1 DEF TypeOK
<1>3. TypeOK'
    BY <1>1, <1>2 DEF TypeOK, documents, books
<1>4. Seen'
    BY <1>1 DEF Seen, Saw, Row
<1>5. OrdersOK'
    BY <1>1 DEF OrdersOK, Orderly, documents
<1>6. ASSUME NEW u \in Slots, Open(u)'
      PROVE  Holds(u)' /\ Works(u)' /\ Authorized(u)' /\ Shares(u)'
    <2>1. CASE u = s
        BY <2>1
    <2>2. CASE u # s
        <3>1. Open(u) /\ tx'[u] = tx[u]
            BY <1>2, <1>6, <2>2 DEF Open
        <3>2. TypeOK /\ Holds(u) /\ Works(u) /\ Authorized(u) /\ Shares(u)
            BY <3>1 DEF IInv, Locks, WorkOK, CreditOK, SharesOK
        <3> QED
            BY <3>1, <3>2, SlotKeeps DEF documents, books
    <2> QED
        BY <2>1, <2>2
<1>7. Locks'
    <2>1. ASSUME NEW u \in Slots, NEW v \in Slots, Open(u)', Open(v)', u # v
          PROVE  tx'[u].locks \cap tx'[v].locks = {}
        <3>1. CASE u = s
            <4>1. Open(v) /\ tx'[v] = tx[v] /\ tx'[u] = t
                BY <1>2, <2>1, <3>1 DEF Open
            <4> QED
                BY <2>1, <3>1, <4>1
        <3>2. CASE v = s
            <4>1. Open(u) /\ tx'[u] = tx[u] /\ tx'[v] = t
                BY <1>2, <2>1, <3>2 DEF Open
            <4>2. t.locks \cap tx[u].locks = {}
                BY <2>1, <3>2, <4>1
            <4> QED
                BY <4>1, <4>2
        <3>3. CASE u # s /\ v # s
            <4>1. Open(u) /\ tx'[u] = tx[u] /\ Open(v) /\ tx'[v] = tx[v]
                BY <1>2, <2>1, <3>3 DEF Open
            <4> QED
                BY <2>1, <4>1 DEF IInv, Locks
        <3> QED
            BY <3>1, <3>2, <3>3
    <2> QED
        BY <1>6, <2>1 DEF Locks
<1> QED
    BY <1>3, <1>4, <1>5, <1>6, <1>7 DEF IInv, WorkOK, CreditOK, SharesOK

\* What a transaction that has just begun knows.
Fresh(t, o, plan, date, todo) ==
    /\ t \in Transactions /\ t.order = o /\ t.plan = plan /\ t.date = date /\ t.todo = todo
    /\ t.locks = {o} /\ t.shares = {} /\ t.mode = None
    /\ \A type \in DocumentTypes : t.numbers[type] = 0
    /\ \A d \in 1..Days : \A a \in Ledger : t.entries[d][a] = 0

\* A transaction begins fresh.
LEMMA BeginFacts ==
    ASSUME TypeOK, NEW s \in Slots, NEW o \in Orders, NEW plan \in PlanRows \cup {None},
           NEW date \in (1..Days) \cup {None}, NEW todo \in Seq(Steps), Begin(s, o, plan, date, todo)
    PROVE  \E t : Fresh(t, o, plan, date, todo) /\ tx' = [tx EXCEPT ![s] = t]
<1> DEFINE zero == [type \in DocumentTypes |-> 0]
           t == [order |-> o, plan |-> plan, date |-> date, todo |-> todo, locks |-> {o},
                 shares |-> {}, mode |-> None, numbers |-> zero, entries |-> NoEntries]
<1>1. zero \in [DocumentTypes -> Nat] /\ \A type \in DocumentTypes : zero[type] = 0
    OBVIOUS
<1>2. /\ NoEntries \in Sums
      /\ \A d \in 1..Days : \A a \in Ledger : NoEntries[d][a] = 0
    BY DEF NoEntries, Sums
<1>3. date \in Nat \cup {None}
    BY SalesAssumption
<1>4. tx' = [tx EXCEPT ![s] = t]
    BY DEF Begin
<1> HIDE DEF zero
<1>5. t \in Transactions
    BY <1>1, <1>2, <1>3 DEF Transactions, Modes, Steps
<1>6. Fresh(t, o, plan, date, todo)
    BY <1>1, <1>2, <1>5 DEF Fresh
<1> QED
    BY <1>4, <1>6

\* Beginning keeps the invariant.
LEMMA BeginKeeps ==
    ASSUME IInv, NEW s \in Slots, NEW o \in Orders, Acts(s, o), NEW plan \in PlanRows \cup {None},
           NEW date \in (1..Days) \cup {None}, NEW todo \in Seq(Steps), Ordered(todo),
           Begin(s, o, plan, date, todo),
           UNCHANGED <<order, documents, credit, books, period, today, seen>>,
           \A t : Fresh(t, o, plan, date, todo) =>
              /\ Dated(t)
              /\ plan # None => SaleOK(t, order[o], invoice[o])
              /\ plan = None => CancelOK(t, order[o], invoice[o])
    PROVE  IInv'
<1>1. TypeOK
    BY DEF IInv
<1>2. PICK t : Fresh(t, o, plan, date, todo) /\ tx' = [tx EXCEPT ![s] = t]
    BY <1>1, BeginFacts
<1>3. tx'[s] = t
    BY <1>1, <1>2 DEF TypeOK
<1>4. seen[s] = [of |-> o, row |-> order[o]] /\ order[o] # None /\ Free(o)
    BY ActsFacts DEF Row
<1>5. Holds(s)'
    BY <1>2, <1>3, <1>4 DEF Holds, Fresh
<1>6. Works(s)'
    <2>1. /\ t.order = o /\ t.todo = todo /\ t.plan = plan
          /\ \A type \in DocumentTypes : t.numbers[type] = 0
        BY <1>2 DEF Fresh
    <2>2. /\ Dated(t)
          /\ plan # None => SaleOK(t, order[o], invoice[o])
          /\ plan = None => CancelOK(t, order[o], invoice[o])
        BY <1>2
    <2>3. Numbered(t)'
        BY <2>1 DEF Numbered
    <2>4. Numbered(tx[s])'
        BY <1>3, <2>3 DEF Numbered
    <2> QED
        BY <1>3, <2>1, <2>2, <2>4 DEF Works, documents
<1>7. Authorized(s)'
    BY <1>2, <1>3 DEF Authorized, Fresh
<1>8. Shares(s)'
    BY <1>2, <1>3 DEF Shares, Fresh
<1>9. \A u \in Slots : u # s /\ Open(u) => t.locks \cap tx[u].locks = {}
    BY <1>2, <1>4 DEF Free, Fresh
<1> QED
    BY <1>2, <1>5, <1>6, <1>7, <1>8, <1>9, OneKeeps DEF Fresh

\* The beginning of a sale keeps the invariant.
LEMMA StartSaleKeeps ==
    ASSUME IInv, NEW s \in Slots, NEW o \in Orders, StartSale(s, o)
    PROVE  IInv'
<1> DEFINE anonymous == order[o].customer = None
           total == order[o].total
<1>1. /\ Acts(s, o) /\ order[o].status = "DRAFT" /\ invoice[o] = None
      /\ UNCHANGED <<order, documents, credit, books, period, today, seen>>
    BY DEF StartSale, Issuable
<1>2. PICK p \in Plans(total, anonymous) :
         Begin(s, o, p, None, IF anonymous THEN AnonymousSteps ELSE CustomerSteps(p))
    BY DEF StartSale
<1>3. order[o] \in OrderRows /\ total \in Nat
    BY <1>1, ActsFacts, SalesAssumption DEF Row, IInv, TypeOK, OrderRows
<1>4. /\ p \in PlanRows /\ p # None /\ p.tender + p.advance <= total
      /\ anonymous => p.tender = total
    BY <1>2, <1>3, SalesAssumption DEF Plans, PlanRows
<1> DEFINE todo == IF anonymous THEN AnonymousSteps ELSE CustomerSteps(p)
<1>5. /\ todo \in Seq(Steps) /\ Ordered(todo)
      /\ "ORDER" \in Left(todo) /\ "INVOICE" \in Left(todo)
      /\ anonymous => Left(todo) \subseteq AnonymousWork
      /\ ~anonymous => Left(todo) \subseteq CustomerWork /\ "account" \in Left(todo)
    BY <1>4, TodoAnonymous, TodoCustomer DEF AnonymousWork, CustomerWork
<1> HIDE DEF todo, anonymous, total
<1>6. ASSUME NEW t, Fresh(t, o, p, None, todo)
      PROVE  Dated(t) /\ SaleOK(t, order[o], invoice[o])
    <2>1. /\ t.plan = p /\ t.date = None /\ t.todo = todo /\ t.mode = None
          /\ \A type \in DocumentTypes : t.numbers[type] = 0
        BY <1>6 DEF Fresh
    <2>2. Dated(t)
        BY <1>5, <2>1 DEF Dated, AnonymousWork, CustomerWork
    <2>3. SaleOK(t, order[o], invoice[o])
        BY <1>1, <1>4, <1>5, <2>1 DEF SaleOK, DocumentTypes, anonymous, total
    <2> QED
        BY <2>2, <2>3
<1>7. Begin(s, o, p, None, todo)
    BY <1>2 DEF todo
<1> QED
    BY <1>1, <1>4, <1>5, <1>6, <1>7, BeginKeeps

\* The beginning of a cancellation keeps the invariant.
LEMMA CancelDraftKeeps ==
    ASSUME IInv, NEW s \in Slots, NEW o \in Orders, NEW charged \in BOOLEAN,
           NEW date \in Closing \cup {None}, charged \/ date = None, CancelDraft(s, o, charged, date)
    PROVE  IInv'
<1> DEFINE todo == If(charged, "account") \o ChargeSteps(charged)
           at == AccountingDate(charged, date)
<1>1. /\ Acts(s, o) /\ order[o].status \in {"DRAFT", "HELD"} /\ invoice[o] = None
      /\ charged => order[o].customer # None
      /\ Begin(s, o, None, at, todo)
      /\ UNCHANGED <<order, documents, credit, books, period, today, seen>>
    BY DEF CancelDraft
<1>2. at \in (1..Days) \cup {None}
    BY SalesAssumption DEF AccountingDate, IInv, TypeOK
<1>3. /\ todo \in Seq(Steps) /\ Ordered(todo)
      /\ Left(todo) = IF charged THEN {"account", "CANCELLATION_CHARGE", "cancellation_charge"} ELSE {}
    BY TodoDraft
<1> HIDE DEF todo, at
<1>4. ASSUME NEW t, Fresh(t, o, None, at, todo)
      PROVE  Dated(t) /\ CancelOK(t, order[o], invoice[o])
    <2>1. /\ t.date = at /\ t.todo = todo /\ t.mode = None
          /\ \A type \in DocumentTypes : t.numbers[type] = 0
        BY <1>4 DEF Fresh
    <2>2. Dated(t)
        BY <1>2, <1>3, <2>1 DEF Dated
    <2>3. CancelOK(t, order[o], invoice[o])
        BY <1>1, <1>3, <2>1 DEF CancelOK, CancelWork, Charging, DocumentTypes
    <2> QED
        BY <2>2, <2>3
<1> QED
    BY <1>1, <1>2, <1>3, <1>4, BeginKeeps

\* The beginning of the cancellation of an invoiced order keeps the invariant.
LEMMA CancelInvoicedKeeps ==
    ASSUME IInv, NEW s \in Slots, NEW o \in Orders, NEW charged \in BOOLEAN,
           NEW date \in Closing \cup {None}, charged \/ date = None, CancelInvoiced(s, o, charged, date)
    PROVE  IInv'
<1> DEFINE todo == <<"account", "CREDIT_NOTE", "credit_note">> \o ChargeSteps(charged)
           at == AccountingDate(charged, date)
<1>1. /\ Acts(s, o) /\ order[o].status = "CONFIRMED" /\ invoice[o] # None
      /\ order[o].customer # None
      /\ Begin(s, o, None, at, todo)
      /\ UNCHANGED <<order, documents, credit, books, period, today, seen>>
    BY DEF CancelInvoiced
<1>2. at \in (1..Days) \cup {None}
    BY SalesAssumption DEF AccountingDate, IInv, TypeOK
<1>3. /\ todo \in Seq(Steps) /\ Ordered(todo)
      /\ Left(todo) = {"account", "CREDIT_NOTE", "credit_note"} \cup
                         IF charged THEN {"CANCELLATION_CHARGE", "cancellation_charge"} ELSE {}
    BY TodoInvoiced
<1> HIDE DEF todo, at
<1>4. ASSUME NEW t, Fresh(t, o, None, at, todo)
      PROVE  Dated(t) /\ CancelOK(t, order[o], invoice[o])
    <2>1. /\ t.date = at /\ t.todo = todo /\ t.mode = None
          /\ \A type \in DocumentTypes : t.numbers[type] = 0
        BY <1>4 DEF Fresh
    <2>2. Dated(t)
        BY <1>2, <1>3, <2>1 DEF Dated
    <2>3. CancelOK(t, order[o], invoice[o])
        BY <1>1, <1>3, <2>1 DEF CancelOK, CancelWork, Charging, DocumentTypes
    <2> QED
        BY <2>2, <2>3
<1> QED
    BY <1>1, <1>2, <1>3, <1>4, BeginKeeps

\* What a transaction that takes a step has left.
LEMMA DoingFacts ==
    ASSUME IInv, NEW s \in Slots, NEW x, Doing(s, x)
    PROVE  /\ TypeOK /\ Open(s) /\ Holds(s) /\ Works(s) /\ Authorized(s) /\ Shares(s)
           /\ Tail(tx[s].todo) \in Seq(Steps) /\ Ordered(Tail(tx[s].todo))
           /\ x \in Left(tx[s].todo) /\ x \in Steps
           /\ Left(Tail(tx[s].todo)) = Left(tx[s].todo) \ {x}
           /\ \A y \in Left(tx[s].todo) : y # x => Rank[x] < Rank[y]
<1>1. Open(s) /\ tx[s].todo # <<>> /\ Head(tx[s].todo) = x
    BY DEF Doing
<1>2. TypeOK /\ Holds(s) /\ Works(s) /\ Authorized(s) /\ Shares(s)
    BY <1>1 DEF IInv, Locks, WorkOK, CreditOK, SharesOK
<1>3. tx[s].todo \in Seq(Steps) /\ Ordered(tx[s].todo)
    BY <1>1, <1>2, TxFacts DEF Works
<1>4. x \in Steps
    BY <1>1, <1>3
<1> QED
    BY <1>1, <1>2, <1>3, <1>4, TodoTail

\* A step that takes a number keeps the invariant.
LEMMA AllocateFacts ==
    ASSUME IInv, NEW s \in Slots, NEW type \in DocumentTypes, Allocate(s, type)
    PROVE  \E t \in Transactions :
              /\ tx' = [tx EXCEPT ![s] = t]
              /\ t.order = tx[s].order /\ t.plan = tx[s].plan /\ t.mode = tx[s].mode
              /\ t.shares = tx[s].shares /\ t.entries = tx[s].entries
              /\ t.todo = Tail(tx[s].todo) /\ t.locks = tx[s].locks \cup {type}
              /\ t.date = IF type = "INVOICE" THEN today ELSE tx[s].date
              /\ t.numbers[type] = counter[type]
              /\ \A other \in DocumentTypes : other # type => t.numbers[other] = tx[s].numbers[other]
<1>1. PICK r : r = tx[s]
    OBVIOUS
<1> DEFINE numbers == [r.numbers EXCEPT ![type] = counter[type]]
           locks == r.locks \cup {type}
           date == IF type = "INVOICE" THEN today ELSE r.date
           todo == Tail(r.todo)
           t == [r EXCEPT !.locks = locks, !.numbers = numbers, !.date = date, !.todo = todo]
<1>2. Doing(s, type) /\ TypeOK /\ Open(s)
    BY DoingFacts DEF Allocate
<1>3. /\ r \in Transactions /\ r.numbers \in [DocumentTypes -> Nat] /\ r.date \in Nat \cup {None}
      /\ r.locks \subseteq Orders \cup Customers \cup DocumentTypes
    BY <1>1, <1>2, TxFacts
<1>4. numbers \in [DocumentTypes -> Nat] /\ date \in Nat \cup {None} /\ todo \in Seq(Steps)
    <2>1. counter[type] \in Nat
        BY <1>2 DEF TypeOK
    <2>2. todo \in Seq(Steps)
        BY <1>1, <1>2, DoingFacts
    <2>3. today \in Nat
        BY <1>2, SalesAssumption DEF TypeOK
    <2> QED
        BY <1>3, <2>1, <2>2, <2>3
<1>5. /\ numbers[type] = counter[type]
      /\ \A other \in DocumentTypes : other # type => numbers[other] = r.numbers[other]
    BY <1>3
<1>6. tx' = [tx EXCEPT ![s] = t]
    BY <1>1 DEF Allocate, Step
<1> HIDE DEF numbers, date, todo
<1>7. locks \in SUBSET (Orders \cup Customers \cup DocumentTypes)
    BY <1>3
<1> HIDE DEF locks
<1>8. t \in Transactions
    BY <1>3, <1>4, <1>7, Zenon DEF Transactions, Steps
<1>9. /\ t.order = r.order /\ t.plan = r.plan /\ t.mode = r.mode /\ t.shares = r.shares
      /\ t.entries = r.entries /\ t.todo = todo /\ t.locks = locks /\ t.date = date
      /\ t.numbers = numbers
    BY <1>3 DEF Transactions
<1> HIDE DEF t
<1> QED
    BY <1>1, <1>5, <1>6, <1>8, <1>9 DEF locks, date, todo


\* Taking a number keeps the invariant.
LEMMA AllocateKeeps ==
    ASSUME IInv, NEW s \in Slots, NEW type \in DocumentTypes, Allocate(s, type)
    PROVE  IInv'
<1>1. /\ Doing(s, type) /\ Free(type)
      /\ UNCHANGED <<order, documents, credit, books, period, today, seen>>
    BY DEF Allocate, Step
<1>2. PICK t \in Transactions :
         /\ tx' = [tx EXCEPT ![s] = t]
         /\ t.order = tx[s].order /\ t.plan = tx[s].plan /\ t.mode = tx[s].mode
         /\ t.shares = tx[s].shares /\ t.entries = tx[s].entries
         /\ t.todo = Tail(tx[s].todo) /\ t.locks = tx[s].locks \cup {type}
         /\ t.date = IF type = "INVOICE" THEN today ELSE tx[s].date
         /\ t.numbers[type] = counter[type]
         /\ \A other \in DocumentTypes : other # type => t.numbers[other] = tx[s].numbers[other]
    BY AllocateFacts
<1>3. PICK r \in Transactions : r = tx[s]
    BY <1>1, DoingFacts, TxFacts
<1>4. /\ TypeOK /\ Open(s) /\ Holds(s) /\ Works(s) /\ Authorized(s) /\ Shares(s)
      /\ Ordered(t.todo) /\ type \in Left(r.todo)
      /\ Left(t.todo) = Left(r.todo) \ {type}
    BY <1>1, <1>2, <1>3, DoingFacts
<1>5. tx'[s] = t
    BY <1>2, <1>4 DEF TypeOK
<1>6. PICK o \in Orders : o = r.order
    BY <1>3 DEF Transactions
<1>7. PICK row, inv : row = order[o] /\ inv = invoice[o]
    OBVIOUS
<1>8. /\ Dated(r) /\ Numbered(r)
      /\ r.plan # None => SaleOK(r, row, inv)
      /\ r.plan = None => CancelOK(r, row, inv)
    BY <1>3, <1>4, <1>6, <1>7 DEF Works
<1>9. /\ t.order = r.order /\ t.plan = r.plan /\ t.mode = r.mode
      /\ t.shares = r.shares /\ t.entries = r.entries /\ t.locks = r.locks \cup {type}
      /\ t.date = IF type = "INVOICE" THEN today ELSE r.date
      /\ t.numbers[type] = counter[type]
      /\ \A other \in DocumentTypes : other # type => t.numbers[other] = r.numbers[other]
    BY <1>2, <1>3
<1>10. counter[type] \in Nat \ {0} /\ today \in 1..Days /\ today # None
    BY <1>4, SalesAssumption DEF TypeOK
<1>11. Holds(s)'
    BY <1>1, <1>2, <1>4, <1>5 DEF Holds
<1>12. Dated(t)
    BY <1>4, <1>8, <1>9, <1>10 DEF Dated, DocumentTypes
<1>13. Numbered(t)'
    BY <1>1, <1>8, <1>9 DEF Numbered, documents
<1>14. r.plan # None => SaleOK(t, row, inv)
    <2>1. SUFFICES ASSUME r.plan # None PROVE SaleOK(t, row, inv)
        OBVIOUS
    <2>2. SaleOK(r, row, inv)
        BY <1>8, <2>1
    <2>3. type = "ORDER" \/ type = "INVOICE"
        BY <1>4, <2>2 DEF SaleOK, AnonymousWork, CustomerWork, DocumentTypes
    <2> QED
        BY <1>4, <1>9, <1>10, <2>2, <2>3 DEF SaleOK, DocumentTypes
<1>15. r.plan = None => CancelOK(t, row, inv)
    <2>1. SUFFICES ASSUME r.plan = None PROVE CancelOK(t, row, inv)
        OBVIOUS
    <2>2. CancelOK(r, row, inv)
        BY <1>8, <2>1
    <2>3. type = "CREDIT_NOTE" \/ type = "CANCELLATION_CHARGE"
        BY <1>4, <2>2 DEF CancelOK, CancelWork, DocumentTypes
    <2> QED
        BY <1>4, <1>9, <1>10, <2>2, <2>3 DEF CancelOK, Charging, DocumentTypes
<1>16. Works(s)'
    <2>1. Numbered(tx[s])'
        BY <1>5, <1>13 DEF Numbered
    <2> QED
        BY <1>1, <1>4, <1>5, <1>6, <1>7, <1>9, <1>12, <1>14, <1>15, <2>1 DEF Works, documents
<1>17. Authorized(s)'
    BY <1>1, <1>3, <1>4, <1>5, <1>9 DEF Authorized, Customer, Total, books
<1>18. Shares(s)'
    BY <1>1, <1>3, <1>4, <1>5, <1>9 DEF Shares
<1>19. \A u \in Slots : u # s /\ Open(u) => t.locks \cap tx[u].locks = {}
    BY <1>1, <1>3, <1>4, <1>9 DEF Free, IInv, Locks
<1> QED
    BY <1>1, <1>2, <1>11, <1>16, <1>17, <1>18, <1>19, OneKeeps

\* A step that locks the account.
LEMMA LockFacts ==
    ASSUME IInv, NEW s \in Slots, LockAccount(s)
    PROVE  /\ Customer(s) \in Customers
           /\ \E t \in Transactions :
                 /\ tx' = [tx EXCEPT ![s] = t]
                 /\ t.order = tx[s].order /\ t.plan = tx[s].plan
                 /\ t.shares = tx[s].shares /\ t.entries = tx[s].entries /\ t.numbers = tx[s].numbers
                 /\ t.todo = Tail(tx[s].todo) /\ t.locks = tx[s].locks \cup {Customer(s)}
                 /\ tx[s].plan = None =>
                       t.mode = tx[s].mode /\ t.date = IF tx[s].date = None THEN today ELSE tx[s].date
                 /\ tx[s].plan # None =>
                       /\ t.date = tx[s].date
                       /\ \E exception \in BOOLEAN :
                             /\ t.mode = Authorization(Customer(s), Owing(Total(s), tx[s].plan), exception)
                             /\ t.mode # "DENIED"
<1>1. PICK r, c : r = tx[s] /\ c = Customer(s)
    OBVIOUS
<1>2. Doing(s, "account") /\ TypeOK /\ Open(s) /\ Works(s) /\ Holds(s)
    BY DoingFacts DEF LockAccount
<1>3. /\ r \in Transactions /\ r.date \in Nat \cup {None} /\ r.order \in Orders
      /\ r.locks \subseteq Orders \cup Customers \cup DocumentTypes
    BY <1>1, <1>2, TxFacts
<1>4. c \in Customers
    <2>1. order[r.order] \in OrderRows
        BY <1>1, <1>2, <1>3 DEF Holds, TypeOK
    <2>2. "account" \in Left(r.todo)
        BY <1>1, <1>2, DoingFacts
    <2>3. order[r.order].customer # None
        BY <1>1, <1>2, <2>2 DEF Works, SaleOK, CancelOK, AnonymousWork
    <2> QED
        BY <1>1, <2>1, <2>3 DEF Customer, OrderRows
<1> DEFINE locks == r.locks \cup {c}
           date == IF r.date = None THEN today ELSE r.date
           todo == Tail(r.todo)
<1>5. locks \in SUBSET (Orders \cup Customers \cup DocumentTypes)
    BY <1>3, <1>4
<1>6. date \in Nat \cup {None} /\ todo \in Seq(Steps)
    <2>1. todo \in Seq(Steps)
        BY <1>1, <1>2, DoingFacts
    <2> QED
        BY <1>2, <1>3, <2>1, SalesAssumption DEF TypeOK
<1>7. CASE r.plan = None
    <2> DEFINE t == [r EXCEPT !.locks = locks, !.date = date, !.todo = todo]
    <2>1. tx' = [tx EXCEPT ![s] = t]
        BY <1>1, <1>7 DEF LockAccount, Step
    <2> HIDE DEF locks, date, todo
    <2>2. t \in Transactions
        BY <1>3, <1>5, <1>6, Zenon DEF Transactions, Steps
    <2>3. /\ t.order = r.order /\ t.plan = r.plan /\ t.shares = r.shares /\ t.entries = r.entries
          /\ t.numbers = r.numbers /\ t.todo = todo /\ t.locks = locks /\ t.date = date
          /\ t.mode = r.mode
        BY <1>3 DEF Transactions
    <2> HIDE DEF t
    <2> QED
        BY <1>1, <1>4, <1>7, <2>1, <2>2, <2>3 DEF locks, date, todo
<1>8. CASE r.plan # None
    <2> DEFINE M(exception) == Authorization(c, Owing(Total(s), r.plan), exception)
    <2>0. \E exception \in BOOLEAN :
             /\ M(exception) # "DENIED"
             /\ Step(s, [[r EXCEPT !.locks = locks] EXCEPT !.mode = M(exception)])
        BY <1>1, <1>8, Zenon DEF LockAccount
    <2>1. PICK exception \in BOOLEAN :
             /\ M(exception) # "DENIED"
             /\ Step(s, [[r EXCEPT !.locks = locks] EXCEPT !.mode = M(exception)])
        BY <2>0
    <2>2. PICK mode : mode = M(exception)
        OBVIOUS
    <2> DEFINE t == [r EXCEPT !.locks = locks, !.mode = mode, !.todo = todo]
    <2>7. [[[r EXCEPT !.locks = locks] EXCEPT !.mode = mode]
             EXCEPT !.todo = Tail([[r EXCEPT !.locks = locks] EXCEPT !.mode = mode].todo)] = t
        <3>1. [[r EXCEPT !.locks = locks] EXCEPT !.mode = mode].todo = r.todo
            BY <1>3 DEF Transactions
        <3> QED
            BY <3>1
    <2>3. tx' = [tx EXCEPT ![s] = t] /\ mode # "DENIED"
        <3>1. Step(s, [[r EXCEPT !.locks = locks] EXCEPT !.mode = mode]) /\ mode # "DENIED"
            BY <2>1, <2>2, Zenon
        <3> QED
            BY <2>7, <3>1, Zenon DEF Step
    <2>4. mode \in Modes
        BY <2>2, <2>3 DEF Authorization, Modes
    <2> HIDE DEF locks, todo
    <2>5. t \in Transactions
        BY <1>3, <1>5, <1>6, <2>4, Zenon DEF Transactions, Steps
    <2>6. /\ t.order = r.order /\ t.plan = r.plan /\ t.shares = r.shares /\ t.entries = r.entries
          /\ t.numbers = r.numbers /\ t.todo = todo /\ t.locks = locks /\ t.date = r.date
          /\ t.mode = mode
        BY <1>3 DEF Transactions
    <2> HIDE DEF t
    <2> QED
        BY <1>1, <1>4, <1>8, <2>2, <2>3, <2>5, <2>6 DEF locks, todo
<1> QED
    BY <1>7, <1>8

\* What authorizes a sale.
LEMMA AuthorizationFacts ==
    ASSUME NEW c \in Customers, NEW owing \in Nat, NEW exception \in BOOLEAN,
           TypeOK, NEW mode, mode = Authorization(c, owing, exception), mode # "DENIED", mode # None
    PROVE  /\ credit[c].enabled
           /\ mode = "NORMAL" /\ credit[c].limit # None => outstanding[c] + owing <= credit[c].limit
<1>1. owing > 0
    BY Z3 DEF Authorization
<1>2. credit[c].enabled
    <2>1. ~(owing = 0)
        BY <1>1
    <2> QED
        BY <1>1, <2>1, Zenon DEF Authorization
<1>3. mode = IF WithinLimit(c, owing) THEN "NORMAL" ELSE IF exception THEN "OVERRIDE" ELSE "DENIED"
    <2>1. ~(owing = 0)
        BY <1>1
    <2> QED
        BY <1>1, <1>2, <2>1, Zenon DEF Authorization
<1>4. mode = "NORMAL" => WithinLimit(c, owing)
    BY <1>3
<1> QED
    BY <1>2, <1>4 DEF WithinLimit

\* Locking the account keeps the invariant.
LEMMA LockKeeps ==
    ASSUME IInv, NEW s \in Slots, LockAccount(s)
    PROVE  IInv'
<1>1. /\ Doing(s, "account") /\ Free(Customer(s)) /\ Customer(s) \in Customers
      /\ UNCHANGED <<order, documents, credit, books, period, today, seen>>
    BY LockFacts DEF LockAccount, Step
<1>2. PICK t \in Transactions :
         /\ tx' = [tx EXCEPT ![s] = t]
         /\ t.order = tx[s].order /\ t.plan = tx[s].plan
         /\ t.shares = tx[s].shares /\ t.entries = tx[s].entries /\ t.numbers = tx[s].numbers
         /\ t.todo = Tail(tx[s].todo) /\ t.locks = tx[s].locks \cup {Customer(s)}
         /\ tx[s].plan = None =>
               t.mode = tx[s].mode /\ t.date = IF tx[s].date = None THEN today ELSE tx[s].date
         /\ tx[s].plan # None =>
               /\ t.date = tx[s].date
               /\ \E exception \in BOOLEAN :
                     /\ t.mode = Authorization(Customer(s), Owing(Total(s), tx[s].plan), exception)
                     /\ t.mode # "DENIED"
    BY LockFacts
<1>3. PICK r \in Transactions : r = tx[s]
    BY <1>1, DoingFacts, TxFacts
<1>4. /\ TypeOK /\ Open(s) /\ Holds(s) /\ Works(s) /\ Authorized(s) /\ Shares(s)
      /\ Ordered(t.todo) /\ "account" \in Left(r.todo)
      /\ Left(t.todo) = Left(r.todo) \ {"account"}
    BY <1>1, <1>2, <1>3, DoingFacts
<1>5. tx'[s] = t
    BY <1>2, <1>4 DEF TypeOK
<1>6. PICK o \in Orders : o = r.order
    BY <1>3 DEF Transactions
<1>7. PICK row, inv : row = order[o] /\ inv = invoice[o]
    OBVIOUS
<1>8. /\ Dated(r) /\ Numbered(r)
      /\ r.plan # None => SaleOK(r, row, inv)
      /\ r.plan = None => CancelOK(r, row, inv)
    BY <1>3, <1>4, <1>6, <1>7 DEF Works
<1>9. PICK c \in Customers : c = Customer(s)
    BY <1>1
<1>10. c = row.customer /\ Total(s) = row.total /\ row \in OrderRows
    BY <1>3, <1>4, <1>6, <1>7, <1>9 DEF Customer, Total, Holds, TypeOK
<1>11. /\ t.order = r.order /\ t.plan = r.plan /\ t.numbers = r.numbers
       /\ t.shares = r.shares /\ t.entries = r.entries /\ t.locks = r.locks \cup {c}
       /\ r.plan = None => t.mode = r.mode /\ t.date = IF r.date = None THEN today ELSE r.date
       /\ r.plan # None => t.date = r.date
    BY <1>2, <1>3, <1>9
<1>12. today \in 1..Days /\ today # None
    BY <1>4, SalesAssumption DEF TypeOK
<1>13. Holds(s)'
    BY <1>1, <1>2, <1>4, <1>5 DEF Holds
<1>14. r.plan # None => SaleOK(t, row, inv) /\ Dated(t)
    <2>1. SUFFICES ASSUME r.plan # None PROVE SaleOK(t, row, inv) /\ Dated(t)
        OBVIOUS
    <2>2. SaleOK(r, row, inv) /\ row.customer # None
        BY <1>8, <1>9, <1>10, <2>1, SalesAssumption
    <2>3. SaleOK(t, row, inv)
        BY <1>4, <1>10, <1>11, <2>2 DEF SaleOK
    <2>4. Dated(t)
        BY <1>4, <1>8, <1>11, <2>1, <2>2 DEF Dated, SaleOK, CustomerWork
    <2> QED
        BY <2>3, <2>4
<1>15. r.plan = None => CancelOK(t, row, inv) /\ Dated(t)
    <2>1. SUFFICES ASSUME r.plan = None PROVE CancelOK(t, row, inv) /\ Dated(t)
        OBVIOUS
    <2>2. CancelOK(r, row, inv)
        BY <1>8, <2>1
    <2>3. CancelOK(t, row, inv)
        BY <1>4, <1>11, <2>1, <2>2, <1>10 DEF CancelOK, Charging
    <2>4. Dated(t)
        BY <1>4, <1>8, <1>11, <1>12, <2>1, <2>2 DEF Dated, CancelOK, CancelWork
    <2> QED
        BY <2>3, <2>4
<1>16. Works(s)'
    <2>1. Numbered(tx[s])'
        BY <1>1, <1>5, <1>8, <1>11 DEF Numbered, documents
    <2> QED
        BY <1>1, <1>4, <1>5, <1>6, <1>7, <1>11, <1>14, <1>15, <2>1 DEF Works, documents
<1>17. Authorized(s)'
    <2>1. SUFFICES ASSUME t.mode # None
                   PROVE  /\ credit[c].enabled
                          /\ t.mode = "NORMAL" /\ credit[c].limit # None =>
                                outstanding[c] + Owing(row.total, r.plan) <= credit[c].limit
        BY <1>1, <1>5, <1>6, <1>7, <1>9, <1>10, <1>11 DEF Authorized, Customer, Total, books
    <2>2. r.plan # None
        BY <1>8, <1>11, <2>1 DEF CancelOK
    <2>3. PICK exception \in BOOLEAN : /\ t.mode = Authorization(c, Owing(row.total, r.plan), exception)
                                       /\ t.mode # "DENIED"
        BY <1>2, <1>3, <1>9, <1>10, <2>2
    <2>4. Owing(row.total, r.plan) \in Nat
        <3>1. r.plan \in PlanRows /\ row.total \in Nat
            BY <1>3, <1>10, <2>2, SalesAssumption DEF Transactions, OrderRows
        <3> QED
            BY <1>8, <2>2, <3>1 DEF SaleOK, Owing, PlanRows
    <2> QED
        BY <1>4, <2>1, <2>3, <2>4, AuthorizationFacts
<1>18. Shares(s)'
    BY <1>1, <1>3, <1>4, <1>5, <1>11 DEF Shares
<1>19. \A u \in Slots : u # s /\ Open(u) => t.locks \cap tx[u].locks = {}
    BY <1>1, <1>3, <1>4, <1>9, <1>11 DEF Free, IInv, Locks
<1> QED
    BY <1>1, <1>2, <1>13, <1>16, <1>17, <1>18, <1>19, OneKeeps

\* Totals and charges are numbers.
LEMMA TotalTypes ==
    /\ \A n \in Totals : n \in Nat /\ n > 0
    /\ Charge \in Nat /\ Charge > 0
    BY SalesAssumption

\* What a journal enters in an account.
Amount(lines, a) == IF a \in DOMAIN lines THEN lines[a] ELSE 0

\* The lines of the journals of an order: what they enter in the accounts that matter.
LEMMA LineFacts ==
    ASSUME IInv, NEW s \in Slots, NEW kind \in Kinds, Doing(s, kind), NEW a \in Ledger,
           NEW t, t = tx[s], NEW row, row = order[tx[s].order], NEW inv, inv = invoice[tx[s].order]
    PROVE  /\ Amount(Lines(s, kind), a) \in Int
           /\ a \in {"AR", "ADVANCES", "SALES"} => Amount(Lines(s, kind), a) = Entry(t, row, inv, kind, a)
<1>1. /\ TypeOK /\ Open(s) /\ Holds(s) /\ Works(s) /\ kind \in Left(t.todo)
      /\ t \in Transactions /\ t.order \in Orders
    BY DoingFacts, TxFacts
<1>2. row \in OrderRows /\ inv \in InvoiceRows \cup {None}
    BY <1>1 DEF Holds, TypeOK
<1>3. row.total \in Int /\ Total(s) = row.total /\ Charge \in Int
    BY <1>2, TotalTypes DEF OrderRows, Total
<1>4. CASE kind = "walk_in_sale"
    <2>1. Lines(s, kind) = [TENDER |-> row.total, SALES |-> -row.total]
        BY <1>3, <1>4 DEF Lines, WalkInLines
    <2> QED
        BY <1>3, <1>4, <2>1 DEF Amount, Entry, Ledger
<1>5. CASE kind = "invoice_ar"
    <2>1. Lines(s, kind) = [AR |-> row.total, SALES |-> -row.total]
        BY <1>3, <1>5 DEF Lines, ReceivableLines
    <2> QED
        BY <1>3, <1>5, <2>1 DEF Amount, Entry, Ledger
<1>6. CASE kind = "customer_advance_application"
    <2>1. t.plan # None
        BY <1>1, <1>6 DEF Works, CancelOK, CancelWork
    <2>2. t.plan.advance \in Int
        BY <1>1, <2>1 DEF Transactions, PlanRows
    <2>3. Lines(s, kind) = [ADVANCES |-> t.plan.advance, AR |-> -t.plan.advance]
        BY <1>6 DEF Lines, AdvanceLines
    <2> QED
        BY <1>6, <2>2, <2>3 DEF Amount, Entry, Ledger
<1>7. CASE kind = "payment_allocation"
    <2>1. t.plan # None
        BY <1>1, <1>7 DEF Works, CancelOK, CancelWork
    <2>2. t.plan.tender \in Int
        BY <1>1, <2>1 DEF Transactions, PlanRows
    <2>3. Lines(s, kind) = [TENDER |-> t.plan.tender, AR |-> -t.plan.tender]
        BY <1>7 DEF Lines, ReceiptLines
    <2> QED
        BY <1>7, <2>2, <2>3 DEF Amount, Entry, Ledger
<1>8. CASE kind = "credit_note"
    <2>1. inv # None
        BY <1>1, <1>8 DEF Works, CancelOK, CancelWork, SaleOK, AnonymousWork, CustomerWork
    <2>2. inv.total \in Int /\ inv.paid \in Int
        BY <1>2, <2>1, TotalTypes DEF InvoiceRows
    <2>3. Lines(s, kind) = [SALES |-> inv.total, AR |-> -(inv.total - inv.paid), ADVANCES |-> -inv.paid]
        BY <1>8 DEF Lines, CreditNoteLines, Reduction, Released
    <2> QED
        BY <1>8, <2>2, <2>3 DEF Amount, Entry, Ledger
<1>9. CASE kind = "cancellation_charge"
    <2>1. Lines(s, kind) = [AR |-> Charge, CHARGES |-> -Charge]
        BY <1>9 DEF Lines, ChargeLines
    <2> QED
        BY <1>3, <1>9, <2>1 DEF Amount, Entry, Ledger
<1> QED
    BY <1>4, <1>5, <1>6, <1>7, <1>8, <1>9 DEF Kinds

\* A step that posts.
LEMMA PostFacts ==
    ASSUME IInv, NEW s \in Slots, NEW kind \in Kinds, Post(s, kind)
    PROVE  \E t \in Transactions, day \in 1..Days :
              /\ tx' = [tx EXCEPT ![s] = t] /\ period[day] = "OPEN"
              /\ t.order = tx[s].order /\ t.plan = tx[s].plan /\ t.mode = tx[s].mode
              /\ t.date = tx[s].date /\ t.locks = tx[s].locks /\ t.numbers = tx[s].numbers
              /\ t.todo = Tail(tx[s].todo) /\ t.shares = tx[s].shares \cup {day}
              /\ \A d \in 1..Days : d # day => t.entries[d] = tx[s].entries[d]
              /\ \A a \in Ledger : t.entries[day][a] = tx[s].entries[day][a] + Amount(Lines(s, kind), a)
<1>1. /\ Doing(s, kind) /\ TypeOK /\ Open(s) /\ Works(s) /\ kind \in Left(tx[s].todo)
      /\ \A y \in Left(tx[s].todo) : y # kind => Rank[kind] < Rank[y]
    BY DoingFacts DEF Post
<1>2. PICK r, day, lines : r = tx[s] /\ day = PostingDate(s, kind) /\ lines = Lines(s, kind)
    OBVIOUS
<1>3. /\ r \in Transactions /\ r.entries \in Sums /\ r.shares \subseteq 1..Days
    BY <1>1, <1>2, TxFacts
<1>4. day \in 1..Days
    <2>1. today \in 1..Days
        BY <1>1 DEF TypeOK
    <2>2. CASE kind \in {"walk_in_sale", "credit_note", "cancellation_charge"}
        <3>1. /\ Rank["account"] = 1 /\ Rank["INVOICE"] = 3 /\ Rank["walk_in_sale"] = 5
              /\ Rank["credit_note"] = 9 /\ Rank["cancellation_charge"] = 11
            BY DEF Rank, Steps, DocumentTypes, Kinds
        <3>2. kind = "walk_in_sale" => "INVOICE" \notin Left(r.todo)
            BY <1>1, <1>2, <3>1
        <3>3. kind \in {"credit_note", "cancellation_charge"} => "account" \notin Left(r.todo)
            BY <1>1, <1>2, <3>1
        <3>4. r.date # None /\ r.date \in 1..Days
            BY <1>1, <1>2, <2>2, <3>2, <3>3 DEF Works, Dated
        <3> QED
            BY <1>2, <2>2, <3>4 DEF PostingDate
    <2> QED
        BY <1>2, <2>1, <2>2 DEF PostingDate
<1>5. \A a \in Ledger : Amount(lines, a) \in Int
    BY <1>1, <1>2, LineFacts
<1> DEFINE entry == [a \in Ledger |-> r.entries[day][a] + Amount(lines, a)]
           entries == [r.entries EXCEPT ![day] = entry]
           shares == r.shares \cup {day}
           todo == Tail(r.todo)
           t == [r EXCEPT !.shares = shares, !.entries = entries, !.todo = todo]
<1>6. entries = Book(r.entries, day, lines)
    BY Zenon DEF Book, Amount
<1>7. entry \in [Ledger -> Int] /\ \A a \in Ledger : entry[a] = r.entries[day][a] + Amount(lines, a)
    <2>1. r.entries[day] \in [Ledger -> Int]
        BY <1>3, <1>4 DEF Sums
    <2>2. \A a \in Ledger : r.entries[day][a] \in Int
        BY <2>1
    <2>3. \A a \in Ledger : r.entries[day][a] + Amount(lines, a) \in Int
        BY <1>5, <2>2
    <2> QED
        BY <2>3
<1>8. period[day] = "OPEN" /\ tx' = [tx EXCEPT ![s] = t]
    <2>1. Step(s, [r EXCEPT !.shares = @ \cup {day}, !.entries = Book(@, day, lines)])
             /\ period[day] = "OPEN"
        BY <1>2, Zenon DEF Post
    <2>2. Step(s, [r EXCEPT !.shares = shares, !.entries = entries])
        BY <1>6, <2>1
    <2>3. [r EXCEPT !.shares = shares, !.entries = entries].todo = r.todo
        BY <1>3 DEF Transactions
    <2> HIDE DEF shares, entries, entry
    <2>4. tx' = [tx EXCEPT ![s] = [[r EXCEPT !.shares = shares, !.entries = entries] EXCEPT !.todo = todo]]
        BY <2>2, <2>3, Zenon DEF Step
    <2> QED
        BY <2>1, <2>4
<1> HIDE DEF entry
<1>9. /\ entries \in Sums /\ entries[day] = entry
      /\ \A d \in 1..Days : d # day => entries[d] = r.entries[d]
    BY <1>3, <1>4, <1>7 DEF Sums
<1>10. shares \in SUBSET (1..Days) /\ todo \in Seq(Steps)
    BY <1>1, <1>2, <1>3, <1>4, DoingFacts
<1> HIDE DEF entries, shares, todo
<1>11. t \in Transactions
    BY <1>3, <1>9, <1>10, Zenon DEF Transactions, Steps
<1>12. /\ t.order = r.order /\ t.plan = r.plan /\ t.mode = r.mode /\ t.shares = shares
       /\ t.entries = entries /\ t.todo = todo /\ t.locks = r.locks /\ t.date = r.date
       /\ t.numbers = r.numbers
    BY <1>3 DEF Transactions
<1> HIDE DEF t
<1>13. \A a \in Ledger : t.entries[day][a] = r.entries[day][a] + Amount(lines, a)
    BY <1>7, <1>9, <1>12
<1> QED
    BY <1>2, <1>4, <1>8, <1>9, <1>11, <1>12, <1>13 DEF shares, todo

\* Posting keeps the invariant.
LEMMA PostKeeps ==
    ASSUME IInv, NEW s \in Slots, NEW kind \in Kinds, Post(s, kind)
    PROVE  IInv'
<1>1. /\ Doing(s, kind)
      /\ UNCHANGED <<order, documents, credit, books, period, today, seen>>
    BY DEF Post, Step
<1>2. PICK t \in Transactions, day \in 1..Days :
              /\ tx' = [tx EXCEPT ![s] = t] /\ period[day] = "OPEN"
              /\ t.order = tx[s].order /\ t.plan = tx[s].plan /\ t.mode = tx[s].mode
              /\ t.date = tx[s].date /\ t.locks = tx[s].locks /\ t.numbers = tx[s].numbers
              /\ t.todo = Tail(tx[s].todo) /\ t.shares = tx[s].shares \cup {day}
              /\ \A d \in 1..Days : d # day => t.entries[d] = tx[s].entries[d]
              /\ \A a \in Ledger : t.entries[day][a] = tx[s].entries[day][a] + Amount(Lines(s, kind), a)
    BY PostFacts
<1>3. PICK r \in Transactions : r = tx[s]
    BY <1>1, DoingFacts, TxFacts
<1>4. /\ TypeOK /\ Open(s) /\ Holds(s) /\ Works(s) /\ Authorized(s) /\ Shares(s)
      /\ Ordered(t.todo) /\ kind \in Left(r.todo)
      /\ Left(t.todo) = Left(r.todo) \ {kind}
    BY <1>1, <1>2, <1>3, DoingFacts
<1>5. tx'[s] = t
    BY <1>2, <1>4 DEF TypeOK
<1>6. PICK o \in Orders : o = r.order
    BY <1>3 DEF Transactions
<1>7. PICK row, inv : row = order[o] /\ inv = invoice[o]
    OBVIOUS
<1>8. /\ Dated(r) /\ Numbered(r)
      /\ r.plan # None => SaleOK(r, row, inv)
      /\ r.plan = None => CancelOK(r, row, inv)
    BY <1>3, <1>4, <1>6, <1>7 DEF Works
<1>9. /\ t.order = r.order /\ t.plan = r.plan /\ t.mode = r.mode /\ t.date = r.date
      /\ t.locks = r.locks /\ t.numbers = r.numbers /\ t.shares = r.shares \cup {day}
      /\ \A d \in 1..Days : d # day => t.entries[d] = r.entries[d]
    BY <1>2, <1>3
<1>10. kind \notin DocumentTypes /\ kind # "account"
    BY DEF Kinds, DocumentTypes
<1>11. Holds(s)'
    BY <1>1, <1>2, <1>4, <1>5 DEF Holds
<1>12. Dated(t)
    BY <1>4, <1>8, <1>9, <1>10 DEF Dated, DocumentTypes
<1>13. r.plan # None => SaleOK(t, row, inv)
    BY <1>4, <1>8, <1>9, <1>10 DEF SaleOK, DocumentTypes
<1>14. r.plan = None => CancelOK(t, row, inv)
    BY <1>4, <1>8, <1>9, <1>10 DEF CancelOK, Charging, DocumentTypes
<1>15. Works(s)'
    <2>1. Numbered(tx[s])'
        BY <1>1, <1>5, <1>8, <1>9 DEF Numbered, documents
    <2> QED
        BY <1>1, <1>4, <1>5, <1>6, <1>7, <1>9, <1>12, <1>13, <1>14, <2>1 DEF Works, documents
<1>16. Authorized(s)'
    BY <1>1, <1>3, <1>4, <1>5, <1>9 DEF Authorized, Customer, Total, books
<1>17. Shares(s)'
    BY <1>1, <1>2, <1>3, <1>4, <1>5, <1>9 DEF Shares
<1>18. \A u \in Slots : u # s /\ Open(u) => t.locks \cap tx[u].locks = {}
    BY <1>3, <1>4, <1>9 DEF IInv, Locks
<1> QED
    BY <1>1, <1>2, <1>11, <1>15, <1>16, <1>17, <1>18, OneKeeps

-----------------------------------------------------------------------------
(* A transaction ends.                                                     *)

\* What ends one transaction, and changes only what it held, keeps the invariant.
LEMMA EndKeeps ==
    ASSUME IInv, NEW s \in Slots, Open(s), tx' = [tx EXCEPT ![s] = None], Acted(s),
           TypeOK', Seen', OrdersOK', UNCHANGED <<credit, period>>,
           \A u \in Slots : u # s /\ Open(u) =>
              /\ order'[tx[u].order] = order[tx[u].order]
              /\ invoice'[tx[u].order] = invoice[tx[u].order]
              /\ \A type \in DocumentTypes : type \in tx[u].locks => counter'[type] = counter[type]
              /\ \A c \in Customers : c \in tx[u].locks => outstanding'[c] = outstanding[c]
    PROVE  IInv'
<1>1. TypeOK
    BY DEF IInv
<1>2. /\ tx'[s] = None /\ \A u \in Slots \ {s} : tx'[u] = tx[u] /\ seen'[u] = seen[u]
    BY <1>1 DEF TypeOK, Acted
<1>3. ASSUME NEW u \in Slots, Open(u)'
      PROVE  /\ Open(u) /\ u # s /\ tx'[u] = tx[u]
             /\ Holds(u)' /\ Works(u)' /\ Authorized(u)' /\ Shares(u)'
    <2>1. Open(u) /\ u # s /\ tx'[u] = tx[u]
        BY <1>2, <1>3 DEF Open
    <2>2. Holds(u) /\ Works(u) /\ Authorized(u) /\ Shares(u)
        BY <2>1 DEF IInv, Locks, WorkOK, CreditOK, SharesOK
    <2> QED
        BY <1>1, <1>2, <2>1, <2>2, SlotKeeps
<1>4. Locks'
    <2>1. \A v, u \in Slots : Open(v)' /\ Open(u)' /\ v # u => tx'[v].locks \cap tx'[u].locks = {}
        BY <1>3 DEF IInv, Locks
    <2> QED
        BY <1>3, <2>1 DEF Locks
<1> QED
    BY <1>3, <1>4 DEF IInv, WorkOK, CreditOK, SharesOK

\* Rolling back keeps the invariant.
LEMMA RollbackKeeps ==
    ASSUME IInv, NEW s \in Slots, Rollback(s)
    PROVE  IInv'
<1>1. /\ Open(s) /\ tx' = [tx EXCEPT ![s] = None] /\ Acted(s)
      /\ UNCHANGED <<order, documents, credit, books, period, today>>
    BY DEF Rollback
<1>2. TypeOK /\ Seen /\ OrdersOK
    BY DEF IInv
<1>3. /\ seen' \in [Slots -> SeenRows \cup {None}]
      /\ \A u \in Slots : seen'[u] = seen[u] \/ seen'[u] = None
    BY <1>1, <1>2 DEF TypeOK, Acted
<1>4. TypeOK'
    BY <1>1, <1>2, <1>3 DEF TypeOK, documents, books
<1>5. Seen'
    BY <1>1, <1>2, <1>3, <1>4, SeenMoves
<1>6. OrdersOK'
    BY <1>1, <1>2 DEF OrdersOK, Orderly, documents
<1> QED
    BY <1>1, <1>4, <1>5, <1>6, EndKeeps DEF documents, books

\* What a transaction that is about to commit has done.
LEMMA ReadyFacts ==
    ASSUME IInv, NEW s \in Slots, Commit(s)
    PROVE  /\ TypeOK /\ Open(s) /\ Holds(s) /\ Works(s) /\ Authorized(s) /\ Shares(s)
           /\ Left(tx[s].todo) = {} /\ tx[s] \in Transactions /\ tx[s].order \in Orders
           /\ order[tx[s].order] \in OrderRows
           /\ invoice[tx[s].order] \in InvoiceRows \cup {None}
<1>1. Open(s) /\ tx[s].todo = <<>>
    BY DEF Commit
<1>2. TypeOK /\ Holds(s) /\ Works(s) /\ Authorized(s) /\ Shares(s)
    BY <1>1 DEF IInv, Locks, WorkOK, CreditOK, SharesOK
<1>3. tx[s] \in Transactions /\ tx[s].order \in Orders
    BY <1>1, <1>2, TxFacts
<1> QED
    BY <1>1, <1>2, <1>3, TodoNone DEF Holds, TypeOK

\* What a commit adds to what a customer owes, or to the customer's advances.
Shift(t, row, inv, a, c) == IF c = row.customer THEN Effect(t, row, inv, a) ELSE 0

\* What the commit of a sale writes.
LEMMA SaleFacts ==
    ASSUME IInv, NEW s \in Slots, Commit(s), NEW t, t = tx[s], t.plan # None,
           NEW o, o = t.order, NEW row, row = order[o], NEW inv, inv = invoice[o]
    PROVE  /\ \E new \in OrderRows :
                 /\ order' = [order EXCEPT ![o] = new]
                 /\ new.status = "CONFIRMED" /\ new.version = row.version + 1
                 /\ new.number = t.numbers["ORDER"] /\ new.customer = row.customer
           /\ \E new \in InvoiceRows :
                 /\ invoice' = [invoice EXCEPT ![o] = new]
                 /\ new.number = t.numbers["INVOICE"] /\ new.total = row.total
                 /\ new.paid = t.plan.tender + t.plan.advance /\ new.mode = t.mode
           /\ UNCHANGED <<note, charge>>
           /\ outstanding' \in [Customers -> Int] /\ advances' \in [Customers -> Int]
           /\ \A c \in Customers :
                 /\ outstanding'[c] = outstanding[c] + Shift(t, row, inv, "AR", c)
                 /\ advances'[c] = advances[c] - Shift(t, row, inv, "ADVANCES", c)
<1>1. /\ TypeOK /\ Open(s) /\ Works(s) /\ t \in Transactions /\ o \in Orders /\ row \in OrderRows
      /\ Left(t.todo) = {}
    BY ReadyFacts
<1>2. /\ t.plan \in PlanRows /\ t.numbers \in [DocumentTypes -> Nat] /\ t.mode \in Modes
      /\ SaleOK(t, row, inv)
    BY <1>1 DEF Transactions, Works
<1>3. CommitSale(s)
    BY DEF Commit
<1>4. \E new \in OrderRows :
                 /\ order' = [order EXCEPT ![o] = new]
                 /\ new.status = "CONFIRMED" /\ new.version = row.version + 1
                 /\ new.number = t.numbers["ORDER"] /\ new.customer = row.customer
    <2>1. PICK k \in Nat : k = t.numbers["ORDER"]
        BY <1>2 DEF DocumentTypes
    <2> DEFINE new == [row EXCEPT !.status = "CONFIRMED", !.version = @ + 1, !.number = k]
    <2>2. new \in OrderRows
        <3>1. PICK c \in Associations, n \in Totals : row.customer = c /\ row.total = n
            BY <1>1 DEF OrderRows, Associations
        <3> QED
            BY <1>1, <3>1, OrderRowFacts
    <2>3. /\ new.status = "CONFIRMED" /\ new.version = row.version + 1
          /\ new.number = k /\ new.customer = row.customer
        BY <1>1 DEF OrderRows
    <2>4. order' = [order EXCEPT ![o] = new]
        BY <1>3, <2>1 DEF CommitSale, Confirmed
    <2> HIDE DEF new
    <2> QED
        BY <2>1, <2>2, <2>3, <2>4
<1>5. \E new \in InvoiceRows :
                 /\ invoice' = [invoice EXCEPT ![o] = new]
                 /\ new.number = t.numbers["INVOICE"] /\ new.total = row.total
                 /\ new.paid = t.plan.tender + t.plan.advance /\ new.mode = t.mode
    <2>1. PICK final \in BOOLEAN : invoice' = [invoice EXCEPT ![o] = Issued(s, final)]
        BY <1>3 DEF CommitSale
    <2>2. StatusOf(Total(s), t.plan, final) \in {"UNPAID", "PARTIAL", "PAID", "SETTLED"}
        BY DEF StatusOf
    <2>3. t.numbers["INVOICE"] \in Nat /\ row.total \in Totals
        BY <1>1, <1>2 DEF DocumentTypes, OrderRows
    <2>4. t.plan.tender + t.plan.advance \in Nat
        BY <1>2 DEF PlanRows
    <2>5. Issued(s, final) = [number |-> t.numbers["INVOICE"], total |-> row.total,
                     paid |-> t.plan.tender + t.plan.advance,
                     status |-> StatusOf(Total(s), t.plan, final), mode |-> t.mode]
        BY DEF Issued, Total
    <2>6. Issued(s, final) \in InvoiceRows
        BY <1>2, <2>2, <2>3, <2>4, <2>5 DEF InvoiceRows
    <2>7. PICK new \in InvoiceRows : new = Issued(s, final)
        BY <2>6
    <2>8. /\ new.number = t.numbers["INVOICE"] /\ new.total = row.total
          /\ new.paid = t.plan.tender + t.plan.advance /\ new.mode = t.mode
        BY <2>5, <2>7
    <2> QED
        BY <2>1, <2>7, <2>8
<1>6. UNCHANGED <<note, charge>>
    BY <1>3 DEF CommitSale
<1>7. /\ t.plan.tender \in Int /\ t.plan.advance \in Int /\ row.total \in Int
      /\ outstanding \in [Customers -> Int] /\ advances \in [Customers -> Int]
      /\ Customer(s) = row.customer /\ Total(s) = row.total
    BY <1>1, <1>2, TotalTypes DEF PlanRows, OrderRows, TypeOK, Customer, Total
<1>8. /\ \A c : Shift(t, row, inv, "AR", c) =
                   IF c = row.customer THEN Owing(row.total, t.plan) ELSE 0
      /\ \A c : Shift(t, row, inv, "ADVANCES", c) = IF c = row.customer THEN t.plan.advance ELSE 0
    BY <1>7 DEF Shift, Effect, SaleEffect, Owing
<1>9. Owing(row.total, t.plan) \in Int
    BY <1>7 DEF Owing
<1>10. CASE row.customer = None
    <2>1. outstanding' = outstanding /\ advances' = advances
        BY <1>3, <1>7, <1>10 DEF CommitSale
    <2>2. \A c \in Customers : c # row.customer
        BY <1>10, SalesAssumption
    <2>3. \A c \in Customers : outstanding[c] \in Int /\ advances[c] \in Int
        BY <1>7
    <2>4. \A c \in Customers :
             Shift(t, row, inv, "AR", c) = 0 /\ Shift(t, row, inv, "ADVANCES", c) = 0
        BY <1>8, <2>2
    <2>5. \A c \in Customers :
                 /\ outstanding'[c] = outstanding[c] + Shift(t, row, inv, "AR", c)
                 /\ advances'[c] = advances[c] - Shift(t, row, inv, "ADVANCES", c)
        BY <2>1, <2>3, <2>4
    <2> QED
        BY <1>4, <1>5, <1>6, <1>7, <2>1, <2>5
<1>11. CASE row.customer # None
    <2>1. /\ outstanding' = [outstanding EXCEPT ![row.customer] = @ + Owing(row.total, t.plan)]
          /\ advances' = [advances EXCEPT ![row.customer] = @ - t.plan.advance]
        BY <1>3, <1>7, <1>11 DEF CommitSale
    <2>2. row.customer \in Customers
        BY <1>1, <1>11 DEF OrderRows
    <2>3. outstanding' \in [Customers -> Int] /\ advances' \in [Customers -> Int]
        BY <1>7, <1>9, <2>1, <2>2
    <2>4. \A c \in Customers :
                 /\ outstanding'[c] = outstanding[c] + Shift(t, row, inv, "AR", c)
                 /\ advances'[c] = advances[c] - Shift(t, row, inv, "ADVANCES", c)
        BY <1>7, <1>8, <1>9, <2>1, <2>2
    <2> QED
        BY <1>4, <1>5, <1>6, <2>3, <2>4
<1> QED
    BY <1>10, <1>11

\* What the commit of a cancellation writes.
LEMMA CancelFacts ==
    ASSUME IInv, NEW s \in Slots, Commit(s), NEW t, t = tx[s], t.plan = None,
           NEW o, o = t.order, NEW row, row = order[o], NEW inv, inv = invoice[o]
    PROVE  /\ \E new \in OrderRows :
                 /\ order' = [order EXCEPT ![o] = new]
                 /\ new.status = "CANCELLED" /\ new.version = row.version + 1
                 /\ new.number = row.number /\ new.customer = row.customer
           /\ inv = None => invoice' = invoice
           /\ inv # None => \E new \in InvoiceRows :
                 /\ invoice' = [invoice EXCEPT ![o] = new]
                 /\ new.number = inv.number /\ new.total = inv.total
                 /\ new.paid = inv.paid /\ new.mode = inv.mode
           /\ note' = [note EXCEPT ![o] = t.numbers["CREDIT_NOTE"]]
           /\ charge' = [charge EXCEPT ![o] = t.numbers["CANCELLATION_CHARGE"]]
           /\ outstanding' \in [Customers -> Int] /\ advances' \in [Customers -> Int]
           /\ \A c \in Customers :
                 /\ outstanding'[c] = outstanding[c] + Shift(t, row, inv, "AR", c)
                 /\ advances'[c] = advances[c] - Shift(t, row, inv, "ADVANCES", c)
<1>1. /\ TypeOK /\ Open(s) /\ Works(s) /\ t \in Transactions /\ o \in Orders /\ row \in OrderRows
      /\ Left(t.todo) = {} /\ inv \in InvoiceRows \cup {None}
    BY ReadyFacts
<1>2. /\ t.numbers \in [DocumentTypes -> Nat] /\ CancelOK(t, row, inv)
      /\ t.numbers["CREDIT_NOTE"] \in Nat /\ t.numbers["CANCELLATION_CHARGE"] \in Nat
    BY <1>1 DEF Transactions, Works, DocumentTypes
<1>3. CommitCancel(s)
    BY DEF Commit
<1>4. \E new \in OrderRows :
                 /\ order' = [order EXCEPT ![o] = new]
                 /\ new.status = "CANCELLED" /\ new.version = row.version + 1
                 /\ new.number = row.number /\ new.customer = row.customer
    <2> DEFINE new == [row EXCEPT !.status = "CANCELLED", !.version = @ + 1]
    <2>1. new \in OrderRows
        <3>1. PICK c \in Associations, n \in Totals : row.customer = c /\ row.total = n
            BY <1>1 DEF OrderRows, Associations
        <3> QED
            BY <1>1, <3>1, OrderRowFacts
    <2>2. /\ new.status = "CANCELLED" /\ new.version = row.version + 1
          /\ new.number = row.number /\ new.customer = row.customer
        BY <1>1 DEF OrderRows
    <2>3. order' = [order EXCEPT ![o] = new]
        <3>1. order' = [order EXCEPT ![o].status = "CANCELLED", ![o].version = @ + 1]
            BY <1>3 DEF CommitCancel
        <3>2. order \in [Orders -> OrderRows \cup {None}]
            BY <1>1 DEF TypeOK
        <3> QED
            BY <1>1, <3>1, <3>2 DEF OrderRows
    <2> HIDE DEF new
    <2> QED
        BY <2>1, <2>2, <2>3
<1>5. /\ note' = [note EXCEPT ![o] = t.numbers["CREDIT_NOTE"]]
      /\ charge' = [charge EXCEPT ![o] = t.numbers["CANCELLATION_CHARGE"]]
    BY <1>3 DEF CommitCancel
<1>6. inv = None => invoice' = invoice /\ advances' = advances
    BY <1>3 DEF CommitCancel
<1>7. inv # None => \E new \in InvoiceRows :
                 /\ invoice' = [invoice EXCEPT ![o] = new]
                 /\ new.number = inv.number /\ new.total = inv.total
                 /\ new.paid = inv.paid /\ new.mode = inv.mode
    <2>1. SUFFICES ASSUME inv # None
                   PROVE \E new \in InvoiceRows :
                            /\ invoice' = [invoice EXCEPT ![o] = new]
                            /\ new.number = inv.number /\ new.total = inv.total
                            /\ new.paid = inv.paid /\ new.mode = inv.mode
        OBVIOUS
    <2>2. PICK status : status = CancelledStatus(inv.total, inv.paid)
        OBVIOUS
    <2>3. status \in {"UNPAID", "PARTIAL", "PAID", "SETTLED",
                      "CANCELLED", "REFUNDED", "PARTIALLY_REFUNDED"}
        BY <2>2 DEF CancelledStatus
    <2> DEFINE new == [inv EXCEPT !.status = status]
    <2>4. new \in InvoiceRows
        BY <1>1, <2>1, <2>3, Zenon DEF InvoiceRows
    <2>5. /\ new.number = inv.number /\ new.total = inv.total
          /\ new.paid = inv.paid /\ new.mode = inv.mode
        BY <1>1, <2>1 DEF InvoiceRows
    <2>6. invoice' = [invoice EXCEPT ![o] = new]
        <3>1. invoice' = [invoice EXCEPT ![o].status = status]
            BY <1>3, <2>1, <2>2 DEF CommitCancel
        <3> QED
            BY <3>1
    <2> HIDE DEF new
    <2> QED
        BY <2>4, <2>5, <2>6
<1>8. /\ outstanding \in [Customers -> Int] /\ advances \in [Customers -> Int]
      /\ Customer(s) = row.customer
    BY <1>1 DEF TypeOK, Customer
<1>9. inv # None => inv.total \in Int /\ inv.paid \in Int
    BY <1>1, TotalTypes DEF InvoiceRows
<1>10. Debt(s) = Effect(t, row, inv, "AR") /\ Debt(s) \in Int
    <2>1. Charging(t) <=> t.numbers["CANCELLATION_CHARGE"] > 0
        BY <1>1 DEF Charging
    <2>2. inv # None <=> t.numbers["CREDIT_NOTE"] > 0
        BY <1>1, <1>2 DEF CancelOK
    <2>3. Debt(s) = (IF Charging(t) THEN Charge ELSE 0) - (IF inv = None THEN 0 ELSE inv.total - inv.paid)
        BY <2>1, <2>2 DEF Debt, Reduction
    <2> QED
        BY <1>9, <2>3, TotalTypes DEF Effect, CancelEffect
<1>11. Effect(t, row, inv, "ADVANCES") = IF inv = None THEN 0 ELSE -inv.paid
    BY DEF Effect, CancelEffect
<1>12. outstanding' \in [Customers -> Int]
          /\ \A c \in Customers : outstanding'[c] = outstanding[c] + Shift(t, row, inv, "AR", c)
    <2>1. CASE row.customer = None
        <3>1. outstanding' = outstanding
            BY <1>3, <1>8, <2>1 DEF CommitCancel
        <3>2. \A c \in Customers : Shift(t, row, inv, "AR", c) = 0 /\ outstanding[c] \in Int
            BY <1>8, <2>1, SalesAssumption DEF Shift
        <3> QED
            BY <1>8, <3>1, <3>2
    <2>2. CASE row.customer # None
        <3>1. outstanding' = [outstanding EXCEPT ![row.customer] = @ + Debt(s)]
            BY <1>3, <1>8, <2>2 DEF CommitCancel
        <3>2. row.customer \in Customers
            BY <1>1, <2>2 DEF OrderRows
        <3>3. \A c \in Customers : Shift(t, row, inv, "AR", c) = IF c = row.customer THEN Debt(s) ELSE 0
            BY <1>10 DEF Shift
        <3> QED
            BY <1>8, <1>10, <3>1, <3>2, <3>3
    <2> QED
        BY <2>1, <2>2
<1>13. advances' \in [Customers -> Int]
          /\ \A c \in Customers : advances'[c] = advances[c] - Shift(t, row, inv, "ADVANCES", c)
    <2>1. CASE inv = None
        <3>1. \A c \in Customers : Shift(t, row, inv, "ADVANCES", c) = 0 /\ advances[c] \in Int
            BY <1>8, <1>11, <2>1 DEF Shift
        <3> QED
            BY <1>6, <1>8, <2>1, <3>1
    <2>2. CASE inv # None
        <3>1. advances' = [advances EXCEPT ![row.customer] = @ + inv.paid]
            BY <1>3, <1>8, <2>2 DEF CommitCancel, Released
        <3>2. row.customer \in Customers
            BY <1>1, <1>2, <2>2 DEF OrderRows, CancelOK
        <3>3. \A c \in Customers : Shift(t, row, inv, "ADVANCES", c) = IF c = row.customer THEN -inv.paid ELSE 0
            BY <1>11, <2>2 DEF Shift
        <3> QED
            BY <1>8, <1>9, <2>2, <3>1, <3>2, <3>3
    <2> QED
        BY <2>1, <2>2
<1> QED
    BY <1>4, <1>5, <1>6, <1>7, <1>12, <1>13

\* What any commit writes.
LEMMA CommitFacts ==
    ASSUME IInv, NEW s \in Slots, Commit(s), NEW t, t = tx[s],
           NEW o, o = t.order, NEW row, row = order[o], NEW inv, inv = invoice[o]
    PROVE  /\ order' \in [Orders -> OrderRows \cup {None}]
           /\ invoice' \in [Orders -> InvoiceRows \cup {None}]
           /\ note' \in [Orders -> Nat] /\ charge' \in [Orders -> Nat]
           /\ outstanding' \in [Customers -> Int] /\ advances' \in [Customers -> Int]
           /\ order'[o] # None /\ order'[o].version > row.version
           /\ order'[o].status \in {"CONFIRMED", "CANCELLED"}
           /\ order'[o].status = "CONFIRMED" => note'[o] = note[o] /\ charge'[o] = charge[o]
           /\ \A p \in Orders : p # o => /\ order'[p] = order[p] /\ invoice'[p] = invoice[p]
                                         /\ note'[p] = note[p] /\ charge'[p] = charge[p]
           /\ \A c \in Customers :
                 /\ outstanding'[c] = outstanding[c] + Shift(t, row, inv, "AR", c)
                 /\ advances'[c] = advances[c] - Shift(t, row, inv, "ADVANCES", c)
<1>1. /\ TypeOK /\ t \in Transactions /\ o \in Orders /\ row \in OrderRows
    BY ReadyFacts
<1>2. /\ order \in [Orders -> OrderRows \cup {None}] /\ invoice \in [Orders -> InvoiceRows \cup {None}]
      /\ note \in [Orders -> Nat] /\ charge \in [Orders -> Nat]
    BY <1>1 DEF TypeOK
<1>3. row.version \in Nat
    BY <1>1 DEF OrderRows
<1>4. CASE t.plan # None
    <2>1. PICK new \in OrderRows :
                 /\ order' = [order EXCEPT ![o] = new]
                 /\ new.status = "CONFIRMED" /\ new.version = row.version + 1
        BY <1>4, SaleFacts
    <2>2. PICK bill \in InvoiceRows : invoice' = [invoice EXCEPT ![o] = bill]
        BY <1>4, SaleFacts
    <2>3. UNCHANGED <<note, charge>>
        BY <1>4, SaleFacts
    <2>4. /\ outstanding' \in [Customers -> Int] /\ advances' \in [Customers -> Int]
          /\ \A c \in Customers :
                 /\ outstanding'[c] = outstanding[c] + Shift(t, row, inv, "AR", c)
                 /\ advances'[c] = advances[c] - Shift(t, row, inv, "ADVANCES", c)
        BY <1>4, SaleFacts
    <2>5. order'[o] = new /\ new # None /\ new.version > row.version
        BY <1>1, <1>2, <1>3, <2>1, SalesAssumption
    <2> QED
        BY <1>1, <1>2, <2>1, <2>2, <2>3, <2>4, <2>5
<1>5. CASE t.plan = None
    <2>1. PICK new \in OrderRows :
                 /\ order' = [order EXCEPT ![o] = new]
                 /\ new.status = "CANCELLED" /\ new.version = row.version + 1
        BY <1>5, CancelFacts
    <2>2. \/ invoice' = invoice
          \/ \E bill \in InvoiceRows : invoice' = [invoice EXCEPT ![o] = bill]
        BY <1>5, CancelFacts
    <2>3. /\ note' = [note EXCEPT ![o] = t.numbers["CREDIT_NOTE"]]
          /\ charge' = [charge EXCEPT ![o] = t.numbers["CANCELLATION_CHARGE"]]
        BY <1>5, CancelFacts
    <2>4. /\ outstanding' \in [Customers -> Int] /\ advances' \in [Customers -> Int]
          /\ \A c \in Customers :
                 /\ outstanding'[c] = outstanding[c] + Shift(t, row, inv, "AR", c)
                 /\ advances'[c] = advances[c] - Shift(t, row, inv, "ADVANCES", c)
        BY <1>5, CancelFacts
    <2>5. order'[o] = new /\ new # None /\ new.version > row.version
        BY <1>1, <1>2, <1>3, <2>1, SalesAssumption
    <2>6. t.numbers["CREDIT_NOTE"] \in Nat /\ t.numbers["CANCELLATION_CHARGE"] \in Nat
        BY <1>1 DEF Transactions, DocumentTypes
    <2>7. invoice' \in [Orders -> InvoiceRows \cup {None}] /\ \A p \in Orders : p # o => invoice'[p] = invoice[p]
        BY <1>2, <2>2
    <2>8. /\ note' \in [Orders -> Nat] /\ charge' \in [Orders -> Nat]
          /\ \A p \in Orders : p # o => note'[p] = note[p] /\ charge'[p] = charge[p]
        BY <1>2, <2>3, <2>6
    <2> QED
        BY <1>1, <1>2, <2>1, <2>4, <2>5, <2>7, <2>8
<1> QED
    BY <1>4, <1>5

\* Committing keeps the invariant.
LEMMA CommitKeeps ==
    ASSUME IInv, NEW s \in Slots, Commit(s)
    PROVE  IInv'
<1>1. PICK t, o : t = tx[s] /\ o = t.order
    OBVIOUS
<1>2. PICK row, inv : row = order[o] /\ inv = invoice[o]
    OBVIOUS
<1>3. /\ TypeOK /\ Open(s) /\ Holds(s) /\ Works(s) /\ t \in Transactions /\ o \in Orders
      /\ row \in OrderRows /\ inv \in InvoiceRows \cup {None} /\ Left(t.todo) = {}
    BY <1>1, <1>2, ReadyFacts
<1>4. /\ tx' = [tx EXCEPT ![s] = None] /\ Acted(s) /\ UNCHANGED <<credit, period, today>>
      /\ counter' = [type \in DocumentTypes |-> IF t.numbers[type] > 0 THEN t.numbers[type] + 1
                                                ELSE counter[type]]
      /\ journal' = [d \in 1..Days |-> [a \in Ledger |-> journal[d][a] + t.entries[d][a]]]
    BY <1>1 DEF Commit
<1>5. /\ order' \in [Orders -> OrderRows \cup {None}]
      /\ invoice' \in [Orders -> InvoiceRows \cup {None}]
      /\ note' \in [Orders -> Nat] /\ charge' \in [Orders -> Nat]
      /\ outstanding' \in [Customers -> Int] /\ advances' \in [Customers -> Int]
      /\ order'[o] # None /\ order'[o].version > row.version
      /\ order'[o].status \in {"CONFIRMED", "CANCELLED"}
      /\ order'[o].status = "CONFIRMED" => note'[o] = note[o] /\ charge'[o] = charge[o]
      /\ \A p \in Orders : p # o => /\ order'[p] = order[p] /\ invoice'[p] = invoice[p]
                                    /\ note'[p] = note[p] /\ charge'[p] = charge[p]
      /\ \A c \in Customers :
            /\ outstanding'[c] = outstanding[c] + Shift(t, row, inv, "AR", c)
            /\ advances'[c] = advances[c] - Shift(t, row, inv, "ADVANCES", c)
    BY <1>1, <1>2, CommitFacts
<1>6. counter' \in [DocumentTypes -> Nat \ {0}]
    <2>1. \A type \in DocumentTypes : t.numbers[type] \in Nat /\ counter[type] \in Nat \ {0}
        BY <1>3 DEF Transactions, TypeOK
    <2> QED
        BY <1>4, <2>1
<1>7. journal' \in Sums
    <2>1. ASSUME NEW d \in 1..Days, NEW a \in Ledger PROVE journal[d][a] + t.entries[d][a] \in Int
        <3>1. journal \in Sums /\ t.entries \in Sums
            BY <1>3 DEF Transactions, TypeOK
        <3>2. journal[d] \in [Ledger -> Int] /\ t.entries[d] \in [Ledger -> Int]
            BY <3>1 DEF Sums
        <3> QED
            BY <3>2
    <2> QED
        BY <1>4, <2>1 DEF Sums
<1>8. /\ seen' \in [Slots -> SeenRows \cup {None}] /\ tx' \in [Slots -> Transactions \cup {None}]
      /\ \A u \in Slots : seen'[u] = seen[u] \/ seen'[u] = None
    BY <1>3, <1>4 DEF TypeOK, Acted
<1>9. TypeOK'
    BY <1>3, <1>4, <1>5, <1>6, <1>7, <1>8 DEF TypeOK
<1>10. Seen'
    <2>1. \A p \in Orders : order[p] = None \/ order'[p] = order[p]
                               \/ (order'[p] # None /\ order'[p].version > order[p].version)
        BY <1>2, <1>5
    <2> QED
        BY <1>3, <1>4, <1>8, <1>9, <2>1, SeenMoves DEF IInv
<1>11. OrdersOK'
    <2>1. Orderly(o)'
        <3>1. (note[o] = 0 /\ charge[o] = 0) \/ order'[o].status = "CANCELLED"
            <4>1. CASE t.plan # None
                BY <1>1, <1>2, <1>3, <4>1, SalesAssumption DEF IInv, OrdersOK, Orderly, Works, SaleOK
            <4>2. CASE t.plan = None
                <5>1. PICK new \in OrderRows : order' = [order EXCEPT ![o] = new] /\ new.status = "CANCELLED"
                    BY <1>1, <1>2, <4>2, CancelFacts
                <5> QED
                    BY <1>3, <5>1 DEF TypeOK
            <4> QED
                BY <4>1, <4>2
        <3> QED
            BY <1>5, <3>1 DEF Orderly
    <2>2. ASSUME NEW p \in Orders, p # o PROVE Orderly(p)'
        BY <1>5, <2>2 DEF IInv, OrdersOK, Orderly
    <2> QED
        BY <2>1, <2>2 DEF OrdersOK
<1>12. ASSUME NEW u \in Slots, u # s, Open(u)
       PROVE  /\ order'[tx[u].order] = order[tx[u].order]
              /\ invoice'[tx[u].order] = invoice[tx[u].order]
              /\ \A type \in DocumentTypes : type \in tx[u].locks => counter'[type] = counter[type]
              /\ \A c \in Customers : c \in tx[u].locks => outstanding'[c] = outstanding[c]
    <2>1. /\ tx[u].locks \cap t.locks = {} /\ o \in t.locks
          /\ tx[u].order \in tx[u].locks /\ tx[u].order \in Orders
        BY <1>1, <1>3, <1>12, TxFacts DEF IInv, Locks, Holds
    <2>2. tx[u].order # o
        BY <2>1
    <2>3. \A type \in DocumentTypes : type \in tx[u].locks => ~(t.numbers[type] > 0)
        BY <1>1, <1>3, <2>1 DEF Works, Numbered
    <2>4. \A type \in DocumentTypes : type \in tx[u].locks => counter'[type] = counter[type]
        BY <1>4, <2>3
    <2>5. ASSUME NEW c \in Customers, c \in tx[u].locks PROVE outstanding'[c] = outstanding[c]
        <3>1. c \notin t.locks /\ outstanding[c] \in Int
            BY <1>3, <2>1, <2>5 DEF TypeOK
        <3>2. c = row.customer => Effect(t, row, inv, "AR") = 0
            <4>1. SUFFICES ASSUME c = row.customer PROVE Effect(t, row, inv, "AR") = 0
                OBVIOUS
            <4>2. c # None
                BY SalesAssumption
            <4>3. t.plan = None /\ inv = None /\ ~Charging(t)
                BY <1>1, <1>2, <1>3, <3>1, <4>1, <4>2 DEF Works, SaleOK, CancelOK
            <4> QED
                BY <4>3 DEF Effect, CancelEffect
        <3>3. Shift(t, row, inv, "AR", c) = 0
            BY <3>2 DEF Shift
        <3> QED
            BY <1>5, <3>1, <3>3
    <2> QED
        BY <1>5, <2>1, <2>2, <2>4, <2>5
<1> QED
    BY <1>3, <1>4, <1>9, <1>10, <1>11, <1>12, EndKeeps

-----------------------------------------------------------------------------
(* The invariant holds.                                                    *)

\* The actions of a user who has no transaction open.
LEMMA DraftKeeps ==
    ASSUME IInv, NEW s \in Slots, NEW o \in Orders, Draft(s, o)
    PROVE  IInv'
<1>1. CASE \E c \in Associations, n \in Totals : Edit(s, o, c, n)
    BY <1>1, EditKeeps
<1>2. CASE Hold(s, o) \/ Resume(s, o)
    BY <1>2, TransitionKeeps
<1>3. CASE StartSale(s, o)
    BY <1>3, StartSaleKeeps
<1>4. CASE \E charged \in BOOLEAN, date \in Closing \cup {None} :
              /\ charged \/ date = None
              /\ CancelDraft(s, o, charged, date) \/ CancelInvoiced(s, o, charged, date)
    BY <1>4, CancelDraftKeeps, CancelInvoicedKeeps
<1> QED
    BY <1>1, <1>2, <1>3, <1>4 DEF Draft

\* The steps of an open transaction.
LEMMA ProceedKeeps ==
    ASSUME IInv, NEW s \in Slots, Proceed(s)
    PROVE  IInv'
<1>1. CASE LockAccount(s)
    BY <1>1, LockKeeps
<1>2. CASE \E type \in DocumentTypes : Allocate(s, type)
    BY <1>2, AllocateKeeps
<1>3. CASE \E kind \in Kinds : Post(s, kind)
    BY <1>3, PostKeeps
<1>4. CASE Commit(s)
    BY <1>4, CommitKeeps
<1>5. CASE Rollback(s)
    BY <1>5, RollbackKeeps
<1> QED
    BY <1>1, <1>2, <1>3, <1>4, <1>5 DEF Proceed

\* The invariant holds at first: nothing is there, and no period is closed.
LEMMA InvInit == Init => IInv
<1>1. SUFFICES ASSUME Init PROVE IInv
    OBVIOUS
<1>2. TypeOK
    <2>1. NoEntries \in Sums
        BY DEF NoEntries, Sums
    <2>2. [version |-> 1, enabled |-> FirstTerms.enabled, limit |-> FirstTerms.limit] \in CreditRows
        BY SalesAssumption DEF CreditRows
    <2>3. 1 \in 1..Days
        BY SalesAssumption
    <2> QED
        BY <1>1, <2>1, <2>2, <2>3 DEF Init, TypeOK
<1>3. \A s \in Slots : ~Open(s) /\ seen[s] = None
    BY <1>1 DEF Init, Open
<1>4. OrdersOK
    BY <1>1 DEF Init, OrdersOK, Orderly
<1> QED
    BY <1>2, <1>3, <1>4 DEF IInv, Locks, Seen, WorkOK, CreditOK, SharesOK

\* Every step keeps the invariant.
LEMMA InvStep == IInv /\ [Next]_vars => IInv'
<1>1. SUFFICES ASSUME IInv, [Next]_vars PROVE IInv'
    OBVIOUS
<1>2. CASE \E o \in Orders, c \in Customers \cup {None}, n \in Totals : Create(o, c, n)
    BY <1>1, <1>2, CreateKeeps DEF Associations
<1>3. CASE \E s \in Slots : \E x \in Orders \cup Customers : Look(s, x)
    BY <1>1, <1>3, LookKeeps
<1>4. CASE \E s \in Slots : \E o \in Orders : Draft(s, o)
    BY <1>1, <1>4, DraftKeeps
<1>5. CASE \E s \in Slots : \E c \in Customers, terms \in Terms : ConfigureCredit(s, c, terms)
    BY <1>1, <1>5, ConfigureKeeps
<1>6. CASE \E s \in Slots : Proceed(s)
    BY <1>1, <1>6, ProceedKeeps
<1>7. CASE NextDay
    BY <1>1, <1>7, NextDayKeeps
<1>8. CASE \E day \in Closing : ClosePeriod(day)
    BY <1>1, <1>8, ClosePeriodKeeps
<1>9. CASE UNCHANGED vars
    <2>1. UNCHANGED <<order, documents, credit, books, period, today, seen, tx>>
        BY <1>9 DEF vars, documents, books
    <2> QED
        BY <1>1, <2>1 DEF IInv, TypeOK, Locks, Holds, Seen, Saw, Row, OrdersOK, Orderly, WorkOK, Works,
            Numbered, CreditOK, Authorized, Customer, Total, SharesOK, Shares, Open, documents, books
<1> QED
    BY <1>1, <1>2, <1>3, <1>4, <1>5, <1>6, <1>7, <1>8, <1>9 DEF Next

\* The invariant holds throughout.
LEMMA InvHolds == Spec => []IInv
    BY InvInit, InvStep, PTL DEF Spec

\* The rows are rows of their tables.
THEOREM SalesTypeCorrect == Spec => []TypeOK
<1>1. IInv => TypeOK
    BY DEF IInv
<1> QED
    BY InvHolds, <1>1, PTL

-----------------------------------------------------------------------------
(* What a step may do.                                                     *)

\* Only a commit writes documents, numbers and books.
LEMMA WhoWrites ==
    ASSUME [Next]_vars
    PROVE  UNCHANGED <<invoice, note, charge, counter, outstanding, advances, journal>>
              \/ \E s \in Slots : Commit(s)
<1>1. CASE \E o \in Orders, c \in Customers \cup {None}, n \in Totals : Create(o, c, n)
    BY <1>1 DEF Create, documents, books
<1>2. CASE \E s \in Slots : \E x \in Orders \cup Customers : Look(s, x)
    BY <1>2 DEF Look, documents, books
<1>3. CASE \E s \in Slots : \E o \in Orders : Draft(s, o)
    <2>1. PICK s \in Slots, o \in Orders : Draft(s, o)
        BY <1>3
    <2>2. CASE \E c \in Associations, n \in Totals : Edit(s, o, c, n)
        BY <2>2 DEF Edit, ChangeOrder, documents, books
    <2>3. CASE Hold(s, o) \/ Resume(s, o)
        BY <2>3 DEF Hold, Resume, Transition, ChangeOrder, documents, books
    <2>4. CASE StartSale(s, o)
        BY <2>4 DEF StartSale, documents, books
    <2>5. CASE \E charged \in BOOLEAN, date \in Closing \cup {None} :
                  CancelDraft(s, o, charged, date) \/ CancelInvoiced(s, o, charged, date)
        BY <2>5 DEF CancelDraft, CancelInvoiced, documents, books
    <2> QED
        BY <2>1, <2>2, <2>3, <2>4, <2>5 DEF Draft
<1>4. CASE \E s \in Slots : \E c \in Customers, terms \in Terms : ConfigureCredit(s, c, terms)
    BY <1>4 DEF ConfigureCredit, documents, books
<1>5. CASE \E s \in Slots : Proceed(s)
    <2>1. PICK s \in Slots : Proceed(s)
        BY <1>5
    <2>2. CASE LockAccount(s)
        BY <2>2 DEF LockAccount, Step, documents, books
    <2>3. CASE \E type \in DocumentTypes : Allocate(s, type)
        BY <2>3 DEF Allocate, Step, documents, books
    <2>4. CASE \E kind \in Kinds : Post(s, kind)
        BY <2>4 DEF Post, Step, documents, books
    <2>5. CASE Rollback(s)
        BY <2>5 DEF Rollback, documents, books
    <2> QED
        BY <2>1, <2>2, <2>3, <2>4, <2>5 DEF Proceed
<1>6. CASE NextDay
    BY <1>6 DEF NextDay, documents, books
<1>7. CASE \E day \in Closing : ClosePeriod(day)
    BY <1>7 DEF ClosePeriod, documents, books
<1>8. CASE UNCHANGED vars
    BY <1>8 DEF vars, documents, books
<1> QED
    BY <1>1, <1>2, <1>3, <1>4, <1>5, <1>6, <1>7, <1>8 DEF Next

\* The entries of a period that is closed never change: a transaction that has posted in it shares
\* it until it commits (findOpenForPostingDate, close).
THEOREM ClosedHolds == Spec => ClosedPeriodIsFrozen
<1>1. IInv /\ [Next]_vars => [\A day \in 1..Days : period[day] = "CLOSED" => journal'[day] = journal[day]]_vars
    <2>1. SUFFICES ASSUME IInv, [Next]_vars, NEW day \in 1..Days, period[day] = "CLOSED"
                   PROVE  journal'[day] = journal[day]
        OBVIOUS
    <2>2. CASE UNCHANGED journal
        BY <2>2
    <2>3. CASE \E s \in Slots : Commit(s)
        <3>1. PICK s \in Slots : Commit(s)
            BY <2>3
        <3>2. Shares(s) /\ TypeOK
            BY <2>1, <3>1, ReadyFacts
        <3>3. day \notin tx[s].shares
            BY <2>1, <3>2 DEF Shares
        <3>4. \A a \in Ledger : tx[s].entries[day][a] = 0
            BY <3>2, <3>3 DEF Shares
        <3>5. journal[day] \in [Ledger -> Int]
            BY <3>2 DEF TypeOK, Sums
        <3>6. journal'[day] = [a \in Ledger |-> journal[day][a] + tx[s].entries[day][a]]
            BY <3>1 DEF Commit
        <3>7. \A a \in Ledger : journal'[day][a] = journal[day][a]
            BY <3>4, <3>5, <3>6
        <3> QED
            BY <3>5, <3>6, <3>7
    <2> QED
        BY <2>1, <2>2, <2>3, WhoWrites
<1> QED
    BY InvHolds, <1>1, PTL DEF Spec, ClosedPeriodIsFrozen

\* A sale on credit stands within the limit at the moment it commits, unless the limit was
\* overridden, and no credit is given to a customer it is disabled for (lockAndAuthorizeCredit).
THEOREM CreditHolds == Spec => CreditIsAuthorized
<1>1. IInv /\ [Next]_vars =>
         [\A o \in Orders : invoice[o] = None /\ invoice'[o] # None =>
             LET c == order[o].customer IN
             invoice'[o].mode # None =>
                /\ credit[c].enabled
                /\ invoice'[o].mode = "NORMAL" /\ credit[c].limit # None
                      => outstanding'[c] <= credit[c].limit]_vars
    <2>1. SUFFICES ASSUME IInv, [Next]_vars, NEW o \in Orders, invoice[o] = None, invoice'[o] # None,
                          invoice'[o].mode # None
                   PROVE  /\ credit[order[o].customer].enabled
                          /\ invoice'[o].mode = "NORMAL" /\ credit[order[o].customer].limit # None
                                => outstanding'[order[o].customer] <= credit[order[o].customer].limit
        OBVIOUS
    <2>2. PICK s \in Slots : Commit(s)
        BY <2>1, WhoWrites
    <2>3. PICK t, p : t = tx[s] /\ p = t.order
        OBVIOUS
    <2>4. PICK row, inv : row = order[p] /\ inv = invoice[p]
        OBVIOUS
    <2>5. /\ TypeOK /\ Works(s) /\ Authorized(s) /\ t \in Transactions /\ p \in Orders
          /\ row \in OrderRows
        BY <2>1, <2>2, <2>3, <2>4, ReadyFacts
    <2>6. o = p
        BY <2>1, <2>2, <2>3, <2>4, CommitFacts
    <2>7. t.plan # None
        <3>1. SUFFICES ASSUME t.plan = None PROVE FALSE
            OBVIOUS
        <3>2. invoice' = invoice
            BY <2>1, <2>2, <2>3, <2>4, <2>6, <3>1, CancelFacts
        <3> QED
            BY <2>1, <3>2
    <2>8. PICK new \in InvoiceRows : invoice' = [invoice EXCEPT ![o] = new] /\ new.mode = t.mode
        BY <2>1, <2>2, <2>3, <2>4, <2>6, <2>7, SaleFacts
    <2>9. invoice'[o].mode = t.mode
        BY <2>5, <2>8 DEF TypeOK
    <2>10. PICK c \in Customers : c = row.customer
        BY <2>1, <2>3, <2>4, <2>5, <2>9 DEF Authorized, Customer
    <2>11. /\ credit[c].enabled
           /\ t.mode = "NORMAL" /\ credit[c].limit # None =>
                 outstanding[c] + Owing(row.total, t.plan) <= credit[c].limit
        BY <2>1, <2>3, <2>4, <2>5, <2>9, <2>10 DEF Authorized, Customer, Total
    <2>12. outstanding'[c] = outstanding[c] + Owing(row.total, t.plan)
        <3>1. outstanding'[c] = outstanding[c] + Shift(t, row, inv, "AR", c)
            BY <2>1, <2>2, <2>3, <2>4, CommitFacts
        <3>2. Shift(t, row, inv, "AR", c) = Owing(row.total, t.plan)
            BY <2>7, <2>10 DEF Shift, Effect, SaleEffect, Owing
        <3> QED
            BY <3>1, <3>2
    <2> QED
        BY <2>4, <2>6, <2>9, <2>10, <2>11, <2>12
<1> QED
    BY InvHolds, <1>1, PTL DEF Spec, CreditIsAuthorized

\* Who changes an order or a credit configuration has seen it as it is.
LEMMA WhoChanges ==
    ASSUME IInv, [Next]_vars, NEW x \in Orders \cup Customers, Row(x) # None, Row(x)' # Row(x)
    PROVE  \E s \in Slots : seen[s] = [of |-> x, row |-> Row(x)] /\ seen'[s] = None
<1>1. TypeOK
    BY DEF IInv
<1>2. \A s \in Slots : Acted(s) => seen'[s] = None
    BY <1>1 DEF Acted, TypeOK
<1>3. CASE \E o \in Orders, c \in Customers \cup {None}, n \in Totals : Create(o, c, n)
    <2>1. PICK o \in Orders, c \in Customers \cup {None}, n \in Totals : Create(o, c, n)
        BY <1>3
    <2>2. order[o] = None /\ (\A p \in Orders : p # o => order'[p] = order[p]) /\ credit' = credit
        BY <1>1, <2>1 DEF Create, TypeOK
    <2>3. x # o
        BY <2>2 DEF Row
    <2> QED
        BY <2>2, <2>3 DEF Row
<1>4. CASE \E s \in Slots : \E y \in Orders \cup Customers : Look(s, y)
    BY <1>4 DEF Look, Row
<1>5. CASE \E s \in Slots : \E o \in Orders : Draft(s, o)
    <2>1. PICK s \in Slots, o \in Orders : Draft(s, o)
        BY <1>5
    <2>2. CASE \E row : Acts(s, o) /\ ChangeOrder(s, o, row)
        <3>1. PICK row : Acts(s, o) /\ ChangeOrder(s, o, row)
            BY <2>2
        <3>2. Acted(s) /\ credit' = credit /\ \A p \in Orders : p # o => order'[p] = order[p]
            BY <1>1, <3>1 DEF ChangeOrder, TypeOK
        <3>3. x = o
            BY <3>2 DEF Row
        <3> QED
            BY <1>2, <3>1, <3>2, <3>3, ActsFacts
    <2>3. CASE \E c \in Associations, n \in Totals : Edit(s, o, c, n)
        BY <2>2, <2>3 DEF Edit
    <2>4. CASE Hold(s, o) \/ Resume(s, o)
        BY <2>2, <2>4 DEF Hold, Resume, Transition
    <2>5. CASE StartSale(s, o)
        BY <2>5 DEF StartSale, Row
    <2>6. CASE \E charged \in BOOLEAN, date \in Closing \cup {None} :
                  CancelDraft(s, o, charged, date) \/ CancelInvoiced(s, o, charged, date)
        BY <2>6 DEF CancelDraft, CancelInvoiced, Row
    <2> QED
        BY <2>1, <2>3, <2>4, <2>5, <2>6 DEF Draft
<1>6. CASE \E s \in Slots : \E c \in Customers, terms \in Terms : ConfigureCredit(s, c, terms)
    <2>1. PICK s \in Slots, c \in Customers, terms \in Terms : ConfigureCredit(s, c, terms)
        BY <1>6
    <2>2. /\ Acts(s, c) /\ Acted(s) /\ order' = order
          /\ \A d \in Customers : d # c => credit'[d] = credit[d]
        BY <1>1, <2>1 DEF ConfigureCredit, TypeOK
    <2>3. x = c
        BY <2>2 DEF Row
    <2> QED
        BY <1>2, <2>2, <2>3, ActsFacts
<1>7. CASE \E s \in Slots : Proceed(s)
    <2>1. PICK s \in Slots : Proceed(s)
        BY <1>7
    <2>2. CASE LockAccount(s)
        BY <2>2 DEF LockAccount, Step, Row
    <2>3. CASE \E type \in DocumentTypes : Allocate(s, type)
        BY <2>3 DEF Allocate, Step, Row
    <2>4. CASE \E kind \in Kinds : Post(s, kind)
        BY <2>4 DEF Post, Step, Row
    <2>5. CASE Rollback(s)
        BY <2>5 DEF Rollback, Row
    <2>6. CASE Commit(s)
        <3>1. PICK o \in Orders : o = tx[s].order
            BY <2>6, ReadyFacts
        <3>2. Holds(s) /\ Acted(s) /\ credit' = credit
            BY <2>6, ReadyFacts DEF Commit
        <3>3. \A p \in Orders : p # o => order'[p] = order[p]
            BY <2>6, <3>1, CommitFacts
        <3>4. x = o
            BY <3>2, <3>3 DEF Row
        <3> QED
            BY <1>2, <3>1, <3>2, <3>4 DEF Holds, Row
    <2> QED
        BY <2>1, <2>2, <2>3, <2>4, <2>5, <2>6 DEF Proceed
<1>8. CASE NextDay
    BY <1>8 DEF NextDay, Row
<1>9. CASE \E day \in Closing : ClosePeriod(day)
    BY <1>9 DEF ClosePeriod, Row
<1>10. CASE UNCHANGED vars
    BY <1>10 DEF vars, Row
<1> QED
    BY <1>3, <1>4, <1>5, <1>6, <1>7, <1>8, <1>9, <1>10 DEF Next

\* Whatever changes an order or a credit configuration was decided by somebody who had seen exactly
\* the row that is changed (expectedVersion).
THEOREM ActsHolds == Spec => ActsOnWhatWasSeen
<1>1. IInv /\ [Next]_vars =>
         [\A x \in Orders \cup Customers : Row(x) # None /\ Row(x)' # Row(x) =>
             \E s \in Slots : seen[s] = [of |-> x, row |-> Row(x)] /\ seen'[s] = None]_vars
    BY WhoChanges
<1> QED
    BY InvHolds, <1>1, PTL DEF Spec, ActsOnWhatWasSeen

-----------------------------------------------------------------------------
(* Numbers are gapless.                                                    *)

\* The documents of a type are numbered from 1 to the counter, one each.
Exact(type) ==
    /\ \A o \in Orders : NumberOf(type, o) \in 0..(counter[type] - 1)
    /\ \A n \in 1..(counter[type] - 1) : \E o \in Orders : NumberOf(type, o) = n
    /\ \A o, p \in Orders : NumberOf(type, o) > 0 /\ NumberOf(type, o) = NumberOf(type, p) => o = p
Exactly == \A type \in DocumentTypes : Exact(type)

\* A type whose documents and counter stay as they are stays exactly numbered.
LEMMA ExactSame ==
    ASSUME NEW type, Exact(type), counter'[type] = counter[type],
           \A o \in Orders : NumberOf(type, o)' = NumberOf(type, o)
    PROVE  Exact(type)'
    BY DEF Exact

\* One document takes the next number.
LEMMA ExactNext ==
    ASSUME NEW type, Exact(type), counter[type] \in Nat \ {0}, counter'[type] = counter[type] + 1,
           NEW o \in Orders, NumberOf(type, o) = 0, NumberOf(type, o)' = counter[type],
           \A p \in Orders : p # o => NumberOf(type, p)' = NumberOf(type, p)
    PROVE  Exact(type)'
<1>1. \A p \in Orders : NumberOf(type, p)' \in 0..(counter'[type] - 1)
    BY DEF Exact
<1>2. \A n \in 1..(counter'[type] - 1) : \E p \in Orders : NumberOf(type, p)' = n
    <2>1. SUFFICES ASSUME NEW n \in 1..(counter'[type] - 1)
                   PROVE  \E p \in Orders : NumberOf(type, p)' = n
        OBVIOUS
    <2>2. CASE n = counter[type]
        BY <2>2
    <2>3. CASE n # counter[type]
        <3>1. n \in 1..(counter[type] - 1)
            BY <2>1, <2>3
        <3>2. PICK p \in Orders : NumberOf(type, p) = n
            BY <3>1 DEF Exact
        <3>3. p # o
            BY <3>1, <3>2
        <3> QED
            BY <3>2, <3>3
    <2> QED
        BY <2>2, <2>3
<1>3. \A q, p \in Orders : NumberOf(type, q)' > 0 /\ NumberOf(type, q)' = NumberOf(type, p)' => q = p
    BY DEF Exact
<1> QED
    BY <1>1, <1>2, <1>3 DEF Exact

\* Unless it commits, a step leaves the numbers of the orders alone, and the customers of those that
\* are issued.
LEMMA QuietOrders ==
    ASSUME IInv, [Next]_vars, \A s \in Slots : ~Commit(s), NEW o \in Orders
    PROVE  \/ order'[o] = order[o]
           \/ order[o] = None /\ order'[o] # None /\ order'[o].number = 0
           \/ /\ order[o] # None /\ order[o].status \in {"DRAFT", "HELD"}
              /\ order'[o] # None /\ order'[o].number = order[o].number
<1>1. order \in [Orders -> OrderRows \cup {None}]
    BY DEF IInv, TypeOK
<1>2. CASE \E q \in Orders, c \in Customers \cup {None}, n \in Totals : Create(q, c, n)
    <2>1. PICK q \in Orders, c \in Associations, n \in Totals : Create(q, c, n)
        BY <1>2 DEF Associations
    <2>2. PICK new \in OrderRows : new = Priced(Blank, c, n) /\ new.number = 0 /\ new # None
        BY BlankFacts, SalesAssumption
    <2>3. order[q] = None /\ order' = [order EXCEPT ![q] = new]
        BY <2>1, <2>2 DEF Create
    <2> QED
        BY <1>1, <2>2, <2>3
<1>3. CASE \E s \in Slots : \E y \in Orders \cup Customers : Look(s, y)
    BY <1>3 DEF Look
<1>4. CASE \E s \in Slots : \E q \in Orders : Draft(s, q)
    <2>1. PICK s \in Slots, q \in Orders : Draft(s, q)
        BY <1>4
    <2>2. CASE \E c \in Associations, n \in Totals : Edit(s, q, c, n)
        <3>1. PICK c \in Associations, n \in Totals : Edit(s, q, c, n)
            BY <2>2
        <3>2. /\ order[q].status = "DRAFT" /\ Acts(s, q)
              /\ order' = [order EXCEPT ![q] = [Priced(order[q], c, n) EXCEPT !.version = @ + 1]]
            BY <3>1 DEF Edit, ChangeOrder
        <3>3. order[q] \in OrderRows /\ order[q] # None
            BY <1>1, <3>2, ActsFacts DEF Row
        <3>4. PICK new : new = [Priced(order[q], c, n) EXCEPT !.version = @ + 1]
            OBVIOUS
        <3>5. new \in OrderRows /\ new.number = order[q].number
            <4>1. PICK r : r = Priced(order[q], c, n)
                OBVIOUS
            <4>2. r \in OrderRows /\ r.number = order[q].number
                <5>1. r \in OrderRows
                    BY <3>3, <4>1, OrderRowFacts DEF Priced
                <5>2. r.number = order[q].number
                    BY <3>3, <4>1 DEF Priced, OrderRows
                <5> QED
                    BY <5>1, <5>2
            <4>3. new = [r EXCEPT !.version = @ + 1]
                BY <3>4, <4>1
            <4>4. new \in OrderRows
                BY <4>2, <4>3, OrderRowFacts
            <4> QED
                BY <4>2, <4>3, <4>4 DEF OrderRows
        <3>6. order' = [order EXCEPT ![q] = new] /\ new # None /\ order[q].status = "DRAFT"
            BY <3>2, <3>4, <3>5, SalesAssumption
        <3> QED
            BY <1>1, <3>3, <3>5, <3>6
    <2>3. CASE Hold(s, q) \/ Resume(s, q)
        <3>1. PICK from, to \in {"DRAFT", "HELD"} : Transition(s, q, from, to)
            BY <2>3 DEF Hold, Resume
        <3>2. /\ order[q].status = from /\ Acts(s, q)
              /\ order' = [order EXCEPT ![q] = [[order[q] EXCEPT !.status = to] EXCEPT !.version = @ + 1]]
            BY <3>1 DEF Transition, ChangeOrder
        <3>3. order[q] \in OrderRows /\ order[q] # None
            BY <1>1, <3>2, ActsFacts DEF Row
        <3>4. PICK new : new = [[order[q] EXCEPT !.status = to] EXCEPT !.version = @ + 1]
            OBVIOUS
        <3>5. new \in OrderRows /\ new.number = order[q].number
            <4>1. PICK r : r = [order[q] EXCEPT !.status = to]
                OBVIOUS
            <4>2. r \in OrderRows
                BY <3>3, <4>1, Zenon DEF OrderRows
            <4>3. r.number = order[q].number
                BY <3>3, <4>1 DEF OrderRows
            <4>4. PICK c \in Associations, n \in Totals : r.customer = c /\ r.total = n
                BY <4>2 DEF OrderRows, Associations
            <4>5. new \in OrderRows
                BY <3>4, <4>1, <4>2, <4>4, OrderRowFacts
            <4> QED
                BY <3>4, <4>1, <4>2, <4>3, <4>5 DEF OrderRows
        <3> QED
            BY <1>1, <3>2, <3>3, <3>4, <3>5, SalesAssumption
    <2>4. CASE StartSale(s, q)
        BY <2>4 DEF StartSale
    <2>5. CASE \E charged \in BOOLEAN, date \in Closing \cup {None} :
                  CancelDraft(s, q, charged, date) \/ CancelInvoiced(s, q, charged, date)
        BY <2>5 DEF CancelDraft, CancelInvoiced
    <2> QED
        BY <2>1, <2>2, <2>3, <2>4, <2>5 DEF Draft
<1>5. CASE \E s \in Slots : \E c \in Customers, terms \in Terms : ConfigureCredit(s, c, terms)
    BY <1>5 DEF ConfigureCredit
<1>6. CASE \E s \in Slots : Proceed(s)
    BY <1>6 DEF Proceed, LockAccount, Allocate, Post, Rollback, Step
<1>7. CASE NextDay
    BY <1>7 DEF NextDay
<1>8. CASE \E day \in Closing : ClosePeriod(day)
    BY <1>8 DEF ClosePeriod
<1>9. CASE UNCHANGED vars
    BY <1>9 DEF vars
<1> QED
    BY <1>2, <1>3, <1>4, <1>5, <1>6, <1>7, <1>8, <1>9 DEF Next

\* A document a commit writes takes the number that was allocated for it, where there was none.
LEMMA CommitNumbers ==
    ASSUME IInv, NEW s \in Slots, Commit(s), NEW t, t = tx[s], NEW o, o = t.order,
           NEW type \in DocumentTypes
    PROVE  \/ /\ counter'[type] = counter[type]
              /\ NumberOf(type, o)' = NumberOf(type, o)
           \/ /\ counter'[type] = counter[type] + 1
              /\ NumberOf(type, o) = 0 /\ NumberOf(type, o)' = counter[type]
<1>1. PICK row, inv : row = order[o] /\ inv = invoice[o]
    OBVIOUS
<1>2. /\ TypeOK /\ Works(s) /\ t \in Transactions /\ o \in Orders /\ row \in OrderRows
      /\ Left(t.todo) = {} /\ inv \in InvoiceRows \cup {None}
    BY <1>1, ReadyFacts
<1>3. row # None /\ Orderly(o)
    BY <1>2, SalesAssumption DEF IInv, OrdersOK
<1>4. Numbered(t) /\ (t.plan # None => SaleOK(t, row, inv)) /\ (t.plan = None => CancelOK(t, row, inv))
    BY <1>1, <1>2 DEF Works
<1>5. counter' = [k \in DocumentTypes |-> IF t.numbers[k] > 0 THEN t.numbers[k] + 1 ELSE counter[k]]
    BY DEF Commit
<1>6. /\ t.numbers \in [DocumentTypes -> Nat] /\ counter \in [DocumentTypes -> Nat \ {0}]
      /\ order \in [Orders -> OrderRows \cup {None}] /\ invoice \in [Orders -> InvoiceRows \cup {None}]
      /\ note \in [Orders -> Nat] /\ charge \in [Orders -> Nat]
    BY <1>2 DEF Transactions, TypeOK
<1>7. counter'[type] = IF t.numbers[type] > 0 THEN counter[type] + 1 ELSE counter[type]
    BY <1>4, <1>5 DEF Numbered
<1>8. t.numbers[type] > 0 => t.numbers[type] = counter[type]
    BY <1>4 DEF Numbered
<1>9. CASE t.plan # None
    <2>1. PICK new \in OrderRows :
             order' = [order EXCEPT ![o] = new] /\ new.number = t.numbers["ORDER"]
        BY <1>1, <1>9, SaleFacts
    <2>2. PICK bill \in InvoiceRows :
             invoice' = [invoice EXCEPT ![o] = bill] /\ bill.number = t.numbers["INVOICE"]
        BY <1>1, <1>9, SaleFacts
    <2>3. note' = note /\ charge' = charge
        BY <1>1, <1>9, SaleFacts
    <2>4. /\ row.status = "DRAFT" /\ inv = None
          /\ t.numbers["CREDIT_NOTE"] = 0 /\ t.numbers["CANCELLATION_CHARGE"] = 0
          /\ t.numbers["ORDER"] > 0 /\ t.numbers["INVOICE"] > 0
        BY <1>2, <1>4, <1>9 DEF SaleOK
    <2>5. row.number = 0
        BY <1>1, <1>3, <2>4 DEF Orderly
    <2>6. order'[o] = new /\ invoice'[o] = bill /\ new # None /\ bill # None
        BY <1>2, <1>6, <2>1, <2>2, SalesAssumption
    <2>7. CASE type = "ORDER"
        BY <1>1, <1>3, <1>7, <1>8, <2>1, <2>4, <2>5, <2>6, <2>7 DEF NumberOf
    <2>8. CASE type = "INVOICE"
        BY <1>1, <1>3, <1>7, <1>8, <2>2, <2>4, <2>6, <2>8 DEF NumberOf
    <2>9. CASE type = "CREDIT_NOTE"
        BY <1>6, <1>7, <2>3, <2>4, <2>9 DEF NumberOf
    <2>10. CASE type = "CANCELLATION_CHARGE"
        BY <1>6, <1>7, <2>3, <2>4, <2>10 DEF NumberOf
    <2> QED
        BY <2>7, <2>8, <2>9, <2>10 DEF DocumentTypes
<1>10. CASE t.plan = None
    <2>1. PICK new \in OrderRows :
             order' = [order EXCEPT ![o] = new] /\ new.number = row.number
        BY <1>1, <1>10, CancelFacts
    <2>2. /\ inv = None => invoice' = invoice
          /\ inv # None => \E bill \in InvoiceRows :
                 invoice' = [invoice EXCEPT ![o] = bill] /\ bill.number = inv.number
        BY <1>1, <1>10, CancelFacts
    <2>3. /\ note' = [note EXCEPT ![o] = t.numbers["CREDIT_NOTE"]]
          /\ charge' = [charge EXCEPT ![o] = t.numbers["CANCELLATION_CHARGE"]]
        BY <1>1, <1>10, CancelFacts
    <2>4. /\ t.numbers["ORDER"] = 0 /\ t.numbers["INVOICE"] = 0
          /\ inv = None => row.status \in {"DRAFT", "HELD"}
          /\ inv # None => row.status = "CONFIRMED"
        BY <1>2, <1>4, <1>10 DEF CancelOK
    <2>5. note[o] = 0 /\ charge[o] = 0
        BY <1>1, <1>3, <2>4 DEF Orderly
    <2>6. order'[o] = new /\ new # None
        BY <1>2, <1>6, <2>1, SalesAssumption
    <2>7. CASE type = "ORDER"
        BY <1>1, <1>3, <1>7, <2>1, <2>4, <2>6, <2>7 DEF NumberOf
    <2>8. CASE type = "INVOICE"
        <3>1. NumberOf(type, o)' = NumberOf(type, o)
            <4>1. CASE inv = None
                BY <2>2, <2>8, <4>1 DEF NumberOf
            <4>2. CASE inv # None
                <5>1. PICK bill \in InvoiceRows :
                         invoice' = [invoice EXCEPT ![o] = bill] /\ bill.number = inv.number
                    BY <2>2, <4>2
                <5>2. invoice'[o] = bill /\ bill # None
                    BY <1>2, <1>6, <5>1, SalesAssumption
                <5> QED
                    BY <1>1, <2>8, <4>2, <5>1, <5>2 DEF NumberOf
            <4> QED
                BY <4>1, <4>2
        <3> QED
            BY <1>7, <2>4, <2>8, <3>1
    <2>9. CASE type = "CREDIT_NOTE"
        <3>1. note'[o] = t.numbers[type]
            BY <1>2, <1>6, <2>3, <2>9
        <3> QED
            BY <1>6, <1>7, <1>8, <2>5, <2>9, <3>1 DEF NumberOf
    <2>10. CASE type = "CANCELLATION_CHARGE"
        <3>1. charge'[o] = t.numbers[type]
            BY <1>2, <1>6, <2>3, <2>10
        <3> QED
            BY <1>6, <1>7, <1>8, <2>5, <2>10, <3>1 DEF NumberOf
    <2> QED
        BY <2>7, <2>8, <2>9, <2>10 DEF DocumentTypes
<1> QED
    BY <1>9, <1>10

\* The numbering stays exact.
LEMMA ExactStep == IInv /\ Exactly /\ [Next]_vars => Exactly'
<1>1. SUFFICES ASSUME IInv, Exactly, [Next]_vars, NEW type \in DocumentTypes
               PROVE  Exact(type)'
    BY DEF Exactly
<1>2. Exact(type) /\ counter[type] \in Nat \ {0}
    BY <1>1 DEF Exactly, IInv, TypeOK
<1>3. CASE \E s \in Slots : Commit(s)
    <2>1. PICK s \in Slots : Commit(s)
        BY <1>3
    <2>2. PICK t, o : t = tx[s] /\ o = t.order
        OBVIOUS
    <2>3. o \in Orders
        BY <1>1, <2>1, <2>2, ReadyFacts
    <2>4. \A p \in Orders : p # o => /\ order'[p] = order[p] /\ invoice'[p] = invoice[p]
                                     /\ note'[p] = note[p] /\ charge'[p] = charge[p]
        BY <1>1, <2>1, <2>2, CommitFacts
    <2>5. \A p \in Orders : p # o => NumberOf(type, p)' = NumberOf(type, p)
        BY <2>4 DEF NumberOf
    <2>6. \/ /\ counter'[type] = counter[type]
             /\ NumberOf(type, o)' = NumberOf(type, o)
          \/ /\ counter'[type] = counter[type] + 1
             /\ NumberOf(type, o) = 0 /\ NumberOf(type, o)' = counter[type]
        BY <1>1, <2>1, <2>2, CommitNumbers
    <2>7. CASE counter'[type] = counter[type] /\ NumberOf(type, o)' = NumberOf(type, o)
        <3>1. \A p \in Orders : NumberOf(type, p)' = NumberOf(type, p)
            BY <2>5, <2>7
        <3> QED
            BY <1>2, <2>7, <3>1, ExactSame
    <2>8. CASE /\ counter'[type] = counter[type] + 1
               /\ NumberOf(type, o) = 0 /\ NumberOf(type, o)' = counter[type]
        BY <1>2, <2>3, <2>5, <2>8, ExactNext
    <2> QED
        BY <2>6, <2>7, <2>8
<1>4. CASE \A s \in Slots : ~Commit(s)
    <2>1. UNCHANGED <<invoice, note, charge, counter>>
        BY <1>1, <1>4, WhoWrites
    <2>2. ASSUME NEW o \in Orders PROVE NumberOf(type, o)' = NumberOf(type, o)
        <3>1. \/ order'[o] = order[o]
              \/ order[o] = None /\ order'[o] # None /\ order'[o].number = 0
              \/ /\ order[o] # None /\ order[o].status \in {"DRAFT", "HELD"}
                 /\ order'[o] # None /\ order'[o].number = order[o].number
            BY <1>1, <1>4, QuietOrders
        <3> QED
            BY <2>1, <3>1 DEF NumberOf
    <2> QED
        BY <1>2, <2>1, <2>2, ExactSame
<1> QED
    BY <1>3, <1>4

\* Exactly numbered documents are gapless.
LEMMA ExactIsGapless == TypeOK /\ Exactly => Gapless
<1>1. SUFFICES ASSUME TypeOK, Exactly, NEW type \in DocumentTypes,
                      NEW numbered, numbered = {o \in Orders : NumberOf(type, o) > 0}
               PROVE  /\ {NumberOf(type, o) : o \in numbered} = 1..(counter[type] - 1)
                      /\ \A o, p \in numbered : NumberOf(type, o) = NumberOf(type, p) => o = p
    BY DEF Gapless
<1>2. Exact(type) /\ counter[type] \in Nat \ {0}
    BY <1>1 DEF Exactly, TypeOK
<1>3. ASSUME NEW n \in {NumberOf(type, o) : o \in numbered} PROVE n \in 1..(counter[type] - 1)
    BY <1>1, <1>2 DEF Exact
<1>4. ASSUME NEW n \in 1..(counter[type] - 1) PROVE n \in {NumberOf(type, o) : o \in numbered}
    <2>1. PICK o \in Orders : NumberOf(type, o) = n
        BY <1>2 DEF Exact
    <2>2. o \in numbered
        BY <1>1, <2>1
    <2> QED
        BY <2>1, <2>2
<1>5. \A o, p \in numbered : NumberOf(type, o) = NumberOf(type, p) => o = p
    BY <1>1, <1>2 DEF Exact
<1> QED
    BY <1>3, <1>4, <1>5

\* The numbers of the documents of a type are gapless and unique, under any interleaving and any
\* rollback (allocateNumber): the counter's row is held from the allocation to the commit.
THEOREM GaplessHolds == Spec => []Gapless
<1>1. Init => Exactly
    <2>1. SUFFICES ASSUME Init, NEW type \in DocumentTypes PROVE Exact(type)
        BY DEF Exactly
    <2>2. counter[type] = 1 /\ \A o \in Orders : NumberOf(type, o) = 0
        BY <2>1 DEF Init, NumberOf, DocumentTypes
    <2> QED
        BY <2>2 DEF Exact
<1>2. IInv /\ Exactly => Gapless
    BY ExactIsGapless DEF IInv
<1> QED
    BY InvHolds, ExactStep, <1>1, <1>2, PTL DEF Spec

-----------------------------------------------------------------------------
(* A transaction enters what it takes effect with.                         *)

Accounts == {"AR", "ADVANCES", "SALES"}

\* The days are finitely many.
LEMMA DaysFinite == IsFiniteSet(1..Days) /\ Accounts \subseteq Ledger
    BY FS_Interval, SalesAssumption DEF Accounts, Ledger

\* A transaction that has just begun has entered nothing, and has its whole effect left to enter.
LEMMA FreshBalanced ==
    ASSUME NEW o, NEW plan, NEW date, NEW todo, NEW t, Fresh(t, o, plan, date, todo), NEW row, NEW inv,
           \A a \in Accounts : Effect(t, row, inv, a) \in Int /\ Due(t, row, inv, a) = Effect(t, row, inv, a)
    PROVE  Balanced(t, row, inv)
<1>1. ASSUME NEW a \in Accounts PROVE Entered(t, a) = 0
    <2> DEFINE f == [d \in 1..Days |-> t.entries[d][a]]
    <2>1. \A d \in 1..Days : f[d] = 0
        BY DaysFinite DEF Fresh
    <2> HIDE DEF f
    <2>2. SumFunctionOnSet(f, 1..Days) = 0
        BY <2>1, DaysFinite, SumZero
    <2> QED
        BY <2>2 DEF Entered, f
<1>2. ASSUME NEW a \in Accounts PROVE Entered(t, a) + Due(t, row, inv, a) = Effect(t, row, inv, a)
    BY <1>1
<1> QED
    BY <1>2 DEF Balanced, Accounts

\* A sale that begins is balanced.
LEMMA StartSaleBalanced ==
    ASSUME IInv, NEW s \in Slots, NEW o \in Orders, StartSale(s, o)
    PROVE  tx'[s].order = o /\ Balanced(tx'[s], order[o], invoice[o])
<1> DEFINE anonymous == order[o].customer = None
           total == order[o].total
<1>1. Acts(s, o) /\ invoice[o] = None
    BY DEF StartSale, Issuable
<1>2. PICK p \in Plans(total, anonymous) :
         Begin(s, o, p, None, IF anonymous THEN AnonymousSteps ELSE CustomerSteps(p))
    BY DEF StartSale
<1>3. order[o] \in OrderRows /\ total \in Nat /\ TypeOK
    BY <1>1, ActsFacts, SalesAssumption DEF Row, IInv, TypeOK, OrderRows
<1>4. /\ p \in PlanRows /\ p # None /\ p.tender \in Nat /\ p.advance \in Nat
      /\ p.tender + p.advance <= total
      /\ anonymous => p.tender = total
    BY <1>2, <1>3, SalesAssumption DEF Plans, PlanRows
<1> DEFINE todo == IF anonymous THEN AnonymousSteps ELSE CustomerSteps(p)
<1>5. /\ todo \in Seq(Steps)
      /\ "credit_note" \notin Left(todo) /\ "cancellation_charge" \notin Left(todo)
      /\ "walk_in_sale" \in Left(todo) <=> anonymous
      /\ "invoice_ar" \in Left(todo) <=> ~anonymous
      /\ "customer_advance_application" \in Left(todo) <=> ~anonymous /\ p.advance > 0
      /\ "payment_allocation" \in Left(todo) <=> ~anonymous /\ p.tender > 0
    BY <1>4, TodoAnonymous, TodoCustomer
<1>6. Begin(s, o, p, None, todo)
    BY <1>2
<1> HIDE DEF todo, anonymous, total
<1>7. PICK t : Fresh(t, o, p, None, todo) /\ tx' = [tx EXCEPT ![s] = t]
    BY <1>3, <1>4, <1>5, <1>6, BeginFacts
<1>8. tx'[s] = t
    BY <1>3, <1>7 DEF TypeOK
<1>9. t.order = o /\ t.plan = p /\ t.todo = todo
    BY <1>7 DEF Fresh
<1>10. PICK row : row = order[o]
    OBVIOUS
<1>11. row.total = total
    BY <1>10 DEF total
<1>12. ASSUME NEW a \in Accounts
       PROVE  Effect(t, row, invoice[o], a) \in Int /\ Due(t, row, invoice[o], a) = Effect(t, row, invoice[o], a)
    <2>1. Effect(t, row, invoice[o], a) = SaleEffect(t, row, a)
        BY <1>4, <1>9 DEF Effect
    <2>2. CASE anonymous
        <3>1. Due(t, row, invoice[o], a) = Term(t, row, invoice[o], "walk_in_sale", a) + 0 + 0 + 0 + 0 + 0
            BY <1>5, <1>9, <2>2 DEF Due, Term
        <3>2. Term(t, row, invoice[o], "walk_in_sale", a) = IF a = "SALES" THEN -total ELSE 0
            BY <1>5, <1>9, <1>11, <2>2 DEF Term, Entry
        <3>3. p.advance = 0 /\ p.tender = total
            BY <1>3, <1>4, <2>2
        <3> QED
            BY <1>3, <1>9, <1>11, <2>1, <3>1, <3>2, <3>3 DEF SaleEffect, Accounts
    <2>3. CASE ~anonymous
        <3>1. /\ Term(t, row, invoice[o], "walk_in_sale", a) = 0
              /\ Term(t, row, invoice[o], "credit_note", a) = 0
              /\ Term(t, row, invoice[o], "cancellation_charge", a) = 0
            BY <1>5, <1>9, <2>3 DEF Term
        <3>2. Term(t, row, invoice[o], "invoice_ar", a)
                 = IF a = "SALES" THEN -total ELSE IF a = "AR" THEN total ELSE 0
            BY <1>5, <1>9, <1>11, <2>3 DEF Term, Entry
        <3>3. Term(t, row, invoice[o], "customer_advance_application", a)
                 = IF a = "ADVANCES" THEN p.advance ELSE IF a = "AR" THEN -p.advance ELSE 0
            BY <1>4, <1>5, <1>9, <2>3 DEF Term, Entry
        <3>4. Term(t, row, invoice[o], "payment_allocation", a) = IF a = "AR" THEN -p.tender ELSE 0
            BY <1>4, <1>5, <1>9, <2>3 DEF Term, Entry
        <3> QED
            BY <1>3, <1>4, <1>9, <1>11, <2>1, <3>1, <3>2, <3>3, <3>4 DEF Due, SaleEffect, Accounts
    <2> QED
        BY <2>2, <2>3
<1> QED
    BY <1>7, <1>8, <1>9, <1>10, <1>12, FreshBalanced

\* A cancellation of a draft that begins is balanced: its effect is that of the charge.
LEMMA CancelDraftBalanced ==
    ASSUME IInv, NEW s \in Slots, NEW o \in Orders, NEW charged \in BOOLEAN,
           NEW date \in Closing \cup {None}, CancelDraft(s, o, charged, date)
    PROVE  tx'[s].order = o /\ Balanced(tx'[s], order[o], invoice[o])
<1> DEFINE todo == If(charged, "account") \o ChargeSteps(charged)
           at == AccountingDate(charged, date)
<1>1. invoice[o] = None /\ Begin(s, o, None, at, todo) /\ TypeOK
    BY DEF CancelDraft, IInv
<1>2. at \in (1..Days) \cup {None}
    BY SalesAssumption DEF AccountingDate, IInv, TypeOK
<1>3. /\ todo \in Seq(Steps)
      /\ Left(todo) = IF charged THEN {"account", "CANCELLATION_CHARGE", "cancellation_charge"} ELSE {}
    BY TodoDraft
<1> HIDE DEF todo, at
<1>4. PICK t : Fresh(t, o, None, at, todo) /\ tx' = [tx EXCEPT ![s] = t]
    <2>1. PICK plan \in PlanRows \cup {None}, day \in (1..Days) \cup {None}, work \in Seq(Steps) :
             plan = None /\ day = at /\ work = todo
        BY <1>2, <1>3
    <2>2. Begin(s, o, plan, day, work)
        BY <1>1, <2>1
    <2>3. \E t : Fresh(t, o, plan, day, work) /\ tx' = [tx EXCEPT ![s] = t]
        BY <1>1, <2>2, BeginFacts
    <2> QED
        BY <2>1, <2>3
<1>5. tx'[s] = t
    BY <1>1, <1>4 DEF TypeOK
<1>6. t.order = o /\ t.plan = None /\ t.todo = todo /\ t.numbers["CANCELLATION_CHARGE"] = 0
    BY <1>4 DEF Fresh, DocumentTypes
<1>7. Charging(t) <=> charged
    BY <1>3, <1>6 DEF Charging
<1>8. ASSUME NEW a \in Accounts
      PROVE  /\ Effect(t, order[o], invoice[o], a) \in Int
             /\ Due(t, order[o], invoice[o], a) = Effect(t, order[o], invoice[o], a)
    <2>1. Effect(t, order[o], invoice[o], a) = IF a = "AR" /\ charged THEN Charge ELSE 0
        <3>1. Effect(t, order[o], invoice[o], a) = CancelEffect(t, None, a)
            BY <1>1, <1>6 DEF Effect
        <3>2. CASE a = "AR"
            BY <1>7, <3>1, <3>2, TotalTypes DEF CancelEffect
        <3>3. CASE a # "AR"
            BY <3>1, <3>3 DEF CancelEffect, Accounts
        <3> QED
            BY <3>2, <3>3
    <2>2. /\ Term(t, order[o], invoice[o], "walk_in_sale", a) = 0
          /\ Term(t, order[o], invoice[o], "invoice_ar", a) = 0
          /\ Term(t, order[o], invoice[o], "customer_advance_application", a) = 0
          /\ Term(t, order[o], invoice[o], "payment_allocation", a) = 0
          /\ Term(t, order[o], invoice[o], "credit_note", a) = 0
        BY <1>3, <1>6 DEF Term
    <2>3. Term(t, order[o], invoice[o], "cancellation_charge", a) = IF a = "AR" /\ charged THEN Charge ELSE 0
        BY <1>3, <1>6 DEF Term, Entry
    <2> QED
        BY <2>1, <2>2, <2>3, TotalTypes DEF Due
<1> QED
    BY <1>4, <1>5, <1>6, <1>8, FreshBalanced

\* A cancellation of an invoiced order that begins is balanced: its effect is that of the credit
\* note and the charge.
LEMMA CancelInvoicedBalanced ==
    ASSUME IInv, NEW s \in Slots, NEW o \in Orders, NEW charged \in BOOLEAN,
           NEW date \in Closing \cup {None}, CancelInvoiced(s, o, charged, date)
    PROVE  tx'[s].order = o /\ Balanced(tx'[s], order[o], invoice[o])
<1> DEFINE todo == <<"account", "CREDIT_NOTE", "credit_note">> \o ChargeSteps(charged)
           at == AccountingDate(charged, date)
<1>1. invoice[o] # None /\ Begin(s, o, None, at, todo) /\ TypeOK
    BY DEF CancelInvoiced, IInv
<1>2. at \in (1..Days) \cup {None}
    BY SalesAssumption DEF AccountingDate, IInv, TypeOK
<1>3. /\ todo \in Seq(Steps)
      /\ Left(todo) = {"account", "CREDIT_NOTE", "credit_note"} \cup
                         IF charged THEN {"CANCELLATION_CHARGE", "cancellation_charge"} ELSE {}
    BY TodoInvoiced
<1> HIDE DEF todo, at
<1>4. PICK t : Fresh(t, o, None, at, todo) /\ tx' = [tx EXCEPT ![s] = t]
    <2>1. PICK plan \in PlanRows \cup {None}, day \in (1..Days) \cup {None}, work \in Seq(Steps) :
             plan = None /\ day = at /\ work = todo
        BY <1>2, <1>3
    <2>2. Begin(s, o, plan, day, work)
        BY <1>1, <2>1
    <2>3. \E t : Fresh(t, o, plan, day, work) /\ tx' = [tx EXCEPT ![s] = t]
        BY <1>1, <2>2, BeginFacts
    <2> QED
        BY <2>1, <2>3
<1>5. tx'[s] = t
    BY <1>1, <1>4 DEF TypeOK
<1>6. t.order = o /\ t.plan = None /\ t.todo = todo /\ t.numbers["CANCELLATION_CHARGE"] = 0
    BY <1>4 DEF Fresh, DocumentTypes
<1>7. Charging(t) <=> charged
    BY <1>3, <1>6 DEF Charging
<1>8. PICK inv : inv = invoice[o]
    OBVIOUS
<1>9. inv # None /\ inv.total \in Int /\ inv.paid \in Int
    BY <1>1, <1>8, TotalTypes DEF TypeOK, InvoiceRows
<1>10. ASSUME NEW a \in Accounts
       PROVE  /\ Effect(t, order[o], inv, a) \in Int
              /\ Due(t, order[o], inv, a) = Effect(t, order[o], inv, a)
    <2> DEFINE fee == IF charged THEN Charge ELSE 0
    <2>1. fee \in Int
        BY TotalTypes
    <2>2. Effect(t, order[o], inv, a) =
             IF a = "AR" THEN fee - (inv.total - inv.paid)
             ELSE IF a = "ADVANCES" THEN -inv.paid ELSE inv.total
        BY <1>6, <1>7, <1>9 DEF Effect, CancelEffect, Accounts
    <2>3. /\ Term(t, order[o], inv, "walk_in_sale", a) = 0
          /\ Term(t, order[o], inv, "invoice_ar", a) = 0
          /\ Term(t, order[o], inv, "customer_advance_application", a) = 0
          /\ Term(t, order[o], inv, "payment_allocation", a) = 0
        BY <1>3, <1>6 DEF Term
    <2>4. Term(t, order[o], inv, "cancellation_charge", a) = IF a = "AR" THEN fee ELSE 0
        BY <1>3, <1>6 DEF Term, Entry
    <2>5. Term(t, order[o], inv, "credit_note", a) =
             IF a = "SALES" THEN inv.total ELSE IF a = "AR" THEN inv.paid - inv.total ELSE -inv.paid
        BY <1>3, <1>6 DEF Term, Entry, Accounts
    <2> HIDE DEF fee
    <2> QED
        BY <1>9, <2>1, <2>2, <2>3, <2>4, <2>5 DEF Due, Accounts
<1> QED
    BY <1>4, <1>5, <1>6, <1>8, <1>10, FreshBalanced

\* What is entered and what must be depends on the plan and on whether there is a charge.
LEMMA EntrySame ==
    ASSUME NEW r, NEW t, t.plan = r.plan, NEW row, NEW inv, NEW kind \in Kinds, NEW a \in Accounts
    PROVE  Entry(t, row, inv, kind, a) = Entry(r, row, inv, kind, a)
<1>1. CASE kind = "customer_advance_application"
    BY <1>1 DEF Entry
<1>2. CASE kind = "payment_allocation"
    BY <1>2 DEF Entry
<1>3. CASE kind \in {"walk_in_sale", "invoice_ar", "credit_note", "cancellation_charge"}
    BY <1>3 DEF Entry
<1> QED
    BY <1>1, <1>2, <1>3 DEF Kinds

\* So does the effect.
LEMMA EffectSame ==
    ASSUME NEW r, NEW t, t.plan = r.plan, Charging(t) <=> Charging(r), NEW row, NEW inv, NEW a \in Accounts
    PROVE  Effect(t, row, inv, a) = Effect(r, row, inv, a)
<1>1. CASE t.plan = None
    <2>1. CancelEffect(t, inv, a) = CancelEffect(r, inv, a)
        BY DEF CancelEffect, Accounts
    <2> QED
        BY <1>1, <2>1 DEF Effect
<1>2. CASE t.plan # None
    <2>1. SaleEffect(t, row, a) = SaleEffect(r, row, a)
        BY DEF SaleEffect, Accounts
    <2> QED
        BY <1>2, <2>1 DEF Effect
<1> QED
    BY <1>1, <1>2

\* A step that enters nothing keeps the balance.
LEMMA SameBalanced ==
    ASSUME NEW r, NEW t, NEW row, NEW inv, Balanced(r, row, inv),
           t.plan = r.plan, t.entries = r.entries, Charging(t) <=> Charging(r),
           \A kind \in Kinds : kind \in Left(t.todo) <=> kind \in Left(r.todo)
    PROVE  Balanced(t, row, inv)
<1>1. ASSUME NEW a \in Accounts PROVE Entered(t, a) + Due(t, row, inv, a) = Effect(t, row, inv, a)
    <2>1. Entered(t, a) = Entered(r, a)
        BY DEF Entered
    <2>2. ASSUME NEW kind \in Kinds PROVE Term(t, row, inv, kind, a) = Term(r, row, inv, kind, a)
        BY EntrySame DEF Term
    <2>3. Due(t, row, inv, a) = Due(r, row, inv, a)
        BY <2>2 DEF Due, Kinds
    <2>4. Effect(t, row, inv, a) = Effect(r, row, inv, a)
        BY EffectSame
    <2> QED
        BY <2>1, <2>3, <2>4 DEF Balanced, Accounts
<1> QED
    BY <1>1 DEF Balanced, Accounts

\* Locking the account enters nothing.
LEMMA LockBalanced ==
    ASSUME IInv, NEW s \in Slots, LockAccount(s), NEW row, NEW inv, Balanced(tx[s], row, inv)
    PROVE  tx'[s].order = tx[s].order /\ Balanced(tx'[s], row, inv)
<1>1. PICK t \in Transactions :
         /\ tx' = [tx EXCEPT ![s] = t]
         /\ t.order = tx[s].order /\ t.plan = tx[s].plan
         /\ t.entries = tx[s].entries /\ t.numbers = tx[s].numbers
         /\ t.todo = Tail(tx[s].todo)
    BY LockFacts
<1>2. tx'[s] = t
    BY <1>1 DEF IInv, TypeOK
<1>3. Left(t.todo) = Left(tx[s].todo) \ {"account"}
    BY <1>1, DoingFacts DEF LockAccount
<1>4. Charging(t) <=> Charging(tx[s])
    BY <1>1, <1>3 DEF Charging
<1>5. \A kind \in Kinds : kind \in Left(t.todo) <=> kind \in Left(tx[s].todo)
    BY <1>3 DEF Kinds
<1> QED
    BY <1>1, <1>2, <1>4, <1>5, SameBalanced

\* Taking a number enters nothing.
LEMMA AllocateBalanced ==
    ASSUME IInv, NEW s \in Slots, NEW type \in DocumentTypes, Allocate(s, type), NEW row, NEW inv,
           Balanced(tx[s], row, inv)
    PROVE  tx'[s].order = tx[s].order /\ Balanced(tx'[s], row, inv)
<1>1. PICK t \in Transactions :
         /\ tx' = [tx EXCEPT ![s] = t]
         /\ t.order = tx[s].order /\ t.plan = tx[s].plan /\ t.entries = tx[s].entries
         /\ t.todo = Tail(tx[s].todo) /\ t.numbers[type] = counter[type]
         /\ \A other \in DocumentTypes : other # type => t.numbers[other] = tx[s].numbers[other]
    BY AllocateFacts
<1>2. tx'[s] = t /\ counter[type] > 0
    BY <1>1 DEF IInv, TypeOK
<1>3. type \in Left(tx[s].todo) /\ Left(t.todo) = Left(tx[s].todo) \ {type}
    BY <1>1, DoingFacts DEF Allocate
<1>4. Charging(t) <=> Charging(tx[s])
    BY <1>1, <1>2, <1>3 DEF Charging, DocumentTypes
<1>5. \A kind \in Kinds : kind \in Left(t.todo) <=> kind \in Left(tx[s].todo)
    BY <1>3 DEF Kinds, DocumentTypes
<1> QED
    BY <1>1, <1>2, <1>4, <1>5, SameBalanced

\* What a transaction enters is a number.
LEMMA EntryTypes ==
    ASSUME TypeOK, NEW s \in Slots, Open(s), Holds(s), Works(s), NEW kind \in Kinds,
           NEW a \in Accounts, NEW t, t = tx[s], NEW row, row = order[t.order],
           NEW inv, inv = invoice[t.order]
    PROVE  Term(t, row, inv, kind, a) \in Int
<1>1. CASE kind \notin Left(t.todo)
    BY <1>1 DEF Term
<1>2. CASE kind \in Left(t.todo)
    <2>1. t \in Transactions /\ t.order \in Orders
        BY TxFacts
    <2>2. row \in OrderRows /\ inv \in InvoiceRows \cup {None}
        BY <2>1 DEF Holds, TypeOK
    <2>3. row.total \in Int /\ -row.total \in Int /\ Charge \in Int
        BY <2>2, TotalTypes DEF OrderRows
    <2>4. CASE kind \in {"walk_in_sale", "invoice_ar", "cancellation_charge"}
        BY <2>3, <2>4 DEF Term, Entry
    <2>5. CASE kind \in {"customer_advance_application", "payment_allocation"}
        <3>1. t.plan # None
            BY <1>2, <2>5 DEF Works, CancelOK, CancelWork
        <3>2. t.plan.advance \in Int /\ t.plan.tender \in Int
            BY <2>1, <3>1 DEF Transactions, PlanRows
        <3> QED
            BY <2>5, <3>2 DEF Term, Entry
    <2>6. CASE kind = "credit_note"
        <3>1. inv # None
            BY <1>2, <2>6 DEF Works, CancelOK, CancelWork, SaleOK, AnonymousWork, CustomerWork
        <3>2. inv.total \in Int /\ inv.paid \in Int
            BY <2>2, <3>1, TotalTypes DEF InvoiceRows
        <3> QED
            BY <2>6, <3>2 DEF Term, Entry
    <2> QED
        BY <2>4, <2>5, <2>6 DEF Kinds
<1> QED
    BY <1>1, <1>2

\* Posting enters what was left to enter.
LEMMA PostBalanced ==
    ASSUME IInv, NEW s \in Slots, NEW kind \in Kinds, Post(s, kind), NEW row, row = order[tx[s].order],
           NEW inv, inv = invoice[tx[s].order], Balanced(tx[s], row, inv)
    PROVE  tx'[s].order = tx[s].order /\ Balanced(tx'[s], row, inv)
<1>1. PICK t \in Transactions, day \in 1..Days :
         /\ tx' = [tx EXCEPT ![s] = t]
         /\ t.order = tx[s].order /\ t.plan = tx[s].plan /\ t.numbers = tx[s].numbers
         /\ t.todo = Tail(tx[s].todo)
         /\ \A d \in 1..Days : d # day => t.entries[d] = tx[s].entries[d]
         /\ \A a \in Ledger : t.entries[day][a] = tx[s].entries[day][a] + Amount(Lines(s, kind), a)
    BY PostFacts
<1>2. PICK r : r = tx[s]
    OBVIOUS
<1>3. tx'[s] = t
    BY <1>1 DEF IInv, TypeOK
<1>4. Doing(s, kind)
    BY DEF Post
<1>5. /\ kind \in Left(r.todo) /\ Left(t.todo) = Left(r.todo) \ {kind}
      /\ TypeOK /\ Open(s) /\ Holds(s) /\ Works(s)
    BY <1>1, <1>2, <1>4, DoingFacts
<1>6. r.entries \in Sums /\ t.entries \in Sums
    BY <1>2, <1>5, TxFacts DEF Transactions
<1>7. Charging(t) <=> Charging(r)
    BY <1>1, <1>2, <1>5 DEF Charging, Kinds
<1>8. ASSUME NEW a \in Accounts PROVE Entered(t, a) + Due(t, row, inv, a) = Effect(t, row, inv, a)
    <2>1. a \in Ledger
        BY DaysFinite
    <2>2. PICK e : e = Amount(Lines(s, kind), a)
        OBVIOUS
    <2>3. e \in Int /\ e = Entry(r, row, inv, kind, a)
        BY <1>2, <1>4, <2>1, <2>2, LineFacts DEF Accounts
    <2> DEFINE f == [d \in 1..Days |-> r.entries[d][a]]
               g == [d \in 1..Days |-> t.entries[d][a]]
    <2>4. \A d \in 1..Days : f[d] \in Int
        BY <1>6, <2>1 DEF Sums
    <2>5. \A d \in 1..Days : d # day => g[d] = f[d]
        BY <1>1, <1>2
    <2>6. g[day] = f[day] + e
        BY <1>1, <1>2, <2>1, <2>2
    <2> HIDE DEF f, g
    <2>7. SumFunctionOnSet(g, 1..Days) = SumFunctionOnSet(f, 1..Days) - f[day] + g[day]
        <3>1. PICK D, x, F, G : D = 1..Days /\ x = day /\ F = f /\ G = g
            OBVIOUS
        <3>2. IsFiniteSet(D) /\ x \in D /\ \A d \in D : F[d] \in Int
            BY <2>4, <3>1, DaysFinite
        <3>3. \A d \in D \ {x} : G[d] = F[d]
            BY <2>5, <3>1
        <3>4. G[x] \in Int
            BY <2>3, <2>6, <3>1, <3>2
        <3>5. SumFunctionOnSet(G, D) = SumFunctionOnSet(F, D) - F[x] + G[x]
            BY <3>2, <3>3, <3>4, SumChange
        <3> QED
            BY <3>1, <3>5
    <2>8. SumFunctionOnSet(f, 1..Days) \in Int
        BY <2>4, DaysFinite, SumType
    <2>9. Entered(t, a) = Entered(r, a) + e /\ Entered(r, a) \in Int
        BY <2>3, <2>4, <2>6, <2>7, <2>8 DEF Entered, f, g
    <2>10. ASSUME NEW k \in Kinds
           PROVE  /\ Term(r, row, inv, k, a) \in Int
                  /\ k # kind => Term(t, row, inv, k, a) = Term(r, row, inv, k, a)
                  /\ k = kind => Term(t, row, inv, k, a) = 0 /\ Term(r, row, inv, k, a) = e
        <3>1. Term(r, row, inv, k, a) \in Int
            BY <1>2, <1>5, EntryTypes
        <3>2. k # kind => Term(t, row, inv, k, a) = Term(r, row, inv, k, a)
            BY <1>1, <1>2, <1>5, EntrySame DEF Term
        <3>3. k = kind => Term(t, row, inv, k, a) = 0 /\ Term(r, row, inv, k, a) = e
            BY <1>5, <2>3 DEF Term
        <3> QED
            BY <3>1, <3>2, <3>3
    <2>11. Due(r, row, inv, a) = Due(t, row, inv, a) + e /\ Due(t, row, inv, a) \in Int
        BY <2>3, <2>10 DEF Due, Kinds
    <2>12. Effect(t, row, inv, a) = Effect(r, row, inv, a)
        BY <1>1, <1>2, <1>7, EffectSame
    <2>13. Entered(r, a) + Due(r, row, inv, a) = Effect(r, row, inv, a)
        BY <1>2 DEF Balanced, Accounts
    <2> QED
        BY <2>3, <2>9, <2>11, <2>12, <2>13
<1> QED
    BY <1>1, <1>3, <1>8 DEF Balanced, Accounts

\* How a transaction that is open after a step got there.
LEMMA TxMoves ==
    ASSUME IInv, [Next]_vars, NEW u \in Slots, Open(u)'
    PROVE  \/ tx'[u] = tx[u] /\ seen'[u] = seen[u]
           \/ \E o \in Orders : StartSale(u, o)
           \/ \E o \in Orders, charged \in BOOLEAN, date \in Closing \cup {None} :
                 CancelDraft(u, o, charged, date) \/ CancelInvoiced(u, o, charged, date)
           \/ LockAccount(u)
           \/ \E type \in DocumentTypes : Allocate(u, type)
           \/ \E kind \in Kinds : Post(u, kind)
<1>1. /\ tx \in [Slots -> Transactions \cup {None}] /\ seen \in [Slots -> SeenRows \cup {None}]
      /\ tx'[u] # None
    BY DEF IInv, TypeOK, Open
<1>2. CASE \E o \in Orders, c \in Customers \cup {None}, n \in Totals : Create(o, c, n)
    BY <1>2 DEF Create
<1>3. CASE \E s \in Slots : ~Open(s) /\ \E x \in Orders \cup Customers : Look(s, x)
    BY <1>1, <1>3 DEF Look, Open
<1>4. CASE \E s \in Slots : ~Open(s) /\ \E o \in Orders : Draft(s, o)
    <2>1. PICK s \in Slots, o \in Orders : ~Open(s) /\ Draft(s, o)
        BY <1>4
    <2>2. CASE \E c \in Associations, n \in Totals : Edit(s, o, c, n)
        BY <1>1, <2>1, <2>2 DEF Edit, ChangeOrder, Acted, Open
    <2>3. CASE Hold(s, o) \/ Resume(s, o)
        BY <1>1, <2>1, <2>3 DEF Hold, Resume, Transition, ChangeOrder, Acted, Open
    <2>4. CASE StartSale(s, o)
        BY <1>1, <2>4 DEF StartSale, Begin
    <2>5. CASE \E charged \in BOOLEAN, date \in Closing \cup {None} :
                  CancelDraft(s, o, charged, date) \/ CancelInvoiced(s, o, charged, date)
        <3>1. CASE s = u
            BY <2>5, <3>1
        <3>2. CASE s # u
            <4>1. PICK r : tx' = [tx EXCEPT ![s] = r] /\ seen' = seen
                BY <2>5 DEF CancelDraft, CancelInvoiced, Begin
            <4> QED
                BY <1>1, <3>2, <4>1
        <3> QED
            BY <3>1, <3>2
    <2> QED
        BY <2>1, <2>2, <2>3, <2>4, <2>5 DEF Draft
<1>5. CASE \E s \in Slots : ~Open(s) /\ \E c \in Customers, terms \in Terms : ConfigureCredit(s, c, terms)
    BY <1>1, <1>5 DEF ConfigureCredit, Acted, Open
<1>6. CASE \E s \in Slots : Proceed(s)
    <2>1. PICK s \in Slots : Proceed(s)
        BY <1>6
    <2>2. CASE s = u
        <3>1. CASE Commit(s) \/ Rollback(s)
            BY <1>1, <2>2, <3>1 DEF Commit, Rollback
        <3> QED
            BY <2>1, <2>2, <3>1 DEF Proceed
    <2>3. CASE s # u
        <3>1. CASE Commit(s) \/ Rollback(s)
            <4>1. tx' = [tx EXCEPT ![s] = None] /\ seen' = [seen EXCEPT ![s] = None]
                BY <3>1 DEF Commit, Rollback, Acted
            <4> QED
                BY <1>1, <2>3, <4>1
        <3>2. CASE LockAccount(s)
            <4>1. PICK r : tx' = [tx EXCEPT ![s] = r]
                BY <3>2, LockFacts
            <4>2. seen' = seen
                BY <3>2 DEF LockAccount, Step
            <4> QED
                BY <1>1, <2>3, <4>1, <4>2
        <3>3. CASE \E type \in DocumentTypes : Allocate(s, type)
            <4>1. PICK r : tx' = [tx EXCEPT ![s] = r]
                BY <3>3, AllocateFacts
            <4>2. seen' = seen
                BY <3>3 DEF Allocate, Step
            <4> QED
                BY <1>1, <2>3, <4>1, <4>2
        <3>4. CASE \E kind \in Kinds : Post(s, kind)
            <4>1. PICK r : tx' = [tx EXCEPT ![s] = r]
                BY <3>4, PostFacts
            <4>2. seen' = seen
                BY <3>4 DEF Post, Step
            <4> QED
                BY <1>1, <2>3, <4>1, <4>2
        <3> QED
            BY <2>1, <3>1, <3>2, <3>3, <3>4 DEF Proceed
    <2> QED
        BY <2>2, <2>3
<1>7. CASE NextDay
    BY <1>7 DEF NextDay
<1>8. CASE \E day \in Closing : ClosePeriod(day)
    BY <1>8 DEF ClosePeriod
<1>9. CASE UNCHANGED vars
    BY <1>9 DEF vars
<1> QED
    BY <1>2, <1>3, <1>4, <1>5, <1>6, <1>7, <1>8, <1>9 DEF Next

\* Every transaction stays balanced.
LEMMA BalancedStep == IInv /\ BalancedOK /\ [Next]_vars => BalancedOK'
<1>1. SUFFICES ASSUME IInv, BalancedOK, [Next]_vars, NEW u \in Slots, Open(u)'
               PROVE  Balanced(tx'[u], order'[tx'[u].order], invoice'[tx'[u].order])
    BY DEF BalancedOK, Balanced, Entered, Due, Term, Entry, Effect, SaleEffect, CancelEffect, Charging, Left
<1>2. IInv'
    BY <1>1, InvStep
<1>3. TypeOK /\ order \in [Orders -> OrderRows \cup {None}]
    BY <1>1 DEF IInv, TypeOK
<1>4. CASE tx'[u] = tx[u] /\ seen'[u] = seen[u]
    <2>1. Open(u)
        BY <1>1, <1>4 DEF Open
    <2>2. Holds(u) /\ Holds(u)'
        BY <1>1, <1>2, <2>1 DEF IInv, Locks
    <2>3. order'[tx[u].order] = order[tx[u].order]
        BY <1>4, <2>2 DEF Holds
    <2>4. invoice'[tx[u].order] = invoice[tx[u].order]
        <3>1. CASE \E s \in Slots : Commit(s)
            <4>1. PICK s \in Slots : Commit(s)
                BY <3>1
            <4>2. Open(s) /\ tx'[s] = None
                BY <1>3, <4>1 DEF Commit, TypeOK
            <4>3. u # s
                BY <1>1, <4>2 DEF Open
            <4>4. Holds(s) /\ tx[s].locks \cap tx[u].locks = {}
                BY <1>1, <2>1, <4>2, <4>3 DEF IInv, Locks
            <4>5. tx[u].order # tx[s].order /\ tx[u].order \in Orders
                BY <1>3, <2>1, <2>2, <4>4, TxFacts DEF Holds
            <4> QED
                BY <1>1, <4>1, <4>5, CommitFacts
        <3> QED
            BY <1>1, <3>1, WhoWrites
    <2> QED
        BY <1>1, <1>4, <2>1, <2>3, <2>4 DEF BalancedOK
<1>5. CASE \E o \in Orders : StartSale(u, o)
    <2>1. PICK o \in Orders : StartSale(u, o)
        BY <1>5
    <2>2. order' = order /\ invoice' = invoice
        BY <2>1 DEF StartSale, documents
    <2> QED
        BY <1>1, <2>1, <2>2, StartSaleBalanced
<1>6. CASE \E o \in Orders, charged \in BOOLEAN, date \in Closing \cup {None} :
              CancelDraft(u, o, charged, date) \/ CancelInvoiced(u, o, charged, date)
    <2>1. PICK o \in Orders, charged \in BOOLEAN, date \in Closing \cup {None} :
              CancelDraft(u, o, charged, date) \/ CancelInvoiced(u, o, charged, date)
        BY <1>6
    <2>2. order' = order /\ invoice' = invoice
        BY <2>1 DEF CancelDraft, CancelInvoiced, documents
    <2>3. tx'[u].order = o /\ Balanced(tx'[u], order[o], invoice[o])
        BY <1>1, <2>1, CancelDraftBalanced, CancelInvoicedBalanced
    <2> QED
        BY <2>2, <2>3
<1>7. CASE LockAccount(u) \/ (\E type \in DocumentTypes : Allocate(u, type)) \/ \E kind \in Kinds : Post(u, kind)
    <2>1. Open(u)
        BY <1>7 DEF LockAccount, Allocate, Post, Doing
    <2>2. order' = order /\ invoice' = invoice
        BY <1>7 DEF LockAccount, Allocate, Post, Step, documents
    <2>3. PICK row, inv : row = order[tx[u].order] /\ inv = invoice[tx[u].order]
        OBVIOUS
    <2>4. Balanced(tx[u], row, inv)
        BY <1>1, <2>1, <2>3 DEF BalancedOK
    <2>5. CASE LockAccount(u)
        BY <1>1, <2>2, <2>3, <2>4, <2>5, LockBalanced
    <2>6. CASE \E type \in DocumentTypes : Allocate(u, type)
        BY <1>1, <2>2, <2>3, <2>4, <2>6, AllocateBalanced
    <2>7. CASE \E kind \in Kinds : Post(u, kind)
        BY <1>1, <2>2, <2>3, <2>4, <2>7, PostBalanced
    <2> QED
        BY <1>7, <2>5, <2>6, <2>7
<1> QED
    BY <1>1, <1>4, <1>5, <1>6, <1>7, TxMoves

-----------------------------------------------------------------------------
(* The books, summed over all orders.                                      *)

\* What an order leaves its customer owing, its cancellation charge, and the revenue it stands for.
Owed(o, c) == IF Stands(o) /\ order[o].customer = c THEN Reduction(o) ELSE 0
Fee(o, c)  == IF charge[o] > 0 /\ order[o].customer = c THEN Charge ELSE 0
Revenue(o) == IF Stands(o) THEN invoice[o].total ELSE 0

Owes(c) == SumFunctionOnSet([o \in Orders |-> Owed(o, c) + Fee(o, c)], Orders)
OnBooks(a) == SumFunctionOnSet([d \in 1..Days |-> journal[d][a]], 1..Days)
Agree ==
    /\ \A c \in Customers : outstanding[c] = Owes(c)
    /\ OnBooks("AR") = SumFunctionOnSet(outstanding, Customers)
    /\ -OnBooks("ADVANCES") = SumFunctionOnSet(advances, Customers)
    /\ -OnBooks("SALES") = SumFunctionOnSet([o \in Orders |-> Revenue(o)], Orders)

\* They are numbers.
LEMMA OwedTypes ==
    ASSUME TypeOK, NEW o \in Orders
    PROVE  /\ \A c : Owed(o, c) \in Int /\ Fee(o, c) \in Int
           /\ Revenue(o) \in Int
<1>1. invoice[o] # None => invoice[o].total \in Int /\ invoice[o].paid \in Int
    BY TotalTypes DEF TypeOK, InvoiceRows
<1>2. ASSUME NEW c PROVE Owed(o, c) \in Int /\ Fee(o, c) \in Int
    BY <1>1, TotalTypes DEF Owed, Fee, Stands, Reduction
<1>3. Revenue(o) \in Int
    BY <1>1 DEF Revenue, Stands
<1> QED
    BY <1>2, <1>3

\* Unless it commits, a step leaves the books alone.
LEMMA AgreeQuiet ==
    ASSUME IInv, [Next]_vars, \A s \in Slots : ~Commit(s), Agree
    PROVE  Agree'
<1>1. UNCHANGED <<invoice, note, charge, outstanding, advances, journal>>
    BY WhoWrites
<1>2. ASSUME NEW o \in Orders
      PROVE  (\A c \in Customers : Owed(o, c)' = Owed(o, c) /\ Fee(o, c)' = Fee(o, c)) /\ Revenue(o)' = Revenue(o)
    <2>1. Stands(o)' <=> Stands(o)
        BY <1>1 DEF Stands
    <2>2. order'[o] = order[o] \/ (invoice[o] = None /\ charge[o] = 0)
        <3>1. \/ order'[o] = order[o]
              \/ order[o] = None
              \/ order[o] # None /\ order[o].status \in {"DRAFT", "HELD"}
            BY QuietOrders
        <3> QED
            BY <3>1 DEF IInv, OrdersOK, Orderly
    <2>3. ASSUME NEW c \in Customers PROVE Owed(o, c)' = Owed(o, c) /\ Fee(o, c)' = Fee(o, c)
        <3>1. CASE order'[o] = order[o]
            BY <1>1, <2>1, <3>1 DEF Owed, Fee, Reduction
        <3>2. CASE invoice[o] = None /\ charge[o] = 0
            BY <1>1, <2>1, <3>2 DEF Owed, Fee, Stands
        <3> QED
            BY <2>2, <3>1, <3>2
    <2>4. Revenue(o)' = Revenue(o)
        BY <1>1, <2>1 DEF Revenue
    <2> QED
        BY <2>3, <2>4
<1>3. \A c \in Customers : Owes(c)' = Owes(c)
    BY <1>2 DEF Owes
<1>4. [o \in Orders |-> Revenue(o)]' = [o \in Orders |-> Revenue(o)]
    BY <1>2
<1>5. \A a \in Accounts : OnBooks(a)' = OnBooks(a)
    BY <1>1 DEF OnBooks
<1> QED
    BY <1>1, <1>3, <1>4, <1>5 DEF Agree, Accounts

\* What a commit does to what is owed for its order, and to its revenue, is what it enters.
LEMMA CommitOwes ==
    ASSUME IInv, NEW s \in Slots, Commit(s), NEW t, t = tx[s],
           NEW o, o = t.order, NEW row, row = order[o], NEW inv, inv = invoice[o]
    PROVE  /\ \A a \in Accounts : Effect(t, row, inv, a) \in Int
           /\ row.customer = None => Effect(t, row, inv, "AR") = 0 /\ Effect(t, row, inv, "ADVANCES") = 0
           /\ \A c \in Customers : Owed(o, c)' + Fee(o, c)' = Owed(o, c) + Fee(o, c) + Shift(t, row, inv, "AR", c)
           /\ Revenue(o)' = Revenue(o) - Effect(t, row, inv, "SALES")
<1>1. /\ TypeOK /\ Works(s) /\ t \in Transactions /\ o \in Orders /\ row \in OrderRows
      /\ Left(t.todo) = {} /\ inv \in InvoiceRows \cup {None}
    BY ReadyFacts
<1>2. row # None /\ Orderly(o)
    BY <1>1, SalesAssumption DEF IInv, OrdersOK
<1>3. /\ t.plan # None => SaleOK(t, row, inv)
      /\ t.plan = None => CancelOK(t, row, inv)
    BY <1>1 DEF Works
<1>4. /\ order \in [Orders -> OrderRows \cup {None}] /\ invoice \in [Orders -> InvoiceRows \cup {None}]
      /\ note \in [Orders -> Nat] /\ charge \in [Orders -> Nat]
      /\ t.numbers \in [DocumentTypes -> Nat]
      /\ row.total \in Int /\ Charge \in Int
    BY <1>1, TotalTypes DEF Transactions, TypeOK, OrderRows
<1>5. CASE t.plan # None
    <2>1. PICK new \in OrderRows :
             order' = [order EXCEPT ![o] = new] /\ new.customer = row.customer
        BY <1>5, SaleFacts
    <2>2. PICK bill \in InvoiceRows :
             /\ invoice' = [invoice EXCEPT ![o] = bill]
             /\ bill.total = row.total /\ bill.paid = t.plan.tender + t.plan.advance
        BY <1>5, SaleFacts
    <2>3. note' = note /\ charge' = charge
        BY <1>5, SaleFacts
    <2>4. order'[o] = new /\ invoice'[o] = bill /\ bill # None
        BY <1>1, <1>4, <2>1, <2>2, SalesAssumption
    <2>5. PICK tender \in Nat, advance \in Nat : tender = t.plan.tender /\ advance = t.plan.advance
        BY <1>1, <1>5 DEF Transactions, PlanRows
    <2>6. /\ inv = None /\ row.status = "DRAFT" /\ tender + advance <= row.total
          /\ row.customer = None => tender = row.total
        BY <1>3, <1>5, <2>5 DEF SaleOK
    <2>7. note[o] = 0 /\ charge[o] = 0
        BY <1>2, <2>6 DEF Orderly
    <2>8. /\ Effect(t, row, inv, "AR") = row.total - tender - advance
          /\ Effect(t, row, inv, "ADVANCES") = advance
          /\ Effect(t, row, inv, "SALES") = -row.total
        BY <1>5, <2>5 DEF Effect, SaleEffect
    <2>9. ~Stands(o) /\ Stands(o)'
        BY <2>3, <2>4, <2>6, <2>7 DEF Stands
    <2>10. ASSUME NEW c \in Customers
           PROVE  Owed(o, c)' + Fee(o, c)' = Owed(o, c) + Fee(o, c) + Shift(t, row, inv, "AR", c)
        <3>1. Owed(o, c) = 0 /\ Fee(o, c) = 0 /\ Fee(o, c)' = 0
            BY <2>3, <2>7, <2>9 DEF Owed, Fee
        <3>2. Owed(o, c)' = IF row.customer = c THEN row.total - (tender + advance) ELSE 0
            BY <2>1, <2>2, <2>4, <2>5, <2>9 DEF Owed, Reduction
        <3> QED
            BY <1>4, <2>8, <3>1, <3>2 DEF Shift
    <2>11. Revenue(o)' = row.total /\ Revenue(o) = 0
        BY <2>2, <2>4, <2>9 DEF Revenue
    <2>12. \A a \in Accounts : Effect(t, row, inv, a) \in Int
        BY <1>4, <2>8 DEF Accounts
    <2>13. row.customer = None => Effect(t, row, inv, "AR") = 0 /\ Effect(t, row, inv, "ADVANCES") = 0
        BY <1>4, <2>6, <2>8
    <2> QED
        BY <1>4, <2>8, <2>10, <2>11, <2>12, <2>13
<1>6. CASE t.plan = None
    <2>1. PICK new \in OrderRows :
             order' = [order EXCEPT ![o] = new] /\ new.customer = row.customer
        BY <1>6, CancelFacts
    <2>2. /\ note' = [note EXCEPT ![o] = t.numbers["CREDIT_NOTE"]]
          /\ charge' = [charge EXCEPT ![o] = t.numbers["CANCELLATION_CHARGE"]]
        BY <1>6, CancelFacts
    <2>3. PICK k \in Nat, n \in Nat : k = t.numbers["CREDIT_NOTE"] /\ n = t.numbers["CANCELLATION_CHARGE"]
        BY <1>4 DEF DocumentTypes
    <2>4. order'[o] = new /\ note'[o] = k /\ charge'[o] = n
        BY <1>1, <1>4, <2>1, <2>2, <2>3
    <2>5. /\ inv = None => row.status \in {"DRAFT", "HELD"} /\ k = 0
          /\ inv # None => row.status = "CONFIRMED" /\ row.customer # None /\ k > 0
          /\ Charging(t) => row.customer # None
          /\ Charging(t) <=> n > 0
        BY <1>1, <1>3, <1>6, <2>3 DEF CancelOK, Charging
    <2>6. note[o] = 0 /\ charge[o] = 0
        BY <1>1, <1>2, <2>5 DEF Orderly
    <2>7. PICK fee \in Int : fee = IF n > 0 THEN Charge ELSE 0
        BY <1>4
    <2>8. \A c \in Customers : Fee(o, c) = 0 /\ Fee(o, c)' = IF row.customer = c THEN fee ELSE 0
        BY <2>1, <2>4, <2>6, <2>7 DEF Fee
    <2>9. CASE inv = None
        <3>1. invoice' = invoice
            <4>1. /\ inv = None => invoice' = invoice
                  /\ inv # None => \E bill \in InvoiceRows : invoice' = [invoice EXCEPT ![o] = bill]
                BY <1>6, CancelFacts
            <4> QED
                BY <2>9, <4>1
        <3>2. ~Stands(o) /\ ~Stands(o)'
            BY <2>9, <3>1 DEF Stands
        <3>3. Revenue(o) = 0 /\ Revenue(o)' = 0 /\ \A c : Owed(o, c) = 0 /\ Owed(o, c)' = 0
            BY <3>2 DEF Revenue, Owed
        <3>4. /\ Effect(t, row, inv, "AR") = fee - 0
              /\ Effect(t, row, inv, "ADVANCES") = 0 /\ Effect(t, row, inv, "SALES") = 0
            <4>1. CancelEffect(t, inv, "AR") = (IF Charging(t) THEN Charge ELSE 0) - 0
                BY <2>9 DEF CancelEffect
            <4>2. CancelEffect(t, inv, "ADVANCES") = 0 /\ CancelEffect(t, inv, "SALES") = 0
                BY <2>9 DEF CancelEffect
            <4> QED
                BY <1>6, <2>5, <2>7, <4>1, <4>2 DEF Effect
        <3>5. ASSUME NEW c \in Customers
              PROVE  Owed(o, c)' + Fee(o, c)' = Owed(o, c) + Fee(o, c) + Shift(t, row, inv, "AR", c)
            BY <2>8, <3>3, <3>4 DEF Shift
        <3>6. row.customer = None => fee = 0
            BY <2>5, <2>7
        <3> QED
            BY <3>3, <3>4, <3>5, <3>6 DEF Accounts
    <2>10. CASE inv # None
        <3>1. PICK bill \in InvoiceRows : invoice' = [invoice EXCEPT ![o] = bill]
            BY <1>6, <2>10, CancelFacts
        <3>2. PICK total \in Int, paid \in Int : total = inv.total /\ paid = inv.paid
            BY <1>1, <2>10, TotalTypes DEF InvoiceRows
        <3>3. Stands(o) /\ ~Stands(o)'
            BY <2>4, <2>5, <2>6, <2>10 DEF Stands
        <3>4. Revenue(o) = total /\ Revenue(o)' = 0
            BY <3>2, <3>3 DEF Revenue
        <3>5. \A c \in Customers : Owed(o, c) = (IF row.customer = c THEN total - paid ELSE 0) /\ Owed(o, c)' = 0
            BY <3>2, <3>3 DEF Owed, Reduction
        <3>6. /\ Effect(t, row, inv, "AR") = fee - (total - paid)
              /\ Effect(t, row, inv, "ADVANCES") = -paid /\ Effect(t, row, inv, "SALES") = total
            BY <1>6, <2>5, <2>7, <2>10, <3>2 DEF Effect, CancelEffect
        <3>7. ASSUME NEW c \in Customers
              PROVE  Owed(o, c)' + Fee(o, c)' = Owed(o, c) + Fee(o, c) + Shift(t, row, inv, "AR", c)
            BY <2>8, <3>5, <3>6 DEF Shift
        <3> QED
            BY <2>5, <2>10, <3>4, <3>6, <3>7 DEF Accounts
    <2> QED
        BY <2>9, <2>10
<1> QED
    BY <1>5, <1>6

\* A commit enters its effect in the books.
LEMMA CommitEnters ==
    ASSUME IInv, BalancedOK, NEW s \in Slots, Commit(s), NEW t, t = tx[s],
           NEW row, row = order[t.order], NEW inv, inv = invoice[t.order], NEW a \in Accounts
    PROVE  OnBooks(a) \in Int /\ OnBooks(a)' = OnBooks(a) + Effect(t, row, inv, a)
<1>1. /\ TypeOK /\ Open(s) /\ t \in Transactions /\ Left(t.todo) = {}
    BY ReadyFacts
<1>2. a \in Ledger /\ journal \in Sums /\ t.entries \in Sums
    BY <1>1, DaysFinite DEF TypeOK, Transactions
<1>3. journal' = [d \in 1..Days |-> [b \in Ledger |-> journal[d][b] + t.entries[d][b]]]
    BY DEF Commit
<1>4. PICK D, F, G, H : /\ D = 1..Days
                        /\ F = [d \in 1..Days |-> journal[d][a]]
                        /\ G = [d \in 1..Days |-> t.entries[d][a]]
                        /\ H = [d \in 1..Days |-> journal'[d][a]]
    OBVIOUS
<1>5. \A d \in D : F[d] \in Int /\ G[d] \in Int /\ H[d] = F[d] + G[d]
    BY <1>2, <1>3, <1>4 DEF Sums
<1>6. IsFiniteSet(D)
    BY <1>4, DaysFinite
<1>7. SumFunctionOnSet(H, D) = SumFunctionOnSet(F, D) + SumFunctionOnSet(G, D)
    BY <1>5, <1>6, SumPlus
<1>8. SumFunctionOnSet(F, D) \in Int /\ SumFunctionOnSet(G, D) \in Int
    BY <1>5, <1>6, SumType
<1>9. Entered(t, a) = Effect(t, row, inv, a)
    <2>1. Entered(t, a) + Due(t, row, inv, a) = Effect(t, row, inv, a)
        BY <1>1 DEF BalancedOK, Balanced, Accounts
    <2>2. Due(t, row, inv, a) = 0
        BY <1>1 DEF Due, Term
    <2>3. Entered(t, a) \in Int
        BY <1>4, <1>8 DEF Entered
    <2> QED
        BY <2>1, <2>2, <2>3
<1> QED
    BY <1>4, <1>7, <1>8, <1>9 DEF OnBooks, Entered

\* A commit shifts what the customers owe, or their advances, by its effect.
LEMMA ShiftSum ==
    ASSUME NEW f \in [Customers -> Int], NEW g \in [Customers -> Int], NEW e \in Int,
           NEW x \in Customers \cup {None}, x = None => e = 0,
           \A c \in Customers : g[c] = f[c] + IF c = x THEN e ELSE 0
    PROVE  SumFunctionOnSet(f, Customers) \in Int
           /\ SumFunctionOnSet(g, Customers) = SumFunctionOnSet(f, Customers) + e
<1>1. IsFiniteSet(Customers) /\ None \notin Customers
    BY SalesAssumption
<1>2. SumFunctionOnSet(f, Customers) \in Int
    BY <1>1, SumType
<1>3. CASE x = None
    <2>1. \A c \in Customers : g[c] = f[c]
        BY <1>1, <1>3
    <2>2. SumFunctionOnSet(g, Customers) = SumFunctionOnSet(f, Customers)
        BY <1>1, <2>1, SumSame
    <2> QED
        BY <1>2, <1>3, <2>2
<1>4. CASE x # None
    <2>1. x \in Customers /\ g[x] = f[x] + e /\ f[x] \in Int /\ g[x] \in Int
        BY <1>4
    <2>2. \A c \in Customers \ {x} : g[c] = f[c]
        OBVIOUS
    <2>3. SumFunctionOnSet(g, Customers) = SumFunctionOnSet(f, Customers) - f[x] + g[x]
        BY <1>1, <2>1, <2>2, SumChange
    <2> QED
        BY <1>2, <2>1, <2>3
<1> QED
    BY <1>2, <1>3, <1>4

\* One order changes what all of them add up to.
LEMMA OrderSum ==
    ASSUME NEW f, NEW g, NEW o \in Orders, \A p \in Orders : f[p] \in Int, g[o] \in Int,
           \A p \in Orders : p # o => g[p] = f[p]
    PROVE  SumFunctionOnSet(f, Orders) \in Int
           /\ SumFunctionOnSet(g, Orders) = SumFunctionOnSet(f, Orders) - f[o] + g[o]
<1>1. IsFiniteSet(Orders)
    BY SalesAssumption
<1>2. SumFunctionOnSet(f, Orders) \in Int
    BY <1>1, SumType
<1>3. \A p \in Orders \ {o} : g[p] = f[p]
    OBVIOUS
<1>4. SumFunctionOnSet(g, Orders) = SumFunctionOnSet(f, Orders) - f[o] + g[o]
    BY <1>1, <1>3, SumChange
<1> QED
    BY <1>2, <1>4

\* A commit keeps the books.
LEMMA AgreeCommit ==
    ASSUME IInv, IInv', BalancedOK, Agree, NEW s \in Slots, Commit(s)
    PROVE  Agree'
<1>1. PICK t, o : t = tx[s] /\ o = t.order
    OBVIOUS
<1>2. PICK row, inv : row = order[o] /\ inv = invoice[o]
    OBVIOUS
<1>3. TypeOK /\ TypeOK' /\ o \in Orders /\ row \in OrderRows
    BY <1>1, <1>2, ReadyFacts DEF IInv
<1>4. /\ \A a \in Accounts : Effect(t, row, inv, a) \in Int
      /\ row.customer = None => Effect(t, row, inv, "AR") = 0 /\ Effect(t, row, inv, "ADVANCES") = 0
      /\ \A c \in Customers : Owed(o, c)' + Fee(o, c)' = Owed(o, c) + Fee(o, c) + Shift(t, row, inv, "AR", c)
      /\ Revenue(o)' = Revenue(o) - Effect(t, row, inv, "SALES")
    BY <1>1, <1>2, CommitOwes
<1>5. /\ \A p \in Orders : p # o => /\ order'[p] = order[p] /\ invoice'[p] = invoice[p]
                                    /\ note'[p] = note[p] /\ charge'[p] = charge[p]
      /\ \A c \in Customers :
            /\ outstanding'[c] = outstanding[c] + Shift(t, row, inv, "AR", c)
            /\ advances'[c] = advances[c] - Shift(t, row, inv, "ADVANCES", c)
    BY <1>1, <1>2, CommitFacts
<1>6. ASSUME NEW p \in Orders, p # o
      PROVE  Revenue(p)' = Revenue(p) /\ \A c : Owed(p, c)' = Owed(p, c) /\ Fee(p, c)' = Fee(p, c)
    BY <1>5, <1>6 DEF Revenue, Owed, Fee, Stands, Reduction
<1>7. PICK ar \in Int, adv \in Int, sales \in Int :
         /\ ar = Effect(t, row, inv, "AR") /\ adv = Effect(t, row, inv, "ADVANCES")
         /\ sales = Effect(t, row, inv, "SALES")
    BY <1>4 DEF Accounts
<1>8. /\ OnBooks("AR") \in Int /\ OnBooks("AR")' = OnBooks("AR") + ar
      /\ OnBooks("ADVANCES") \in Int /\ OnBooks("ADVANCES")' = OnBooks("ADVANCES") + adv
      /\ OnBooks("SALES") \in Int /\ OnBooks("SALES")' = OnBooks("SALES") + sales
    BY <1>1, <1>2, <1>7, CommitEnters DEF Accounts
<1>9. row.customer \in Customers \cup {None}
    BY <1>3 DEF OrderRows
<1>10. ASSUME NEW c \in Customers PROVE outstanding'[c] = Owes(c)'
    <2>1. PICK k \in Int : k = Shift(t, row, inv, "AR", c)
        BY <1>7 DEF Shift
    <2>2. PICK F, G : /\ F = [p \in Orders |-> Owed(p, c) + Fee(p, c)]
                      /\ G = [p \in Orders |-> Owed(p, c)' + Fee(p, c)']
        OBVIOUS
    <2>3. \A p \in Orders : F[p] \in Int
        <3>1. \A p \in Orders : Owed(p, c) \in Int /\ Fee(p, c) \in Int
            BY <1>3, OwedTypes
        <3> QED
            BY <2>2, <3>1
    <2>4. \A p \in Orders : p # o => G[p] = F[p]
        BY <1>6, <2>2
    <2>5. G[o] = F[o] + k
        BY <1>3, <1>4, <2>1, <2>2
    <2>6. /\ SumFunctionOnSet(F, Orders) \in Int
          /\ SumFunctionOnSet(G, Orders) = SumFunctionOnSet(F, Orders) - F[o] + G[o]
        <3>1. G[o] \in Int
            BY <1>3, <2>1, <2>3, <2>5
        <3> QED
            BY <1>3, <2>3, <2>4, <3>1, OrderSum
    <2>7. Owes(c) = SumFunctionOnSet(F, Orders) /\ Owes(c)' = SumFunctionOnSet(G, Orders)
        BY <2>2 DEF Owes
    <2>8. outstanding'[c] = Owes(c) + k
        BY <1>5, <2>1 DEF Agree
    <2>9. F[o] \in Int
        BY <1>3, <2>3
    <2> QED
        BY <2>5, <2>6, <2>7, <2>8, <2>9
<1>11. OnBooks("AR")' = SumFunctionOnSet(outstanding, Customers)'
    <2>1. /\ outstanding \in [Customers -> Int] /\ outstanding' \in [Customers -> Int]
          /\ \A c \in Customers : outstanding'[c] = outstanding[c] + IF c = row.customer THEN ar ELSE 0
        BY <1>3, <1>5, <1>7 DEF TypeOK, Shift
    <2>2. SumFunctionOnSet(outstanding', Customers) = SumFunctionOnSet(outstanding, Customers) + ar
        BY <1>4, <1>7, <1>9, <2>1, ShiftSum
    <2> QED
        BY <1>8, <2>2 DEF Agree
<1>12. -OnBooks("ADVANCES")' = SumFunctionOnSet(advances, Customers)'
    <2>1. /\ advances \in [Customers -> Int] /\ advances' \in [Customers -> Int]
          /\ \A c \in Customers : advances'[c] = advances[c] + IF c = row.customer THEN -adv ELSE 0
        BY <1>3, <1>5, <1>7 DEF TypeOK, Shift
    <2>2. PICK e \in Int : e = -adv /\ (row.customer = None => e = 0)
        BY <1>4, <1>7
    <2>3. SumFunctionOnSet(advances', Customers) = SumFunctionOnSet(advances, Customers) + e
        BY <1>9, <2>1, <2>2, ShiftSum
    <2>4. SumFunctionOnSet(advances, Customers) = -OnBooks("ADVANCES")
        BY DEF Agree
    <2> QED
        BY <1>8, <2>2, <2>3, <2>4
<1>13. -OnBooks("SALES")' = SumFunctionOnSet([p \in Orders |-> Revenue(p)], Orders)'
    <2>1. PICK F, G : F = [p \in Orders |-> Revenue(p)] /\ G = [p \in Orders |-> Revenue(p)']
        OBVIOUS
    <2>2. \A p \in Orders : F[p] \in Int
        <3>1. \A p \in Orders : Revenue(p) \in Int
            BY <1>3, OwedTypes
        <3> QED
            BY <2>1, <3>1
    <2>3. \A p \in Orders : p # o => G[p] = F[p]
        BY <1>6, <2>1
    <2>4. G[o] = F[o] - sales /\ F[o] \in Int
        BY <1>3, <1>4, <1>7, <2>1, <2>2
    <2>5. /\ SumFunctionOnSet(F, Orders) \in Int
          /\ SumFunctionOnSet(G, Orders) = SumFunctionOnSet(F, Orders) - F[o] + G[o]
        <3>1. G[o] \in Int
            BY <2>4
        <3> QED
            BY <1>3, <2>2, <2>3, <3>1, OrderSum
    <2>6. SumFunctionOnSet(F, Orders) = -OnBooks("SALES")
        BY <2>1 DEF Agree
    <2>7. SumFunctionOnSet(G, Orders) = SumFunctionOnSet([p \in Orders |-> Revenue(p)], Orders)'
        BY <2>1
    <2> QED
        BY <1>8, <2>4, <2>5, <2>6, <2>7
<1> QED
    BY <1>10, <1>11, <1>12, <1>13 DEF Agree

\* At first the books are empty.
LEMMA AgreeInit == Init => Agree /\ BalancedOK
<1>1. SUFFICES ASSUME Init PROVE Agree /\ BalancedOK
    OBVIOUS
<1>2. IsFiniteSet(Orders) /\ IsFiniteSet(Customers)
    BY SalesAssumption
<1>3. BalancedOK
    BY <1>1 DEF Init, BalancedOK, Open
<1>4. \A o \in Orders : Revenue(o) = 0 /\ \A c : Owed(o, c) = 0 /\ Fee(o, c) = 0
    BY <1>1 DEF Init, Revenue, Owed, Fee, Stands
<1>5. ASSUME NEW c \in Customers PROVE Owes(c) = 0
    <2>1. PICK F : F = [p \in Orders |-> Owed(p, c) + Fee(p, c)]
        OBVIOUS
    <2>2. \A p \in Orders : F[p] = 0
        BY <1>4, <2>1
    <2> QED
        BY <1>2, <2>1, <2>2, SumZero DEF Owes
<1>6. ASSUME NEW a \in Accounts PROVE OnBooks(a) = 0
    <2>1. PICK F : F = [d \in 1..Days |-> journal[d][a]]
        OBVIOUS
    <2>2. \A d \in 1..Days : F[d] = 0
        BY <1>1, <2>1, DaysFinite DEF Init, NoEntries
    <2> QED
        BY <2>1, <2>2, DaysFinite, SumZero DEF OnBooks
<1>7. /\ SumFunctionOnSet(outstanding, Customers) = 0
      /\ SumFunctionOnSet(advances, Customers) = 0
    BY <1>1, <1>2, SumZero DEF Init
<1>8. SumFunctionOnSet([o \in Orders |-> Revenue(o)], Orders) = 0
    <2>1. PICK F : F = [o \in Orders |-> Revenue(o)]
        OBVIOUS
    <2>2. \A o \in Orders : F[o] = 0
        BY <1>4, <2>1
    <2> QED
        BY <1>2, <2>1, <2>2, SumZero
<1> QED
    BY <1>1, <1>3, <1>5, <1>6, <1>7, <1>8 DEF Agree, Accounts, Init

\* The sums over all orders are the sums over those that count.
LEMMA AgreeIsBooksAgree == TypeOK /\ Agree => BooksAgree
<1>1. SUFFICES ASSUME TypeOK, Agree PROVE BooksAgree
    OBVIOUS
<1>2. IsFiniteSet(Orders) /\ IsFiniteSet(Customers) /\ Charge \in Int
    BY SalesAssumption
<1>3. ASSUME NEW c \in Customers
      PROVE  outstanding[c] = SumFunction([o \in Invoiced(c) |-> Reduction(o)]) + Charge * Cardinality(Charged(c))
    <2>1. PICK F, G, H, R, S, T : /\ F = [o \in Orders |-> Owed(o, c)]
                                  /\ G = [o \in Orders |-> Fee(o, c)]
                                  /\ H = [o \in Orders |-> Owed(o, c) + Fee(o, c)]
                                  /\ R = [o \in Invoiced(c) |-> Reduction(o)]
                                  /\ S = Invoiced(c) /\ T = Charged(c)
        OBVIOUS
    <2>2. \A o \in Orders : Owed(o, c) \in Int /\ Fee(o, c) \in Int
        BY <1>1, OwedTypes
    <2>3. S \in SUBSET Orders /\ T \in SUBSET Orders /\ DOMAIN R = S
        BY <2>1 DEF Invoiced, Charged
    <2>4. \A o \in S : R[o] \in Int
        BY <2>1, <2>2 DEF Invoiced, Owed
    <2>5. \A o \in Orders : F[o] = IF o \in S THEN R[o] ELSE 0
        BY <2>1 DEF Invoiced, Owed
    <2>6. SumFunctionOnSet(F, Orders) = SumFunctionOnSet(R, S)
        BY <1>2, <2>3, <2>4, <2>5, SumOver
    <2>7. \A o \in Orders : G[o] = IF o \in T THEN Charge ELSE 0
        BY <2>1 DEF Charged, Fee
    <2>8. SumFunctionOnSet(G, Orders) = Charge * Cardinality(T)
        <3>1. PICK K : K = [o \in T |-> Charge]
            OBVIOUS
        <3>2. IsFiniteSet(T) /\ \A o \in T : K[o] = Charge
            BY <1>2, <2>3, <3>1, FS_Subset
        <3>3. SumFunctionOnSet(K, T) = Charge * Cardinality(T)
            BY <1>2, <3>2, SumConstant
        <3>4. \A o \in Orders : G[o] = IF o \in T THEN K[o] ELSE 0
            BY <2>7, <3>2
        <3>5. SumFunctionOnSet(G, Orders) = SumFunctionOnSet(K, T)
            BY <1>2, <2>3, <3>2, <3>4, SumOver
        <3> QED
            BY <3>3, <3>5
    <2>9. SumFunctionOnSet(H, Orders) = SumFunctionOnSet(F, Orders) + SumFunctionOnSet(G, Orders)
        <3>1. \A o \in Orders : F[o] \in Int /\ G[o] \in Int /\ H[o] = F[o] + G[o]
            BY <2>1, <2>2
        <3> QED
            BY <1>2, <3>1, SumPlus
    <2>10. outstanding[c] = SumFunctionOnSet(H, Orders)
        BY <1>1, <2>1 DEF Agree, Owes
    <2>11. SumFunction(R) = SumFunctionOnSet(R, S)
        BY <2>3 DEF SumFunction
    <2> QED
        BY <2>1, <2>6, <2>8, <2>9, <2>10, <2>11
<1>4. \A a \in Accounts : Balance(a) = OnBooks(a)
    BY DEF Balance, OnBooks, SumFunction
<1>5. SumFunction(outstanding) = SumFunctionOnSet(outstanding, Customers)
      /\ SumFunction(advances) = SumFunctionOnSet(advances, Customers)
    BY <1>1 DEF TypeOK, SumFunction
<1>6. SumFunctionOnSet([o \in Orders |-> Revenue(o)], Orders) = SumFunction([o \in Standing |-> invoice[o].total])
    <2>1. PICK F, R, S : /\ F = [o \in Orders |-> Revenue(o)]
                         /\ R = [o \in Standing |-> invoice[o].total] /\ S = Standing
        OBVIOUS
    <2>2. \A o \in Orders : Revenue(o) \in Int
        BY <1>1, OwedTypes
    <2>3. S \in SUBSET Orders /\ DOMAIN R = S
        BY <2>1 DEF Standing
    <2>4. \A o \in S : R[o] \in Int
        BY <2>1, <2>2 DEF Standing, Revenue
    <2>5. \A o \in Orders : F[o] = IF o \in S THEN R[o] ELSE 0
        BY <2>1 DEF Standing, Revenue
    <2>6. SumFunctionOnSet(F, Orders) = SumFunctionOnSet(R, S)
        BY <1>2, <2>3, <2>4, <2>5, SumOver
    <2> QED
        BY <2>1, <2>3, <2>6 DEF SumFunction
<1> QED
    BY <1>1, <1>3, <1>4, <1>5, <1>6 DEF BooksAgree, Agree, Accounts

\* The general ledger says what the documents say, and the accounts say what they owe, whatever
\* sales and cancellations are going on (postJournal, applyOutstandingDelta, applyAdvanceDelta): what
\* a transaction has entered and what it has left to enter come to what its commit does.
THEOREM BooksHold == Spec => []BooksAgree
<1>1. IInv /\ BalancedOK /\ Agree /\ [Next]_vars => Agree'
    <2>1. SUFFICES ASSUME IInv, BalancedOK, Agree, [Next]_vars PROVE Agree'
        OBVIOUS
    <2>2. IInv'
        BY <2>1, InvStep
    <2>3. CASE \E s \in Slots : Commit(s)
        BY <2>1, <2>2, <2>3, AgreeCommit
    <2>4. CASE \A s \in Slots : ~Commit(s)
        BY <2>1, <2>4, AgreeQuiet
    <2> QED
        BY <2>3, <2>4
<1>2. IInv /\ Agree => BooksAgree
    BY AgreeIsBooksAgree DEF IInv
<1> QED
    BY InvHolds, BalancedStep, AgreeInit, <1>1, <1>2, PTL DEF Spec
=============================================================================
