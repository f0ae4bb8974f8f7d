------------------------------ MODULE History ------------------------------
(***************************************************************************)
(* The financial history of a company: every operation that posts a        *)
(* journal (sales, receipts, opening balances, advances, cancellations,    *)
(* refunds, settlements), as a change of the tables the reports read.      *)
(*                                                                         *)
(* An operation is a function from databases to databases, put together    *)
(* from the writes of the code's own steps, in their order; an action      *)
(* applies it.  Each of them is one transaction under the locks of the     *)
(* order, the invoice and the customer's account, so an action is one      *)
(* step; how they interleave below is the subject of Receivables, Sales    *)
(* and Settlements.                                                        *)
(***************************************************************************)
EXTENDS Totals, SequencesExt

CONSTANTS Branches, Customers,  \* customers are numbers: a page of them is in order
          Buyers,               \* those who do more than have an opening balance: a bound
          None,
          Drafts,               \* what a draft order may ask for
          SoldDrafts,           \* the drafts that are carried on to a sale: a bound
          Policy,               \* the company's tax policy for a cancellation charge
          FeeRate, Fees,        \* its tax rate, and the charges asked for
          Amounts,              \* amounts of money outside a sale
          ProviderFees,         \* what a provider keeps of a settlement: a bound
          Methods,              \* the tenders in use
          SecondMethod,         \* what the second tender of a sale is paid with: a bound
          Days,                 \* the clock stops there: a bound
          MaxRows               \* table -> how many rows it may get: a bound

Tables == {"invoices", "notes", "charges", "receivables", "payments", "allocations",
           "coverings", "advances", "draws", "refunds", "attempts", "settlements",
           "journals"}

ASSUME HistoryAssumption ==
    /\ Buyers \subseteq Customers /\ Customers \subseteq Nat /\ None \notin Nat
    /\ SoldDrafts \subseteq Drafts /\ Drafts \subseteq Requests /\ Policy \in TaxPolicies
    /\ FeeRate \in (0..Whole) \cup {NoRate}
    /\ Amounts \subseteq Nat \ {0} /\ Fees \subseteq Nat \ {0} /\ Days \in Nat \ {0}
    /\ ProviderFees \subseteq Nat
    /\ Methods \cup {SecondMethod} \subseteq
          {"CASH", "BANK_TRANSFER", "CARD_TERMINAL", "ONLINE_GATEWAY", "OTHER_MANUAL"}
    /\ MaxRows \in [Tables -> Nat]

VARIABLES db,       \* the tables, each the sequence of its rows; a row's id is its index
          order,    \* the draft on the counter, or None
          day       \* the posting date of what happens now

vars == <<db, order, day>>

Empty == [t \in Tables |-> <<>>]

-----------------------------------------------------------------------------
(* Rows and journals.                                                      *)

Add(d, table, row) == [d EXCEPT ![table] = Append(@, row)]
Ids(d, table)      == DOMAIN d[table]

(* A journal is sealed when it is written; lines of nothing are left out. *)
Dr(account, amount) == IF amount = 0 THEN {} ELSE {[account |-> account, debit |-> amount, credit |-> 0]}
Cr(account, amount) == IF amount = 0 THEN {} ELSE {[account |-> account, debit |-> 0, credit |-> amount]}
Post(d, kind, source, branch, on, lines) ==
    Add(d, "journals", [kind |-> kind, source |-> source, day |-> on,
                        lines |-> {[journal |-> Len(d.journals) + 1, branch |-> branch,
                                    account |-> l.account, debit |-> l.debit,
                                    credit |-> l.credit] : l \in lines}])

ReceiptAccount(method) == CASE method = "CASH"          -> "CASH_ON_HAND"
                            [] method = "BANK_TRANSFER" -> "BANK"
                            [] OTHER                    -> "PAYMENT_CLEARING"

-----------------------------------------------------------------------------
(* Balances, always taken from the rows.                                   *)

Sum(d, table, ids) == Total([k \in ids |-> d[table][k].amount])

InvoiceOf(d, r) == IF d.receivables[r].kind = "INVOICE" THEN d.receivables[r].source ELSE None
ReceivableOf(d, i) == {r \in Ids(d, "receivables") : InvoiceOf(d, r) = i}

AllocationsOf(d, i) == {k \in Ids(d, "allocations") : d.allocations[k].invoice = i}
CoveringsOf(d, r)   == {k \in Ids(d, "coverings") : d.coverings[k].receivable = r}
DrawsOn(d, r)       == {k \in Ids(d, "draws") : d.draws[k].receivable = r}
NotesOf(d, i)       == {k \in Ids(d, "notes") : d.notes[k].invoice = i}

Covered(d, i) == Sum(d, "allocations", AllocationsOf(d, i))
                 + Sum(d, "draws", UNION {DrawsOn(d, r) : r \in ReceivableOf(d, i)})
Outstanding(d, r) ==
    LET i == InvoiceOf(d, r)
    IN  d.receivables[r].amount - Sum(d, "draws", DrawsOn(d, r))
        - (IF i = None THEN Sum(d, "coverings", CoveringsOf(d, r))
           ELSE Sum(d, "allocations", AllocationsOf(d, i))
                + Total([k \in NotesOf(d, i) |-> d.notes[k].reduction]))

AttributedTo(d, p) ==
    LET row == d.payments[p]
    IN  IF row.purpose = "CUSTOMER_RECEIPT" THEN row.target
        ELSE d.invoices[row.target].order.customer

Conversions(d, p) == {a \in Ids(d, "advances") : /\ d.advances[a].source = "PAYMENT"
                                                 /\ d.advances[a].payment = p}
Unapplied(d, p) ==
    d.payments[p].amount
    - Sum(d, "allocations", {k \in Ids(d, "allocations") : d.allocations[k].payment = p})
    - Sum(d, "coverings", {k \in Ids(d, "coverings") : d.coverings[k].payment = p})
    - Sum(d, "advances", Conversions(d, p))

DrawnFrom(d, a)    == {k \in Ids(d, "draws") : d.draws[k].advance = a}
RefundedFrom(d, a) == {k \in Ids(d, "refunds") : d.refunds[k].advance = a}
HeldOf(d, a)       == {k \in Ids(d, "attempts") : /\ d.attempts[k].advance = a
                                                  /\ d.attempts[k].state = "PENDING"}
Available(d, a) == d.advances[a].amount - Sum(d, "draws", DrawnFrom(d, a))
                   - Sum(d, "refunds", RefundedFrom(d, a)) - Sum(d, "attempts", HeldOf(d, a))

(* Everything that covers invoice i, with the payment it comes from. *)
CoverageSources(d, i) ==
    {[payment |-> d.allocations[k].payment, amount |-> d.allocations[k].amount, via |-> <<"A", k>>] :
        k \in AllocationsOf(d, i)}
    \cup
    {[payment |-> d.advances[d.draws[k].advance].payment, amount |-> d.draws[k].amount,
      via |-> <<"D", k>>] : k \in UNION {DrawsOn(d, r) : r \in ReceivableOf(d, i)}}

(* What finalized batches have settled of a payment.  Money in hand or in  *)
(* the bank is final, a provider's once all of it is settled, a manual     *)
(* tender never, and an opening advance has no payment to wait for.        *)
Settling(d, p)  == {s \in Ids(d, "settlements") : p \in DOMAIN d.settlements[s].lines}
Unsettled(d, p) == d.payments[p].amount
                   - Total([s \in Settling(d, p) |-> d.settlements[s].lines[p]])
SettlementFinal(d, p) ==
    \/ p = None
    \/ d.payments[p].method \in {"CASH", "BANK_TRANSFER"}
    \/ d.payments[p].method \in {"CARD_TERMINAL", "ONLINE_GATEWAY"} /\ Unsettled(d, p) = 0

-----------------------------------------------------------------------------
(* The writes the operations share.                                        *)

Revenue(total, tax) == Cr("REVENUE.SALES", total - tax) \cup Cr("TAX_PAYABLE", tax)

(* An invoice freezes its order and the totals. *)
Invoice(o) == [order |-> o, totals |-> ComputeCanonicalTotals(o),
               fingerprint |-> Fingerprint(o, 2), status |-> "UNPAID"]
Issue(d, invoice) == Add(d, "invoices", invoice)

OpenInvoiceAr(d, i, on) ==
    LET invoice == d.invoices[i]
        recorded == Add(d, "receivables",
                        [kind |-> "INVOICE", source |-> i, branch |-> invoice.order.branch,
                         customer |-> invoice.order.customer, amount |-> invoice.totals.total])
    IN  Post(recorded, "invoice_ar", i, invoice.order.branch, on,
             Dr("AR", invoice.totals.total) \cup Revenue(invoice.totals.total, invoice.totals.tax))

(* Of these invoices, the paid ones whose coverage is final are settled. *)
Promote(d, invoices) ==
    LET settled(i) == /\ i \in invoices /\ d.invoices[i].status = "PAID"
                      /\ \A s \in CoverageSources(d, i) : SettlementFinal(d, s.payment)
    IN  [d EXCEPT !.invoices = [i \in DOMAIN d.invoices |->
                                   IF settled(i) THEN [d.invoices[i] EXCEPT !.status = "SETTLED"]
                                   ELSE d.invoices[i]]]

Recompute(d, i) ==
    LET total   == d.invoices[i].totals.total
        covered == [d EXCEPT !.invoices[i].status = CASE Covered(d, i) = 0     -> "UNPAID"
                                                      [] Covered(d, i) < total -> "PARTIAL"
                                                      [] OTHER                 -> "PAID"]
    IN  Promote(covered, {i})

Pay(d, purpose, target, branch, method, amount) ==
    Add(d, "payments", [purpose |-> purpose, target |-> target, branch |-> branch,
                        method |-> method, amount |-> amount])
LastPayment(d) == Len(d.payments)

(* The effects of a customer's payment on the books. *)
PostReceipt(d, on) ==
    LET row == d.payments[LastPayment(d)]
    IN  Post(d, "customer_receipt_payment", LastPayment(d), row.branch, on,
             Dr(ReceiptAccount(row.method), row.amount) \cup Cr("UNAPPLIED_RECEIPTS", row.amount))

CoverInvoice(d, p, i, amount) ==
    Recompute(Add(d, "allocations", [payment |-> p, invoice |-> i, amount |-> amount,
                                     branch |-> d.invoices[i].order.branch]), i)

(* Payment p pays amount of receivable r. *)
CoverByPayment(d, p, r, amount, on) ==
    LET i      == InvoiceOf(d, r)
        branch == d.receivables[r].branch
        books  == Dr("UNAPPLIED_RECEIPTS", amount) \cup Cr("AR", amount)
        row    == [payment |-> p, receivable |-> r, amount |-> amount, branch |-> branch]
        kind   == IF d.receivables[r].kind = "OPENING"
                  THEN "opening_receivable_payment_application"
                  ELSE "cancellation_charge_payment_application"
    IN  IF i # None
        THEN LET paid == CoverInvoice(d, p, i, amount)
             IN  Post(paid, "payment_allocation", Len(paid.allocations), branch, on, books)
        ELSE LET paid == Add(d, "coverings", row)
             IN  Post(paid, kind, Len(paid.coverings), branch, on, books)

-----------------------------------------------------------------------------
(* The operations.                                                         *)

(* An anonymous sale is paid in full at once; tenders is the sequence of   *)
(* [method, amount].  One journal books the whole of it.                   *)
SellAnonymously(d, invoice, tenders, on) ==
    LET i      == Len(d.invoices) + 1
        branch == invoice.order.branch
        Tender(x, t) ==
            LET paid == Pay(x, "INVOICE_COLLECTION", i, branch, t.method, t.amount)
            IN  CoverInvoice(paid, LastPayment(paid), i, t.amount)
        into(account) == Total([k \in {n \in DOMAIN tenders :
                                          ReceiptAccount(tenders[n].method) = account} |->
                                   tenders[k].amount])
    IN  Post(FoldLeft(Tender, Issue(d, invoice), tenders), "walk_in_sale", i, branch, on,
             UNION {Dr(a, into(a)) : a \in {"CASH_ON_HAND", "BANK", "PAYMENT_CLEARING"}}
             \cup Revenue(invoice.totals.total, invoice.totals.tax))

(* Defect: the payment is applied without the posting of its receipt. *)
CollectUnposted(d, i, method, amount, on) ==
    LET paid == Pay(d, "INVOICE_COLLECTION", i, d.invoices[i].order.branch, method, amount)
    IN  CoverByPayment(paid, LastPayment(paid), CHOOSE x \in ReceivableOf(d, i) : TRUE, amount, on)

(* One payment of one invoice: a tender of a sale, or a provider's capture. *)
Collect(d, i, method, amount, on) ==
    LET paid == Pay(d, "INVOICE_COLLECTION", i, d.invoices[i].order.branch, method, amount)
        r    == CHOOSE x \in ReceivableOf(d, i) : TRUE
    IN  CoverByPayment(PostReceipt(paid, on), LastPayment(paid), r, amount, on)

SellToCustomer(d, invoice, tenders, on) ==
    LET i == Len(d.invoices) + 1
    IN  FoldLeft(LAMBDA x, t : Collect(x, i, t.method, t.amount, on),
                 OpenInvoiceAr(Issue(d, invoice), i, on), tenders)

(* A finite set of numbers, the smallest first. *)
Ascending(S) == [k \in 1..Cardinality(S) |->
                    CHOOSE x \in S : Cardinality({y \in S : y < x}) = k - 1]

(* What the open receivables of the customer in this branch get, oldest    *)
(* first.                                                                  *)
Open(d, c, b) == {r \in Ids(d, "receivables") : /\ d.receivables[r].customer = c
                                                /\ d.receivables[r].branch = b
                                                /\ Outstanding(d, r) > 0}
Fifo(d, open, amount) ==
    [r \in open |->
        LET left == amount - Total([q \in {x \in open : x < r} |-> Outstanding(d, q)])
        IN  IF left <= 0 THEN 0
            ELSE IF left < Outstanding(d, r) THEN left ELSE Outstanding(d, r)]

ReceiveMoney(d, c, b, method, amount, on) ==
    LET paid  == PostReceipt(Pay(d, "CUSTOMER_RECEIPT", c, b, method, amount), on)
        share == Fifo(d, Open(d, c, b), amount)
    IN  FoldLeft(LAMBDA x, r : IF share[r] = 0 THEN x
                               ELSE CoverByPayment(x, LastPayment(paid), r, share[r], on),
                 paid, Ascending(DOMAIN share))

OpenReceivable(d, c, b, amount, on) ==
    LET id == Len(d.receivables) + 1
    IN  Post(Add(d, "receivables", [kind |-> "OPENING", source |-> id, branch |-> b,
                                    customer |-> c, amount |-> amount]),
             "opening_receivable", id, b, on,
             Dr("AR", amount) \cup Cr("OPENING_BALANCE_EQUITY", amount))

AdvanceRow(source, from, payment, c, b, amount) ==
    [source |-> source, from |-> from, payment |-> payment, customer |-> c, branch |-> b,
     amount |-> amount]

OpenAdvance(d, c, b, amount, on) ==
    Post(Add(d, "advances", AdvanceRow("OPENING", None, None, c, b, amount)),
         "opening_advance", Len(d.advances) + 1, b, on,
         Dr("OPENING_BALANCE_EQUITY", amount) \cup Cr("CUSTOMER_ADVANCES", amount))

Convert(d, p, amount, on) ==
    LET b == d.payments[p].branch
    IN  Post(Add(d, "advances", AdvanceRow("PAYMENT", p, p, AttributedTo(d, p), b, amount)),
             "customer_advance", Len(d.advances) + 1, b, on,
             Dr("UNAPPLIED_RECEIPTS", amount) \cup Cr("CUSTOMER_ADVANCES", amount))

ApplyAdvance(d, a, r, amount, on) ==
    LET drawn == Add(d, "draws", [advance |-> a, receivable |-> r, amount |-> amount,
                                  branch |-> d.receivables[r].branch])
        booked == Post(drawn, "customer_advance_application", Len(drawn.draws),
                       d.receivables[r].branch, on,
                       Dr("CUSTOMER_ADVANCES", amount) \cup Cr("AR", amount))
    IN  IF InvoiceOf(d, r) = None THEN booked ELSE Recompute(booked, InvoiceOf(d, r))

CancelledStatus(covered, total) == CASE covered = 0     -> "CANCELLED"
                                     [] covered = total -> "REFUNDED"
                                     [] OTHER           -> "PARTIALLY_REFUNDED"

(* The credit note takes what is unpaid off the receivable and gives what  *)
(* was paid back as advances, one per source.                              *)
CreditNote(d, i) ==
    LET totals  == CreditNoteTotals(d.invoices[i].order, d.invoices[i].totals.taxes)
        covered == Covered(d, i)
    IN  [invoice |-> i, branch |-> d.invoices[i].order.branch, tax |-> totals.tax,
         total |-> totals.total, reduction |-> totals.total - covered, excess |-> covered]

IssueCreditNote(d, note, on) ==
    LET customer == d.invoices[note.invoice].order.customer
        n        == Len(d.notes) + 1
        Release(x, s) == Add(x, "advances", AdvanceRow("CREDIT_NOTE", n, s.payment, customer,
                                                       note.branch, s.amount))
    IN  Post(FoldLeft(Release, Add(d, "notes", note), SetToSeq(CoverageSources(d, note.invoice))),
             "credit_note", n, note.branch, on,
             Dr("REVENUE.SALES", note.total - note.tax) \cup Dr("TAX_PAYABLE", note.tax)
             \cup Cr("AR", note.reduction) \cup Cr("CUSTOMER_ADVANCES", note.excess))

(* A fee is what ChargeTotals makes of the amount asked for. *)
IssueCharge(d, c, b, fee, on) ==
    LET x == Len(d.charges) + 1
        recorded == Add(Add(d, "charges", [branch |-> b, net |-> fee.net, tax |-> fee.tax,
                                           total |-> fee.total]),
                        "receivables", [kind |-> "CANCELLATION_CHARGE", source |-> x,
                                        branch |-> b, customer |-> c, amount |-> fee.total])
    IN  Post(recorded, "cancellation_charge", x, b, on,
             Dr("AR", fee.total) \cup Cr("REVENUE.CANCELLATION_CHARGE", fee.net)
             \cup Cr("TAX_PAYABLE", fee.tax))

(* The note and the charge, when there is one, share their accounting date. *)
Cancel(d, note, fee, on) ==
    LET credited == IssueCreditNote(d, note, on)
        customer == d.invoices[note.invoice].order.customer
        charged  == IF fee = None THEN credited
                    ELSE IssueCharge(credited, customer, note.branch, fee, on)
    IN  [charged EXCEPT !.invoices[note.invoice].status =
            CancelledStatus(note.excess, note.total)]

(* attempt tells a provider's refund from a local one. *)
PayOut(d, a, method, attempt, amount, on) ==
    LET b   == d.advances[a].branch
        out == IF attempt = None THEN ReceiptAccount(method) ELSE "PAYMENT_CLEARING"
    IN  Post(Add(d, "refunds", [advance |-> a, branch |-> b, method |-> method,
                                attempt |-> attempt, amount |-> amount]),
             "refund", Len(d.refunds) + 1, b, on,
             Dr("CUSTOMER_ADVANCES", amount) \cup Cr(out, amount))

Reserve(d, a, amount) ==
    Add(d, "attempts", [advance |-> a, branch |-> d.advances[a].branch, amount |-> amount,
                        state |-> "PENDING"])

Answer(d, k, result, on) ==
    LET told == [d EXCEPT !.attempts[k].state = result]
        row  == d.attempts[k]
        p    == d.advances[row.advance].payment
    IN  IF result = "FAILED" THEN told
        ELSE PayOut(told, row.advance, d.payments[p].method, k, row.amount, on)

(* Defect: the bank gets what the provider kept as well. *)
SettlementLinesInFull(gross, fee) == Dr("BANK", gross) \cup Cr("PAYMENT_CLEARING", gross)

SettlementLines(gross, fee) ==
    Dr("BANK", gross - fee) \cup Dr("PAYMENT_PROCESSING_FEE", fee) \cup Cr("PAYMENT_CLEARING", gross)

(* A batch says what its provider paid out of which payments, and what it  *)
(* kept.  The invoices that the payments cover may be settled by it.       *)
FinalizeSettlement(d, batch) ==
    LET affected == {i \in Ids(d, "invoices") :
                        \E s \in CoverageSources(d, i) : s.payment \in DOMAIN batch.lines}
    IN  Promote(Post(Add(d, "settlements", batch), "SETTLEMENT_BATCH", Len(d.settlements) + 1,
                     batch.branch, batch.day, SettlementLines(Total(batch.lines), batch.fee)),
                affected)

-----------------------------------------------------------------------------
(* The steps.                                                              *)

Init == db = Empty /\ order = None /\ day = 1

Room(table) == Len(db[table]) < MaxRows[table]
Becomes(d) == \E new \in {d} : /\ \A t \in DOMAIN MaxRows : Len(new[t]) <= MaxRows[t]
                               /\ db' = new

(* A draft order is worked out, and saved or given up; all of Drafts are   *)
(* tried, before anything else happens.                                    *)
SaveDraft ==
    /\ order = None /\ db = Empty
    /\ \E asked \in Drafts, b \in Branches :
          /\ DraftAllowed(asked)
          /\ order' = Saved(b, None, asked)
    /\ UNCHANGED <<db, day>>

DiscardDraft == order # None /\ order' = None /\ UNCHANGED <<db, day>>

(* Everything below leaves the counter alone. *)
Quiet == order = None /\ UNCHANGED <<order, day>>

(* One tender, or two of different methods. *)
Tenders(amount) ==
    LET local == Methods \ {"ONLINE_GATEWAY"}
    IN  {<<[method |-> m, amount |-> amount]>> : m \in local}
        \cup {<<[method |-> m, amount |-> amount - 1], [method |-> SecondMethod, amount |-> 1]>> :
                 m \in IF amount > 1 THEN local \ {SecondMethod} ELSE {}}

(* A sale under one of SoldDrafts, to nobody or to a customer. *)
Saleable == {Invoice(Saved(b, c, asked)) : b \in Branches, c \in Buyers \cup {None},
                                           asked \in {x \in SoldDrafts : DraftAllowed(x)}}
CompleteSale ==
    /\ Room("invoices")
    /\ \E invoice \in Saleable :
          /\ TotalsAccepted(invoice.order, invoice.totals)
          /\ invoice.totals.total > 0
          /\ IF invoice.order.customer = None
             THEN \E t \in Tenders(invoice.totals.total) :
                     Becomes(SellAnonymously(db, invoice, t, day))
             ELSE \E t \in {<<>>} \cup UNION {Tenders(x) : x \in {1, invoice.totals.total}} :
                     Becomes(SellToCustomer(db, invoice, t, day))

Standing(i) == db.invoices[i].status \in {"UNPAID", "PARTIAL", "PAID"}

(* It captures some of what is open, or all. *)
CaptureByProvider ==
    Room("payments") /\
    \E i \in Ids(db, "invoices") : \E r \in ReceivableOf(db, i) :
    \E amount \in Amounts \cup {Outstanding(db, r)} :
        /\ db.invoices[i].order.customer # None
        /\ Standing(i)
        /\ amount \in 1..Outstanding(db, r)
        /\ Becomes(Collect(db, i, "ONLINE_GATEWAY", amount, day))

Receive ==
    Room("payments") /\
    \E c \in Buyers, b \in Branches, m \in Methods \ {"ONLINE_GATEWAY"}, amount \in Amounts :
        Becomes(ReceiveMoney(db, c, b, m, amount, day))

(* One opening balance per customer and branch, of either kind. *)
HasOpening(c, b) ==
    \/ \E r \in Ids(db, "receivables") : /\ db.receivables[r].kind = "OPENING"
                                         /\ db.receivables[r].customer = c
                                         /\ db.receivables[r].branch = b
    \/ \E a \in Ids(db, "advances") : /\ db.advances[a].source = "OPENING"
                                      /\ db.advances[a].customer = c
                                      /\ db.advances[a].branch = b
OpenBalance ==
    db = Empty /\
    \E c \in Customers, b \in Branches, amount \in Amounts :
        /\ ~HasOpening(c, b)
        /\ \/ Becomes(OpenReceivable(db, c, b, amount, day))
           \/ Becomes(OpenAdvance(db, c, b, amount, day))

ConvertToAdvance ==
    Room("advances") /\
    \E p \in Ids(db, "payments"), amount \in Amounts :
        /\ AttributedTo(db, p) # None
        /\ amount <= Unapplied(db, p)
        /\ Becomes(Convert(db, p, amount, day))

UseAdvance ==
    Room("draws") /\
    \E a \in Ids(db, "advances"), r \in Ids(db, "receivables"), amount \in Amounts :
        /\ db.advances[a].customer = db.receivables[r].customer
        /\ db.advances[a].branch = db.receivables[r].branch
        /\ amount <= Available(db, a) /\ amount <= Outstanding(db, r)
        /\ Becomes(ApplyAdvance(db, a, r, amount, day))

(* The caller may date the cancellation back. *)
CancelInvoice ==
    \E note \in {CreditNote(db, i) : i \in {x \in Ids(db, "invoices") : Standing(x)}},
       fee \in {ChargeTotals(asked, FeeRate, Policy) : asked \in Fees} \cup {None}, on \in 1..day :
        /\ db.invoices[note.invoice].order.customer # None
        /\ Becomes(Cancel(db, note, fee, on))

(* Only a credit note's advance that comes from a payment is paid out. *)
Refundable(a) == db.advances[a].source = "CREDIT_NOTE" /\ db.advances[a].payment # None

RefundLocally ==
    \E a \in Ids(db, "advances"), m \in Methods \cap {"CASH", "BANK_TRANSFER"}, amount \in Amounts :
        /\ Refundable(a) /\ amount <= Available(db, a)
        /\ Becomes(PayOut(db, a, m, None, amount, day))

(* Local tenders, a card on the branch's own terminal among them, have no  *)
(* provider behind them.                                                   *)
OfProvider(p) == db.payments[p].method = "ONLINE_GATEWAY"

(* A provider's refund waits until its payment is settled, and holds its   *)
(* amount first.                                                           *)
ReserveRefund ==
    \E a \in Ids(db, "advances"), amount \in Amounts :
        /\ Refundable(a) /\ amount <= Available(db, a)
        /\ OfProvider(db.advances[a].payment) /\ SettlementFinal(db, db.advances[a].payment)
        /\ Becomes(Reserve(db, a, amount))

RefundResult ==
    \E k \in Ids(db, "attempts"), result \in {"SUCCEEDED", "FAILED"} :
        /\ db.attempts[k].state = "PENDING"
        /\ Becomes(Answer(db, k, result, day))

(* A batch takes one unit, or all that is left, of some payments of its    *)
(* branch, and has the day its provider gives it.                          *)
SettleBatch ==
    Room("settlements") /\
    \E b \in Branches, on \in 1..Days :
    \E matched \in SUBSET {p \in Ids(db, "payments") : /\ OfProvider(p) /\ db.payments[p].branch = b
                                                      /\ Unsettled(db, p) > 0} \ {{}} :
    \E whole \in SUBSET matched :
        LET lines == [p \in matched |-> IF p \in whole THEN Unsettled(db, p) ELSE 1]
        IN  \E fee \in {x \in ProviderFees : x <= Total(lines)} :
                Becomes(FinalizeSettlement(db, [branch |-> b, day |-> on, lines |-> lines, fee |-> fee]))

NextDay == /\ db # Empty /\ day < Days /\ order = None
           /\ day' = day + 1 /\ UNCHANGED <<db, order>>

Next == \/ SaveDraft
        \/ DiscardDraft
        \/ NextDay
        \/ Quiet /\ CompleteSale
        \/ Quiet /\ CaptureByProvider
        \/ Quiet /\ Receive
        \/ Quiet /\ OpenBalance
        \/ Quiet /\ ConvertToAdvance
        \/ Quiet /\ UseAdvance
        \/ Quiet /\ CancelInvoice
        \/ Quiet /\ RefundLocally
        \/ Quiet /\ ReserveRefund
        \/ Quiet /\ RefundResult
        \/ Quiet /\ SettleBatch

Spec == Init /\ [][Next]_vars
=============================================================================
