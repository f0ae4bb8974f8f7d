------------------------------ MODULE Reports ------------------------------
(***************************************************************************)
(* The financial reports: trial balance, sales, tender totals,             *)
(* receivables and customer liabilities (modules/reporting).  Each is one  *)
(* statement over the tables of History and a set of checks; when a check  *)
(* fails, the report is refused.  A report is of the company; all but the  *)
(* first also of one branch, and the last two also of one customer.        *)
(*                                                                         *)
(* The gates that refuse a report of more than 100 000 rows, the           *)
(* currencies and the wire format are left out.                            *)
(***************************************************************************)
EXTENDS History

CONSTANTS PageSize      \* customers on one page of a report

ASSUME ReportsAssumption == PageSize \in Nat \ {0}

Accounts == {"CASH_ON_HAND", "BANK", "PAYMENT_CLEARING", "AR", "UNAPPLIED_RECEIPTS",
             "CUSTOMER_ADVANCES", "TAX_PAYABLE", "REVENUE.SALES",
             "REVENUE.CANCELLATION_CHARGE", "OPENING_BALANCE_EQUITY",
             "PAYMENT_PROCESSING_FEE"}
TenderAccounts == {"CASH_ON_HAND", "BANK", "PAYMENT_CLEARING"}

Company  == [branch |-> None, customer |-> None]
OfBranch(b)   == [Company EXCEPT !.branch = b]
OfCustomer(c) == [Company EXCEPT !.customer = c]
Scopes == {Company} \cup {OfBranch(b) : b \in Branches} \cup {OfCustomer(c) : c \in Customers}

InBranch(scope, b)   == scope.branch \in {None, b}
InCustomer(scope, c) == c # None /\ scope.customer \in {None, c}
In(scope, row)       == InBranch(scope, row.branch) /\ InCustomer(scope, row.customer)

(* Journal lines with their journal, and what they come to. *)
JournalsOf(d, kinds, days) == {j \in Ids(d, "journals") : /\ d.journals[j].kind \in kinds
                                                          /\ d.journals[j].day \in days}
LinesOf(d, journals) == UNION {d.journals[j].lines : j \in journals}
On(lines, account)   == {l \in lines : l.account = account}
Debits(lines)        == Total([l \in lines |-> l.debit])
Credits(lines)       == Total([l \in lines |-> l.credit])
Net(lines)           == Debits(lines) - Credits(lines)
Posted(d, kind, source) == {j \in Ids(d, "journals") : /\ d.journals[j].kind = kind
                                                       /\ d.journals[j].source = source}

-----------------------------------------------------------------------------
(* The trial balance.                                                      *)

OnSide(net) == [debit |-> IF net > 0 THEN net ELSE 0, credit |-> IF net < 0 THEN -net ELSE 0]

TrialBalance(d, from, to) ==
    LET lines  == LinesOf(d, Ids(d, "journals"))
        before == {l \in lines : d.journals[l.journal].day < from}
        during == {l \in lines : d.journals[l.journal].day \in from..to}
        used   == {l.account : l \in before \cup during}
    IN  [opening |-> [a \in used |-> OnSide(Net(On(before, a)))],
         period  |-> [a \in used |-> [debit  |-> Debits(On(during, a)),
                                      credit |-> Credits(On(during, a))]],
         closing |-> [a \in used |-> OnSide(Net(On(before, a)) + Net(On(during, a)))]]

TrialBalanceRefused(d, from, to) ==
    LET report == TrialBalance(d, from, to)
    IN  \E part \in {"opening", "period", "closing"} :
            Total([a \in DOMAIN report[part] |-> LET side == report[part][a]
                                                 IN  side.debit - side.credit]) # 0

-----------------------------------------------------------------------------
(* Sales.                                                                  *)

SalesDocument(kind) == CASE kind \in {"invoice_ar", "walk_in_sale"} -> "invoices"
                         [] kind = "credit_note"                    -> "notes"
                         [] kind = "cancellation_charge"            -> "charges"
SalesKinds == {"invoice_ar", "walk_in_sale", "credit_note", "cancellation_charge"}

Found(d, j)  == d.journals[j].source \in Ids(d, SalesDocument(d.journals[j].kind))
Document(d, j) ==
    LET row == d[SalesDocument(d.journals[j].kind)][d.journals[j].source]
    IN  IF d.journals[j].kind \in {"invoice_ar", "walk_in_sale"}
        THEN [branch |-> row.order.branch, total |-> row.totals.total, tax |-> row.totals.tax]
        ELSE [branch |-> row.branch, total |-> row.total, tax |-> row.tax]

(* The journals of the period whose document is of the branch; a journal   *)
(* without a document is nobody's, and shows in the company's report.      *)
SalesJournals(d, scope, days) ==
    {j \in JournalsOf(d, SalesKinds, days) :
        IF Found(d, j) THEN InBranch(scope, Document(d, j).branch) ELSE scope.branch = None}

OfKind(d, journals, kinds) == {j \in journals : d.journals[j].kind \in kinds}
SumOfTotals(d, journals) == Total([j \in journals |-> Document(d, j).total])
SumOfTaxes(d, journals)  == Total([j \in journals |-> Document(d, j).tax])

SalesReport(d, scope, days) ==
    LET all      == {j \in SalesJournals(d, scope, days) : Found(d, j)}
        sales    == OfKind(d, all, {"invoice_ar", "walk_in_sale"})
        notes    == OfKind(d, all, {"credit_note"})
        charges  == OfKind(d, all, {"cancellation_charge"})
        ofStatus(s) == {j \in sales : d.invoices[d.journals[j].source].status = s}
    IN  [invoices |-> Cardinality(sales), invoiced |-> SumOfTotals(d, sales), tax |-> SumOfTaxes(d, sales),
         notes |-> Cardinality(notes), credited |-> SumOfTotals(d, notes),
         taxCredited |-> SumOfTaxes(d, notes),
         charges |-> Cardinality(charges), charged |-> SumOfTotals(d, charges),
         taxCharged |-> SumOfTaxes(d, charges),
         statuses |-> [s \in {"UNPAID", "PARTIAL", "PAID", "SETTLED", "CANCELLED",
                              "PARTIALLY_REFUNDED", "REFUNDED"} |->
                          [count |-> Cardinality(ofStatus(s)), total |-> SumOfTotals(d, ofStatus(s))]]]

(* The lines of an invoice are those it was issued with. *)
LineSetProven(d, i) == LET invoice == d.invoices[i]
                       IN  /\ Len(invoice.order.lines) >= 1
                           /\ Fingerprint(invoice.order, 2) = invoice.fingerprint

(* A sale is booked once, by the journal of its kind; a note follows one.  *)
SaleMismatch(d, j) ==
    LET i == d.journals[j].source
    IN  \/ Posted(d, IF d.journals[j].kind = "invoice_ar" THEN "walk_in_sale" ELSE "invoice_ar", i) # {}
        \/ (d.journals[j].kind = "invoice_ar") # (ReceivableOf(d, i) # {})
        \/ ~LineSetProven(d, i)

NoteMismatch(d, j) ==
    \A kind \in {"invoice_ar", "walk_in_sale"} :
        Posted(d, kind, d.notes[d.journals[j].source].invoice) = {}

SalesRefused(d, scope, days) ==
    LET all   == SalesJournals(d, scope, days)
        found == {j \in all : Found(d, j)}
        sales == OfKind(d, found, {"invoice_ar", "walk_in_sale"})
        net(kinds, account) == Net(On(LinesOf(d, OfKind(d, found, kinds)), account))
        report == SalesReport(d, scope, days)
    IN  \/ \E j \in all : ~Found(d, j)
        \/ \E j \in found : \E l \in d.journals[j].lines : l.branch # Document(d, j).branch
        \/ \E j \in sales : SaleMismatch(d, j)
        \/ \E j \in OfKind(d, found, {"credit_note"}) : NoteMismatch(d, j)
        \/ Total([s \in DOMAIN report.statuses |-> report.statuses[s].count]) # report.invoices
        \/ Total([s \in DOMAIN report.statuses |-> report.statuses[s].total]) # report.invoiced
        \/ net({"invoice_ar", "walk_in_sale"}, "REVENUE.SALES") # report.tax - report.invoiced
        \/ net({"invoice_ar", "walk_in_sale"}, "TAX_PAYABLE") # -report.tax
        \/ net({"credit_note"}, "REVENUE.SALES") # report.credited - report.taxCredited
        \/ net({"credit_note"}, "TAX_PAYABLE") # report.taxCredited
        \/ net({"cancellation_charge"}, "REVENUE.CANCELLATION_CHARGE")
              # report.taxCharged - report.charged
        \/ net({"cancellation_charge"}, "TAX_PAYABLE") # -report.taxCharged

-----------------------------------------------------------------------------
(* Tender totals: what came in and went out, by account.                   *)

TenderTable == [customer_receipt_payment |-> "payments", walk_in_sale |-> "invoices",
                refund |-> "refunds", payment_allocation |-> "allocations"]
TenderKinds == DOMAIN TenderTable

TenderFound(d, j) == d.journals[j].source \in Ids(d, TenderTable[d.journals[j].kind])
TenderBranch(d, j) ==
    LET row == d[TenderTable[d.journals[j].kind]][d.journals[j].source]
    IN  CASE d.journals[j].kind = "walk_in_sale"       -> row.order.branch
          [] d.journals[j].kind = "payment_allocation" -> d.payments[row.payment].branch
          [] OTHER                                     -> row.branch

TenderJournals(d, scope, days) ==
    {j \in JournalsOf(d, TenderKinds, days) :
        IF TenderFound(d, j) THEN InBranch(scope, TenderBranch(d, j)) ELSE scope.branch = None}

SourcesOf(d, journals, kind) == {d.journals[j].source : j \in OfKind(d, journals, {kind})}
TendersOf(d, i)    == {d.allocations[k].payment : k \in AllocationsOf(d, i)}
PaidFrom(d, k)     == IF d.refunds[k].attempt # None THEN "PAYMENT_CLEARING"
                      ELSE ReceiptAccount(d.refunds[k].method)
CustomersTenders(d, journals) == SourcesOf(d, journals, "customer_receipt_payment")
CounterTenders(d, journals)   == UNION {TendersOf(d, i) : i \in SourcesOf(d, journals, "walk_in_sale")}

TenderReport(d, scope, days) ==
    LET all     == {j \in TenderJournals(d, scope, days) : TenderFound(d, j)}
        taken   == CustomersTenders(d, all) \cup CounterTenders(d, all)
        refunds == SourcesOf(d, all, "refund")
    IN  [taken |-> [a \in TenderAccounts |->
                       Sum(d, "payments", {p \in taken : ReceiptAccount(d.payments[p].method) = a})],
         customers |-> Sum(d, "payments", CustomersTenders(d, all)),
         refunded  |-> [a \in TenderAccounts |->
                           Sum(d, "refunds", {k \in refunds : PaidFrom(d, k) = a})]]

(* The journal debits one account, credits another, and nothing else. *)
Moves(d, j, from, to, amount) ==
    LET lines == LinesOf(d, {j})
    IN  /\ Debits(On(lines, to)) = amount /\ Credits(On(lines, from)) = amount
        /\ Debits(lines) = amount /\ Credits(lines) = amount

WalkInMismatch(d, j, receipts) ==
    LET i     == d.journals[j].source
        lines == LinesOf(d, {j})
    IN  \/ \E a \in Accounts :
              Debits(On(lines, a)) # Sum(d, "payments", {p \in TendersOf(d, i) :
                                                    ReceiptAccount(d.payments[p].method) = a})
        \/ \E a \in TenderAccounts : Credits(On(lines, a)) # 0
        \/ d.invoices[i].order.customer # None \/ ReceivableOf(d, i) # {}
        \/ \E p \in TendersOf(d, i) :
              \/ Cardinality({k \in Ids(d, "allocations") : d.allocations[k].payment = p}) # 1
              \/ d.payments[p].branch # d.invoices[i].order.branch
              \/ p \in SourcesOf(d, receipts, "customer_receipt_payment")

TenderRefused(d, scope, days) ==
    LET all      == TenderJournals(d, scope, days)
        found    == {j \in all : TenderFound(d, j)}
        receipts == OfKind(d, found, {"customer_receipt_payment"})
        walkIns  == OfKind(d, found, {"walk_in_sale"})
        refunds  == OfKind(d, found, {"refund"})
        report   == TenderReport(d, scope, days)
        source(j) == d.journals[j].source
    IN  \/ \E j \in all : ~TenderFound(d, j) /\ d.journals[j].kind # "payment_allocation"
        \/ \E j \in receipts \cup walkIns \cup refunds :
              \E l \in d.journals[j].lines : l.branch # TenderBranch(d, j)
        \/ \E j \in receipts :
              LET row == d.payments[source(j)]
              IN  ~Moves(d, j, "UNAPPLIED_RECEIPTS", ReceiptAccount(row.method), row.amount)
        \/ \E j \in refunds :
              ~Moves(d, j, PaidFrom(d, source(j)), "CUSTOMER_ADVANCES", d.refunds[source(j)].amount)
        \/ \E j \in walkIns : WalkInMismatch(d, j, receipts)
        \/ \E k \in SourcesOf(d, found, "payment_allocation") :
              Posted(d, "customer_receipt_payment", d.allocations[k].payment) = {}
        \/ \E a \in TenderAccounts :
              \/ report.taken[a] # Net(On(LinesOf(d, receipts \cup walkIns), a))
              \/ report.refunded[a] # -Net(On(LinesOf(d, refunds), a))
        \/ report.customers # -Net(On(LinesOf(d, receipts), "UNAPPLIED_RECEIPTS"))
        \/ Total(report.refunded) # Net(On(LinesOf(d, refunds), "CUSTOMER_ADVANCES"))

-----------------------------------------------------------------------------
(* Facts and journals: every row that moves an account has its one line in *)
(* its own journal, and a company's journals have no other line there.     *)

Fact(kind, source, side, row) ==
    [kind |-> kind, source |-> source, side |-> side, amount |-> row.amount, branch |-> row.branch]

FactLines(d, account, fact) == On(LinesOf(d, Posted(d, fact.kind, fact.source)), account)
Matched(d, account, facts)  == UNION {FactLines(d, account, f) : f \in facts}

Reconciled(d, account, facts, kinds, scope) ==
    /\ \A f \in facts :
          LET lines == FactLines(d, account, f)
          IN  /\ Cardinality(lines) = 1
              /\ \A l \in lines : /\ l.branch = f.branch
                                  /\ l.debit = (IF f.side = "D" THEN f.amount ELSE 0)
                                  /\ l.credit = (IF f.side = "C" THEN f.amount ELSE 0)
    /\ scope = Company =>
          On(LinesOf(d, JournalsOf(d, kinds, 1..Days)), account) \subseteq Matched(d, account, facts)

(* Defect: only as many customers are read as the page shows. *)
NextPageUnprobed(customers, cursor) ==
    LET after == {c \in customers : cursor = None \/ c > cursor}
    IN  [shown |-> {c \in after : Cardinality({x \in after : x <= c}) <= PageSize}, next |-> None]

(* What a page shows: one customer more than fits tells that there is more. *)
NextPage(customers, cursor) ==
    LET after == {c \in customers : cursor = None \/ c > cursor}
        rank(c) == Cardinality({x \in after : x <= c})
        shown == {c \in after : rank(c) <= PageSize}
        more  == {c \in after : rank(c) <= PageSize + 1} # shown
    IN  [shown |-> shown,
         next  |-> IF more THEN CHOOSE c \in shown : rank(c) = PageSize ELSE None]

-----------------------------------------------------------------------------
(* Receivables, as they stand.                                             *)

ReceivableKinds == {"INVOICE", "OPENING", "CANCELLATION_CHARGE"}
ArOpening(kind) == CASE kind = "INVOICE"             -> "invoice_ar"
                     [] kind = "OPENING"             -> "opening_receivable"
                     [] kind = "CANCELLATION_CHARGE" -> "cancellation_charge"
ArApplication(kind) == IF kind = "OPENING" THEN "opening_receivable_payment_application"
                       ELSE "cancellation_charge_payment_application"
ArKinds == {ArOpening(kind) : kind \in ReceivableKinds}
           \cup {ArApplication(kind) : kind \in ReceivableKinds}
           \cup {"payment_allocation", "customer_advance_application", "credit_note"}

ReceivablesIn(d, scope) == {r \in Ids(d, "receivables") : In(scope, d.receivables[r])}

(* Journals of invoices and charges are theirs, those of an opening its own. *)
ReceivableFacts(d, r) ==
    LET row == d.receivables[r]
        i   == InvoiceOf(d, r)
    IN  {Fact(ArOpening(row.kind), row.source, "D", row)}
        \cup {Fact("customer_advance_application", k, "C", d.draws[k]) : k \in DrawsOn(d, r)}
        \cup (IF i = None
              THEN {Fact(ArApplication(row.kind), k, "C", d.coverings[k]) : k \in CoveringsOf(d, r)}
              ELSE {Fact("payment_allocation", k, "C", d.allocations[k]) : k \in AllocationsOf(d, i)}
                   \cup {Fact("credit_note", k, "C", [amount |-> d.notes[k].reduction,
                                                     branch |-> d.notes[k].branch]) :
                            k \in {n \in NotesOf(d, i) : d.notes[n].reduction > 0}})

SourceBranch(d, r) == CASE d.receivables[r].kind = "INVOICE" -> d.invoices[InvoiceOf(d, r)].order.branch
                        [] d.receivables[r].kind = "CANCELLATION_CHARGE" ->
                               d.charges[d.receivables[r].source].branch
                        [] OTHER -> d.receivables[r].branch

ReceivablesReport(d, scope) ==
    [kind \in ReceivableKinds |->
        LET of == {r \in ReceivablesIn(d, scope) : d.receivables[r].kind = kind}
        IN  [count |-> Cardinality(of), original |-> Sum(d, "receivables", of),
             outstanding |-> Total([r \in of |-> Outstanding(d, r)])]]

ReceivablesTotal(d, scope) == Total([r \in ReceivablesIn(d, scope) |-> Outstanding(d, r)])
DebtorsIn(d, scope)        == {d.receivables[r].customer : r \in ReceivablesIn(d, scope)}

ReceivableMismatch(d, r) ==
    \/ SourceBranch(d, r) # d.receivables[r].branch
    \/ \E f \in ReceivableFacts(d, r) : f.branch # d.receivables[r].branch
    \/ InvoiceOf(d, r) # None /\ CoveringsOf(d, r) # {}

(* What a note takes off must be taken off a receivable. *)
LostReduction(d, n, scope) ==
    /\ d.notes[n].reduction > 0 /\ InBranch(scope, d.notes[n].branch)
    /\ ReceivableOf(d, d.notes[n].invoice) = {}

ReceivablesRefused(d, scope) ==
    LET rows  == ReceivablesIn(d, scope)
        facts == UNION {ReceivableFacts(d, r) : r \in rows}
    IN  \/ \E r \in rows : Outstanding(d, r) < 0 \/ ReceivableMismatch(d, r)
        \/ scope.customer = None /\ \E n \in Ids(d, "notes") : LostReduction(d, n, scope)
        \/ ~Reconciled(d, "AR", facts, ArKinds, scope)
        \/ ReceivablesTotal(d, scope) # Net(Matched(d, "AR", facts))

-----------------------------------------------------------------------------
(* Customer liabilities, as they stand: advances, and receipts not applied. *)

AdvanceKinds   == {"customer_advance", "opening_advance", "credit_note",
                   "customer_advance_application", "refund"}
UnappliedKinds == {"customer_receipt_payment", "payment_allocation", "customer_advance",
                   "opening_receivable_payment_application",
                   "cancellation_charge_payment_application"}

AdvancesIn(d, scope) == {a \in Ids(d, "advances") : In(scope, d.advances[a])}
PaymentsIn(d, scope) == {p \in Ids(d, "payments") : /\ InBranch(scope, d.payments[p].branch)
                                                    /\ InCustomer(scope, AttributedTo(d, p))}
Reserved(d, a) == Sum(d, "attempts", HeldOf(d, a))
Book(d, a)     == Available(d, a) + Reserved(d, a)

(* A credit note's advances are one line of its journal. *)
AdvanceFacts(d, advances) ==
    LET of(source) == {a \in advances : d.advances[a].source = source}
        released(n, b) == {a \in of("CREDIT_NOTE") : d.advances[a].from = n /\ d.advances[a].branch = b}
    IN  {Fact("customer_advance", a, "C", d.advances[a]) : a \in of("PAYMENT")}
        \cup {Fact("opening_advance", a, "C", d.advances[a]) : a \in of("OPENING")}
        \cup {Fact("credit_note", d.advances[a].from, "C",
                    [branch |-> d.advances[a].branch,
                     amount |-> Sum(d, "advances", released(d.advances[a].from, d.advances[a].branch))]) :
                 a \in of("CREDIT_NOTE")}
        \cup {Fact("customer_advance_application", k, "D", d.draws[k]) :
                 k \in UNION {DrawnFrom(d, a) : a \in advances}}
        \cup {Fact("refund", k, "D", d.refunds[k]) : k \in UNION {RefundedFrom(d, a) : a \in advances}}

AllocatedFrom(d, p) == {k \in Ids(d, "allocations") : d.allocations[k].payment = p}
CoveredFrom(d, p)   == {k \in Ids(d, "coverings") : d.coverings[k].payment = p}

PaymentFacts(d, p) ==
    {Fact("customer_receipt_payment", p, "C", d.payments[p])}
    \cup {Fact("payment_allocation", k, "D", d.allocations[k]) : k \in AllocatedFrom(d, p)}
    \cup {Fact(ArApplication(d.receivables[d.coverings[k].receivable].kind), k, "D", d.coverings[k]) :
             k \in CoveredFrom(d, p)}
    \cup {Fact("customer_advance", a, "D", d.advances[a]) : a \in Conversions(d, p)}

LiabilitiesReport(d, scope) ==
    LET advances == AdvancesIn(d, scope)
        payments == PaymentsIn(d, scope)
    IN  [advances  |-> Total([a \in advances |-> Book(d, a)]),
         reserved  |-> Total([a \in advances |-> Reserved(d, a)]),
         unapplied |-> Total([p \in payments |-> Unapplied(d, p)]),
         waiting   |-> Cardinality({p \in payments : Unapplied(d, p) > 0})]

CreditorsIn(d, scope) == {d.advances[a].customer : a \in AdvancesIn(d, scope)}
                         \cup {AttributedTo(d, p) : p \in PaymentsIn(d, scope)}

AdvanceMismatch(d, a, payments) ==
    LET elsewhere(table, ids) == \E k \in ids : d[table][k].branch # d.advances[a].branch
    IN  \/ elsewhere("draws", DrawnFrom(d, a))
        \/ elsewhere("refunds", RefundedFrom(d, a))
        \/ elsewhere("attempts", HeldOf(d, a))
        \/ d.advances[a].source = "PAYMENT" /\ d.advances[a].payment \notin payments
        \/ d.advances[a].source = "CREDIT_NOTE" /\ d.advances[a].from \notin Ids(d, "notes")

LiabilitiesRefused(d, scope) ==
    LET advances == AdvancesIn(d, scope)
        payments == PaymentsIn(d, scope)
        report   == LiabilitiesReport(d, scope)
        credits  == AdvanceFacts(d, advances)
        receipts == UNION {PaymentFacts(d, p) : p \in payments}
    IN  \/ \E a \in advances :
              Book(d, a) < 0 \/ Available(d, a) < 0 \/ AdvanceMismatch(d, a, payments)
        \/ \E p \in payments :
              \/ Unapplied(d, p) < 0
              \/ \E f \in PaymentFacts(d, p) : f.branch # d.payments[p].branch
        \/ ~Reconciled(d, "CUSTOMER_ADVANCES", credits, AdvanceKinds, scope)
        \/ ~Reconciled(d, "UNAPPLIED_RECEIPTS", receipts, UnappliedKinds, scope)
        \/ report.advances # -Net(Matched(d, "CUSTOMER_ADVANCES", credits))
        \/ report.unapplied # -Net(Matched(d, "UNAPPLIED_RECEIPTS", receipts))

-----------------------------------------------------------------------------
(* Properties.                                                             *)

Windows == {a..b : a \in 1..day, b \in 1..day} \ {{}}
FirstDay(days) == CHOOSE a \in days : \A b \in days : a <= b
LastDay(days)  == CHOOSE a \in days : \A b \in days : b <= a
Branchwise == {Company} \cup {OfBranch(b) : b \in Branches}

(* Whatever was sold, paid, cancelled or paid out, and on whatever days:   *)
(* none of the five reports is refused.  Their checks fail closed, so a    *)
(* row that one operation writes and a report does not expect would close  *)
(* the report for good (assertSourceIntegrity and the controls of          *)
(* modules/reporting).                                                     *)
NoReportRefuses ==
    order = None =>
        /\ \A days \in Windows : ~TrialBalanceRefused(db, FirstDay(days), LastDay(days))
        /\ \A days \in Windows, scope \in Branchwise :
              ~SalesRefused(db, scope, days) /\ ~TenderRefused(db, scope, days)
        /\ \A scope \in Scopes :
              ~ReceivablesRefused(db, scope) /\ ~LiabilitiesRefused(db, scope)

(* The reports tell one story.  What customers owe, what they are owed and *)
(* what lies unapplied are the balances of their accounts in the trial     *)
(* balance; the movements of the three money accounts over any period are  *)
(* what came in and what went out by the tender totals, which leave        *)
(* settlements out, and what the settlements dated in it moved from the    *)
(* clearing account to the bank, less the providers' fees, which are the   *)
(* fee account; the branches add up to the company, and so do the          *)
(* customers, gathered page by page (buildReceivablesBlocks,               *)
(* buildLiabilityBlocks, buildTenderTotalsBlocks, customerPage,            *)
(* finalizeInTx).                                                          *)
Side(part, account) == IF account \in DOMAIN part THEN part[account] ELSE OnSide(0)
Closing(account) ==
    LET side == Side(TrialBalance(db, 1, day).closing, account)
    IN  side.debit - side.credit

MoneyMoved(days) ==
    LET period  == TrialBalance(db, FirstDay(days), LastDay(days)).period
        report  == TenderReport(db, Company, days)
        batches == {s \in Ids(db, "settlements") : db.settlements[s].day \in days}
        gross   == Total([s \in batches |-> Total(db.settlements[s].lines)])
        fees    == Total([s \in batches |-> db.settlements[s].fee])
        toBank(a)    == IF a = "BANK" THEN gross - fees ELSE 0
        outOfClearing(a) == IF a = "PAYMENT_CLEARING" THEN gross ELSE 0
    IN  /\ \A a \in TenderAccounts :
              Side(period, a) = [debit  |-> report.taken[a] + toBank(a),
                                 credit |-> report.refunded[a] + outOfClearing(a)]
        /\ Side(period, "PAYMENT_PROCESSING_FEE") = [debit |-> fees, credit |-> 0]

(* The customers on the pages, one page after the other. *)
Gathered(customers) ==
    LET After[c \in Customers \cup {None}] ==
            LET page == NextPage(customers, c)
            IN  page.shown \cup (IF page.next = None THEN {} ELSE After[page.next])
    IN  After[None]

BranchesAddUp(figure(_)) ==
    figure(Company) = Total([b \in Branches |-> figure(OfBranch(b))])
CustomersAddUp(customers, figure(_)) ==
    figure(Company) = Total([c \in Gathered(customers) |-> figure(OfCustomer(c))])

Owed(scope)      == ReceivablesTotal(db, scope)
Advanced(scope)  == LiabilitiesReport(db, scope).advances
NotApplied(scope) == LiabilitiesReport(db, scope).unapplied

ReportsAgree ==
    order = None =>
        /\ Owed(Company) = Closing("AR")
        /\ Advanced(Company) = -Closing("CUSTOMER_ADVANCES")
        /\ NotApplied(Company) = -Closing("UNAPPLIED_RECEIPTS")
        /\ BranchesAddUp(Owed) /\ CustomersAddUp(DebtorsIn(db, Company), Owed)
        /\ BranchesAddUp(Advanced) /\ CustomersAddUp(CreditorsIn(db, Company), Advanced)
        /\ BranchesAddUp(NotApplied) /\ CustomersAddUp(CreditorsIn(db, Company), NotApplied)
        /\ \A days \in Windows :
              /\ MoneyMoved(days)
              /\ BranchesAddUp(LAMBDA scope : SalesReport(db, scope, days).invoiced)
              /\ BranchesAddUp(LAMBDA scope : Total(TenderReport(db, scope, days).taken))

(* Cancelling an invoice takes its sale out of the books to the last unit: *)
(* the credit note repeats the invoice's total and its tax, what it takes  *)
(* off the receivable and what it releases are that total, and the two     *)
(* journals leave nothing of the sale in revenue and in tax, however the   *)
(* document's discount and tax were divided among the lines                *)
(* (credit-note.repository.ts).                                            *)
CancellationUndoesSale ==
    \A n \in Ids(db, "notes") :
        LET note    == db.notes[n]
            totals  == db.invoices[note.invoice].totals
            journals == Posted(db, "invoice_ar", note.invoice) \cup Posted(db, "credit_note", n)
        IN  /\ note.total = totals.total /\ note.tax = totals.tax
            /\ note.reduction + note.excess = totals.total
            /\ \A a \in {"REVENUE.SALES", "TAX_PAYABLE"} : Net(On(LinesOf(db, journals), a)) = 0
            /\ Outstanding(db, CHOOSE r \in ReceivableOf(db, note.invoice) : TRUE) = 0

(* The arithmetic of the order on the counter.  The shares of the          *)
(* document's discount are fair to less than one unit, if there is         *)
(* anything to pay, and never more than their line; the taxes add up to    *)
(* the tax of the whole, which is rounded once, or line by line; no line   *)
(* is a whole unit from its exact tax; and of two lines the one with the   *)
(* larger fraction left over is never the one rounded down                 *)
(* (computeCanonicalTotals, Money.allocate, reconcileDocumentTax).         *)
FairShares(o) ==
    LET w == Weights(o)
        s == Shares(o)
        t == Total(w)
    IN  /\ Total(s) = o.discount
        /\ \A i \in DOMAIN w :
              LET off == s[i] * t - o.discount * w[i]
              IN  s[i] \in 0..w[i] /\ (t > 0 => off < t /\ -off < t)

FairTaxes(o) ==
    LET x     == ExactTaxes(o)
        taxes == Taxes(o)
        up(i) == taxes[i] > Floor(x[i])
    IN  /\ \A i \in DOMAIN x : taxes[i] \in Floor(x[i])..(Floor(x[i]) + 1)
        /\ o.policy.scope = "LINE" =>
              \A i \in DOMAIN x : taxes[i] = RoundExact(x[i], o.policy.rounding)
        /\ o.policy.scope = "DOCUMENT" =>
              /\ Total(taxes) = RoundExact(ExactSum(x), o.policy.rounding)
              /\ \A i, j \in DOMAIN x :
                    up(i) /\ ~up(j) => Rest(x[i]) * x[j].den >= Rest(x[j]) * x[i].den

TotalsAreExact ==
    order # None =>
        LET totals == ComputeCanonicalTotals(order)
        IN  /\ FairShares(order) /\ FairTaxes(order)
            /\ TotalsAccepted(order, totals)
            /\ totals.total >= 0
            /\ LET note == CreditNoteTotals(order, totals.taxes)
               IN  note.total = totals.total /\ note.tax = totals.tax
=============================================================================
