---------------------------- MODULE Receivables ----------------------------
(***************************************************************************)
(* The account of one customer at one branch                               *)
(* (apps/api/src/modules/receivables and the credit note of orders):       *)
(* invoices, opening balances and cancellation charges as receivables;     *)
(* receipts that pay the oldest first; payments turned into advances;      *)
(* advances applied to receivables; cancellations, whose credit note turns *)
(* every source of the invoice's coverage into a new advance; refunds of   *)
(* those advances, local or in two phases through the provider.            *)
(*                                                                         *)
(* Each operation is one transaction that locks the receivable it covers,  *)
(* then the customer_company_account row, then payment or advance, so it   *)
(* is one action; what a receipt reads before its locks is an action of    *)
(* its own.  The facts are append-only rows; the account's two projections,*)
(* the invoice status, the journal and the statement are written along     *)
(* with them and have to agree with them.                                  *)
(***************************************************************************)
EXTENDS Integers, Sequences, FiniteSets, SequencesExt

CONSTANTS
    Receivables,   \* receivables that may come to exist
    KindOf,        \* INVOICE, OPENING or CANCELLATION_CHARGE
    AmountOf,      \* the principal of its source document
    Payments,      \* payments that may come to exist
    MethodOf,      \* tender of a payment
    Amounts,       \* bound: amounts that requests ask for
    MaxAdvances,   \* bound: advances of the account
    RefundKeys,    \* idempotency keys of provider refunds
    None

Kinds    == {"INVOICE", "OPENING", "CANCELLATION_CHARGE"}
Methods  == {"CASH", "BANK_TRANSFER", "OTHER_MANUAL", "ONLINE_GATEWAY", "CARD_TERMINAL"}
Provider == {"ONLINE_GATEWAY", "CARD_TERMINAL"}
Advances == 1..MaxAdvances

\* invoicePaymentStatus; the last three are terminal.
Cancelled == {"CANCELLED", "PARTIALLY_REFUNDED", "REFUNDED"}
Statuses  == {"UNPAID", "PARTIAL", "PAID", "SETTLED"} \cup Cancelled

\* A customer_advance, with the payment it ultimately comes from, if any.
AdvanceRow == [source : {"PAYMENT", "OPENING", "CREDIT_NOTE"},
               payment : Payments \cup {None}, amount : Nat \ {0}]
RefundAttempt == [advance : Advances, amount : Nat \ {0},
                  state : {"PENDING", "SUCCEEDED", "FAILED"}]
EntryKinds == {"INVOICE", "OPENING_RECEIVABLE", "CANCELLATION_CHARGE", "CREDIT_NOTE",
               "PAYMENT", "PAYMENT_ALLOCATION", "OPENING_RECEIVABLE_PAYMENT_APPLIED",
               "CANCELLATION_CHARGE_PAYMENT_APPLIED", "OPENING_ADVANCE", "ADVANCE",
               "ADVANCE_APPLIED", "REFUND"}
Accounts == {"AR", "UNAPPLIED_RECEIPTS", "CUSTOMER_ADVANCES"}

ASSUME ReceivablesAssumption ==
    /\ IsFiniteSet(Receivables) /\ IsFiniteSet(Payments) /\ IsFiniteSet(RefundKeys)
    /\ KindOf \in [Receivables -> Kinds]
    /\ AmountOf \in [Receivables -> Nat \ {0}]
    /\ MethodOf \in [Payments -> Methods]
    /\ Amounts \subseteq Nat \ {0}
    /\ MaxAdvances \in Nat
    /\ None \notin Payments \cup Advances \cup RefundAttempt \cup Seq(Receivables)

VARIABLES
    opened,          \* the receivables, oldest first
    status,          \* invoicePaymentStatus of the invoices
    credited,        \* SUM of the credit notes' arReductionMinor
    received,        \* amount of each payment, 0 before it exists
    paid,            \* SUM of payment_allocation and customer_receivable_payment_application
    advances,        \* the customer_advance rows
    applied,         \* SUM of customer_advance_application
    refunded,        \* SUM of customer_advance_refund_application
    attempts,        \* refund_attempt by idempotency key
    settled,         \* payments covered in full by FINALIZED settlements
    found,           \* candidates read by the receipt in progress
    outstanding,     \* currentOutstandingMinor, a projection
    advanceBalance,  \* advanceBalanceMinor, a projection
    entries,         \* amount of the customer_account_entry rows by kind
    gl               \* balances the journals add up to

facts == <<opened, credited, received, paid, advances, applied, refunded, attempts, settled>>
vars  == <<facts, status, found, outstanding, advanceBalance, entries, gl>>

-----------------------------------------------------------------------------
(* Balances, computed from the facts (receivable-balance.ts).              *)

\* The sum of a function's values.
Sum(f) == SumFunction(f)

Opened == Range(opened)

Covered(r)     == Sum(paid[r]) + Sum(applied[r])
Outstanding(r) == AmountOf[r] - Covered(r) - credited[r]

Drawn(a)     == Sum([r \in Receivables |-> applied[r][a]])
Booked(a)    == advances[a].amount - Drawn(a) - refunded[a]
Pending(a)   == {k \in RefundKeys : /\ attempts[k] # None
                                    /\ attempts[k].advance = a
                                    /\ attempts[k].state = "PENDING"}
Reserved(a)  == Sum([k \in Pending(a) |-> attempts[k].amount])
Available(a) == Booked(a) - Reserved(a)

\* Advances turned from payment p itself; a credit note's advances are not.
Converted(p) == {a \in DOMAIN advances : /\ advances[a].source = "PAYMENT"
                                         /\ advances[a].payment = p}
Unapplied(p) == received[p] - Sum([r \in Receivables |-> paid[r][p]])
                            - Sum([a \in Converted(p) |-> advances[a].amount])

-----------------------------------------------------------------------------
(* Settlement finality and the status of an invoice.                       *)

PaymentFinal(p, done) == MethodOf[p] \in {"CASH", "BANK_TRANSFER"} \/ p \in done
AdvanceFinal(a, done) == advances[a].payment = None \/ PaymentFinal(advances[a].payment, done)

CoverFinal(pays, draws, done) ==
    /\ \A p \in Payments : pays[p] > 0 => PaymentFinal(p, done)
    /\ \A a \in DOMAIN advances : draws[a] > 0 => AdvanceFinal(a, done)

\* Coverage first; a fully covered invoice is promoted when all of it is final.
StatusFor(r, pays, draws) ==
    LET covered == Sum(pays) + Sum(draws)
    IN  CASE covered = 0 -> "UNPAID"
          [] covered \in 1..(AmountOf[r] - 1) -> "PARTIAL"
          [] OTHER -> IF CoverFinal(pays, draws, settled) THEN "SETTLED" ELSE "PAID"

\* The invoices whose coverage an operation changed get a new status.
Recompute(changed) ==
    status' = [r \in Receivables |->
                 IF r \in changed /\ KindOf[r] = "INVOICE"
                 THEN StatusFor(r, paid'[r], applied'[r]) ELSE status[r]]

-----------------------------------------------------------------------------
(* Entries and journals.                                                   *)

Enter(kinds) == entries' = [k \in EntryKinds |->
                              entries[k] + IF k \in DOMAIN kinds THEN kinds[k] ELSE 0]
Post(ar, unapplied, prepaid) ==
    gl' = [gl EXCEPT !["AR"] = @ + ar, !["UNAPPLIED_RECEIPTS"] = @ + unapplied,
                     !["CUSTOMER_ADVANCES"] = @ + prepaid]

Init == /\ opened = <<>>
        /\ status = [r \in Receivables |-> "UNPAID"]
        /\ credited = [r \in Receivables |-> 0]
        /\ received = [p \in Payments |-> 0]
        /\ paid = [r \in Receivables |-> [p \in Payments |-> 0]]
        /\ advances = <<>>
        /\ applied = [r \in Receivables |-> [a \in Advances |-> 0]]
        /\ refunded = [a \in Advances |-> 0]
        /\ attempts = [k \in RefundKeys |-> None]
        /\ settled = {}
        /\ found = None
        /\ outstanding = 0 /\ advanceBalance = 0
        /\ entries = [k \in EntryKinds |-> 0]
        /\ gl = [a \in Accounts |-> 0]

\* The effects of the statement's lines on the three balances of the summary; a conversion
\* of a payment has none on the third.
ReceivableEffect ==
    entries["INVOICE"] + entries["OPENING_RECEIVABLE"] + entries["CANCELLATION_CHARGE"]
    - entries["CREDIT_NOTE"] - entries["PAYMENT_ALLOCATION"]
    - entries["OPENING_RECEIVABLE_PAYMENT_APPLIED"]
    - entries["CANCELLATION_CHARGE_PAYMENT_APPLIED"] - entries["ADVANCE_APPLIED"]
AdvanceEffect ==
    entries["ADVANCE"] + entries["OPENING_ADVANCE"] - entries["ADVANCE_APPLIED"]
    - entries["REFUND"]
UnappliedEffect ==
    entries["PAYMENT"] - entries["PAYMENT_ALLOCATION"]
    - entries["OPENING_RECEIVABLE_PAYMENT_APPLIED"]
    - entries["CANCELLATION_CHARGE_PAYMENT_APPLIED"]

\* The summary reads the facts.
SumReceivablesOutstanding == Sum([r \in Opened |-> Outstanding(r)])
SumAdvances               == Sum([a \in DOMAIN advances |-> Booked(a)])
SumUnappliedReceipts      == Sum([p \in Payments |-> Unapplied(p)])
SumConversions ==
    Sum([p \in Payments |-> Sum([a \in Converted(p) |-> advances[a].amount])])

-----------------------------------------------------------------------------
(* New receivables.                                                        *)

\* A receivable is never recorded without its entry, balance and journal.
Record(r, kind) ==
    /\ r \notin Opened
    /\ opened' = Append(opened, r)
    /\ outstanding' = outstanding + AmountOf[r]
    /\ Enter([k \in {kind} |-> AmountOf[r]])
    /\ Post(AmountOf[r], 0, 0)
    /\ UNCHANGED <<status, credited, received, paid, advances, applied, refunded,
                   attempts, settled, found, advanceBalance>>

IssueInvoice(r) == KindOf[r] = "INVOICE" /\ Record(r, "INVOICE")

\* A draft order is cancelled for a charge.
ChargeCancellation(r) ==
    KindOf[r] = "CANCELLATION_CHARGE" /\ Record(r, "CANCELLATION_CHARGE")

\* One opening balance per account and branch, a receivable or an advance.
HasOpening == \/ \E r \in Opened : KindOf[r] = "OPENING"
              \/ \E a \in DOMAIN advances : advances[a].source = "OPENING"

OpenReceivable(r) ==
    KindOf[r] = "OPENING" /\ ~HasOpening /\ Record(r, "OPENING_RECEIVABLE")

OpenAdvance(amount) ==
    /\ ~HasOpening
    /\ Len(advances) < MaxAdvances
    /\ advances' = Append(advances, [source |-> "OPENING", payment |-> None, amount |-> amount])
    /\ advanceBalance' = advanceBalance + amount
    /\ Enter([OPENING_ADVANCE |-> amount])
    /\ Post(0, 0, amount)
    /\ UNCHANGED <<opened, status, credited, received, paid, applied, refunded,
                   attempts, settled, found, outstanding>>

-----------------------------------------------------------------------------
(* Money that arrives.                                                     *)

\* The applications of a payment enter the statement by what they pay.
Share(share, kind) == Sum([r \in {q \in Receivables : KindOf[q] = kind} |-> share[r]])
Lines(amount, share) ==
    [PAYMENT |-> amount,
     PAYMENT_ALLOCATION |-> Share(share, "INVOICE"),
     OPENING_RECEIVABLE_PAYMENT_APPLIED |-> Share(share, "OPENING"),
     CANCELLATION_CHARGE_PAYMENT_APPLIED |-> Share(share, "CANCELLATION_CHARGE")]

\* Payment p of amount arrives and covers receivables as share says.
TakePayment(p, amount, share) ==
    /\ received[p] = 0
    /\ received' = [received EXCEPT ![p] = amount]
    /\ paid' = [r \in Receivables |-> [paid[r] EXCEPT ![p] = share[r]]]
    /\ outstanding' = outstanding - Sum(share)
    /\ Enter(Lines(amount, share))
    /\ Post(-Sum(share), amount - Sum(share), 0)
    /\ applied' = applied
    /\ Recompute({r \in Receivables : share[r] > 0})
    /\ UNCHANGED <<opened, credited, advances, refunded, attempts, settled, advanceBalance>>

\* A tender of one invoice, in the shop or captured by the provider.
PayInvoice(p, r, amount) ==
    /\ r \in Opened /\ KindOf[r] = "INVOICE"
    /\ amount <= Outstanding(r)
    /\ TakePayment(p, amount, [q \in Receivables |-> IF q = r THEN amount ELSE 0])
    /\ UNCHANGED found

\* A receipt lists the receivables, oldest first, before it locks anything.
FindCandidates ==
    /\ found = None
    /\ \E p \in Payments : received[p] = 0 /\ MethodOf[p] \notin Provider
    /\ found' = opened
    /\ UNCHANGED <<facts, status, outstanding, advanceBalance, entries, gl>>

\* What the candidates before r still owe, and what is left for r.
Ahead(r) == Sum([q \in {found[i] : i \in 1..(SelectInSeq(found, LAMBDA x : x = r) - 1)} |->
                   Outstanding(q)])
\* Defect: the newest first.
FifoNewestFirst(amount) ==
    [r \in Receivables |->
       LET newer == Sum([q \in Range(found) |-> Outstanding(q)]) - Ahead(r)
                    - IF r \in Range(found) THEN Outstanding(r) ELSE 0
       IN  IF r \notin Range(found) \/ newer >= amount THEN 0
           ELSE IF Outstanding(r) < amount - newer THEN Outstanding(r) ELSE amount - newer]
Fifo(amount) ==
    [r \in Receivables |->
       IF r \notin Range(found) \/ Ahead(r) >= amount THEN 0
       ELSE IF Outstanding(r) < amount - Ahead(r) THEN Outstanding(r) ELSE amount - Ahead(r)]

\* Under the locks every candidate's balance is read again and the receipt
\* pays them in that order; what remains stays unapplied.
Collect(p, amount) ==
    /\ found # None
    /\ MethodOf[p] \notin Provider
    /\ TakePayment(p, amount, Fifo(amount))
    /\ found' = None

-----------------------------------------------------------------------------
(* Advances.                                                               *)

ConvertToAdvance(p, amount) ==
    /\ received[p] > 0
    /\ amount <= Unapplied(p)
    /\ Len(advances) < MaxAdvances
    /\ advances' = Append(advances, [source |-> "PAYMENT", payment |-> p, amount |-> amount])
    /\ advanceBalance' = advanceBalance + amount
    /\ Enter([ADVANCE |-> amount])
    /\ Post(0, -amount, amount)
    /\ UNCHANGED <<opened, status, credited, received, paid, applied, refunded,
                   attempts, settled, found, outstanding>>

\* At most one application of an advance to a receivable: a bound.
ApplyAdvance(a, r, amount) ==
    /\ a \in DOMAIN advances /\ r \in Opened
    /\ applied[r][a] = 0
    /\ amount <= Available(a)
    /\ amount <= Outstanding(r)
    /\ applied' = [applied EXCEPT ![r][a] = amount]
    /\ advanceBalance' = advanceBalance - amount
    /\ outstanding' = outstanding - amount
    /\ Enter([ADVANCE_APPLIED |-> amount])
    /\ Post(-amount, 0, -amount)
    /\ paid' = paid
    /\ Recompute({r})
    /\ UNCHANGED <<opened, credited, received, advances, refunded, attempts, settled, found>>

-----------------------------------------------------------------------------
(* Cancellation of an invoiced order.                                      *)

\* Defect: an advance that is released becomes one of unknown origin.
CoverageWithoutOrigin(r) ==
      {[payment |-> p, amount |-> paid[r][p], advance |-> None] :
          p \in {q \in Payments : paid[r][q] > 0}}
 \cup {[payment |-> None, amount |-> applied[r][a], advance |-> a] :
          a \in {b \in DOMAIN advances : applied[r][b] > 0}}

\* What covers r: its allocations and the applications of advances, each with
\* the payment it comes from, the provenance of a credit note's advance included.
CoverageSources(r) ==
      {[payment |-> p, amount |-> paid[r][p], advance |-> None] :
          p \in {q \in Payments : paid[r][q] > 0}}
 \cup {[payment |-> advances[a].payment, amount |-> applied[r][a], advance |-> a] :
          a \in {b \in DOMAIN advances : applied[r][b] > 0}}

CancelledStatus(r) == CASE Covered(r) = 0 -> "CANCELLED"
                        [] Covered(r) = AmountOf[r] -> "REFUNDED"
                        [] OTHER -> "PARTIALLY_REFUNDED"

\* A source of coverage becomes an advance of its own.
Release(source) ==
    [source |-> "CREDIT_NOTE", payment |-> source.payment, amount |-> source.amount]

\* Defect: the note credits the whole invoice, also what was paid and comes back.
IssueCreditNoteInFull(r) ==
    LET sources == SetToSeq(CoverageSources(r))
    IN  /\ Len(advances) + Len(sources) <= MaxAdvances
        /\ credited' = [credited EXCEPT ![r] = @ + AmountOf[r]]
        /\ advances' = advances \o [i \in DOMAIN sources |-> Release(sources[i])]

\* The credit note takes the unpaid part off the receivable and turns each
\* source of coverage into an advance.
IssueCreditNote(r) ==
    LET sources == SetToSeq(CoverageSources(r))
    IN  /\ Len(advances) + Len(sources) <= MaxAdvances
        /\ credited' = [credited EXCEPT ![r] = @ + AmountOf[r] - Covered(r)]
        /\ advances' = advances \o [i \in DOMAIN sources |-> Release(sources[i])]

\* charge is the cancellation charge, or None.
CancelInvoice(r, charge) ==
    LET fee == IF charge = None THEN 0 ELSE AmountOf[charge]
        reduction == AmountOf[r] - Covered(r)
    IN  /\ r \in Opened /\ KindOf[r] = "INVOICE"
        /\ status[r] \in {"UNPAID", "PARTIAL", "PAID"}
        /\ charge # None => charge \notin Opened /\ KindOf[charge] = "CANCELLATION_CHARGE"
        /\ IssueCreditNote(r)
        /\ status' = [status EXCEPT ![r] = CancelledStatus(r)]
        /\ opened' = IF charge = None THEN opened ELSE Append(opened, charge)
        /\ outstanding' = outstanding - reduction + fee
        /\ advanceBalance' = advanceBalance + Covered(r)
        /\ Enter([CREDIT_NOTE |-> reduction, ADVANCE |-> Covered(r),
                  CANCELLATION_CHARGE |-> fee])
        /\ Post(fee - reduction, 0, Covered(r))
        /\ UNCHANGED <<received, paid, applied, refunded, attempts, settled, found>>

-----------------------------------------------------------------------------
(* Refunds: only of a credit note's advance that comes from a payment.     *)

Refundable(a) == /\ a \in DOMAIN advances
                 /\ advances[a].source = "CREDIT_NOTE"
                 /\ advances[a].payment # None

PayOut(a, amount) ==
    /\ refunded' = [refunded EXCEPT ![a] = @ + amount]
    /\ advanceBalance' = advanceBalance - amount
    /\ Enter([REFUND |-> amount])
    /\ Post(0, 0, -amount)

\* Defect: nobody looks at what is left of the advance.
LocalRefundUnchecked(a, amount) ==
    /\ Refundable(a)
    /\ amount <= advances[a].amount
    /\ PayOut(a, amount)
    /\ UNCHANGED <<opened, status, credited, received, paid, advances, applied,
                   attempts, settled, found, outstanding>>

LocalRefund(a, amount) ==
    /\ Refundable(a)
    /\ amount <= Available(a)
    /\ PayOut(a, amount)
    /\ UNCHANGED <<opened, status, credited, received, paid, advances, applied,
                   attempts, settled, found, outstanding>>

\* Defect: a reservation looks at the payment and not at the advance.
ReserveOfPayment(k, a, amount) ==
    /\ attempts[k] = None
    /\ Refundable(a)
    /\ MethodOf[advances[a].payment] \in Provider
    /\ PaymentFinal(advances[a].payment, settled)
    /\ amount <= received[advances[a].payment]
    /\ attempts' = [attempts EXCEPT ![k] =
                      [advance |-> a, amount |-> amount, state |-> "PENDING"]]
    /\ UNCHANGED <<opened, status, credited, received, paid, advances, applied,
                   refunded, settled, found, outstanding, advanceBalance, entries, gl>>

\* A provider refund holds its amount until the provider has answered.
ReserveRefund(k, a, amount) ==
    /\ attempts[k] = None
    /\ Refundable(a)
    /\ MethodOf[advances[a].payment] \in Provider
    /\ PaymentFinal(advances[a].payment, settled)
    /\ amount <= Available(a)
    /\ attempts' = [attempts EXCEPT ![k] =
                      [advance |-> a, amount |-> amount, state |-> "PENDING"]]
    /\ UNCHANGED <<opened, status, credited, received, paid, advances, applied,
                   refunded, settled, found, outstanding, advanceBalance, entries, gl>>

\* The answer; a second one finds the attempt decided and changes nothing.
RefundResult(k, result) ==
    /\ attempts[k] # None /\ attempts[k].state = "PENDING"
    /\ attempts' = [attempts EXCEPT ![k].state = result]
    /\ IF result = "SUCCEEDED"
       THEN PayOut(attempts[k].advance, attempts[k].amount)
       ELSE UNCHANGED <<refunded, advanceBalance, entries, gl>>
    /\ UNCHANGED <<opened, status, credited, received, paid, advances, applied,
                   settled, found, outstanding>>

\* A settlement batch covers payment p in full; the invoices it reaches that
\* are PAID and have no other open source are promoted.
Settle(p) ==
    /\ received[p] > 0 /\ MethodOf[p] \in Provider /\ p \notin settled
    /\ settled' = settled \cup {p}
    /\ status' = [r \in Receivables |->
                    IF status[r] = "PAID" /\ CoverFinal(paid[r], applied[r], settled')
                    THEN "SETTLED" ELSE status[r]]
    /\ UNCHANGED <<opened, credited, received, paid, advances, applied, refunded,
                   attempts, found, outstanding, advanceBalance, entries, gl>>

Next ==
    \/ \E r \in Receivables : IssueInvoice(r) \/ ChargeCancellation(r) \/ OpenReceivable(r)
    \/ FindCandidates
    \/ \E amount \in Amounts :
          \/ OpenAdvance(amount)
          \/ \E p \in Payments : \/ \E r \in Receivables : PayInvoice(p, r, amount)
                                 \/ Collect(p, amount)
                                 \/ ConvertToAdvance(p, amount)
          \/ \E a \in Advances : \/ \E r \in Receivables : ApplyAdvance(a, r, amount)
                                 \/ LocalRefund(a, amount)
                                 \/ \E k \in RefundKeys : ReserveRefund(k, a, amount)
    \/ \E r \in Receivables, c \in Receivables \cup {None} : CancelInvoice(r, c)
    \/ \E k \in RefundKeys, result \in {"SUCCEEDED", "FAILED"} : RefundResult(k, result)
    \/ \E p \in Payments : Settle(p)

Spec == Init /\ [][Next]_vars

-----------------------------------------------------------------------------
(* Properties.                                                             *)

TypeOK ==
    /\ opened \in Seq(Receivables)
    /\ status \in [Receivables -> Statuses]
    /\ credited \in [Receivables -> Nat]
    /\ received \in [Payments -> Nat]
    /\ paid \in [Receivables -> [Payments -> Nat]]
    /\ advances \in Seq(AdvanceRow) /\ Len(advances) <= MaxAdvances
    /\ applied \in [Receivables -> [Advances -> Nat]]
    /\ refunded \in [Advances -> Nat]
    /\ attempts \in [RefundKeys -> RefundAttempt \cup {None}]
    /\ settled \subseteq Payments
    /\ found \in Seq(Receivables) \cup {None}
    /\ outstanding \in Int /\ advanceBalance \in Int
    /\ entries \in [EntryKinds -> Nat]
    /\ gl \in [Accounts -> Int]

\* Nothing is spent twice: no receivable is covered beyond its principal, no
\* payment used beyond its amount, and no advance applied, refunded and promised
\* to pending refunds beyond its amount, whatever the order of the requests.
NothingOverspent ==
    /\ \A r \in Opened : Outstanding(r) >= 0
    /\ \A p \in Payments : Unapplied(p) >= 0
    /\ \A a \in DOMAIN advances : Available(a) >= 0

\* Four records of one account agree after every operation: the facts, the stored
\* balances, the control accounts of the general ledger, and the lines of the
\* statement.  Their effects add up to the receivables and the advances of the summary;
\* the unapplied money they add up to is the summary's and all that was ever converted
\* to advances, which the statement never takes off.
BooksAgree ==
    /\ SumReceivablesOutstanding = outstanding
    /\ SumAdvances = advanceBalance
    /\ gl["AR"] = outstanding
    /\ gl["CUSTOMER_ADVANCES"] = advanceBalance
    /\ gl["UNAPPLIED_RECEIPTS"] = SumUnappliedReceipts
    /\ ReceivableEffect = outstanding
    /\ AdvanceEffect = advanceBalance
    /\ UnappliedEffect = SumUnappliedReceipts + SumConversions

\* No unit of a payment is lost or doubled on its way through conversions,
\* applications, cancellations and refunds: it is unapplied, covers a receivable
\* that stands, is booked on an advance that comes from it, or was paid out.
MoneyIsTraced ==
    LET standing == {r \in Opened : status[r] \notin Cancelled}
        from(p)  == {a \in DOMAIN advances : advances[a].payment = p}
    IN  \A p \in Payments :
          received[p] = Unapplied(p)
                      + Sum([r \in standing |-> paid[r][p]])
                      + Sum([x \in standing \X from(p) |-> applied[x[1]][x[2]]])
                      + Sum([a \in from(p) |-> Booked(a)])
                      + Sum([a \in from(p) |-> refunded[a]])

\* A receipt pays the oldest first: a receivable gets money only if every older
\* one that the receipt found is closed by then, whatever was paid in between.
OwedAfter(r) == AmountOf[r] - Sum(paid'[r]) - Sum(applied'[r]) - credited'[r]

OldestFirst ==
    [][found # None /\ found' = None =>
         \A i, j \in DOMAIN opened :
            /\ i < j /\ opened[i] \in Range(found)
            /\ paid'[opened[j]] # paid[opened[j]]
            => OwedAfter(opened[i]) = 0]_vars

\* The control accounts move as the abstract ledger says.
Ledger == INSTANCE CustomerLedger WITH
            receivable <- gl["AR"],
            unapplied <- gl["UNAPPLIED_RECEIPTS"],
            prepaid <- gl["CUSTOMER_ADVANCES"]
ImplementsLedger == Ledger!LedgerSpec
=============================================================================
