------------------------------- MODULE Sales -------------------------------
(***************************************************************************)
(* From a draft to its documents: orders (apps/api/src/modules/orders),    *)
(* the atomic sale that turns a draft into an invoice (sales), the         *)
(* cancellation that takes it back, the credit an account is given         *)
(* (customers), and the journals all of them post in accounting periods    *)
(* (accounting).                                                           *)
(*                                                                         *)
(* A user looks at a row, decides, and acts on it with the version seen.   *)
(* Changes whose only lock is that row are one step.  A sale and a         *)
(* cancellation are transactions that take their row locks one by one,     *)
(* read what is committed then, hold the locks to the end, and take        *)
(* effect when they commit; they may be rolled back at any point.          *)
(***************************************************************************)
EXTENDS Integers, Sequences, FiniteSets, SequencesExt, FiniteSetsExt

CONSTANTS
    Slots,       \* users at work at a time
    Orders,      \* orders that may be created
    Customers,   \* customers that have an account with the company
    Totals,      \* what an order may come to
    Terms,       \* credit terms that may be set: enabled or not, and a limit or None
    FirstTerms,  \* the terms the accounts have at first
    Charge,      \* the amount of a cancellation charge
    MaxVersion,  \* bound: version of an order
    MaxTerms,    \* bound: version of a credit configuration
    Days,        \* bound: the days 1..Days; each has its accounting period
    Closing,     \* bound: the days whose period may be closed, or that a charge is dated
    None

DocumentTypes == {"ORDER", "INVOICE", "CREDIT_NOTE", "CANCELLATION_CHARGE"}
Ledger == {"TENDER", "AR", "ADVANCES", "SALES", "CHARGES"}

Kinds == {"walk_in_sale", "invoice_ar", "customer_advance_application", "payment_allocation",
          "credit_note", "cancellation_charge"}
Modes == {"NORMAL", "OVERRIDE", None}

\* The rows of the tables, what a user has seen of one, and the transactions.
OrderRows == [status : {"DRAFT", "HELD", "CONFIRMED", "CANCELLED"}, version : Nat,
              customer : Customers \cup {None}, total : Totals, number : Nat]
InvoiceRows == [number : Nat, total : Totals, paid : Nat, mode : Modes,
                status : {"UNPAID", "PARTIAL", "PAID", "SETTLED",
                          "CANCELLED", "REFUNDED", "PARTIALLY_REFUNDED"}]
CreditRows == [version : Nat, enabled : BOOLEAN, limit : Nat \cup {None}]
SeenRows == [of : Orders \cup Customers, row : OrderRows \cup CreditRows]
Sums == [1..Days -> [Ledger -> Int]]
PlanRows == [tender : Nat, advance : Nat]
Transactions ==
    [order : Orders, plan : PlanRows \cup {None}, date : Nat \cup {None},
     todo : Seq(DocumentTypes \cup Kinds \cup {"account"}),
     locks : SUBSET (Orders \cup Customers \cup DocumentTypes), shares : SUBSET (1..Days),
     mode : Modes, numbers : [DocumentTypes -> Nat], entries : Sums]

ASSUME SalesAssumption ==
    /\ IsFiniteSet(Slots) /\ IsFiniteSet(Orders) /\ IsFiniteSet(Customers)
    /\ Totals \subseteq Nat \ {0}
    /\ Terms \subseteq [enabled : BOOLEAN, limit : (Nat \ {0}) \cup {None}]
    /\ FirstTerms \in [enabled : BOOLEAN, limit : (Nat \ {0}) \cup {None}]
    /\ Charge \in Nat \ {0} /\ Days \in Nat \ {0} /\ Closing \subseteq 1..Days
    /\ MaxVersion \in Nat /\ MaxTerms \in Nat
    /\ Orders \cap Customers = {}
    /\ None \notin Orders \cup Customers \cup Nat \cup {"NORMAL", "OVERRIDE"}
    /\ None \notin OrderRows \cup InvoiceRows \cup CreditRows
    /\ None \notin SeenRows \cup PlanRows \cup Transactions

VARIABLES
    order,        \* the order rows
    invoice,      \* the invoice of an order
    note,         \* the number of its credit note, or 0
    charge,       \* the number of its cancellation charge, or 0
    counter,      \* document_number_counter: the next number
    credit,       \* customer_company_account: the credit configuration
    outstanding,  \* customer_company_account.currentOutstandingMinor
    advances,     \* customer_company_account.advanceBalanceMinor
    journal,      \* the sealed journal entries: what they come to, by day and account
    period,       \* the status of the accounting period of a day
    today,        \* the civil date of the company
    seen,         \* the row a user has looked at
    tx            \* the open transactions

vars == <<order, invoice, note, charge, counter, credit, outstanding, advances,
          journal, period, today, seen, tx>>
documents == <<invoice, note, charge, counter>>
books     == <<outstanding, advances, journal>>

-----------------------------------------------------------------------------
(* Transactions and locks.                                                 *)

NoEntries == [d \in 1..Days |-> [a \in Ledger |-> 0]]

Open(s)   == tx[s] # None
Free(row) == \A s \in Slots : Open(s) => row \notin tx[s].locks
Unshared(day) == \A s \in Slots : Open(s) => day \notin tx[s].shares
Doing(s, step) == Open(s) /\ tx[s].todo # <<>> /\ Head(tx[s].todo) = step

\* The customer and the canonical total of the order that s has locked.
Customer(s) == order[tx[s].order].customer
Total(s)    == order[tx[s].order].total

\* A user acts on row x: the version given is the one seen, and nobody holds the row.
Row(x) == IF x \in Orders THEN order[x] ELSE credit[x]
Acts(s, x) ==
    /\ ~Open(s) /\ seen[s] # None /\ seen[s].of = x
    /\ Row(x).version = seen[s].row.version
    /\ Free(x)
Acted(s) == seen' = [seen EXCEPT ![s] = None]

-----------------------------------------------------------------------------
(* Drafts.                                                                 *)

Associations == Customers \cup {None}

\* A draft with the lines it is given.  Their prices, taxes and discounts are resolved before the
\* transaction; the total stands for all of them.
Priced(row, c, total) == [row EXCEPT !.customer = c, !.total = total]
Blank == [status |-> "DRAFT", version |-> 1, customer |-> None, total |-> 0, number |-> 0]

Create(o, c, total) ==
    /\ order[o] = None
    /\ order' = [order EXCEPT ![o] = Priced(Blank, c, total)]
    /\ UNCHANGED <<documents, credit, books, period, today, seen, tx>>

Look(s, x) ==
    /\ ~Open(s) /\ Row(x) # None
    /\ seen' = [seen EXCEPT ![s] = [of |-> x, row |-> Row(x)]]
    /\ UNCHANGED <<order, documents, credit, books, period, today, tx>>

\* (Mutant: without the increment of the version.)
ChangeOrderQuietly(s, o, row) ==
    /\ row.version < MaxVersion
    /\ order' = [order EXCEPT ![o] = row]
    /\ Acted(s)
    /\ UNCHANGED <<documents, credit, books, period, today, tx>>

\* What every change of an order does besides.
ChangeOrder(s, o, row) ==
    /\ row.version < MaxVersion
    /\ order' = [order EXCEPT ![o] = [row EXCEPT !.version = @ + 1]]
    /\ Acted(s)
    /\ UNCHANGED <<documents, credit, books, period, today, tx>>

Edit(s, o, c, total) ==
    /\ Acts(s, o) /\ order[o].status = "DRAFT"
    /\ ChangeOrder(s, o, Priced(order[o], c, total))

Transition(s, o, from, to) ==
    /\ Acts(s, o) /\ order[o].status = from
    /\ ChangeOrder(s, o, [order[o] EXCEPT !.status = to])
Hold(s, o)   == Transition(s, o, "DRAFT", "HELD")
Resume(s, o) == Transition(s, o, "HELD", "DRAFT")

ConfigureCredit(s, c, terms) ==
    /\ Acts(s, c) /\ credit[c].version < MaxTerms
    /\ credit' = [credit EXCEPT ![c] = [version |-> @.version + 1, enabled |-> terms.enabled,
                                        limit |-> IF terms.limit = None THEN @.limit ELSE terms.limit]]
    /\ Acted(s)
    /\ UNCHANGED <<order, documents, books, period, today, tx>>

-----------------------------------------------------------------------------
(* Accounting periods.                                                     *)

NextDay ==
    /\ today < Days
    /\ today' = today + 1
    /\ UNCHANGED <<order, documents, credit, books, period, seen, tx>>

\* Posting shares the period's row to the end of its transaction.
ClosePeriod(day) ==
    /\ period[day] = "OPEN" /\ Unshared(day)
    /\ period' = [period EXCEPT ![day] = "CLOSED"]
    /\ UNCHANGED <<order, documents, credit, books, today, seen, tx>>

-----------------------------------------------------------------------------
(* A sale and a cancellation begin.                                        *)

\* How a sale is paid: by tenders, by advances, the rest on credit.  (Whether an exception to the
\* limit is asked for, and whether the tenders are final, is chosen where it matters.)
Plans(total, anonymous) ==
    {p \in [tender : 0..total, advance : 0..total] :
        p.tender + p.advance <= total /\ (anonymous => p.tender = total)}
Owing(total, p) == total - p.tender - p.advance

Begin(s, o, plan, date, todo) ==
    tx' = [tx EXCEPT ![s] = [order |-> o, plan |-> plan, date |-> date, todo |-> todo,
                             locks |-> {o}, shares |-> {}, mode |-> None,
                             numbers |-> [t \in DocumentTypes |-> 0], entries |-> NoEntries]]

If(condition, step) == IF condition THEN <<step>> ELSE <<>>

AnonymousSteps == <<"ORDER", "INVOICE", "walk_in_sale">>
CustomerSteps(p) == <<"account", "ORDER", "INVOICE", "invoice_ar">>
                    \o If(p.advance > 0, "customer_advance_application")
                    \o If(p.tender > 0, "payment_allocation")

\* What issuance checks again of the order it has locked.
Issuable(o) == order[o].status = "DRAFT" /\ order[o].version < MaxVersion /\ invoice[o] = None

StartSale(s, o) ==
    /\ Acts(s, o) /\ Issuable(o)
    /\ LET anonymous == order[o].customer = None IN
       \E p \in Plans(order[o].total, anonymous) :
          Begin(s, o, p, None, IF anonymous THEN AnonymousSteps ELSE CustomerSteps(p))
    /\ UNCHANGED <<order, documents, credit, books, period, today, seen>>

\* The accounting date and the tax of a charge are settled before the transaction.
AccountingDate(charged, date) == IF charged /\ date = None THEN today ELSE date
ChargeSteps(charged) == IF charged THEN <<"CANCELLATION_CHARGE", "cancellation_charge">> ELSE <<>>

CancelDraft(s, o, charged, date) ==
    /\ Acts(s, o) /\ invoice[o] = None
    /\ order[o].status \in {"DRAFT", "HELD"} /\ order[o].version < MaxVersion
    /\ charged => order[o].customer # None
    /\ Begin(s, o, None, AccountingDate(charged, date), If(charged, "account") \o ChargeSteps(charged))
    /\ UNCHANGED <<order, documents, credit, books, period, today, seen>>

CancelInvoiced(s, o, charged, date) ==
    /\ Acts(s, o) /\ invoice[o] # None
    /\ order[o].status = "CONFIRMED" /\ order[o].version < MaxVersion
    /\ order[o].customer # None
    /\ invoice[o].status \in {"UNPAID", "PARTIAL", "PAID"}
    /\ Begin(s, o, None, AccountingDate(charged, date),
             <<"account", "CREDIT_NOTE", "credit_note">> \o ChargeSteps(charged))
    /\ UNCHANGED <<order, documents, credit, books, period, today, seen>>

-----------------------------------------------------------------------------
(* Their steps.                                                            *)

Step(s, new) == /\ tx' = [tx EXCEPT ![s] = [new EXCEPT !.todo = Tail(@)]]
                /\ UNCHANGED <<order, documents, credit, books, period, today, seen>>

\* The credit gate: what the sale leaves owing, on top of what the account owes, against the limit.
WithinLimit(c, owing) == credit[c].limit = None \/ outstanding[c] + owing <= credit[c].limit
Authorization(c, owing, exception) ==
    CASE owing = 0 -> None
      [] owing > 0 /\ ~credit[c].enabled -> "DENIED"
      [] OTHER -> IF WithinLimit(c, owing) THEN "NORMAL"
                  ELSE IF exception THEN "OVERRIDE" ELSE "DENIED"
AdvancesSuffice(c, p) == p.advance <= advances[c]

\* (Mutant: the account is read and not locked.)
ReadAccount(s) ==
    /\ Doing(s, "account")
    /\ LET t == tx[s]
           c == Customer(s)
           locked == t IN
       IF t.plan = None
       THEN Step(s, [locked EXCEPT !.date = IF @ = None THEN today ELSE @])
       ELSE \E exception \in BOOLEAN :
            LET mode == Authorization(c, Owing(Total(s), t.plan), exception) IN
            /\ mode # "DENIED" /\ AdvancesSuffice(c, t.plan)
            /\ Step(s, [locked EXCEPT !.mode = mode])

\* The account is locked; a sale is authorized against what stands then.
LockAccount(s) ==
    /\ Doing(s, "account") /\ Free(Customer(s))
    /\ LET t == tx[s]
           c == Customer(s)
           locked == [t EXCEPT !.locks = @ \cup {c}] IN
       IF t.plan = None
       THEN Step(s, [locked EXCEPT !.date = IF @ = None THEN today ELSE @])
       ELSE \E exception \in BOOLEAN :
            LET mode == Authorization(c, Owing(Total(s), t.plan), exception) IN
            /\ mode # "DENIED" /\ AdvancesSuffice(c, t.plan)
            /\ Step(s, [locked EXCEPT !.mode = mode])

\* (Mutant: the next number is read, as from a MAX() + 1.)
AllocateAfterLast(s, type) ==
    /\ Doing(s, type)
    /\ Step(s, [tx[s] EXCEPT !.numbers[type] = counter[type],
                             !.date = IF type = "INVOICE" THEN today ELSE @])

\* The counter's row is locked by its update, which is visible when the transaction commits.
Allocate(s, type) ==
    /\ Doing(s, type) /\ Free(type)
    /\ Step(s, [tx[s] EXCEPT !.locks = @ \cup {type}, !.numbers[type] = counter[type],
                             !.date = IF type = "INVOICE" THEN today ELSE @])

\* What a credit note takes off the customer's debt, what was never paid, and what it releases as
\* an advance, what was.
Reduction(o) == invoice[o].total - invoice[o].paid
Released(o)  == invoice[o].paid

Book(entries, day, lines) ==
    [entries EXCEPT ![day] = [a \in Ledger |-> @[a] + IF a \in DOMAIN lines THEN lines[a] ELSE 0]]

\* What the journals of each kind say, debits positive.
WalkInLines(total)     == [TENDER |-> total, SALES |-> -total]
ReceivableLines(total) == [AR |-> total, SALES |-> -total]
AdvanceLines(amount)   == [ADVANCES |-> amount, AR |-> -amount]
ReceiptLines(amount)   == [TENDER |-> amount, AR |-> -amount]
CreditNoteLines(o) == [SALES |-> invoice[o].total, AR |-> -Reduction(o), ADVANCES |-> -Released(o)]
ChargeLines        == [AR |-> Charge, CHARGES |-> -Charge]

Lines(s, kind) ==
    CASE kind = "walk_in_sale" -> WalkInLines(Total(s))
      [] kind = "invoice_ar"   -> ReceivableLines(Total(s))
      [] kind = "customer_advance_application" -> AdvanceLines(tx[s].plan.advance)
      [] kind = "payment_allocation"  -> ReceiptLines(tx[s].plan.tender)
      [] kind = "credit_note"         -> CreditNoteLines(tx[s].order)
      [] kind = "cancellation_charge" -> ChargeLines

\* A walk-in sale is posted on its invoice's date, a cancellation on the date settled for it,
\* anything else on the day it is posted.  The period is shared and must be open.
PostingDate(s, kind) ==
    IF kind \in {"walk_in_sale", "credit_note", "cancellation_charge"} THEN tx[s].date ELSE today

\* (Mutant: the period is read and not locked.)
PostUnshared(s, kind) ==
    /\ Doing(s, kind)
    /\ LET day == PostingDate(s, kind) IN
       /\ period[day] = "OPEN"
       /\ Step(s, [tx[s] EXCEPT !.entries = Book(@, day, Lines(s, kind))])

Post(s, kind) ==
    /\ Doing(s, kind)
    /\ LET day == PostingDate(s, kind) IN
       /\ period[day] = "OPEN"
       /\ Step(s, [tx[s] EXCEPT !.shares = @ \cup {day},
                                !.entries = Book(@, day, Lines(s, kind))])

-----------------------------------------------------------------------------
(* They end.                                                               *)

Rollback(s) ==
    /\ Open(s)
    /\ tx' = [tx EXCEPT ![s] = None] /\ Acted(s)
    /\ UNCHANGED <<order, documents, credit, books, period, today>>

\* Cash is final at once; other tenders need not be, nor what an advance came from.
StatusOf(total, p, final) ==
    CASE p.tender + p.advance = 0 -> "UNPAID"
      [] p.tender + p.advance < total -> "PARTIAL"
      [] OTHER -> IF final THEN "SETTLED" ELSE "PAID"

CancelledStatus(total, paid) ==
    IF paid = 0 THEN "CANCELLED" ELSE IF paid = total THEN "REFUNDED" ELSE "PARTIALLY_REFUNDED"

\* The order with its number, and its invoice.
Confirmed(s) == [order[tx[s].order] EXCEPT !.status = "CONFIRMED", !.version = @ + 1,
                                           !.number = tx[s].numbers["ORDER"]]
Issued(s, final) == [number |-> tx[s].numbers["INVOICE"], total |-> Total(s),
                     paid |-> tx[s].plan.tender + tx[s].plan.advance,
                     status |-> StatusOf(Total(s), tx[s].plan, final), mode |-> tx[s].mode]

CommitSale(s) ==
    LET o == tx[s].order
        p == tx[s].plan IN
    /\ order' = [order EXCEPT ![o] = Confirmed(s)]
    /\ \E final \in BOOLEAN : invoice' = [invoice EXCEPT ![o] = Issued(s, final)]
    /\ UNCHANGED <<note, charge>>
    /\ IF Customer(s) = None THEN UNCHANGED <<outstanding, advances>>
       ELSE /\ outstanding' = [outstanding EXCEPT ![Customer(s)] = @ + Owing(Total(s), p)]
            /\ advances' = [advances EXCEPT ![Customer(s)] = @ - p.advance]

\* (Mutant: the whole invoice is taken off.)
DebtOfTotal(s) ==
    (IF tx[s].numbers["CANCELLATION_CHARGE"] > 0 THEN Charge ELSE 0)
  - (IF tx[s].numbers["CREDIT_NOTE"] > 0 THEN invoice[tx[s].order].total ELSE 0)

Debt(s) ==
    (IF tx[s].numbers["CANCELLATION_CHARGE"] > 0 THEN Charge ELSE 0)
  - (IF tx[s].numbers["CREDIT_NOTE"] > 0 THEN Reduction(tx[s].order) ELSE 0)

CommitCancel(s) ==
    LET o == tx[s].order IN
    /\ order' = [order EXCEPT ![o].status = "CANCELLED", ![o].version = @ + 1]
    /\ note' = [note EXCEPT ![o] = tx[s].numbers["CREDIT_NOTE"]]
    /\ charge' = [charge EXCEPT ![o] = tx[s].numbers["CANCELLATION_CHARGE"]]
    /\ IF Customer(s) = None THEN UNCHANGED outstanding
       ELSE outstanding' = [outstanding EXCEPT ![Customer(s)] = @ + Debt(s)]
    /\ IF invoice[o] = None THEN UNCHANGED <<invoice, advances>>
       ELSE /\ invoice' = [invoice EXCEPT ![o].status = CancelledStatus(invoice[o].total, invoice[o].paid)]
            /\ advances' = [advances EXCEPT ![Customer(s)] = @ + Released(o)]

Commit(s) ==
    /\ Open(s) /\ tx[s].todo = <<>>
    /\ IF tx[s].plan = None THEN CommitCancel(s) ELSE CommitSale(s)
    /\ counter' = [t \in DocumentTypes |-> IF tx[s].numbers[t] > 0 THEN tx[s].numbers[t] + 1
                                           ELSE counter[t]]
    /\ journal' = [d \in 1..Days |-> [a \in Ledger |-> journal[d][a] + tx[s].entries[d][a]]]
    /\ tx' = [tx EXCEPT ![s] = None] /\ Acted(s)
    /\ UNCHANGED <<credit, period, today>>

-----------------------------------------------------------------------------

Init ==
    /\ order = [o \in Orders |-> None] /\ invoice = [o \in Orders |-> None]
    /\ note = [o \in Orders |-> 0] /\ charge = [o \in Orders |-> 0]
    /\ counter = [t \in DocumentTypes |-> 1]
    /\ credit = [c \in Customers |-> [version |-> 1, enabled |-> FirstTerms.enabled,
                                   limit |-> FirstTerms.limit]]
    /\ outstanding = [c \in Customers |-> 0] /\ advances = [c \in Customers |-> 0]
    /\ journal = NoEntries /\ period = [d \in 1..Days |-> "OPEN"] /\ today = 1
    /\ seen = [s \in Slots |-> None] /\ tx = [s \in Slots |-> None]

Draft(s, o) ==
    \/ \E c \in Associations, n \in Totals : Edit(s, o, c, n)
    \/ Hold(s, o) \/ Resume(s, o)
    \/ StartSale(s, o)
    \/ \E charged \in BOOLEAN, date \in Closing \cup {None} :
          /\ charged \/ date = None
          /\ CancelDraft(s, o, charged, date) \/ CancelInvoiced(s, o, charged, date)

Proceed(s) ==
    \/ LockAccount(s)
    \/ \E t \in DocumentTypes : Allocate(s, t)
    \/ \E k \in Kinds : Post(s, k)
    \/ Commit(s)
    \/ Rollback(s)

Next ==
    \/ \E o \in Orders, c \in Customers \cup {None}, n \in Totals : Create(o, c, n)
    \/ \E s \in Slots :
          \/ ~Open(s) /\ \/ \E x \in Orders \cup Customers : Look(s, x)
                         \/ \E o \in Orders : Draft(s, o)
                         \/ \E c \in Customers, terms \in Terms : ConfigureCredit(s, c, terms)
          \/ Open(s) /\ Proceed(s)
    \/ NextDay
    \/ \E day \in Closing : ClosePeriod(day)

Spec == Init /\ [][Next]_vars

-----------------------------------------------------------------------------
(* What must hold.                                                         *)

\* The rows are rows of their tables.
TypeOK ==
    /\ order \in [Orders -> OrderRows \cup {None}]
    /\ invoice \in [Orders -> InvoiceRows \cup {None}]
    /\ note \in [Orders -> Nat] /\ charge \in [Orders -> Nat]
    /\ counter \in [DocumentTypes -> Nat \ {0}]
    /\ credit \in [Customers -> CreditRows]
    /\ outstanding \in [Customers -> Int] /\ advances \in [Customers -> Int]
    /\ journal \in Sums
    /\ period \in [1..Days -> {"OPEN", "CLOSED"}] /\ today \in 1..Days
    /\ seen \in [Slots -> SeenRows \cup {None}]
    /\ tx \in [Slots -> Transactions \cup {None}]

\* Numbers are gapless and unique under rollback (allocateNumber, four copies of it): the
\* documents of a type that exist bear exactly the numbers up to the counter, one each.
NumberOf(type, o) ==
    CASE type = "ORDER"       -> IF order[o] = None THEN 0 ELSE order[o].number
      [] type = "INVOICE"     -> IF invoice[o] = None THEN 0 ELSE invoice[o].number
      [] type = "CREDIT_NOTE" -> note[o]
      [] type = "CANCELLATION_CHARGE" -> charge[o]
Gapless ==
    \A type \in DocumentTypes :
        LET numbered == {o \in Orders : NumberOf(type, o) > 0} IN
        /\ {NumberOf(type, o) : o \in numbered} = 1..(counter[type] - 1)
        /\ \A o, p \in numbered : NumberOf(type, o) = NumberOf(type, p) => o = p

\* A sale on credit stands within the limit of the account at the moment it commits, unless the
\* limit was overridden; and no credit is given to a customer it is disabled for
\* (lockAndAuthorizeCredit, and assertExposureProjection at the end of the sale).
CreditIsAuthorized ==
    [][\A o \in Orders : invoice[o] = None /\ invoice'[o] # None =>
          LET c == order[o].customer IN
          invoice'[o].mode # None =>
             /\ credit[c].enabled
             /\ invoice'[o].mode = "NORMAL" /\ credit[c].limit # None
                   => outstanding'[c] <= credit[c].limit]_vars

\* Whatever changes an order or a credit configuration was decided by somebody who had seen
\* exactly the row that is changed (expectedVersion).
ActsOnWhatWasSeen ==
    [][\A x \in Orders \cup Customers : Row(x) # None /\ Row(x)' # Row(x) =>
          \E s \in Slots : seen[s] = [of |-> x, row |-> Row(x)] /\ seen'[s] = None]_vars

\* The entries of a closed period never change (findOpenForPostingDate, close).
ClosedPeriodIsFrozen ==
    [][\A day \in 1..Days : period[day] = "CLOSED" =>
          journal'[day] = journal[day]]_vars

\* The general ledger says what the documents say, and the accounts say what they owe: debts and
\* advances of the customers, and the revenue of the sales that were not taken back.
Balance(a) == SumFunction([d \in 1..Days |-> journal[d][a]])
Stands(o)  == invoice[o] # None /\ note[o] = 0
Standing   == {o \in Orders : Stands(o)}
Invoiced(c) == {o \in Orders : Stands(o) /\ order[o].customer = c}
Charged(c)  == {o \in Orders : charge[o] > 0 /\ order[o].customer = c}
BooksAgree ==
    /\ \A c \in Customers :
          outstanding[c] = SumFunction([o \in Invoiced(c) |-> Reduction(o)])
                         + Charge * Cardinality(Charged(c))
    /\ Balance("AR") = SumFunction(outstanding)
    /\ -Balance("ADVANCES") = SumFunction(advances)
    /\ -Balance("SALES") = SumFunction([o \in Standing |-> invoice[o].total])
=============================================================================
