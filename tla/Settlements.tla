---------------------------- MODULE Settlements ----------------------------
(***************************************************************************)
(* What a payment provider pays out, matched against the payments it has   *)
(* collected (apps/api/src/modules/settlements): batches of lines are      *)
(* drafted, matched, reviewed and finalized; a payment that finalized      *)
(* batches cover in full is final, and invoices covered by final sources   *)
(* alone are promoted from PAID to SETTLED.                                *)
(*                                                                         *)
(* Transactions take their row locks one by one, in the order of the lock  *)
(* graph of payments/payment-target-lock.repository.ts, and hold them to   *)
(* their end; they read what others have committed meanwhile.  Their last  *)
(* reads and their commit are two steps.  A draft is edited in one step:   *)
(* the only lock is the batch's.                                           *)
(***************************************************************************)
EXTENDS Integers, Sequences, FiniteSets, SequencesExt

CONSTANTS
    Slots,         \* transactions that may be open at a time
    Batches,       \* settlement batches
    LinesOf,       \* amounts of a batch's lines, in the order they are entered
    GrossOf,       \* gross amounts that a batch is given
    MaxVersion,    \* bound: version of a batch
    Invoices,      \* issued invoices of one customer
    TotalOf,       \* the total of an invoice
    Payments,      \* payments that may come to exist
    AmountOf,      \* the amount of a payment
    MethodOf,      \* its tender
    MaxAdvances,   \* bound: advances
    IdOf,          \* the ids of invoices and payments, as they sort
    AgeOf,         \* the place of an invoice's receivable among those of the account, by age
    Inherited,     \* cash payments of before there were settlements, and the invoices they paid
    Account,       \* the customer's account row
    None

Advances == 1..MaxAdvances
Provider == {"ONLINE_GATEWAY", "CARD_TERMINAL"}
Methods  == {"CASH", "BANK_TRANSFER", "OTHER_MANUAL"} \cup Provider
Rows     == Batches \cup Invoices \cup {Account} \cup Payments \cup Advances
Statuses == {"UNPAID", "PARTIAL", "PAID", "SETTLED", "CANCELLED"}

LineRows    == [amount : Nat \ {0}, match : Payments \cup {None}]
BatchRows   == [state : {None, "DRAFT", "FINALIZED"}, version : Nat, gross : Nat,
                lines : Seq(LineRows)]
AdvanceRows == [source : {"PAYMENT", "CREDIT_NOTE"}, payment : Payments, amount : Nat \ {0}]

Requests ==
    [kind : {"FINALIZE"}, batch : Batches, view : BatchRows]
        \cup [kind : {"PAY"}, payment : Payments, targets : Seq(Invoices)]
        \cup [kind : {"APPLY"}, advance : Advances, invoice : Invoices]
        \cup [kind : {"CONVERT"}, payment : Payments]
        \cup [kind : {"REFUND"}, advance : Advances]
        \cup [kind : {"CANCEL", "RECONCILE"}, invoice : Invoices]
Phases   == {"BATCH", "INVOICES", "PAYMENTS", "ADVANCES", "READ", "COMMIT"}
Verdicts == {None} \cup Statuses \cup (SUBSET Invoices)
                \cup [Invoices -> [amount : Nat, status : Statuses]]

\* An open transaction: its request, where it is, the rows it still has to lock, the
\* rows it holds, the invoices it has found and what it has decided.
Transactions == [op : Requests, phase : Phases, want : Seq(Rows), have : SUBSET Rows,
                 found : SUBSET Invoices, verdict : Verdicts]

ASSUME SettlementsAssumption ==
    /\ IsFiniteSet(Slots) /\ IsFiniteSet(Batches)
    /\ IsFiniteSet(Invoices) /\ IsFiniteSet(Payments)
    /\ LinesOf \in [Batches -> Seq(Nat \ {0})]
    /\ GrossOf \in [Batches -> SUBSET (Nat \ {0})]
    /\ MaxVersion \in Nat /\ MaxAdvances \in Nat
    /\ TotalOf \in [Invoices -> Nat \ {0}]
    /\ AmountOf \in [Payments -> Nat \ {0}]
    /\ MethodOf \in [Payments -> Methods]
    /\ IdOf \in [Invoices \cup Payments -> Nat] /\ IsInjective(IdOf)
    /\ AgeOf \in [Invoices -> Nat] /\ IsInjective(AgeOf)
    /\ IsInjective(Inherited)
    /\ \A q \in DOMAIN Inherited : /\ q \in Payments /\ MethodOf[q] = "CASH"
                                   /\ Inherited[q] \in Invoices
                                   /\ AmountOf[q] = TotalOf[Inherited[q]]
    /\ Batches \cap (Invoices \cup {Account} \cup Payments \cup Advances) = {}
    /\ Invoices \cap ({Account} \cup Payments \cup Advances) = {}
    /\ Payments \cap ({Account} \cup Advances) = {} /\ Account \notin Advances
    /\ "REFUNDED" \notin Invoices
    /\ None \notin Invoices \cup Payments \cup {"DRAFT", "FINALIZED", "REFUNDED"}
    /\ None \notin Transactions

VARIABLES
    batch,     \* the settlement_batch rows with their lines
    status,    \* invoicePaymentStatus; CANCELLED stands for its three terminal values
    alloc,     \* payment_allocation
    received,  \* payments that exist
    advances,  \* the customer_advance rows with the payment they come from
    used,      \* what became of an advance: the invoice it covers, "REFUNDED" or None
    tx         \* the open transactions

vars == <<batch, status, alloc, received, advances, used, tx>>
money == <<alloc, received, advances, used>>

-----------------------------------------------------------------------------
(* Rows.                                                                   *)

\* The members of S in the order of their keys.
Sorted(S, key) ==
    [k \in 1..Cardinality(S) |->
       CHOOSE x \in S : Cardinality({y \in S : key[y] < key[x]}) = k - 1]
Ascending(S) == Sorted(S, IdOf)

Total(lines, S) == SumFunction([k \in S |-> lines[k].amount])
Lines(b)        == batch[b].lines
Matched(lines)  == {lines[k].match : k \in DOMAIN lines}
Finalized       == {b \in Batches : batch[b].state = "FINALIZED"}

\* What the batches in B settle of payment q.
SettledBy(q, B) ==
    SumFunction([b \in B |-> Total(Lines(b), {k \in DOMAIN Lines(b) : Lines(b)[k].match = q})])

PaymentFinal(q, B) == CASE MethodOf[q] \in {"CASH", "BANK_TRANSFER"} -> TRUE
                        [] MethodOf[q] = "OTHER_MANUAL" -> FALSE
                        [] OTHER -> SettledBy(q, B) = AmountOf[q]

\* The payments behind the coverage of invoice i, through advances too.
AppliedTo(i) == {a \in DOMAIN advances : used[a] = i}
SourcesOf(i) == {q \in Payments : alloc[i][q] > 0} \cup {advances[a].payment : a \in AppliedTo(i)}
AllFinal(i, B) == \A q \in SourcesOf(i) : PaymentFinal(q, B)

Allocated(i) == SumFunction([q \in Payments |-> alloc[i][q]])
Covered(i)   == Allocated(i) + SumFunction([a \in AppliedTo(i) |-> advances[a].amount])
Room(i)      == IF status[i] = "CANCELLED" THEN 0 ELSE TotalOf[i] - Covered(i)

\* The status when coverage by payment q is added to i, with what is final now.
StatusWith(i, amount, q) ==
    CASE amount = 0 -> status[i]
      [] Covered(i) + amount < TotalOf[i] -> "PARTIAL"
      [] OTHER -> IF AllFinal(i, Finalized) /\ PaymentFinal(q, Finalized)
                  THEN "SETTLED" ELSE "PAID"

-----------------------------------------------------------------------------
(* Transactions and row locks.                                             *)

Open(s)   == tx[s] # None
Holder(r) == {s \in Slots : Open(s) /\ r \in tx[s].have}
Free(r)   == Holder(r) = {}
Ready(s, phase) == Open(s) /\ tx[s].phase = phase /\ tx[s].want = <<>>

Opened(op, phase, want, have) ==
    [op |-> op, phase |-> phase, want |-> want, have |-> have, found |-> {}, verdict |-> None]

\* A transaction begins.  (One that waits for its first lock has read nothing that
\* it uses later, so it may as well begin when it has it.)
Begin(s, op, phase, want) ==
    /\ Free(Head(want))
    /\ tx' = [tx EXCEPT ![s] = Opened(op, phase, Tail(want), {Head(want)})]
    /\ UNCHANGED <<batch, status, money>>

\* One row lock; a transaction waits as long as another holds the row.
Lock(s) ==
    /\ Open(s) /\ tx[s].want # <<>>
    /\ Holder(Head(tx[s].want)) \subseteq {s}
    /\ tx' = [tx EXCEPT ![s].have = @ \cup {Head(tx[s].want)}, ![s].want = Tail(@)]
    /\ UNCHANGED <<batch, status, money>>

GoOn(s, phase, want) ==
    /\ tx' = [tx EXCEPT ![s].phase = phase, ![s].want = want]
    /\ UNCHANGED <<batch, status, money>>

End(s) == tx' = [tx EXCEPT ![s] = None]

Rollback(s) == End(s) /\ UNCHANGED <<batch, status, money>>

\* Transactions that wait for each other in a circle; PostgreSQL aborts one of them.
WaitsFor(s, t) == Open(s) /\ tx[s].want # <<>> /\ t \in Holder(Head(tx[s].want)) \ {s}
Circle(S) ==
    S # {} /\ \A s \in S : (\E t \in S : WaitsFor(s, t)) /\ (\E t \in S : WaitsFor(t, s))

Abort(s) == (\E S \in SUBSET Slots : s \in S /\ Circle(S)) /\ Rollback(s)

-----------------------------------------------------------------------------
(* Drafts.                                                                 *)

\* The company is new, or comes with paid invoices.
Init ==
    /\ batch = [b \in Batches |-> [state |-> None, version |-> 0, gross |-> 0, lines |-> <<>>]]
    /\ received \in SUBSET DOMAIN Inherited
    /\ alloc = [i \in Invoices |-> [q \in Payments |->
                  IF q \in received /\ Inherited[q] = i THEN AmountOf[q] ELSE 0]]
    /\ status = [i \in Invoices |->
                  IF \E q \in received : Inherited[q] = i THEN "PAID" ELSE "UNPAID"]
    /\ advances = <<>>
    /\ used = [a \in Advances |-> None]
    /\ tx = [s \in Slots |-> None]

CreateBatch(b, gross) ==
    /\ batch[b].state = None
    /\ batch' = [batch EXCEPT ![b] = [state |-> "DRAFT", version |-> 1, gross |-> gross,
                                      lines |-> <<>>]]
    /\ UNCHANGED <<status, money, tx>>

\* Every change of a draft holds the batch's lock, is refused unless its
\* expected version is the current one, and makes the next version.
ChangeQuietly(b, gross, lines) ==
    /\ batch[b].state = "DRAFT" /\ Free(b)
    /\ batch' = [batch EXCEPT ![b].gross = gross, ![b].lines = lines]
    /\ UNCHANGED <<status, money, tx>>

Change(b, gross, lines) ==
    /\ batch[b].state = "DRAFT" /\ Free(b)
    /\ batch[b].version < MaxVersion
    /\ batch' = [batch EXCEPT ![b].version = @ + 1, ![b].gross = gross, ![b].lines = lines]
    /\ UNCHANGED <<status, money, tx>>

EditBatch(b, gross) == gross # batch[b].gross /\ Change(b, gross, Lines(b))

\* The payment a line's provider reference leads to, if it is there already.
Eligible(q) == q \in received /\ MethodOf[q] \in Provider
Entered(b, n, match) ==
    [k \in 1..n |-> IF k \in DOMAIN Lines(b) THEN Lines(b)[k]
                    ELSE [amount |-> LinesOf[b][k], match |-> match]]

\* A line that is added is matched by its reference; imported lines are not.
AddLine(b) ==
    /\ Len(Lines(b)) < Len(LinesOf[b])
    /\ \E q \in {p \in Payments : Eligible(p)} \cup {None} :
          Change(b, batch[b].gross, Entered(b, Len(Lines(b)) + 1, q))

ImportCsv(b) ==
    /\ Len(Lines(b)) < Len(LinesOf[b])
    /\ Change(b, batch[b].gross, Entered(b, Len(LinesOf[b]), None))

\* The reference to the payment locks its row against a FOR UPDATE.
MatchLine(b, k, q) ==
    /\ k \in DOMAIN Lines(b) /\ Lines(b)[k].match = None
    /\ Eligible(q) /\ Free(q)
    /\ Change(b, batch[b].gross, [Lines(b) EXCEPT ![k].match = q])

UnmatchLine(b, k) ==
    /\ k \in DOMAIN Lines(b) /\ Lines(b)[k].match # None
    /\ Change(b, batch[b].gross, [Lines(b) EXCEPT ![k].match = None])

-----------------------------------------------------------------------------
(* Finalization.                                                           *)

Finalization(s) == Open(s) /\ tx[s].op.kind = "FINALIZE"
BatchOf(s)      == tx[s].op.batch
Payees(s)       == Matched(Lines(BatchOf(s)))

\* Invoices that the payments in Q reach, directly or through advances.
Discover(Q) == {i \in Invoices : SourcesOf(i) \cap Q # {}}
Funded(Q)   == {a \in DOMAIN advances : advances[a].payment \in Q}

\* Under the batch's lock: a draft of the expected version whose lines are all
\* matched and add up.
Complete(b, expected) ==
    /\ batch[b].state = "DRAFT" /\ batch[b].version = expected
    /\ Lines(b) # <<>> /\ None \notin Matched(Lines(b))
    /\ Total(Lines(b), DOMAIN Lines(b)) = batch[b].gross

\* Somebody has looked at the batch and asks for the finalization of what they saw;
\* the request carries its version.  (A request for what is not complete is refused,
\* whatever happens before it has the lock.)
RequestFinalization(s, b) ==
    /\ Complete(b, batch[b].version)
    /\ tx' = [tx EXCEPT ![s] = Opened([kind |-> "FINALIZE", batch |-> b, view |-> batch[b]],
                                      "BATCH", <<b>>, {})]
    /\ UNCHANGED <<batch, status, money>>

\* The invoices are looked up before they are locked.
LockInvoices(s) ==
    /\ Ready(s, "BATCH")
    /\ IF Complete(BatchOf(s), tx[s].op.view.version)
       THEN /\ tx' = [tx EXCEPT ![s].phase = "INVOICES", ![s].found = Discover(Payees(s)),
                                ![s].want = Ascending(Discover(Payees(s)))]
            /\ UNCHANGED <<batch, status, money>>
       ELSE Rollback(s)

LockPayments(s) == Ready(s, "INVOICES") /\ GoOn(s, "PAYMENTS", Ascending(Payees(s)))

LockAdvances(s) ==
    /\ Ready(s, "PAYMENTS")
    /\ GoOn(s, "ADVANCES", Sorted(Funded(Payees(s)), [a \in Advances |-> a]))

\* Once everything is locked the invoices are looked up again; more of them than
\* before, or a payment settled beyond its amount, and nothing happens.
CapacityOfOneBatch(b) == \A q \in Matched(Lines(b)) : SettledBy(q, {b}) <= AmountOf[q]
Capacity(b) == \A q \in Matched(Lines(b)) : SettledBy(q, Finalized \cup {b}) <= AmountOf[q]

ConfirmFirstLook(s) ==
    /\ Ready(s, "ADVANCES")
    /\ IF Capacity(BatchOf(s))
       THEN /\ tx' = [tx EXCEPT ![s].phase = "COMMIT",
                        ![s].verdict = {i \in tx[s].found :
                           status[i] = "PAID" /\ AllFinal(i, Finalized \cup {BatchOf(s)})}]
            /\ UNCHANGED <<batch, status, money>>
       ELSE Rollback(s)

Confirm(s) ==
    /\ Ready(s, "ADVANCES")
    /\ IF Discover(Payees(s)) \subseteq tx[s].found /\ Capacity(BatchOf(s))
       THEN /\ tx' = [tx EXCEPT ![s].phase = "COMMIT",
                        ![s].verdict = {i \in tx[s].found :
                           status[i] = "PAID" /\ AllFinal(i, Finalized \cup {BatchOf(s)})}]
            /\ UNCHANGED <<batch, status, money>>
       ELSE Rollback(s)

CommitFinalization(s) ==
    /\ Finalization(s) /\ Ready(s, "COMMIT")
    /\ batch' = [batch EXCEPT ![BatchOf(s)].state = "FINALIZED",
                              ![BatchOf(s)].version = @ + 1]
    /\ status' = [i \in Invoices |-> IF i \in tx[s].verdict THEN "SETTLED" ELSE status[i]]
    /\ End(s)
    /\ UNCHANGED money

-----------------------------------------------------------------------------
(* The transactions that cover invoices.                                   *)

\* The provider captured q for invoice i, or a receipt of q pays what is open.
\* (The candidates of a receipt are all invoices; the closed ones get nothing.)
Busy(q) == \E s \in Slots : Open(s) /\ tx[s].op.kind = "PAY" /\ tx[s].op.payment = q
Pay(s, q, targets) ==
    /\ q \notin received \cup DOMAIN Inherited /\ ~Busy(q)
    /\ Begin(s, [kind |-> "PAY", payment |-> q, targets |-> targets],
             "READ", Append(targets, Account))

Capture(s, q, i) == MethodOf[q] \in Provider /\ Room(i) > 0 /\ Pay(s, q, <<i>>)
Receipt(s, q)    == MethodOf[q] \notin Provider /\ Pay(s, q, Sorted(Invoices, AgeOf))

\* Oldest first; a capture goes to its invoice as a whole or not at all.
Ahead(targets, i) ==
    SumFunction([j \in {t \in Range(targets) : AgeOf[t] < AgeOf[i]} |-> Room(j)])
Share(q, targets, i) ==
    IF i \notin Range(targets) THEN 0
    ELSE LET left == AmountOf[q] - Ahead(targets, i)
         IN  IF left <= 0 THEN 0 ELSE IF Room(i) < left THEN Room(i) ELSE left

DecidePay(s) ==
    /\ Ready(s, "READ") /\ tx[s].op.kind = "PAY"
    /\ LET q == tx[s].op.payment
           share == [i \in Invoices |-> Share(q, tx[s].op.targets, i)]
       IN  IF MethodOf[q] \in Provider /\ AmountOf[q] > Room(Head(tx[s].op.targets))
           THEN Rollback(s)
           ELSE /\ tx' = [tx EXCEPT ![s].phase = "COMMIT",
                            ![s].verdict = [i \in Invoices |->
                              [amount |-> share[i], status |-> StatusWith(i, share[i], q)]]]
                /\ UNCHANGED <<batch, status, money>>

CommitPay(s) ==
    /\ Ready(s, "COMMIT") /\ tx[s].op.kind = "PAY"
    /\ LET q == tx[s].op.payment
       IN  /\ received' = received \cup {q}
           /\ alloc' = [i \in Invoices |-> [alloc[i] EXCEPT ![q] = tx[s].verdict[i].amount]]
    /\ status' = [i \in Invoices |-> IF tx[s].verdict[i].amount > 0
                                     THEN tx[s].verdict[i].status ELSE status[i]]
    /\ End(s)
    /\ UNCHANGED <<batch, advances, used>>

\* An advance pays off an invoice (here: as a whole).
ApplyAdvance(s, a, i) ==
    /\ a \in DOMAIN advances /\ used[a] = None /\ Room(i) > 0
    /\ Begin(s, [kind |-> "APPLY", advance |-> a, invoice |-> i], "READ", <<i, Account, a>>)

DecideApply(s) ==
    /\ Ready(s, "READ") /\ tx[s].op.kind = "APPLY"
    /\ LET a == tx[s].op.advance
           i == tx[s].op.invoice
       IN  IF used[a] # None \/ advances[a].amount > Room(i) THEN Rollback(s)
           ELSE /\ tx' = [tx EXCEPT ![s].phase = "COMMIT",
                            ![s].verdict = StatusWith(i, advances[a].amount, advances[a].payment)]
                /\ UNCHANGED <<batch, status, money>>

CommitApply(s) ==
    /\ Ready(s, "COMMIT") /\ tx[s].op.kind = "APPLY"
    /\ used' = [used EXCEPT ![tx[s].op.advance] = tx[s].op.invoice]
    /\ status' = [status EXCEPT ![tx[s].op.invoice] = tx[s].verdict]
    /\ End(s)
    /\ UNCHANGED <<batch, alloc, received, advances>>

\* What a receipt left over becomes an advance.
Left(q) == AmountOf[q] - SumFunction([i \in Invoices |-> alloc[i][q]])
             - SumFunction([a \in {b \in DOMAIN advances : /\ advances[b].payment = q
                                                          /\ advances[b].source = "PAYMENT"}
                             |-> advances[a].amount])
Convert(s, q) ==
    /\ q \in received /\ Left(q) > 0
    /\ Begin(s, [kind |-> "CONVERT", payment |-> q], "COMMIT", <<Account, q>>)

CommitConvert(s) ==
    /\ Ready(s, "COMMIT") /\ tx[s].op.kind = "CONVERT"
    /\ LET q == tx[s].op.payment
       IN  IF Left(q) <= 0 \/ Len(advances) = MaxAdvances THEN Rollback(s)
           ELSE /\ advances' = Append(advances,
                                 [source |-> "PAYMENT", payment |-> q, amount |-> Left(q)])
                /\ End(s)
                /\ UNCHANGED <<batch, status, alloc, received, used>>

\* An advance of a credit note is paid out.
Refund(s, a) ==
    /\ a \in DOMAIN advances /\ used[a] = None /\ advances[a].source = "CREDIT_NOTE"
    /\ Begin(s, [kind |-> "REFUND", advance |-> a], "COMMIT", <<Account, a>>)

CommitRefund(s) ==
    /\ Ready(s, "COMMIT") /\ tx[s].op.kind = "REFUND"
    /\ IF used[tx[s].op.advance] # None THEN Rollback(s)
       ELSE /\ used' = [used EXCEPT ![tx[s].op.advance] = "REFUNDED"]
            /\ End(s)
            /\ UNCHANGED <<batch, status, alloc, received, advances>>

-----------------------------------------------------------------------------
(* Cancellation.                                                           *)

\* Defect: the account is locked before the invoice.
CancelAccountFirst(s, i) ==
    /\ status[i] # "CANCELLED"
    /\ Begin(s, [kind |-> "CANCEL", invoice |-> i], "READ", <<Account, i>>)

Cancel(s, i) == /\ status[i] # "CANCELLED"
                /\ Begin(s, [kind |-> "CANCEL", invoice |-> i], "READ", <<i, Account>>)

\* Every source of coverage becomes an advance that refers to its payment, and
\* the reference locks the payment against a FOR UPDATE.
Releases(i) ==
      {[source |-> "CREDIT_NOTE", payment |-> q, amount |-> alloc[i][q]] :
          q \in {p \in Payments : alloc[i][p] > 0}}
 \cup {[source |-> "CREDIT_NOTE", payment |-> advances[a].payment,
        amount |-> advances[a].amount] : a \in AppliedTo(i)}

DecideCancel(s) ==
    /\ Ready(s, "READ") /\ tx[s].op.kind = "CANCEL"
    /\ LET i == tx[s].op.invoice
       IN  IF \/ status[i] \notin {"UNPAID", "PARTIAL", "PAID"}
              \/ Len(advances) + Cardinality(Releases(i)) > MaxAdvances
           THEN Rollback(s)
           ELSE GoOn(s, "COMMIT", Ascending(SourcesOf(i)))

CommitCancel(s) ==
    /\ Ready(s, "COMMIT") /\ tx[s].op.kind = "CANCEL"
    /\ advances' = advances \o SetToSeq(Releases(tx[s].op.invoice))
    /\ status' = [status EXCEPT ![tx[s].op.invoice] = "CANCELLED"]
    /\ End(s)
    /\ UNCHANGED <<batch, alloc, received, used>>

-----------------------------------------------------------------------------
(* Historical reconciliation: the script looks for PAID invoices, reads    *)
(* their coverage without a lock, and updates the row by its id.           *)

Reconcile(s, i) ==
    /\ status[i] = "PAID"
    /\ tx' = [tx EXCEPT ![s] = Opened([kind |-> "RECONCILE", invoice |-> i], "READ", <<>>, {})]
    /\ UNCHANGED <<batch, status, money>>

ReadCoverage(s) ==
    /\ Ready(s, "READ") /\ tx[s].op.kind = "RECONCILE"
    /\ IF AllFinal(tx[s].op.invoice, Finalized)
       THEN GoOn(s, "COMMIT", <<tx[s].op.invoice>>)
       ELSE Rollback(s)

CommitReconciliation(s) ==
    /\ Ready(s, "COMMIT") /\ tx[s].op.kind = "RECONCILE"
    /\ status' = [status EXCEPT ![tx[s].op.invoice] = "SETTLED"]
    /\ End(s)
    /\ UNCHANGED <<batch, money>>

-----------------------------------------------------------------------------
Draft(b) ==
    \/ \E gross \in GrossOf[b] : CreateBatch(b, gross) \/ EditBatch(b, gross)
    \/ AddLine(b) \/ ImportCsv(b)
    \/ \E k \in DOMAIN Lines(b) : UnmatchLine(b, k) \/ \E q \in Payments : MatchLine(b, k, q)

Start(s) ==
    /\ ~Open(s)
    /\ \/ \E b \in Batches : RequestFinalization(s, b)
       \/ \E q \in Payments : Receipt(s, q) \/ Convert(s, q) \/ \E i \in Invoices : Capture(s, q, i)
       \/ \E a \in Advances : Refund(s, a) \/ \E i \in Invoices : ApplyAdvance(s, a, i)
       \/ \E i \in Invoices : Cancel(s, i) \/ Reconcile(s, i)

Step(s) ==
    \/ Lock(s) \/ Abort(s)
    \/ LockInvoices(s) \/ LockPayments(s) \/ LockAdvances(s) \/ Confirm(s) \/ CommitFinalization(s)
    \/ DecidePay(s) \/ CommitPay(s) \/ DecideApply(s) \/ CommitApply(s)
    \/ CommitConvert(s) \/ CommitRefund(s) \/ DecideCancel(s) \/ CommitCancel(s)
    \/ ReadCoverage(s) \/ CommitReconciliation(s)

Next == (\E b \in Batches : Draft(b)) \/ \E s \in Slots : Start(s) \/ Step(s)

Spec == Init /\ [][Next]_vars

-----------------------------------------------------------------------------
(* Properties.                                                             *)

TypeOK ==
    /\ batch \in [Batches -> BatchRows]
    /\ status \in [Invoices -> Statuses]
    /\ alloc \in [Invoices -> [Payments -> Nat]]
    /\ received \in SUBSET Payments
    /\ advances \in Seq(AdvanceRows) /\ Len(advances) <= MaxAdvances
    /\ used \in [Advances -> Invoices \cup {"REFUNDED", None}]
    /\ tx \in [Slots -> Transactions \cup {None}]

\* No payment is settled beyond its amount, however many batches report it and
\* however their finalizations interleave.
NeverOversettled == \A q \in Payments : SettledBy(q, Finalized) <= AmountOf[q]

\* An invoice is SETTLED exactly when it is fully covered and all its sources are
\* final, through advances of cancelled invoices too: neither a finalization that
\* overlooks coverage which appears while it runs, nor coverage that overlooks a
\* finalization, leaves it behind.
PromotionIsExact ==
    \A i \in Invoices :
       /\ status[i] = "SETTLED" => Covered(i) = TotalOf[i] /\ AllFinal(i, Finalized)
       /\ status[i] = "PAID" /\ SourcesOf(i) \cap DOMAIN Inherited = {} => ~AllFinal(i, Finalized)

\* A transaction waits for an invoice and holds one that comes later by that key.
GoesBack(s, key) ==
    /\ Open(s) /\ tx[s].want # <<>> /\ Head(tx[s].want) \in Invoices
    /\ \E i \in tx[s].have \cap Invoices : key[Head(tx[s].want)] < key[i]

\* Receipts lock invoices by age, finalizations by id, and the two can differ: a circle
\* of waiting transactions always has a receipt in it that goes back by id and a
\* finalization that goes back by age.  Nothing else the transactions do can close one.
OnlyTheTwoOrdersClash ==
    \A S \in SUBSET Slots : Circle(S) =>
       /\ \E s \in S : tx[s].op.kind = "PAY" /\ GoesBack(s, IdOf)
       /\ \E s \in S : Finalization(s) /\ GoesBack(s, AgeOf)

\* What is finalized is what its reviewer saw, line by line, although the request
\* carries no more than a version.
FinalizedAsReviewed ==
    [][\A s \in Slots : Finalization(s) /\ batch' # batch /\ tx'[s] = None =>
          /\ batch'[BatchOf(s)].lines = tx[s].op.view.lines
          /\ batch'[BatchOf(s)].gross = tx[s].op.view.gross]_vars

\* The statuses of a cancelled invoice are terminal, as receivables/
\* invoice-payment-status.ts says.
TerminalIsFinal == [][\A i \in Invoices : status[i] = "CANCELLED" => status'[i] = "CANCELLED"]_vars
=============================================================================
