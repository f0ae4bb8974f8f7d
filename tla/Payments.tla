------------------------------ MODULE Payments ------------------------------
(***************************************************************************)
(* The money side of one issued invoice (apps/api/src/modules/payments):   *)
(* direct payments, provider payment attempts with their two-phase         *)
(* initiation, the provider's webhooks with their durable inbox, and the   *)
(* other writers of the invoice's balance: customer receipts, advance      *)
(* applications and the cancellation of the invoiced order.                *)
(*                                                                         *)
(* Every writer holds the invoice row FOR UPDATE from before it reads the  *)
(* balance to its commit, so a locked transaction is one action.  What is  *)
(* read before that lock, or in an earlier transaction, is an action of    *)
(* its own.  An attempt is named by the idempotency key it was created     *)
(* under (unique index on tenant, user, key).                              *)
(***************************************************************************)
EXTENDS Integers, FiniteSets

CONSTANTS
    Keys,              \* idempotency keys of asynchronous requests
    Callers,           \* executions of POST payment-attempts
    KeyOf, AmountOf,   \* the key and the amount of a caller's request
    Total,             \* totalAmountMinor of the invoice
    Advance,           \* principal of the customer's advance
    InitiationStates,  \* states the provider gives a new intent
    ProviderStates,    \* states the provider uses at all
    Strays,            \* <<key, state>> claimed by events that do not correlate
    Processors,        \* inbox processing transactions at once: requests, recovery loops
    None,
    MaxRuns,           \* bound: executions, of all callers together
    MaxFaults          \* bound: crashes, lost replies, rollbacks, stray events

Active   == {"PENDING", "REQUIRES_ACTION", "AUTHORIZED"}
Released == {"FAILED", "CANCELED"}
States   == Active \cup Released \cup {"CAPTURED"}

\* Why an event is an EXCEPTION, and how an event can end.
Reasons == {"UNKNOWN_OR_CROSS_SCOPE_ATTEMPT", "ORDER_BINDING_MISMATCH",
            "ILLEGAL_TRANSITION", "FINANCIAL_INVARIANT_VIOLATION"}
Verdicts == {"PROCESSED"} \cup Reasons

\* What a row of payment_attempt says; fresh: its order is as it was then.
AttemptRow == [amount : Nat \ {0}, state : States, fresh : BOOLEAN]

ASSUME PaymentsAssumption ==
    /\ IsFiniteSet(Keys)
    /\ KeyOf \in [Callers -> Keys]
    /\ AmountOf \in [Callers -> Nat \ {0}]
    /\ {Total, Advance, Processors, MaxRuns, MaxFaults} \subseteq Nat
    /\ InitiationStates \subseteq ProviderStates \ {"CAPTURED"}
    /\ ProviderStates \subseteq States
    /\ Strays \subseteq Keys \X ProviderStates
    /\ None \notin States \cup {"RECEIVED"} \cup Verdicts \cup AttemptRow

VARIABLES
    \* rows of the invoice
    direct,     \* SUM of the allocations of direct payments
    captured,   \* SUM of the allocations of captured attempts
    received,   \* SUM of the allocations of customer receipts
    advanced,   \* SUM of the applications of the advance
    credited,   \* arReductionMinor of the credit note
    cancelled,  \* the order is CANCELLED, its version one higher
    attempt,    \* payment_attempt by key: [amount, state, fresh] or None
    paid,       \* number of payments whose sourceAttemptId is that attempt
    inbox,      \* provider_payment_event: status, or the reason of EXCEPTION
    \* the api processes
    pc, outcome, runs,
    handling,   \* by event, how many processing transactions have peeked at it
    \* the provider
    intent,     \* state of its intent for a key, or None
    reached,    \* states the intent has been in; each has an event
    faults

balance  == <<direct, captured, received, advanced, credited, cancelled>>
caller   == <<pc, outcome>>
provider == <<intent, reached>>
bounds   == <<runs, faults>>
vars == <<balance, attempt, paid, inbox, caller, handling, provider, bounds>>

\* Webhook events: genuine ones report a state of the intent, the others
\* claim an attempt they do not belong to.
Events == [key : Keys, target : ProviderStates, genuine : BOOLEAN]

Init ==
    /\ direct = 0 /\ captured = 0 /\ received = 0 /\ advanced = 0 /\ credited = 0
    /\ cancelled = FALSE
    /\ attempt = [k \in Keys |-> None]
    /\ paid = [k \in Keys |-> 0]
    /\ inbox = [e \in Events |-> None]
    /\ pc = [c \in Callers |-> "idle"]
    /\ outcome = [c \in Callers |-> None]
    /\ runs = 0
    /\ handling = [e \in Events |-> 0]
    /\ intent = [k \in Keys |-> None]
    /\ reached = [k \in Keys |-> {}]
    /\ faults = 0

-----------------------------------------------------------------------------
(* The balance of the invoice. *)

\* canTransitionPaymentAttempt
CanTransition(from, to) ==
    \/ from = "PENDING" /\ to # "PENDING"
    \/ from = "REQUIRES_ACTION" /\ to \notin {"PENDING", "REQUIRES_ACTION"}
    \/ from = "AUTHORIZED" /\ to = "CAPTURED"

Attempts == {k \in Keys : attempt[k] # None}

\* Attempts of the invoice that still reserve their amount.
Reserving == {k \in Attempts : attempt[k].state \in Active /\ paid[k] = 0}

\* SUM(amountMinor) over the attempts in S, as the number of minor units.
SumOf(S) == Cardinality(UNION {{k} \X (1..attempt[k].amount) : k \in S})

Reserved == SumOf(Reserving)
Covered == direct + captured + received + advanced

\* loadInvoiceBalance, computeReceivableBalance
Outstanding == Total - Covered - credited

\* Defect: the reservations of provider attempts are not subtracted.
AvailableUnreserved == IF Outstanding > 0 THEN Outstanding ELSE 0

\* computeAvailableToCollectFromOutstanding
Available ==
    IF Outstanding > Reserved THEN Outstanding - Reserved ELSE 0

-----------------------------------------------------------------------------
(* Writers of the balance that are one transaction each. *)

\* captureSynchronousTendersInTx, for the sum of its tenders.
PayDirectly(n) ==
    /\ n <= Available
    /\ direct' = direct + n
    /\ UNCHANGED <<captured, received, advanced, credited, cancelled, attempt,
                   paid, inbox, caller, handling, provider, bounds>>

\* The share of a customer receipt that FIFO gives this invoice.  It takes
\* from what is outstanding and does not look at reservations.
Receive(n) ==
    /\ n <= Outstanding
    /\ received' = received + n
    /\ UNCHANGED <<direct, captured, advanced, credited, cancelled, attempt,
                   paid, inbox, caller, handling, provider, bounds>>

\* applyAdvance: bounded by the advance and by what is outstanding.
ApplyAdvance(n) ==
    /\ n <= Outstanding
    /\ n <= Advance - advanced
    /\ advanced' = advanced + n
    /\ UNCHANGED <<direct, captured, received, credited, cancelled, attempt,
                   paid, inbox, caller, handling, provider, bounds>>

\* cancelInvoicedOrderInTx: the credit note takes the part of the total that
\* nothing covers, and the order's version moves on.
CancelOrder ==
    /\ ~cancelled
    /\ cancelled' = TRUE
    /\ credited' = Total - Covered
    /\ UNCHANGED <<direct, captured, received, advanced, attempt, paid, inbox,
                   caller, handling, provider, bounds>>

-----------------------------------------------------------------------------
(* createAsyncAttemptForBranchScoped, step by step. *)

\* The execution ends, with a response or an error.
Finish(c) ==
    /\ pc' = [pc EXCEPT ![c] = "idle"]
    /\ outcome' = [outcome EXCEPT ![c] = None]

GoTo(c, step) ==
    /\ pc' = [pc EXCEPT ![c] = step]
    /\ UNCHANGED outcome

Found(c) == attempt[KeyOf[c]] # None

\* An attempt found under the key.  Another amount is IDEMPOTENCY_KEY_REUSED,
\* a decided attempt is the response; a PENDING one goes to the provider again
\* unless its credential is not usable any more.
Reuse(c) ==
    LET a == attempt[KeyOf[c]]
    IN  \/ Finish(c)
        \/ a.amount = AmountOf[c] /\ a.state = "PENDING" /\ GoTo(c, "calling")

\* Step 1, findExistingForRecoveryInTx.
Discover(c) ==
    /\ pc[c] = "idle" /\ runs < MaxRuns
    /\ runs' = runs + 1
    /\ IF Found(c) THEN Reuse(c) ELSE GoTo(c, "configured")
    /\ UNCHANGED <<balance, attempt, paid, inbox, handling, provider, faults>>

\* Phase 1 looks the key up again before it takes any lock.
LookUp(c) ==
    /\ pc[c] = "configured"
    /\ IF Found(c) THEN Reuse(c) ELSE GoTo(c, "locking")
    /\ UNCHANGED <<balance, attempt, paid, inbox, handling, provider, bounds>>

\* Phase 1 under the locks of order and invoice: the amount must be available;
\* the INSERT gives way to an attempt that appeared since the lookup.
Reserve(c) ==
    /\ pc[c] = "locking"
    /\ IF AmountOf[c] > Available THEN Finish(c) /\ UNCHANGED attempt
       ELSE IF Found(c) THEN Reuse(c) /\ UNCHANGED attempt
       ELSE /\ attempt' = [attempt EXCEPT ![KeyOf[c]] =
                  [amount |-> AmountOf[c], state |-> "PENDING",
                   fresh |-> ~cancelled]]
            /\ GoTo(c, "calling")
    /\ UNCHANGED <<balance, paid, inbox, handling, provider, bounds>>

\* createIntent creates an intent for the attempt's identity or finds it.
Intended(k, s) ==
    IF intent[k] = None
    THEN /\ s \in InitiationStates
         /\ intent' = [intent EXCEPT ![k] = s]
         /\ reached' = [reached EXCEPT ![k] = {s}]
    ELSE s = intent[k] /\ UNCHANGED provider

\* The provider call, outside any transaction.  CAPTURED is no initiation
\* state: the outcome is unknown and the attempt stays as it is.
CallProvider(c) ==
    /\ pc[c] = "calling"
    /\ \E s \in ProviderStates :
          /\ Intended(KeyOf[c], s)
          /\ IF s = "CAPTURED" THEN Finish(c)
             ELSE /\ pc' = [pc EXCEPT ![c] = "applying"]
                  /\ outcome' = [outcome EXCEPT ![c] = s]
    /\ UNCHANGED <<balance, attempt, paid, inbox, handling, bounds>>

\* Defect: an ambiguous failure of the call releases the attempt.
CallFailsAsFailed(c) ==
    /\ pc[c] = "calling" /\ faults < MaxFaults
    /\ faults' = faults + 1
    /\ Finish(c)
    /\ UNCHANGED provider \/ \E s \in ProviderStates : Intended(KeyOf[c], s)
    /\ attempt' = [attempt EXCEPT ![KeyOf[c]].state = "FAILED"]
    /\ UNCHANGED <<balance, paid, inbox, handling, runs>>

\* The call fails although the provider may have acted on it.
CallFails(c) ==
    /\ pc[c] = "calling" /\ faults < MaxFaults
    /\ faults' = faults + 1
    /\ Finish(c)
    /\ UNCHANGED provider \/ \E s \in ProviderStates : Intended(KeyOf[c], s)
    /\ UNCHANGED <<balance, attempt, paid, inbox, handling, runs>>

\* The order has the version it had when the attempt was reserved.
Bound(a) == a.fresh = ~cancelled

\* Phase 2, applyProviderInitiationResultInTx.  A result that cannot be
\* applied is PAYMENT_PROVIDER_OUTCOME_UNKNOWN and changes nothing.
ApplyInitiation(c) ==
    LET k == KeyOf[c]
    IN  /\ pc[c] = "applying"
        /\ attempt' =
             IF Bound(attempt[k]) /\ CanTransition(attempt[k].state, outcome[c])
             THEN [attempt EXCEPT ![k].state = outcome[c]] ELSE attempt
        /\ Finish(c)
        /\ UNCHANGED <<balance, paid, inbox, handling, provider, bounds>>

\* The process dies, or a transaction of the execution rolls back.
CrashCaller(c) ==
    /\ pc[c] # "idle" /\ faults < MaxFaults
    /\ faults' = faults + 1
    /\ Finish(c)
    /\ UNCHANGED <<balance, attempt, paid, inbox, handling, provider, runs>>

-----------------------------------------------------------------------------
(* The provider decides on its intents and reports each state, any number *)
(* of times and in any order.                                              *)

ProviderMoves(k) ==
    /\ intent[k] # None
    /\ \E s \in ProviderStates :
          /\ CanTransition(intent[k], s)
          /\ intent' = [intent EXCEPT ![k] = s]
          /\ reached' = [reached EXCEPT ![k] = @ \cup {s}]
    /\ UNCHANGED <<balance, attempt, paid, inbox, caller, handling, bounds>>

Sent(e) ==
    IF e.genuine THEN e.target \in reached[e.key]
    ELSE <<e.key, e.target>> \in Strays

\* handle: the verified event is inserted RECEIVED; a redelivery finds its row.
DeliverWebhook(e) ==
    /\ Sent(e) /\ inbox[e] = None
    /\ inbox' = [inbox EXCEPT ![e] = "RECEIVED"]
    /\ e.genuine \/ faults < MaxFaults
    /\ faults' = IF e.genuine THEN faults ELSE faults + 1
    /\ UNCHANGED <<balance, attempt, paid, caller, handling, provider, runs>>

Processing == {p \in Events \X (1..Processors) : p[2] <= handling[p[1]]}

\* The call that follows the insert, a redelivery of the event, or a tick of
\* WebhookRecoveryProcessor reads the row without a lock.
PeekEvent(e) ==
    /\ inbox[e] = "RECEIVED"
    /\ Cardinality(Processing) < Processors
    /\ handling' = [handling EXCEPT ![e] = @ + 1]
    /\ UNCHANGED <<balance, attempt, paid, inbox, caller, provider, bounds>>

Finalize(e, verdict) == inbox' = [inbox EXCEPT ![e] = verdict]

Refuse(e, reason) ==
    /\ Finalize(e, reason)
    /\ UNCHANGED <<attempt, paid, captured>>

\* Defect: the attempt's own reservation is counted as another's.
DemandWithOwn(k) == SumOf(Reserving) + attempt[k].amount

\* Active reservations of the other attempts, and this one's amount.
Demand(k) == SumOf(Reserving \ {k}) + attempt[k].amount

\* applyCapture: transition, payment and allocation.
ApplyCapture(e) ==
    LET k == e.key
    IN  \/ /\ attempt[k].state = "CAPTURED"
           /\ Finalize(e, "PROCESSED")
           /\ UNCHANGED <<attempt, paid, captured>>
        \/ /\ attempt[k].state \in Released
           /\ Refuse(e, "ILLEGAL_TRANSITION")
        \/ /\ attempt[k].state \in Active /\ Demand(k) > Outstanding
           /\ Refuse(e, "FINANCIAL_INVARIANT_VIOLATION")
        \/ /\ attempt[k].state \in Active /\ Demand(k) <= Outstanding
           /\ attempt' = [attempt EXCEPT ![k].state = "CAPTURED"]
           /\ paid' = [paid EXCEPT ![k] = @ + 1]
           /\ captured' = captured + attempt[k].amount
           /\ Finalize(e, "PROCESSED")

\* applyNonCaptureTransition
ApplyTransition(e) ==
    LET k == e.key
    IN  /\ UNCHANGED <<paid, captured>>
        /\ \/ /\ attempt[k].state = e.target
              /\ Finalize(e, "PROCESSED") /\ UNCHANGED attempt
           \/ /\ CanTransition(attempt[k].state, e.target)
              /\ attempt' = [attempt EXCEPT ![k].state = e.target]
              /\ Finalize(e, "PROCESSED")
           \/ /\ attempt[k].state # e.target
              /\ ~CanTransition(attempt[k].state, e.target)
              /\ Finalize(e, "ILLEGAL_TRANSITION") /\ UNCHANGED attempt

\* Defect: what was peeked at before the locks is not read again under them.
ProcessAsPeeked(e) ==
    /\ handling[e] > 0
    /\ e.genuine /\ e.target = "CAPTURED"
    /\ handling' = [handling EXCEPT ![e] = @ - 1]
    /\ attempt' = [attempt EXCEPT ![e.key].state = "CAPTURED"]
    /\ paid' = [paid EXCEPT ![e.key] = @ + 1]
    /\ captured' = captured + attempt[e.key].amount
    /\ Finalize(e, "PROCESSED")
    /\ UNCHANGED <<direct, received, advanced, credited, cancelled, caller,
                   provider, bounds>>

\* processVerifiedInboxEventInTx under the locks of invoice, attempt and inbox
\* row, where the status is read again.
ProcessEvent(e) ==
    /\ handling[e] > 0
    /\ handling' = [handling EXCEPT ![e] = @ - 1]
    /\ IF inbox[e] # "RECEIVED"
       THEN UNCHANGED <<inbox, attempt, paid, captured>>
       ELSE \/ /\ ~e.genuine
               /\ Refuse(e, "UNKNOWN_OR_CROSS_SCOPE_ATTEMPT")
            \/ /\ e.genuine /\ ~Bound(attempt[e.key])
               /\ Refuse(e, "ORDER_BINDING_MISMATCH")
            \/ /\ e.genuine /\ Bound(attempt[e.key])
               /\ IF e.target = "CAPTURED" THEN ApplyCapture(e)
                  ELSE ApplyTransition(e)
    /\ UNCHANGED <<direct, received, advanced, credited, cancelled, caller,
                   provider, bounds>>

\* Defect: an event whose transaction failed is not offered again.
ProcessFailsForGood(e) ==
    /\ handling[e] > 0 /\ faults < MaxFaults
    /\ faults' = faults + 1
    /\ inbox' = [inbox EXCEPT ![e] = "PROCESSED"]
    /\ handling' = [handling EXCEPT ![e] = @ - 1]
    /\ UNCHANGED <<balance, attempt, paid, caller, provider, runs>>

\* The transaction rolls back or its process dies: the row stays as it is.
ProcessFails(e) ==
    /\ handling[e] > 0 /\ faults < MaxFaults
    /\ faults' = faults + 1
    /\ handling' = [handling EXCEPT ![e] = @ - 1]
    /\ UNCHANGED <<balance, attempt, paid, inbox, caller, provider, runs>>

-----------------------------------------------------------------------------

Amounts == 1..Total

Next ==
    \/ \E n \in Amounts : PayDirectly(n) \/ Receive(n) \/ ApplyAdvance(n)
    \/ CancelOrder
    \/ \E c \in Callers :
          \/ Discover(c) \/ LookUp(c) \/ Reserve(c) \/ CallProvider(c)
          \/ CallFails(c) \/ ApplyInitiation(c) \/ CrashCaller(c)
    \/ \E k \in Keys : ProviderMoves(k)
    \/ \E e \in Events :
          DeliverWebhook(e) \/ PeekEvent(e) \/ ProcessEvent(e) \/ ProcessFails(e)

Spec == Init /\ [][Next]_vars

\* The recovery loop of a running api takes up RECEIVED rows as long as there
\* are any and its transactions end; the provider delivers its events.
FairSpec ==
    /\ Spec
    /\ WF_vars(\E e \in Events : DeliverWebhook(e))
    /\ WF_vars(\E e \in Events : PeekEvent(e))
    /\ WF_vars(\E e \in Events : ProcessEvent(e))

-----------------------------------------------------------------------------
(* Properties. *)

\* Every variable has its type.
TypeOK ==
    /\ direct \in Nat /\ captured \in Nat /\ received \in Nat
    /\ advanced \in Nat /\ credited \in Nat
    /\ cancelled \in BOOLEAN
    /\ attempt \in [Keys -> {None} \cup AttemptRow]
    /\ paid \in [Keys -> Nat]
    /\ inbox \in [Events -> {None, "RECEIVED"} \cup Verdicts]
    /\ pc \in [Callers -> {"idle", "configured", "locking", "calling", "applying"}]
    /\ outcome \in [Callers -> {None} \cup States]
    /\ runs \in 0..MaxRuns
    /\ handling \in [Events -> Nat]
    /\ intent \in [Keys -> {None} \cup States]
    /\ reached \in [Keys -> SUBSET States]
    /\ faults \in 0..MaxFaults

\* However direct payments, captures, receipts, advances and the cancellation
\* interleave, they never take more than the invoice's total: the DB coverage
\* trigger (fn_lock_and_validate_invoice_coverage) never fires, so no capture
\* is rolled back by it and retried for ever (webhook-event-processor.ts).
NeverOvercovered == Covered + credited <= Total

\* A unit of the invoice is promised once: what direct payments and captures
\* have collected and what active attempts still reserve fit in the total,
\* also while the reserving attempts race each other and the webhooks.
NeverPromisedTwice == direct + captured + Reserved <= Total

\* An attempt is CAPTURED exactly when it has its one payment, though
\* redeliveries, the immediate call and the recovery loop process events at
\* the same time.
OnePaymentPerCapture ==
    \A k \in Keys :
        paid[k] = IF k \in Attempts /\ attempt[k].state = "CAPTURED" THEN 1 ELSE 0

\* While the provider may still capture an intent, or has captured it, its
\* attempt exists and has not been released: lost replies, crashes and late
\* answers never free money that can still be taken.
HeldWhileChargeable ==
    \A k \in Keys :
        intent[k] \notin {None} \cup Released =>
            k \in Attempts /\ attempt[k].state \notin Released

\* A genuine CAPTURED event is refused for money only if a receipt or an
\* advance drew on the invoice, and for the order only if it was cancelled:
\* direct payments and other attempts never make a capture fail.
RefusalHasACause ==
    \A e \in Events :
        /\ inbox[e] = "FINANCIAL_INVARIANT_VIOLATION" => received + advanced > 0
        /\ inbox[e] = "ORDER_BINDING_MISMATCH" => cancelled

\* An attempt only moves along the transition graph, whichever of the late
\* initiation result and the webhooks comes first.
AttemptsNeverRegress ==
    [][\A k \in Keys :
         attempt[k] # None =>
            /\ attempt'[k] # None
            /\ \/ attempt'[k] = attempt[k]
               \/ CanTransition(attempt[k].state, attempt'[k].state)]_vars

\* A verdict on an event is final.
VerdictIsFinal ==
    [][\A e \in Events : inbox[e] \in Verdicts => inbox'[e] = inbox[e]]_vars

\* What the provider has captured becomes a payment, or an exception for the
\* operator: it is never lost.
Unsurfaced ==
    {k \in Keys :
        /\ intent[k] = "CAPTURED" /\ paid[k] = 0
        /\ inbox[[key |-> k, target |-> "CAPTURED", genuine |-> TRUE]] \notin Reasons}
CapturesSurface == Unsurfaced # {} ~> Unsurfaced = {}

=============================================================================
