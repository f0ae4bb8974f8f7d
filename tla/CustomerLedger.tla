--------------------------- MODULE CustomerLedger ---------------------------
(***************************************************************************)
(* What the general ledger shows of one customer: the three control        *)
(* accounts and the only journals that may move them.  No account is ever  *)
(* overdrawn.  Receivables implements it.                                  *)
(***************************************************************************)
EXTENDS Naturals

VARIABLES
    receivable,   \* ASSET.ACCOUNTS_RECEIVABLE, debit balance
    unapplied,    \* LIABILITY.UNAPPLIED_RECEIPTS, credit balance
    prepaid       \* LIABILITY.CUSTOMER_ADVANCES, credit balance

ledger == <<receivable, unapplied, prepaid>>

LedgerInit == receivable = 0 /\ unapplied = 0 /\ prepaid = 0

\* The customer is billed, for a sale, a charge or an opening balance.
Bill == /\ receivable' > receivable
        /\ UNCHANGED <<unapplied, prepaid>>

\* Money arrives and pays off receivables with all or part of it.
TakeIn == \E paid \in 0..receivable :
            /\ receivable' = receivable - paid
            /\ unapplied' \in Nat /\ unapplied' >= unapplied
            /\ unapplied' - unapplied + paid > 0
            /\ UNCHANGED prepaid

\* Money received becomes an advance; an opening advance just appears.
SetAside == \E moved \in 0..unapplied :
              /\ unapplied' = unapplied - moved
              /\ prepaid' \in Nat /\ prepaid' > prepaid
              /\ moved \in {0, prepaid' - prepaid}
              /\ UNCHANGED receivable

\* An advance pays off a receivable.
Offset == \E paid \in 1..receivable :
            /\ paid <= prepaid
            /\ receivable' = receivable - paid
            /\ prepaid' = prepaid - paid
            /\ UNCHANGED unapplied

\* A sale is undone: the unpaid part leaves the receivable, the paid part is
\* the customer's; a charge may be billed with it.
Undo == /\ receivable' \in Nat
        /\ prepaid' \in Nat /\ prepaid' >= prepaid
        /\ UNCHANGED unapplied

\* Part of an advance is paid out.
PayOut == \E paid \in 1..prepaid :
            /\ prepaid' = prepaid - paid
            /\ UNCHANGED <<receivable, unapplied>>

LedgerNext == Bill \/ TakeIn \/ SetAside \/ Offset \/ Undo \/ PayOut

LedgerSpec == LedgerInit /\ [][LedgerNext]_ledger
=============================================================================
