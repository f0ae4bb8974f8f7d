------------------------------ MODULE EventLog ------------------------------
(***************************************************************************)
(* What the outbox promises its readers: each tenant has one numbered log  *)
(* of its committed events, to which batches are added at the end and of   *)
(* which nothing is ever renumbered or removed.  Logged events are copied  *)
(* to the tenant's stream with their log position, at least once before    *)
(* they are settled.  The order of the stream is not promised.             *)
(***************************************************************************)
EXTENDS Integers, FiniteSets, Sequences

CONSTANTS Tenants, Events, TenantOf

VARIABLES
    committed,  \* events of committed domain transactions
    log,        \* the numbered log of a tenant
    copies,     \* the stream of a tenant: [row, seq] entries
    settled     \* events that will not be copied on behalf of the log again

evars == <<committed, log, copies, settled>>

Logged(t) == {log[t][i] : i \in DOMAIN log[t]}

LogInit ==
    /\ committed = {}
    /\ log = [t \in Tenants |-> <<>>]
    /\ copies = [t \in Tenants |-> <<>>]
    /\ settled = {}

Submit(e) ==
    /\ e \notin committed
    /\ committed' = committed \cup {e}
    /\ UNCHANGED <<log, copies, settled>>

\* The events of a batch in the order they were created.
InOrder(batch) ==
    {s \in [1..Cardinality(batch) -> batch] : \A i, j \in DOMAIN s : i < j => s[i] < s[j]}

(* A batch is numbered at once, in the order its events were created. *)
Number(t) ==
    /\ \E batch \in SUBSET {e \in committed \ Logged(t) : TenantOf[e] = t} :
          /\ batch # {}
          /\ \E order \in InOrder(batch) : log' = [log EXCEPT ![t] = @ \o order]
    /\ UNCHANGED <<committed, copies, settled>>

Copy(t) ==
    /\ \E i \in DOMAIN log[t] :
          copies' = [copies EXCEPT ![t] = Append(@, [row |-> log[t][i], seq |-> i])]
    /\ UNCHANGED <<committed, log, settled>>

Settle(e) ==
    /\ \E i \in DOMAIN copies[TenantOf[e]] : copies[TenantOf[e]][i].row = e
    /\ settled' = settled \cup {e}
    /\ UNCHANGED <<committed, log, copies>>

LogNext ==
    \/ \E e \in Events : Submit(e) \/ Settle(e)
    \/ \E t \in Tenants : Number(t) \/ Copy(t)

LogSpec == LogInit /\ [][LogNext]_evars
=============================================================================
