------------------------------- MODULE Outbox -------------------------------
(***************************************************************************)
(* The transactional outbox and its dispatcher (apps/worker/src/outbox):   *)
(* domain transactions commit rows, dispatcher processes stamp them with a *)
(* per-tenant sequence number and append them to the tenant's Redis        *)
(* stream.  Each database transaction is a lock-and-read step, its own     *)
(* uncommitted work, and a commit or a rollback; the XADD it performs is   *)
(* outside the transaction and is not undone by a rollback.                *)
(***************************************************************************)
EXTENDS Integers, FiniteSets, Sequences

CONSTANTS
    Tenants,        \* the tenants
    Workers,        \* the dispatcher processes
    None,           \* no worker, no tenant, no row
    Rows,           \* outbox rows, numbered in their (createdAt, id) order
    TenantOf,       \* the tenant of a row
    TenantBatch,    \* tenants considered per tick
    SeqBatch,       \* rows stamped per allocation transaction
    PublishBatch,   \* rows published per tenant per tick
    MaxFailures,    \* bound: failed publishes per row
    MaxRollbacks    \* bound: crashes and rolled-back allocations in all

ASSUME OutboxAssumption ==
    /\ Rows \subseteq Nat
    /\ None \notin Workers \cup Tenants \cup Rows
    /\ TenantOf \in [Rows -> Tenants]
    /\ {TenantBatch, SeqBatch, PublishBatch} \subseteq Nat \ {0}
    /\ {MaxFailures, MaxRollbacks} \subseteq Nat

VARIABLES
    written,      \* rows whose domain transaction has committed
    seq,          \* column seq of a row, 0 while NULL
    dispatched,   \* rows with dispatchedAt set
    attempts,     \* column attempts of a row
    backingOff,   \* rows whose availableAt is in the future
    nextSeq,      \* outbox_tenant_seq: the next number of a tenant
    allocLock,    \* holder of the advisory lock outbox_seq:<tenant>
    publishLock,  \* holder of the advisory lock outbox_publish:<tenant>
    net,          \* XADD commands sent and not yet applied by Redis
    streams,      \* rt:stream:<tenant>, the entries in append order
    pc,           \* where a worker is in its tick
    todo,         \* tenants the current phase of the tick has still to visit
    tenant,       \* tenant a worker is working on
    row,          \* row a worker is publishing
    sel,          \* rows selected by the allocation and not yet stamped
    stamps,       \* uncommitted numbers of an allocation, 0 where none
    drawn,        \* numbers drawn by the uncommitted allocation
    budget,       \* rows a worker may still publish for its tenant this tick
    rollbacks     \* crashes and rolled-back allocations so far

table   == <<written, seq, dispatched, attempts, backingOff, nextSeq>>
locks   == <<allocLock, publishLock>>
redis   == <<net, streams>>
alloc   == <<sel, stamps, drawn>>
outboxVars == <<table, locks, redis, pc, todo, tenant, row, alloc, budget, rollbacks>>

NoStamps == [r \in Rows |-> 0]

OutboxInit ==
    /\ written = {} /\ dispatched = {} /\ backingOff = {}
    /\ seq = NoStamps
    /\ attempts = [r \in Rows |-> 0]
    /\ nextSeq = [t \in Tenants |-> 1]
    /\ allocLock = [t \in Tenants |-> None]
    /\ publishLock = [t \in Tenants |-> None]
    /\ net = {}
    /\ streams = [t \in Tenants |-> <<>>]
    /\ pc = [w \in Workers |-> "idle"]
    /\ todo = [w \in Workers |-> {}]
    /\ tenant = [w \in Workers |-> None]
    /\ row = [w \in Workers |-> None]
    /\ sel = [w \in Workers |-> {}]
    /\ stamps = [w \in Workers |-> NoStamps]
    /\ drawn = [w \in Workers |-> 0]
    /\ budget = [w \in Workers |-> 0]
    /\ rollbacks = 0

-----------------------------------------------------------------------------
(* The queries of the dispatcher. *)

Unstamped(t)   == {r \in written \ dispatched : TenantOf[r] = t /\ seq[r] = 0}
Publishable(t) == {r \in written \ (dispatched \cup backingOff) :
                      TenantOf[r] = t /\ seq[r] # 0}

\* SELECT ... LIMIT n without an ORDER BY: any n of the matches, or all.
AnyOf(S, n) ==
    {T \in SUBSET S : IF Cardinality(S) <= n THEN T = S ELSE Cardinality(T) = n}

\* ORDER BY "createdAt", id LIMIT n.
Oldest(S, n) == {r \in S : Cardinality({q \in S : q < r}) < n}

\* ORDER BY seq LIMIT 1.
LowestSeq(S) == {r \in S : \A q \in S : seq[r] <= seq[q]}

-----------------------------------------------------------------------------
(* A domain transaction commits its mutation and its outbox row together.   *)
(* Transactions commit in any order, so createdAt order is not commit order. *)
Enqueue(r) ==
    /\ r \notin written
    /\ written' = written \cup {r}
    /\ UNCHANGED <<seq, dispatched, attempts, backingOff, nextSeq, locks, redis,
                   pc, todo, tenant, row, alloc, budget, rollbacks>>

(* A tick starts by discovering tenants with unstamped rows. *)
StartTick(w) ==
    /\ pc[w] = "idle"
    /\ \E T \in AnyOf({t \in Tenants : Unstamped(t) # {}}, TenantBatch) :
          todo' = [todo EXCEPT ![w] = T]
    /\ pc' = [pc EXCEPT ![w] = "allocate"]
    /\ UNCHANGED <<table, locks, redis, tenant, row, alloc, budget, rollbacks>>

\* Defect: the advisory lock is not taken.
AllocBeginUnlocked(w) ==
    /\ pc[w] = "allocate"
    /\ \E t \in todo[w] :
          /\ allocLock' = [allocLock EXCEPT ![t] = w]
          /\ todo' = [todo EXCEPT ![w] = @ \ {t}]
          /\ tenant' = [tenant EXCEPT ![w] = t]
          /\ sel' = [sel EXCEPT ![w] = Oldest(Unstamped(t), SeqBatch)]
    /\ pc' = [pc EXCEPT ![w] = "stamp"]
    /\ UNCHANGED <<table, publishLock, redis, row, stamps, drawn, budget, rollbacks>>

(* allocateTenantSeq: win the advisory lock and select the oldest rows. *)
AllocBegin(w) ==
    /\ pc[w] = "allocate"
    /\ \E t \in todo[w] :
          /\ allocLock[t] = None
          /\ allocLock' = [allocLock EXCEPT ![t] = w]
          /\ todo' = [todo EXCEPT ![w] = @ \ {t}]
          /\ tenant' = [tenant EXCEPT ![w] = t]
          /\ sel' = [sel EXCEPT ![w] = Oldest(Unstamped(t), SeqBatch)]
    /\ pc' = [pc EXCEPT ![w] = "stamp"]
    /\ UNCHANGED <<table, publishLock, redis, row, stamps, drawn, budget, rollbacks>>

(* The lock is held by another process: this tenant is left to it. *)
AllocNotLeader(w) ==
    /\ pc[w] = "allocate"
    /\ \E t \in todo[w] :
          /\ allocLock[t] # None
          /\ todo' = [todo EXCEPT ![w] = @ \ {t}]
    /\ UNCHANGED <<table, locks, redis, pc, tenant, row, alloc, budget, rollbacks>>

\* Defect: the rows of a batch are stamped in any order.
StampAnyOrder(w) ==
    /\ pc[w] = "stamp"
    /\ \E r \in sel[w] :
          /\ stamps' = [stamps EXCEPT ![w][r] = nextSeq[tenant[w]] + drawn[w]]
          /\ drawn' = [drawn EXCEPT ![w] = @ + 1]
          /\ sel' = [sel EXCEPT ![w] = @ \ {r}]
    /\ UNCHANGED <<table, locks, redis, pc, todo, tenant, row, budget, rollbacks>>

(* One row of the batch: draw the next number and write it, uncommitted. *)
Stamp(w) ==
    /\ pc[w] = "stamp"
    /\ \E r \in Oldest(sel[w], 1) :
          /\ stamps' = [stamps EXCEPT ![w][r] = nextSeq[tenant[w]] + drawn[w]]
          /\ drawn' = [drawn EXCEPT ![w] = @ + 1]
          /\ sel' = [sel EXCEPT ![w] = @ \ {r}]
    /\ UNCHANGED <<table, locks, redis, pc, todo, tenant, row, budget, rollbacks>>

\* What the end of an allocation transaction clears, committed or not.
EndAlloc(w) ==
    /\ allocLock' = [allocLock EXCEPT ![tenant[w]] = None]
    /\ tenant' = [tenant EXCEPT ![w] = None]
    /\ sel' = [sel EXCEPT ![w] = {}]
    /\ stamps' = [stamps EXCEPT ![w] = NoStamps]
    /\ drawn' = [drawn EXCEPT ![w] = 0]
    /\ pc' = [pc EXCEPT ![w] = "allocate"]

AllocCommit(w) ==
    /\ pc[w] = "stamp"
    /\ sel[w] = {}
    /\ seq' = [r \in Rows |->
                  IF seq[r] = 0 THEN stamps[w][r] ELSE seq[r]]
    /\ nextSeq' = [nextSeq EXCEPT ![tenant[w]] = @ + drawn[w]]
    /\ EndAlloc(w)
    /\ UNCHANGED <<written, dispatched, attempts, backingOff, publishLock, redis,
                   todo, row, budget, rollbacks>>

(* A statement fails: the transaction rolls back, the error is caught and   *)
(* the tick goes on with the next tenant.                                   *)
AllocRollback(w) ==
    /\ pc[w] = "stamp"
    /\ rollbacks < MaxRollbacks
    /\ rollbacks' = rollbacks + 1
    /\ EndAlloc(w)
    /\ UNCHANGED <<table, publishLock, redis, todo, row, budget>>

(* publishReadyAcrossTenants: discover tenants with publishable rows. *)
StartPublish(w) ==
    /\ pc[w] = "allocate"
    /\ todo[w] = {}
    /\ \E T \in AnyOf({t \in Tenants : Publishable(t) # {}}, TenantBatch) :
          todo' = [todo EXCEPT ![w] = T]
    /\ pc' = [pc EXCEPT ![w] = "publish"]
    /\ UNCHANGED <<table, locks, redis, tenant, row, alloc, budget, rollbacks>>

PickTenant(w) ==
    /\ pc[w] = "publish"
    /\ tenant[w] = None
    /\ \E t \in todo[w] :
          /\ todo' = [todo EXCEPT ![w] = @ \ {t}]
          /\ tenant' = [tenant EXCEPT ![w] = t]
    /\ budget' = [budget EXCEPT ![w] = PublishBatch]
    /\ UNCHANGED <<table, locks, redis, pc, row, alloc, rollbacks>>

(* publishNextForTenant, outcome "not-leader" or "empty": leave the tenant. *)
PublishBreak(w) ==
    /\ pc[w] = "publish"
    /\ tenant[w] # None
    /\ publishLock[tenant[w]] # None \/ Publishable(tenant[w]) = {}
    /\ tenant' = [tenant EXCEPT ![w] = None]
    /\ budget' = [budget EXCEPT ![w] = 0]
    /\ UNCHANGED <<table, locks, redis, pc, todo, row, alloc, rollbacks>>

(* Otherwise win the lock and select the row with the lowest seq. *)
PublishBegin(w) ==
    /\ pc[w] = "publish"
    /\ tenant[w] # None
    /\ publishLock[tenant[w]] = None
    /\ publishLock' = [publishLock EXCEPT ![tenant[w]] = w]
    /\ \E r \in LowestSeq(Publishable(tenant[w])) : row' = [row EXCEPT ![w] = r]
    /\ pc' = [pc EXCEPT ![w] = "send"]
    /\ UNCHANGED <<table, allocLock, redis, todo, tenant, alloc, budget, rollbacks>>

\* The XADD of the row a worker publishes, with the seq read from the row.
Command(w) == [worker |-> w, row |-> row[w], seq |-> seq[row[w]]]

SendXadd(w) ==
    /\ pc[w] = "send"
    /\ net' = net \cup {Command(w)}
    /\ pc' = [pc EXCEPT ![w] = "await"]
    /\ UNCHANGED <<table, locks, streams, todo, tenant, row, alloc, budget, rollbacks>>

(* Redis applies a command and replies, if its sender still waits for it. *)
ApplyXadd(m) ==
    /\ m \in net
    /\ net' = net \ {m}
    /\ streams' = [streams EXCEPT ![TenantOf[m.row]] =
                     Append(@, [row |-> m.row, seq |-> m.seq])]
    /\ pc' = [pc EXCEPT ![m.worker] =
                 IF @ = "await" /\ row[m.worker] = m.row THEN "replied" ELSE @]
    /\ UNCHANGED <<table, locks, todo, tenant, row, alloc, budget, rollbacks>>

\* What the end of a publish transaction clears: the loop goes on with the
\* same tenant until its budget is spent, after a failed publish too.
EndPublish(w) ==
    /\ publishLock' = [publishLock EXCEPT ![tenant[w]] = None]
    /\ row' = [row EXCEPT ![w] = None]
    /\ budget' = [budget EXCEPT ![w] = @ - 1]
    /\ tenant' = [tenant EXCEPT ![w] = IF budget[w] = 1 THEN None ELSE @]
    /\ pc' = [pc EXCEPT ![w] = "publish"]

PublishCommit(w) ==
    /\ pc[w] = "replied"
    /\ dispatched' = dispatched \cup {row[w]}
    /\ EndPublish(w)
    /\ UNCHANGED <<written, seq, attempts, backingOff, nextSeq, allocLock, redis,
                   todo, alloc, rollbacks>>

\* A command whose sender gave up may be lost or still reach Redis.
MayDrop(w) == net' \in {net, net \ {Command(w)}}

(* The XADD reports an error, or its reply is lost: count it and back off. *)
PublishFail(w) ==
    /\ pc[w] \in {"await", "replied"}
    /\ attempts[row[w]] < MaxFailures
    /\ attempts' = [attempts EXCEPT ![row[w]] = @ + 1]
    /\ backingOff' = backingOff \cup {row[w]}
    /\ MayDrop(w)
    /\ EndPublish(w)
    /\ UNCHANGED <<written, seq, dispatched, nextSeq, allocLock, streams, todo,
                   alloc, rollbacks>>

BackoffExpires(r) ==
    /\ r \in backingOff
    /\ backingOff' = backingOff \ {r}
    /\ UNCHANGED <<written, seq, dispatched, attempts, nextSeq, locks, redis, pc,
                   todo, tenant, row, alloc, budget, rollbacks>>

EndTick(w) ==
    /\ pc[w] = "publish"
    /\ tenant[w] = None
    /\ todo[w] = {}
    /\ pc' = [pc EXCEPT ![w] = "idle"]
    /\ UNCHANGED <<table, locks, redis, todo, tenant, row, alloc, budget, rollbacks>>

\* Defect: session-level advisory locks outlive the transaction.
KeepLocked(lock, w) == lock

\* Postgres frees the advisory locks of a connection that is gone.
Free(lock, w) == [t \in Tenants |-> IF lock[t] = w THEN None ELSE lock[t]]

(* The process dies, or the publish transaction is rolled back (an error    *)
(* of the database, its timeout): the whole tick is given up.               *)
Crash(w) ==
    /\ pc[w] # "idle"
    /\ rollbacks < MaxRollbacks
    /\ rollbacks' = rollbacks + 1
    /\ allocLock' = Free(allocLock, w)
    /\ publishLock' = Free(publishLock, w)
    /\ IF row[w] = None THEN UNCHANGED net ELSE MayDrop(w)
    /\ pc' = [pc EXCEPT ![w] = "idle"]
    /\ todo' = [todo EXCEPT ![w] = {}]
    /\ tenant' = [tenant EXCEPT ![w] = None]
    /\ row' = [row EXCEPT ![w] = None]
    /\ sel' = [sel EXCEPT ![w] = {}]
    /\ stamps' = [stamps EXCEPT ![w] = NoStamps]
    /\ drawn' = [drawn EXCEPT ![w] = 0]
    /\ budget' = [budget EXCEPT ![w] = 0]
    /\ UNCHANGED <<table, streams>>

\* What a worker does of its own accord.
Work(w) ==
    \/ StartTick(w) \/ AllocBegin(w) \/ AllocNotLeader(w) \/ Stamp(w)
    \/ AllocCommit(w) \/ StartPublish(w) \/ PickTenant(w) \/ PublishBreak(w)
    \/ PublishBegin(w) \/ SendXadd(w) \/ PublishCommit(w) \/ EndTick(w)

OutboxNext ==
    \/ \E r \in Rows : Enqueue(r) \/ BackoffExpires(r)
    \/ \E w \in Workers :
          Work(w) \/ AllocRollback(w) \/ PublishFail(w) \/ Crash(w)
    \/ \E m \in net : ApplyXadd(m)

OutboxSpec == OutboxInit /\ [][OutboxNext]_outboxVars

(* The loop re-arms its timer after every tick, waits for every reply (or   *)
(* for the timeout that Crash stands for), and a backoff ends.  Nothing     *)
(* obliges a domain transaction to happen, or a failure.                    *)
OutboxFairness ==
    /\ \A w \in Workers :
          /\ WF_outboxVars(Work(w))
          /\ WF_outboxVars(pc[w] = "await" /\ \E m \in net : m.worker = w /\ ApplyXadd(m))
    /\ \A r \in Rows : WF_outboxVars(BackoffExpires(r))

OutboxFairSpec == OutboxSpec /\ OutboxFairness

-----------------------------------------------------------------------------
Places == {"idle", "allocate", "stamp", "publish", "send", "await", "replied"}

\* Every variable has its type; a worker publishes at most a batch per tenant.
OutboxTypeOK ==
    /\ written \subseteq Rows /\ dispatched \subseteq Rows /\ backingOff \subseteq Rows
    /\ seq \in [Rows -> Nat]
    /\ attempts \in [Rows -> Nat]
    /\ nextSeq \in [Tenants -> Nat \ {0}]
    /\ allocLock \in [Tenants -> Workers \cup {None}]
    /\ publishLock \in [Tenants -> Workers \cup {None}]
    /\ net \subseteq [worker : Workers, row : Rows, seq : Nat]
    /\ streams \in [Tenants -> Seq([row : Rows, seq : Nat])]
    /\ pc \in [Workers -> Places]
    /\ todo \in [Workers -> SUBSET Tenants]
    /\ tenant \in [Workers -> Tenants \cup {None}]
    /\ row \in [Workers -> Rows \cup {None}]
    /\ sel \in [Workers -> SUBSET Rows]
    /\ stamps \in [Workers -> [Rows -> Nat]]
    /\ drawn \in [Workers -> Nat]
    /\ budget \in [Workers -> 0..PublishBatch]
    /\ rollbacks \in Nat

(* Numbers of a tenant are drawn from a counter that rolls back with its    *)
(* transaction: whatever crashed in between, the committed numbers of a     *)
(* tenant are exactly those below the counter, each on one row.             *)
Numbering ==
    \A t \in Tenants :
        LET stamped == {r \in Rows : TenantOf[r] = t /\ seq[r] # 0}
        IN  /\ {seq[r] : r \in stamped} = 1..(nextSeq[t] - 1)
            /\ \A r, q \in stamped : seq[r] = seq[q] => r = q

(* Every committed row is eventually dispatched, through every crash,       *)
(* failed publish and lost reply.                                           *)
EventuallyDispatched ==
    \A r \in Rows : r \in written ~> r \in dispatched

-----------------------------------------------------------------------------
(* The log the outbox implements.                                          *)

\* The log of t in the table: position n holds the row whose seq is n.
LogOf(t) ==
    [n \in 1..(nextSeq[t] - 1) |->
        CHOOSE r \in Rows : TenantOf[r] = t /\ seq[r] = n]

Abstract == INSTANCE EventLog WITH
    Events <- Rows, committed <- written, log <- [t \in Tenants |-> LogOf(t)],
    copies <- streams, settled <- dispatched

(* The outbox table, its counter and the Redis stream implement the numbered *)
(* log: a transaction of the allocator is one Number, an XADD one Copy,      *)
(* setting dispatchedAt one Settle, and a crash or a rollback is no step.    *)
ImplementsEventLog == Abstract!LogSpec
=============================================================================
