----------------------------- MODULE EventProofs -----------------------------
(***************************************************************************)
(* What holds of the way of an event, from the outbox through the relay to *)
(* the clients of the gateway: for every number of tenants, workers and    *)
(* rows, of relays, clients and connections, every batch, chunk and cache  *)
(* size, and every bound on failures and crashes.                          *)
(***************************************************************************)
EXTENDS Outbox, Gateway, FiniteSetTheorems, SequenceTheorems, TLAPS

-----------------------------------------------------------------------------
(* The outbox. *)

Publishing == {"send", "await", "replied"}

\* What a worker's place in its tick says of its local state and its locks.
WorkerOK(w) ==
    /\ pc[w] = "stamp" => tenant[w] \in Tenants /\ allocLock[tenant[w]] = w
    /\ pc[w] \in Publishing =>
          /\ tenant[w] \in Tenants /\ publishLock[tenant[w]] = w
          /\ row[w] \in Rows /\ TenantOf[row[w]] = tenant[w]
          /\ budget[w] # 0
    /\ pc[w] \in {"idle", "allocate"} => tenant[w] = None
    /\ pc[w] \notin Publishing => row[w] = None
    /\ pc[w] = "publish" /\ tenant[w] # None => budget[w] # 0
    /\ pc[w] # "stamp" => sel[w] = {} /\ stamps[w] = NoStamps /\ drawn[w] = 0

\* The numbers an open allocation has drawn so far.
AllocationOK(w) ==
    pc[w] = "stamp" =>
        /\ \A r \in sel[w] : stamps[w][r] = 0 /\ TenantOf[r] = tenant[w] /\ seq[r] = 0
        /\ \A r \in Rows : stamps[w][r] # 0 =>
              /\ TenantOf[r] = tenant[w] /\ seq[r] = 0
              /\ nextSeq[tenant[w]] <= stamps[w][r]
              /\ stamps[w][r] < nextSeq[tenant[w]] + drawn[w]
        /\ \A n \in Nat :
              nextSeq[tenant[w]] <= n /\ n < nextSeq[tenant[w]] + drawn[w] =>
                  \E r \in Rows : stamps[w][r] = n
        /\ \A r, q \in Rows :
              stamps[w][r] # 0 /\ stamps[w][r] = stamps[w][q] => r = q

\* The committed numbers of t are 1..nextSeq[t]-1, each on one row.
Numbered(t) ==
    /\ \A r \in Rows : TenantOf[r] = t /\ seq[r] # 0 => seq[r] < nextSeq[t]
    /\ \A n \in 1..(nextSeq[t] - 1) : \E r \in Rows : TenantOf[r] = t /\ seq[r] = n
    /\ \A r, q \in Rows :
          TenantOf[r] = t /\ TenantOf[q] = t /\ seq[r] # 0 /\ seq[r] = seq[q] => r = q

IInv ==
    /\ OutboxTypeOK
    /\ \A w \in Workers : WorkerOK(w) /\ AllocationOK(w)
    /\ \A t \in Tenants : Numbered(t)

\* The part of the invariant that only says where the workers are.
Placed == OutboxTypeOK /\ \A w \in Workers : WorkerOK(w)

-----------------------------------------------------------------------------
\* Appending an element of S keeps a sequence over S.
LEMMA AppendType ==
    ASSUME NEW S, NEW s \in Seq(S), NEW e \in S PROVE Append(s, e) \in Seq(S)
    OBVIOUS


\* The rows an allocation picks are among those it looked at.
LEMMA OldestSubset == ASSUME NEW S, NEW n PROVE Oldest(S, n) \subseteq S
    BY DEF Oldest

\* A publishing worker has a row, and the command it sends is well-formed.
LEMMA PublishingRow ==
    ASSUME Placed, NEW w \in Workers, pc[w] \in Publishing
    PROVE  /\ row[w] \in Rows
           /\ Command(w) \in [worker : Workers, row : Rows, seq : Nat]
<1>1. row[w] \in Rows
    BY DEF Placed, WorkerOK
<1>2. seq[row[w]] \in Nat
    BY <1>1 DEF Placed, OutboxTypeOK
<1> QED
    BY <1>1, <1>2 DEF Command

\* Initially the types hold and no worker is at work.
LEMMA PlacedInit == OutboxInit => Placed
    BY OutboxAssumption
    DEF OutboxInit, Placed, OutboxTypeOK, Places, WorkerOK, Publishing, NoStamps

(* Every step keeps the types, and every worker holds the locks its place   *)
(* in the tick says it holds.                                               *)
LEMMA PlacedStep == Placed /\ [OutboxNext]_outboxVars => Placed'
<1> SUFFICES ASSUME Placed, [OutboxNext]_outboxVars PROVE Placed'
    OBVIOUS
<1> USE OutboxAssumption
<1>1. ASSUME NEW r \in Rows, Enqueue(r) PROVE Placed'
    <2>1. written' \subseteq Rows
        BY <1>1 DEF Enqueue, Placed, OutboxTypeOK
    <2>2. OutboxTypeOK'
        BY <1>1, <2>1 DEF Enqueue, Placed, OutboxTypeOK, table, locks, redis, alloc
    <2>3. ASSUME NEW v \in Workers PROVE WorkerOK(v)'
        BY <1>1 DEF Enqueue, Placed, OutboxTypeOK, Places, WorkerOK, Publishing, table, locks, redis, alloc
    <2> QED
        BY <2>2, <2>3 DEF Placed
<1>2. ASSUME NEW r \in Rows, BackoffExpires(r) PROVE Placed'
    <2>1. backingOff' \subseteq Rows
        BY <1>2 DEF BackoffExpires, Placed, OutboxTypeOK
    <2>2. OutboxTypeOK'
        BY <1>2, <2>1 DEF BackoffExpires, Placed, OutboxTypeOK, table, locks, redis, alloc
    <2>3. ASSUME NEW v \in Workers PROVE WorkerOK(v)'
        BY <1>2 DEF BackoffExpires, Placed, OutboxTypeOK, Places, WorkerOK, Publishing, table, locks, redis, alloc
    <2> QED
        BY <2>2, <2>3 DEF Placed
<1>3. ASSUME NEW m \in net, ApplyXadd(m) PROVE Placed'
    <2>1. net' \subseteq [worker : Workers, row : Rows, seq : Nat]
        BY <1>3 DEF ApplyXadd, Placed, OutboxTypeOK, WorkerOK, Publishing
    <2>2. streams' \in [Tenants -> Seq([row : Rows, seq : Nat])]
        <3>1. /\ TenantOf[m.row] \in Tenants
              /\ [row |-> m.row, seq |-> m.seq] \in [row : Rows, seq : Nat]
            BY DEF Placed, OutboxTypeOK
        <3>2. Append(streams[TenantOf[m.row]], [row |-> m.row, seq |-> m.seq])
                  \in Seq([row : Rows, seq : Nat])
            BY <3>1, AppendType DEF Placed, OutboxTypeOK
        <3> QED
            BY <1>3, <3>1, <3>2 DEF ApplyXadd, Placed, OutboxTypeOK
    <2>3. pc' \in [Workers -> Places]
        BY <1>3 DEF ApplyXadd, Placed, OutboxTypeOK, WorkerOK, Publishing, Places
    <2>4. OutboxTypeOK'
        BY <1>3, <2>1, <2>2, <2>3 DEF ApplyXadd, Placed, OutboxTypeOK, table, locks, redis, alloc
    <2>5. ASSUME NEW v \in Workers PROVE WorkerOK(v)'
        BY <1>3 DEF ApplyXadd, Placed, OutboxTypeOK, Places, WorkerOK, Publishing, table, locks, redis, alloc
    <2> QED
        BY <2>4, <2>5 DEF Placed
<1>4. ASSUME NEW w \in Workers, StartTick(w) PROVE Placed'
    <2>1. todo' \in [Workers -> SUBSET Tenants]
        BY <1>4 DEF StartTick, AnyOf, Placed, OutboxTypeOK
    <2>2. pc' \in [Workers -> Places]
        BY <1>4 DEF StartTick, AnyOf, Placed, OutboxTypeOK, WorkerOK, Publishing, Places
    <2>3. OutboxTypeOK'
        BY <1>4, <2>1, <2>2 DEF StartTick, AnyOf, Placed, OutboxTypeOK, table, locks, redis, alloc
    <2>4. ASSUME NEW v \in Workers PROVE WorkerOK(v)'
        BY <1>4 DEF StartTick, Placed, OutboxTypeOK, Places, WorkerOK, Publishing, table, locks, redis, alloc
    <2> QED
        BY <2>3, <2>4 DEF Placed
<1>5. ASSUME NEW w \in Workers, AllocBegin(w) PROVE Placed'
    <2>1. allocLock' \in [Tenants -> Workers \cup {None}]
        BY <1>5 DEF AllocBegin, Oldest, Unstamped, Placed, OutboxTypeOK
    <2>2. todo' \in [Workers -> SUBSET Tenants]
        BY <1>5 DEF AllocBegin, Oldest, Unstamped, Placed, OutboxTypeOK
    <2>3. tenant' \in [Workers -> Tenants \cup {None}]
        BY <1>5 DEF AllocBegin, Oldest, Unstamped, Placed, OutboxTypeOK, WorkerOK, Publishing
    <2>4. sel' \in [Workers -> SUBSET Rows]
        <3>1. \A t : Oldest(Unstamped(t), SeqBatch) \in SUBSET Rows
            BY OldestSubset DEF Unstamped, Placed, OutboxTypeOK
        <3> QED
            BY <1>5, <3>1 DEF AllocBegin, Placed, OutboxTypeOK
    <2>5. pc' \in [Workers -> Places]
        BY <1>5 DEF AllocBegin, Oldest, Unstamped, Placed, OutboxTypeOK, WorkerOK, Publishing, Places
    <2>6. OutboxTypeOK'
        BY <1>5, <2>1, <2>2, <2>3, <2>4, <2>5 DEF AllocBegin, Oldest, Unstamped, Placed, OutboxTypeOK, table, locks, redis, alloc
    <2>7. ASSUME NEW v \in Workers PROVE WorkerOK(v)'
        BY <1>5 DEF AllocBegin, Oldest, Unstamped, Placed, OutboxTypeOK, Places, WorkerOK, Publishing, table, locks, redis, alloc
    <2> QED
        BY <2>6, <2>7 DEF Placed
<1>6. ASSUME NEW w \in Workers, AllocNotLeader(w) PROVE Placed'
    <2>1. todo' \in [Workers -> SUBSET Tenants]
        BY <1>6 DEF AllocNotLeader, Placed, OutboxTypeOK
    <2>2. OutboxTypeOK'
        BY <1>6, <2>1 DEF AllocNotLeader, Placed, OutboxTypeOK, table, locks, redis, alloc
    <2>3. ASSUME NEW v \in Workers PROVE WorkerOK(v)'
        BY <1>6 DEF AllocNotLeader, Placed, OutboxTypeOK, Places, WorkerOK, Publishing, table, locks, redis, alloc
    <2> QED
        BY <2>2, <2>3 DEF Placed
<1>7. ASSUME NEW w \in Workers, Stamp(w) PROVE Placed'
    <2>1. stamps' \in [Workers -> [Rows -> Nat]]
        <3>1. nextSeq[tenant[w]] + drawn[w] \in Nat
            BY <1>7 DEF Stamp, Placed, OutboxTypeOK, WorkerOK
        <3>2. PICK r \in Oldest(sel[w], 1) :
                  stamps' = [stamps EXCEPT ![w][r] = nextSeq[tenant[w]] + drawn[w]]
            BY <1>7 DEF Stamp
        <3>3. [stamps[w] EXCEPT ![r] = nextSeq[tenant[w]] + drawn[w]] \in [Rows -> Nat]
            BY <3>1 DEF Placed, OutboxTypeOK
        <3> QED
            BY <3>2, <3>3 DEF Placed, OutboxTypeOK
    <2>2. drawn' \in [Workers -> Nat]
        <3> DEFINE n == drawn[w] + 1
        <3>1. drawn \in [Workers -> Nat] /\ drawn' = [drawn EXCEPT ![w] = n]
            BY <1>7 DEF Stamp, Placed, OutboxTypeOK
        <3>2. n \in Nat
            BY <3>1
        <3> HIDE DEF n
        <3> QED
            BY <3>1, <3>2
    <2>3. sel' \in [Workers -> SUBSET Rows]
        <3>1. PICK r : sel' = [sel EXCEPT ![w] = sel[w] \ {r}]
            BY <1>7 DEF Stamp
        <3>2. sel \in [Workers -> SUBSET Rows] /\ sel[w] \ {r} \in SUBSET Rows
            BY DEF Placed, OutboxTypeOK
        <3> QED
            BY <3>1, <3>2
    <2>4. OutboxTypeOK'
        BY <1>7, <2>1, <2>2, <2>3 DEF Stamp, Oldest, Placed, OutboxTypeOK, table, locks, redis, alloc
    <2>5. ASSUME NEW v \in Workers PROVE WorkerOK(v)'
        <3>1. /\ pc[w] = "stamp" /\ UNCHANGED <<pc, tenant, allocLock, publishLock, row, budget, seq>>
              /\ \A u \in Workers \ {w} : sel'[u] = sel[u] /\ stamps'[u] = stamps[u] /\ drawn'[u] = drawn[u]
            BY <1>7 DEF Stamp, Placed, OutboxTypeOK, table, locks
        <3> QED
            BY <3>1 DEF Placed, WorkerOK, Publishing
    <2> QED
        BY <2>4, <2>5 DEF Placed
<1>8. ASSUME NEW w \in Workers, AllocCommit(w) PROVE Placed'
    <2>1. seq' \in [Rows -> Nat]
        BY <1>8 DEF AllocCommit, EndAlloc, Placed, OutboxTypeOK
    <2>2. nextSeq' \in [Tenants -> Nat \ {0}]
        BY <1>8 DEF AllocCommit, EndAlloc, Placed, OutboxTypeOK, WorkerOK, Publishing
    <2>3. allocLock' \in [Tenants -> Workers \cup {None}]
        BY <1>8 DEF AllocCommit, EndAlloc, Placed, OutboxTypeOK
    <2>4. tenant' \in [Workers -> Tenants \cup {None}]
        BY <1>8 DEF AllocCommit, EndAlloc, Placed, OutboxTypeOK, WorkerOK, Publishing
    <2>5. sel' \in [Workers -> SUBSET Rows]
        BY <1>8 DEF AllocCommit, EndAlloc, Placed, OutboxTypeOK
    <2>6. stamps' \in [Workers -> [Rows -> Nat]]
        BY <1>8 DEF AllocCommit, EndAlloc, Placed, OutboxTypeOK, NoStamps
    <2>7. drawn' \in [Workers -> Nat]
        BY <1>8 DEF AllocCommit, EndAlloc, Placed, OutboxTypeOK
    <2>8. pc' \in [Workers -> Places]
        BY <1>8 DEF AllocCommit, EndAlloc, Placed, OutboxTypeOK, WorkerOK, Publishing, Places
    <2>9. OutboxTypeOK'
        BY <1>8, <2>1, <2>2, <2>3, <2>4, <2>5, <2>6, <2>7, <2>8 DEF AllocCommit, EndAlloc, Placed, OutboxTypeOK, table, locks, redis, alloc
    <2>10. ASSUME NEW v \in Workers PROVE WorkerOK(v)'
        BY <1>8 DEF AllocCommit, EndAlloc, Placed, OutboxTypeOK, Places, WorkerOK, Publishing, table, locks, redis, alloc
    <2> QED
        BY <2>9, <2>10 DEF Placed
<1>9. ASSUME NEW w \in Workers, AllocRollback(w) PROVE Placed'
    <2>1. rollbacks' \in Nat
        BY <1>9 DEF AllocRollback, EndAlloc, Placed, OutboxTypeOK
    <2>2. allocLock' \in [Tenants -> Workers \cup {None}]
        BY <1>9 DEF AllocRollback, EndAlloc, Placed, OutboxTypeOK
    <2>3. tenant' \in [Workers -> Tenants \cup {None}]
        BY <1>9 DEF AllocRollback, EndAlloc, Placed, OutboxTypeOK, WorkerOK, Publishing
    <2>4. sel' \in [Workers -> SUBSET Rows]
        BY <1>9 DEF AllocRollback, EndAlloc, Placed, OutboxTypeOK
    <2>5. stamps' \in [Workers -> [Rows -> Nat]]
        BY <1>9 DEF AllocRollback, EndAlloc, Placed, OutboxTypeOK, NoStamps
    <2>6. drawn' \in [Workers -> Nat]
        BY <1>9 DEF AllocRollback, EndAlloc, Placed, OutboxTypeOK
    <2>7. pc' \in [Workers -> Places]
        BY <1>9 DEF AllocRollback, EndAlloc, Placed, OutboxTypeOK, WorkerOK, Publishing, Places
    <2>8. OutboxTypeOK'
        BY <1>9, <2>1, <2>2, <2>3, <2>4, <2>5, <2>6, <2>7 DEF AllocRollback, EndAlloc, Placed, OutboxTypeOK, table, locks, redis, alloc
    <2>9. ASSUME NEW v \in Workers PROVE WorkerOK(v)'
        BY <1>9 DEF AllocRollback, EndAlloc, Placed, OutboxTypeOK, Places, WorkerOK, Publishing, table, locks, redis, alloc
    <2> QED
        BY <2>8, <2>9 DEF Placed
<1>10. ASSUME NEW w \in Workers, StartPublish(w) PROVE Placed'
    <2>1. todo' \in [Workers -> SUBSET Tenants]
        BY <1>10 DEF StartPublish, AnyOf, Placed, OutboxTypeOK
    <2>2. pc' \in [Workers -> Places]
        BY <1>10 DEF StartPublish, AnyOf, Placed, OutboxTypeOK, WorkerOK, Publishing, Places
    <2>3. OutboxTypeOK'
        BY <1>10, <2>1, <2>2 DEF StartPublish, AnyOf, Placed, OutboxTypeOK, table, locks, redis, alloc
    <2>4. ASSUME NEW v \in Workers PROVE WorkerOK(v)'
        BY <1>10 DEF StartPublish, Placed, OutboxTypeOK, Places, WorkerOK, Publishing, table, locks, redis, alloc
    <2> QED
        BY <2>3, <2>4 DEF Placed
<1>11. ASSUME NEW w \in Workers, PickTenant(w) PROVE Placed'
    <2>1. todo' \in [Workers -> SUBSET Tenants]
        BY <1>11 DEF PickTenant, Placed, OutboxTypeOK
    <2>2. tenant' \in [Workers -> Tenants \cup {None}]
        BY <1>11 DEF PickTenant, Placed, OutboxTypeOK, WorkerOK, Publishing
    <2>3. budget' \in [Workers -> 0..PublishBatch]
        BY <1>11 DEF PickTenant, Placed, OutboxTypeOK, WorkerOK, Publishing
    <2>4. OutboxTypeOK'
        BY <1>11, <2>1, <2>2, <2>3 DEF PickTenant, Placed, OutboxTypeOK, table, locks, redis, alloc
    <2>5. ASSUME NEW v \in Workers PROVE WorkerOK(v)'
        BY <1>11 DEF PickTenant, Placed, OutboxTypeOK, Places, WorkerOK, Publishing, table, locks, redis, alloc
    <2> QED
        BY <2>4, <2>5 DEF Placed
<1>12. ASSUME NEW w \in Workers, PublishBreak(w) PROVE Placed'
    <2>1. tenant' \in [Workers -> Tenants \cup {None}]
        BY <1>12 DEF PublishBreak, Placed, OutboxTypeOK, WorkerOK, Publishing
    <2>2. budget' \in [Workers -> 0..PublishBatch]
        BY <1>12 DEF PublishBreak, Placed, OutboxTypeOK, WorkerOK, Publishing
    <2>3. OutboxTypeOK'
        BY <1>12, <2>1, <2>2 DEF PublishBreak, Placed, OutboxTypeOK, table, locks, redis, alloc
    <2>4. ASSUME NEW v \in Workers PROVE WorkerOK(v)'
        BY <1>12 DEF PublishBreak, Placed, OutboxTypeOK, Places, WorkerOK, Publishing, table, locks, redis, alloc
    <2> QED
        BY <2>3, <2>4 DEF Placed
<1>13. ASSUME NEW w \in Workers, PublishBegin(w) PROVE Placed'
    <2>1. publishLock' \in [Tenants -> Workers \cup {None}]
        BY <1>13 DEF PublishBegin, LowestSeq, Publishable, Placed, OutboxTypeOK, WorkerOK, Publishing
    <2>2. row' \in [Workers -> Rows \cup {None}]
        BY <1>13 DEF PublishBegin, LowestSeq, Publishable, Placed, OutboxTypeOK, WorkerOK, Publishing
    <2>3. pc' \in [Workers -> Places]
        BY <1>13 DEF PublishBegin, LowestSeq, Publishable, Placed, OutboxTypeOK, WorkerOK, Publishing, Places
    <2>4. OutboxTypeOK'
        BY <1>13, <2>1, <2>2, <2>3 DEF PublishBegin, LowestSeq, Publishable, Placed, OutboxTypeOK, table, locks, redis, alloc
    <2>5. ASSUME NEW v \in Workers PROVE WorkerOK(v)'
        <3>1. PICK r \in Rows : TenantOf[r] = tenant[w] /\ row' = [row EXCEPT ![w] = r]
            BY <1>13 DEF PublishBegin, LowestSeq, Publishable, Placed, OutboxTypeOK
        <3>2. /\ pc[w] = "publish" /\ tenant[w] \in Tenants /\ publishLock[tenant[w]] = None
              /\ publishLock' = [publishLock EXCEPT ![tenant[w]] = w]
              /\ pc' = [pc EXCEPT ![w] = "send"]
              /\ UNCHANGED <<allocLock, tenant, sel, stamps, drawn, budget>>
            BY <1>13 DEF PublishBegin, Placed, OutboxTypeOK, alloc
        <3>3. CASE v = w
            BY <3>1, <3>2, <3>3 DEF Placed, OutboxTypeOK, WorkerOK, Publishing
        <3>4. CASE v # w
            BY <3>1, <3>2, <3>4 DEF Placed, OutboxTypeOK, WorkerOK, Publishing
        <3> QED
            BY <3>3, <3>4
    <2> QED
        BY <2>4, <2>5 DEF Placed
<1>14. ASSUME NEW w \in Workers, SendXadd(w) PROVE Placed'
    <2>1. net' \subseteq [worker : Workers, row : Rows, seq : Nat]
        BY <1>14, PublishingRow DEF SendXadd, Publishing, Placed, OutboxTypeOK
    <2>2. pc' \in [Workers -> Places]
        BY <1>14 DEF SendXadd, Command, Placed, OutboxTypeOK, WorkerOK, Publishing, Places
    <2>3. OutboxTypeOK'
        BY <1>14, <2>1, <2>2 DEF SendXadd, Command, Placed, OutboxTypeOK, table, locks, redis, alloc
    <2>4. ASSUME NEW v \in Workers PROVE WorkerOK(v)'
        BY <1>14 DEF SendXadd, Command, Placed, OutboxTypeOK, Places, WorkerOK, Publishing, table, locks, redis, alloc
    <2> QED
        BY <2>3, <2>4 DEF Placed
<1>15. ASSUME NEW w \in Workers, PublishCommit(w) PROVE Placed'
    <2>1. dispatched' \subseteq Rows
        BY <1>15, PublishingRow DEF PublishCommit, Publishing, Placed, OutboxTypeOK
    <2>2. publishLock' \in [Tenants -> Workers \cup {None}]
        BY <1>15 DEF PublishCommit, EndPublish, Placed, OutboxTypeOK, WorkerOK, Publishing
    <2>3. row' \in [Workers -> Rows \cup {None}]
        BY <1>15 DEF PublishCommit, EndPublish, Placed, OutboxTypeOK, WorkerOK, Publishing
    <2>4. budget' \in [Workers -> 0..PublishBatch]
        BY <1>15 DEF PublishCommit, EndPublish, Placed, OutboxTypeOK, WorkerOK, Publishing
    <2>5. tenant' \in [Workers -> Tenants \cup {None}]
        BY <1>15 DEF PublishCommit, EndPublish, Placed, OutboxTypeOK, WorkerOK, Publishing
    <2>6. pc' \in [Workers -> Places]
        BY <1>15 DEF PublishCommit, EndPublish, Placed, OutboxTypeOK, WorkerOK, Publishing, Places
    <2>7. OutboxTypeOK'
        BY <1>15, <2>1, <2>2, <2>3, <2>4, <2>5, <2>6 DEF PublishCommit, EndPublish, Placed, OutboxTypeOK, table, locks, redis, alloc
    <2>8. ASSUME NEW v \in Workers PROVE WorkerOK(v)'
        BY <1>15 DEF PublishCommit, EndPublish, Placed, OutboxTypeOK, Places, WorkerOK, Publishing, table, locks, redis, alloc
    <2> QED
        BY <2>7, <2>8 DEF Placed
<1>16. ASSUME NEW w \in Workers, PublishFail(w) PROVE Placed'
    <2>0. row[w] \in Rows
        BY <1>16, PublishingRow DEF PublishFail, Publishing
    <2>1. attempts' \in [Rows -> Nat]
        <3>1. attempts' = [attempts EXCEPT ![row[w]] = attempts[row[w]] + 1]
            BY <1>16 DEF PublishFail
        <3>2. attempts \in [Rows -> Nat]
            BY DEF Placed, OutboxTypeOK
        <3>3. attempts[row[w]] \in Nat
            BY <2>0, <3>2
        <3> DEFINE n == attempts[row[w]] + 1
        <3>4. n \in Nat
            BY <3>3
        <3>5. attempts' = [attempts EXCEPT ![row[w]] = n]
            BY <3>1
        <3> HIDE DEF n
        <3> QED
            BY <2>0, <3>2, <3>4, <3>5
    <2>2. backingOff' \subseteq Rows
        BY <1>16, <2>0 DEF PublishFail, Placed, OutboxTypeOK
    <2>3. net' \subseteq [worker : Workers, row : Rows, seq : Nat]
        BY <1>16 DEF PublishFail, EndPublish, MayDrop, Command, Placed, OutboxTypeOK, WorkerOK, Publishing
    <2>4. publishLock' \in [Tenants -> Workers \cup {None}]
        BY <1>16 DEF PublishFail, EndPublish, MayDrop, Command, Placed, OutboxTypeOK, WorkerOK, Publishing
    <2>5. row' \in [Workers -> Rows \cup {None}]
        BY <1>16 DEF PublishFail, EndPublish, MayDrop, Command, Placed, OutboxTypeOK, WorkerOK, Publishing
    <2>6. budget' \in [Workers -> 0..PublishBatch]
        BY <1>16 DEF PublishFail, EndPublish, MayDrop, Command, Placed, OutboxTypeOK, WorkerOK, Publishing
    <2>7. tenant' \in [Workers -> Tenants \cup {None}]
        BY <1>16 DEF PublishFail, EndPublish, MayDrop, Command, Placed, OutboxTypeOK, WorkerOK, Publishing
    <2>8. pc' \in [Workers -> Places]
        BY <1>16 DEF PublishFail, EndPublish, MayDrop, Command, Placed, OutboxTypeOK, WorkerOK, Publishing, Places
    <2>9. OutboxTypeOK'
        BY <1>16, <2>1, <2>2, <2>3, <2>4, <2>5, <2>6, <2>7, <2>8 DEF PublishFail, EndPublish, MayDrop, Command, Placed, OutboxTypeOK, table, locks, redis, alloc
    <2>10. ASSUME NEW v \in Workers PROVE WorkerOK(v)'
        BY <1>16 DEF PublishFail, EndPublish, MayDrop, Command, Placed, OutboxTypeOK, Places, WorkerOK, Publishing, table, locks, redis, alloc
    <2> QED
        BY <2>9, <2>10 DEF Placed
<1>17. ASSUME NEW w \in Workers, EndTick(w) PROVE Placed'
    <2>1. pc' \in [Workers -> Places]
        BY <1>17 DEF EndTick, Placed, OutboxTypeOK, WorkerOK, Publishing, Places
    <2>2. OutboxTypeOK'
        BY <1>17, <2>1 DEF EndTick, Placed, OutboxTypeOK, table, locks, redis, alloc
    <2>3. ASSUME NEW v \in Workers PROVE WorkerOK(v)'
        BY <1>17 DEF EndTick, Placed, OutboxTypeOK, Places, WorkerOK, Publishing, table, locks, redis, alloc
    <2> QED
        BY <2>2, <2>3 DEF Placed
<1>18. ASSUME NEW w \in Workers, Crash(w) PROVE Placed'
    <2>1. rollbacks' \in Nat
        BY <1>18 DEF Crash, MayDrop, Command, Free, Placed, OutboxTypeOK
    <2>2. allocLock' \in [Tenants -> Workers \cup {None}]
        BY <1>18 DEF Crash, MayDrop, Command, Free, Placed, OutboxTypeOK
    <2>3. publishLock' \in [Tenants -> Workers \cup {None}]
        BY <1>18 DEF Crash, MayDrop, Command, Free, Placed, OutboxTypeOK, WorkerOK, Publishing
    <2>4. net' \subseteq [worker : Workers, row : Rows, seq : Nat]
        BY <1>18 DEF Crash, MayDrop, Command, Free, Placed, OutboxTypeOK, WorkerOK, Publishing
    <2>5. pc' \in [Workers -> Places]
        BY <1>18 DEF Crash, MayDrop, Command, Free, Placed, OutboxTypeOK, WorkerOK, Publishing, Places
    <2>6. todo' \in [Workers -> SUBSET Tenants]
        BY <1>18 DEF Crash, MayDrop, Command, Free, Placed, OutboxTypeOK
    <2>7. tenant' \in [Workers -> Tenants \cup {None}]
        BY <1>18 DEF Crash, MayDrop, Command, Free, Placed, OutboxTypeOK, WorkerOK, Publishing
    <2>8. row' \in [Workers -> Rows \cup {None}]
        BY <1>18 DEF Crash, MayDrop, Command, Free, Placed, OutboxTypeOK, WorkerOK, Publishing
    <2>9. sel' \in [Workers -> SUBSET Rows]
        BY <1>18 DEF Crash, MayDrop, Command, Free, Placed, OutboxTypeOK
    <2>10. stamps' \in [Workers -> [Rows -> Nat]]
        BY <1>18 DEF Crash, MayDrop, Command, Free, Placed, OutboxTypeOK, NoStamps
    <2>11. drawn' \in [Workers -> Nat]
        BY <1>18 DEF Crash, MayDrop, Command, Free, Placed, OutboxTypeOK
    <2>12. budget' \in [Workers -> 0..PublishBatch]
        BY <1>18 DEF Crash, MayDrop, Command, Free, Placed, OutboxTypeOK, WorkerOK, Publishing
    <2>13. OutboxTypeOK'
        BY <1>18, <2>1, <2>2, <2>3, <2>4, <2>5, <2>6, <2>7, <2>8, <2>9, <2>10, <2>11, <2>12 DEF Crash, MayDrop, Command, Free, Placed, OutboxTypeOK, table, locks, redis, alloc
    <2>14. ASSUME NEW v \in Workers PROVE WorkerOK(v)'
        BY <1>18 DEF Crash, MayDrop, Command, Free, Placed, OutboxTypeOK, Places, WorkerOK, Publishing, table, locks, redis, alloc
    <2> QED
        BY <2>13, <2>14 DEF Placed
<1>19. ASSUME UNCHANGED outboxVars PROVE Placed'
    BY <1>19 DEF outboxVars, Placed, OutboxTypeOK, WorkerOK, table, locks, redis, alloc
<1> QED
    BY <1>1, <1>2, <1>3, <1>4, <1>5, <1>6, <1>7, <1>8, <1>9, <1>10, <1>11, <1>12, <1>13, <1>14, <1>15, <1>16, <1>17, <1>18, <1>19 DEF OutboxNext, Work

(* Type correctness of the outbox, its workers and Redis (the whole of      *)
(* apps/worker/src/outbox), with the locks that the workers hold.           *)
THEOREM OutboxTypeCorrect == OutboxSpec => [](OutboxTypeOK /\ \A w \in Workers : WorkerOK(w))
<1>1. OutboxSpec => []Placed
    BY PlacedInit, PlacedStep, PTL DEF OutboxSpec
<1> QED
    BY <1>1, PTL DEF Placed

-----------------------------------------------------------------------------
\* Two open allocations are of different tenants.
LEMMA AllocationsApart ==
    ASSUME Placed, NEW v \in Workers, NEW w \in Workers, v # w,
           pc[v] = "stamp", pc[w] = "stamp"
    PROVE  tenant[v] # tenant[w]
    BY DEF Placed, WorkerOK

\* A step that leaves a worker and the rows of its tenant alone.
LEMMA AllocationFramed ==
    ASSUME IInv, NEW v \in Workers,
           pc'[v] = pc[v], tenant'[v] = tenant[v], sel'[v] = sel[v],
           stamps'[v] = stamps[v], drawn'[v] = drawn[v],
           pc[v] = "stamp" =>
              /\ nextSeq'[tenant[v]] = nextSeq[tenant[v]]
              /\ \A r \in Rows : TenantOf[r] = tenant[v] => seq'[r] = seq[r]
    PROVE  AllocationOK(v)'
<1>1. AllocationOK(v) /\ sel[v] \subseteq Rows
    BY DEF IInv, OutboxTypeOK
<1> QED
    BY <1>1 DEF AllocationOK

\* A step that writes no number, opens no allocation and moves no open one.
LEMMA NumbersUntouched ==
    ASSUME IInv, UNCHANGED <<seq, nextSeq, sel, stamps, drawn>>,
           \A v \in Workers : pc'[v] = "stamp" => pc[v] = "stamp" /\ tenant'[v] = tenant[v]
    PROVE  /\ \A v \in Workers : AllocationOK(v)'
           /\ \A t \in Tenants : Numbered(t)'
    BY DEF IInv, AllocationOK, Numbered

\* A step that leaves the open allocations and all numbers alone.
OutboxQuiet ==
    /\ UNCHANGED <<seq, nextSeq, sel, stamps, drawn>>
    /\ written \subseteq written'
    /\ \A v \in Workers : pc'[v] = "stamp" => pc[v] = "stamp" /\ tenant'[v] = tenant[v]

\* The steps of an allocation.
Allocation(w) == AllocBegin(w) \/ Stamp(w) \/ AllocCommit(w) \/ AllocRollback(w) \/ Crash(w)

\* Every step but those of an allocation leaves them alone.
LEMMA OutboxQuietSteps ==
    ASSUME OutboxTypeOK, [OutboxNext]_outboxVars
    PROVE  OutboxQuiet \/ \E w \in Workers : Allocation(w)
<1>0. OutboxTypeOK
    OBVIOUS
<1> USE DEF OutboxQuiet
<1>5. ASSUME NEW r \in Rows, Enqueue(r) \/ BackoffExpires(r) PROVE OutboxQuiet
    BY <1>0, <1>5 DEF Enqueue, BackoffExpires, OutboxTypeOK, table, alloc
<1>6. ASSUME NEW m \in net, ApplyXadd(m) PROVE OutboxQuiet
    BY <1>0, <1>6 DEF ApplyXadd, OutboxTypeOK, table, alloc
<1>7. ASSUME NEW w \in Workers, StartTick(w) PROVE OutboxQuiet
    BY <1>0, <1>7 DEF StartTick, OutboxTypeOK, table, alloc
<1>8. ASSUME NEW w \in Workers, AllocNotLeader(w) PROVE OutboxQuiet
    BY <1>0, <1>8 DEF AllocNotLeader, OutboxTypeOK, table, alloc
<1>9. ASSUME NEW w \in Workers, StartPublish(w) PROVE OutboxQuiet
    BY <1>0, <1>9 DEF StartPublish, OutboxTypeOK, table, alloc
<1>10. ASSUME NEW w \in Workers, PickTenant(w) PROVE OutboxQuiet
    BY <1>0, <1>10 DEF PickTenant, OutboxTypeOK, table, alloc
<1>11. ASSUME NEW w \in Workers, PublishBreak(w) PROVE OutboxQuiet
    BY <1>0, <1>11 DEF PublishBreak, OutboxTypeOK, table, alloc
<1>12. ASSUME NEW w \in Workers, PublishBegin(w) PROVE OutboxQuiet
    BY <1>0, <1>12 DEF PublishBegin, OutboxTypeOK, table, alloc
<1>13. ASSUME NEW w \in Workers, SendXadd(w) PROVE OutboxQuiet
    BY <1>0, <1>13 DEF SendXadd, OutboxTypeOK, table, alloc
<1>14. ASSUME NEW w \in Workers, PublishCommit(w) PROVE OutboxQuiet
    BY <1>0, <1>14 DEF PublishCommit, EndPublish, OutboxTypeOK, table, alloc
<1>15. ASSUME NEW w \in Workers, PublishFail(w) PROVE OutboxQuiet
    BY <1>0, <1>15 DEF PublishFail, EndPublish, OutboxTypeOK, table, alloc
<1>16. ASSUME NEW w \in Workers, EndTick(w) PROVE OutboxQuiet
    BY <1>0, <1>16 DEF EndTick, OutboxTypeOK, table, alloc
<1>17. ASSUME UNCHANGED outboxVars PROVE OutboxQuiet
    BY <1>17 DEF outboxVars, table, alloc
<1> QED
    BY <1>5, <1>6, <1>7, <1>8, <1>9, <1>10, <1>11, <1>12, <1>13, <1>14, <1>15, <1>16, <1>17 DEF OutboxNext, Work, Allocation

(* Every step keeps the committed numbers of a tenant gapless and unique,   *)
(* because the only allocation that can draw them holds the tenant's lock.  *)
LEMMA NumberStep ==
    IInv /\ [OutboxNext]_outboxVars => /\ \A v \in Workers : AllocationOK(v)'
                           /\ \A t \in Tenants : Numbered(t)'
<1> SUFFICES ASSUME IInv, [OutboxNext]_outboxVars
             PROVE  /\ \A v \in Workers : AllocationOK(v)'
                    /\ \A t \in Tenants : Numbered(t)'
    OBVIOUS
<1> DEFINE Kept == /\ \A v \in Workers : AllocationOK(v)'
                   /\ \A t \in Tenants : Numbered(t)'
<1> USE OutboxAssumption
<1>0. Placed /\ OutboxTypeOK
    BY DEF IInv, Placed
<1>1. ASSUME NEW w \in Workers, AllocBegin(w) PROVE Kept
    <2>1. PICK t \in todo[w] :
              /\ tenant' = [tenant EXCEPT ![w] = t]
              /\ sel' = [sel EXCEPT ![w] = Oldest(Unstamped(t), SeqBatch)]
        BY <1>1 DEF AllocBegin
    <2>2. /\ pc[w] = "allocate" /\ pc' = [pc EXCEPT ![w] = "stamp"]
          /\ UNCHANGED <<seq, nextSeq, stamps, drawn>>
        BY <1>1 DEF AllocBegin, table
    <2>3. stamps[w] = NoStamps /\ drawn[w] = 0 /\ t \in Tenants
        BY <1>0, <2>2 DEF Placed, OutboxTypeOK, WorkerOK
    <2>4. \A r \in Oldest(Unstamped(t), SeqBatch) :
              r \in Rows /\ TenantOf[r] = t /\ seq[r] = 0
        BY <1>0, OldestSubset DEF Unstamped, OutboxTypeOK
    <2>5. AllocationOK(w)'
        <3>1. tenant'[w] = t /\ sel'[w] = Oldest(Unstamped(t), SeqBatch)
            BY <1>0, <2>1 DEF OutboxTypeOK
        <3>2. nextSeq[t] \in Nat /\ \A r \in Rows : stamps'[w][r] = 0
            BY <1>0, <2>2, <2>3 DEF OutboxTypeOK, NoStamps
        <3> QED
            <4>1. nextSeq'[tenant'[w]] = nextSeq[t] /\ drawn'[w] = 0
                BY <2>2, <2>3, <3>1
            <4>2. \A r \in sel'[w] :
                      stamps'[w][r] = 0 /\ TenantOf[r] = tenant'[w] /\ seq'[r] = 0
                BY <2>2, <2>4, <3>1, <3>2
            <4>3. \A k \in Nat :
                      ~(nextSeq'[tenant'[w]] <= k /\ k < nextSeq'[tenant'[w]] + drawn'[w])
                BY <3>2, <4>1
            <4> QED
                BY <3>2, <4>2, <4>3 DEF AllocationOK
    <2>6. ASSUME NEW v \in Workers, v # w PROVE AllocationOK(v)'
        <3>1. /\ tenant'[v] = tenant[v] /\ sel'[v] = sel[v] /\ pc'[v] = pc[v]
            BY <1>0, <2>1, <2>2, <2>6 DEF OutboxTypeOK
        <3> QED
            BY <2>2, <3>1, AllocationFramed
    <2>7. ASSUME NEW u \in Tenants PROVE Numbered(u)'
        BY <2>2 DEF IInv, Numbered
    <2> QED
        BY <2>5, <2>6, <2>7
<1>2. ASSUME NEW w \in Workers, Stamp(w) PROVE Kept
    <2> DEFINE n == nextSeq[tenant[w]] + drawn[w]
    <2>1. PICK r \in Oldest(sel[w], 1) :
              /\ stamps' = [stamps EXCEPT ![w][r] = n]
              /\ sel' = [sel EXCEPT ![w] = @ \ {r}]
        BY <1>2 DEF Stamp
    <2>2. /\ pc[w] = "stamp" /\ drawn' = [drawn EXCEPT ![w] = @ + 1]
          /\ UNCHANGED <<seq, nextSeq, pc, tenant>>
        BY <1>2 DEF Stamp, table
    <2>3. /\ tenant[w] \in Tenants /\ nextSeq[tenant[w]] \in Nat \ {0}
          /\ drawn[w] \in Nat /\ n \in Nat \ {0}
        BY <1>0, <2>2 DEF Placed, OutboxTypeOK, WorkerOK
    <2>4. r \in Rows /\ r \in sel[w]
        BY <1>0, <2>1, OldestSubset DEF OutboxTypeOK
    <2>5. stamps[w][r] = 0 /\ TenantOf[r] = tenant[w] /\ seq[r] = 0
        BY <2>2, <2>4 DEF IInv, AllocationOK
    <2>6. /\ \A q \in Rows : stamps'[w][q] = IF q = r THEN n ELSE stamps[w][q]
          /\ sel'[w] = sel[w] \ {r}
          /\ drawn'[w] = drawn[w] + 1
        BY <1>0, <2>1, <2>2, <2>4 DEF OutboxTypeOK
    <2>7. AllocationOK(w)'
        <3> DEFINE m == nextSeq[tenant[w]]
        <3>1. /\ AllocationOK(w) /\ sel[w] \subseteq Rows
              /\ \A q \in Rows : stamps[w][q] \in Nat
            BY <1>0 DEF IInv, OutboxTypeOK
        <3>2. \A q \in sel'[w] :
                  stamps'[w][q] = 0 /\ TenantOf[q] = tenant[w] /\ seq[q] = 0
            BY <2>2, <2>6, <3>1 DEF AllocationOK
        <3>3. \A q \in Rows : stamps'[w][q] # 0 =>
                  /\ TenantOf[q] = tenant[w] /\ seq[q] = 0
                  /\ m <= stamps'[w][q] /\ stamps'[w][q] < m + drawn'[w]
            BY <2>2, <2>3, <2>5, <2>6, <3>1 DEF AllocationOK
        <3>4. ASSUME NEW k \in Nat, m <= k, k < m + drawn'[w]
              PROVE  \E q \in Rows : stamps'[w][q] = k
            <4>1. CASE k = n
                BY <2>4, <2>6, <4>1
            <4>2. CASE k # n
                <5>1. PICK q \in Rows : stamps[w][q] = k
                    BY <2>2, <2>3, <2>6, <3>1, <3>4, <4>2 DEF AllocationOK
                <5>2. k # 0
                    BY <2>3, <3>4
                <5> QED
                    BY <2>5, <2>6, <5>1, <5>2
            <4> QED
                BY <4>1, <4>2
        <3>5. ASSUME NEW q \in Rows, NEW p \in Rows, stamps'[w][q] # 0,
                     stamps'[w][q] = stamps'[w][p]
              PROVE  q = p
            <4>1. \A x \in Rows : stamps[w][x] # n
                BY <2>2, <2>3, <3>1 DEF AllocationOK
            <4> QED
                BY <2>2, <2>6, <3>1, <3>5, <4>1 DEF AllocationOK
        <3> QED
            BY <2>2, <3>2, <3>3, <3>4, <3>5 DEF AllocationOK
    <2>8. ASSUME NEW v \in Workers, v # w PROVE AllocationOK(v)'
        <3>1. stamps'[v] = stamps[v] /\ sel'[v] = sel[v] /\ drawn'[v] = drawn[v]
            BY <1>0, <2>1, <2>2, <2>8 DEF OutboxTypeOK
        <3> QED
            BY <2>2, <3>1, AllocationFramed
    <2>9. ASSUME NEW u \in Tenants PROVE Numbered(u)'
        BY <2>2 DEF IInv, Numbered
    <2> QED
        BY <2>7, <2>8, <2>9
<1>3. ASSUME NEW w \in Workers, AllocCommit(w) PROVE Kept
    <2> DEFINE n == nextSeq[tenant[w]]
               d == drawn[w]
    <2>0. PICK t : t = tenant[w]
        OBVIOUS
    <2>1. /\ pc[w] = "stamp" /\ pc' = [pc EXCEPT ![w] = "allocate"]
          /\ seq' = [r \in Rows |-> IF seq[r] = 0 THEN stamps[w][r] ELSE seq[r]]
          /\ nextSeq' = [nextSeq EXCEPT ![t] = @ + d]
          /\ tenant' = [tenant EXCEPT ![w] = None]
          /\ sel' = [sel EXCEPT ![w] = {}]
          /\ stamps' = [stamps EXCEPT ![w] = NoStamps]
          /\ drawn' = [drawn EXCEPT ![w] = 0]
        BY <1>3, <2>0 DEF AllocCommit, EndAlloc
    <2>2. t \in Tenants /\ n \in Nat \ {0} /\ d \in Nat
        BY <1>0, <2>0, <2>1 DEF Placed, OutboxTypeOK, WorkerOK
    <2>3. \A u \in Tenants : nextSeq'[u] = IF u = t THEN n + d ELSE nextSeq[u]
        BY <1>0, <2>0, <2>1, <2>2 DEF OutboxTypeOK
    <2>4. ASSUME NEW r \in Rows
          PROVE  /\ seq[r] # 0 => stamps[w][r] = 0
                 /\ TenantOf[r] # t => stamps[w][r] = 0
                 /\ stamps[w][r] # 0 => n <= stamps[w][r] /\ stamps[w][r] < n + d
        BY <2>0, <2>1 DEF IInv, AllocationOK
    <2>5. \A r \in Rows : TenantOf[r] # t => seq'[r] = seq[r]
        BY <1>0, <2>1, <2>4 DEF OutboxTypeOK
    <2>6. ASSUME NEW v \in Workers PROVE AllocationOK(v)'
        <3>1. CASE v = w
            BY <1>0, <2>1, <3>1 DEF OutboxTypeOK, AllocationOK
        <3>2. CASE v # w
            <4>1. /\ pc'[v] = pc[v] /\ tenant'[v] = tenant[v] /\ sel'[v] = sel[v]
                  /\ stamps'[v] = stamps[v] /\ drawn'[v] = drawn[v]
                BY <1>0, <2>1, <3>2 DEF OutboxTypeOK
            <4>2. CASE pc[v] = "stamp"
                <5>1. tenant[v] # t /\ tenant[v] \in Tenants
                    BY <1>0, <2>0, <2>1, <3>2, <4>2, AllocationsApart DEF Placed, WorkerOK
                <5>2. nextSeq'[tenant[v]] = nextSeq[tenant[v]]
                    BY <2>3, <5>1
                <5> QED
                    BY <2>5, <4>1, <5>1, <5>2, AllocationFramed
            <4>3. CASE pc[v] # "stamp"
                BY <4>1, <4>3 DEF AllocationOK
            <4> QED
                BY <4>2, <4>3
        <3> QED
            BY <3>1, <3>2
    <2>7. ASSUME NEW u \in Tenants, u # t PROVE Numbered(u)'
        BY <2>3, <2>5, <2>7 DEF IInv, Numbered
    <2>8. Numbered(t)'
        <3>1. \A r \in Rows : seq'[r] = IF seq[r] = 0 THEN stamps[w][r] ELSE seq[r]
            BY <2>1
        <3>2. \A r \in Rows : seq[r] \in Nat /\ stamps[w][r] \in Nat
            BY <1>0 DEF OutboxTypeOK
        <3>3. Numbered(t) /\ AllocationOK(w)
            BY <2>2 DEF IInv
        <3>4. ASSUME NEW r \in Rows, TenantOf[r] = t, seq'[r] # 0
              PROVE  seq'[r] < nextSeq'[t]
            BY <2>0, <2>2, <2>3, <2>4, <3>1, <3>2, <3>3, <3>4 DEF Numbered
        <3>5. ASSUME NEW k \in 1..(nextSeq'[t] - 1)
              PROVE  \E r \in Rows : TenantOf[r] = t /\ seq'[r] = k
            <4>1. CASE k < n
                <5>1. PICK r \in Rows : TenantOf[r] = t /\ seq[r] = k
                    BY <2>0, <2>2, <2>3, <3>3, <4>1 DEF Numbered
                <5> QED
                    BY <2>2, <2>3, <3>1, <5>1
            <4>2. CASE ~(k < n)
                <5>0. k \in Nat /\ n \in Nat
                    BY <2>0, <2>2, <2>3
                <5>1. k \in Nat /\ n <= k /\ k < n + d /\ k # 0
                    BY <2>0, <2>2, <2>3, <4>2, <5>0
                <5>2. PICK r \in Rows : stamps[w][r] = k
                    BY <2>0, <2>1, <3>3, <5>1 DEF AllocationOK
                <5>3. seq[r] = 0 /\ TenantOf[r] = t
                    BY <2>4, <5>1, <5>2
                <5> QED
                    BY <3>1, <5>2, <5>3
            <4> QED
                BY <4>1, <4>2
        <3>6. ASSUME NEW r \in Rows, NEW q \in Rows, TenantOf[r] = t, TenantOf[q] = t,
                     seq'[r] # 0, seq'[r] = seq'[q]
              PROVE  r = q
            <4>1. CASE seq[r] # 0 /\ seq[q] # 0
                BY <3>1, <3>3, <3>6, <4>1 DEF Numbered
            <4>2. CASE seq[r] = 0 /\ seq[q] = 0
                BY <2>1, <3>1, <3>3, <3>6, <4>2 DEF AllocationOK
            <4>3. CASE seq[r] = 0 /\ seq[q] # 0
                <5>1. stamps[w][r] >= n /\ seq[q] < n
                    BY <2>0, <2>2, <2>4, <3>1, <3>2, <3>3, <3>6, <4>3 DEF Numbered
                <5> QED
                    BY <2>2, <3>1, <3>2, <3>6, <4>3, <5>1
            <4>4. CASE seq[r] # 0 /\ seq[q] = 0
                <5>1. stamps[w][q] >= n /\ seq[r] < n
                    BY <2>0, <2>2, <2>4, <3>1, <3>2, <3>3, <3>6, <4>4 DEF Numbered
                <5> QED
                    BY <2>2, <3>1, <3>2, <3>6, <4>4, <5>1
            <4> QED
                BY <4>1, <4>2, <4>3, <4>4
        <3> QED
            BY <3>4, <3>5, <3>6 DEF Numbered
    <2> QED
        BY <2>6, <2>7, <2>8
<1>4. ASSUME NEW w \in Workers, AllocRollback(w) \/ Crash(w) PROVE Kept
    <2>1. /\ UNCHANGED <<seq, nextSeq>>
          /\ pc'[w] # "stamp"
          /\ \A v \in Workers \ {w} :
                /\ pc'[v] = pc[v] /\ tenant'[v] = tenant[v] /\ sel'[v] = sel[v]
                /\ stamps'[v] = stamps[v] /\ drawn'[v] = drawn[v]
        BY <1>0, <1>4 DEF AllocRollback, EndAlloc, Crash, OutboxTypeOK, table
    <2>2. ASSUME NEW v \in Workers PROVE AllocationOK(v)'
        <3>1. CASE v = w
            BY <2>1, <3>1 DEF AllocationOK
        <3>2. CASE v # w
            BY <2>1, <3>2, AllocationFramed
        <3> QED
            BY <3>1, <3>2
    <2>3. ASSUME NEW u \in Tenants PROVE Numbered(u)'
        BY <2>1 DEF IInv, Numbered
    <2> QED
        BY <2>2, <2>3
<1>5. OutboxQuiet => Kept
    BY NumbersUntouched DEF OutboxQuiet
<1> QED
    BY <1>0, <1>1, <1>2, <1>3, <1>4, <1>5, OutboxQuietSteps DEF Allocation

\* The invariant holds of every reachable state.
LEMMA InvInit == OutboxInit => IInv
<1>1. OutboxInit => \A w \in Workers : AllocationOK(w)
    BY DEF OutboxInit, AllocationOK
<1>2. OutboxInit => \A t \in Tenants : Numbered(t)
    BY DEF OutboxInit, Numbered, NoStamps
<1> QED
    BY <1>1, <1>2, PlacedInit DEF IInv, Placed

\* A step keeps the invariant.
LEMMA InvStep == IInv /\ [OutboxNext]_outboxVars => IInv'
    BY PlacedStep, NumberStep DEF IInv, Placed

(* The committed numbers of every tenant are exactly 1..nextSeq-1, each on  *)
(* one row (seq-allocator.ts: numbers are drawn under the tenant's advisory *)
(* lock from a counter that rolls back with the transaction).               *)
THEOREM NumberingHolds == OutboxSpec => []Numbering
<1>1. IInv => Numbering
    <2> SUFFICES ASSUME IInv, NEW t \in Tenants
                 PROVE  LET stamped == {r \in Rows : TenantOf[r] = t /\ seq[r] # 0}
                        IN  /\ {seq[r] : r \in stamped} = 1..(nextSeq[t] - 1)
                            /\ \A r, q \in stamped : seq[r] = seq[q] => r = q
        BY DEF Numbering
    <2>1. Numbered(t) /\ seq \in [Rows -> Nat] /\ nextSeq[t] \in Nat
        BY DEF IInv, OutboxTypeOK
    <2> QED
        BY <2>1 DEF Numbered
<1> QED
    BY <1>1, InvInit, InvStep, PTL DEF OutboxSpec

-----------------------------------------------------------------------------
(* The numbered log.                                                       *)

InStream(r) == \E i \in DOMAIN streams[TenantOf[r]] : streams[TenantOf[r]][i].row = r

\* An open allocation stamps committed rows, oldest first.
BatchOK(w) ==
    pc[w] = "stamp" =>
        /\ sel[w] \subseteq written
        /\ \A r \in Rows : stamps[w][r] # 0 => r \in written /\ \A q \in sel[w] : r < q
        /\ \A r, q \in Rows :
              stamps[w][r] # 0 /\ stamps[w][q] # 0 /\ r < q => stamps[w][r] < stamps[w][q]

\* What is on its way to the stream carries its row's committed number.
SentOK == \A m \in net : m.seq # 0 /\ m.seq = seq[m.row]

\* A row that is published has its number, and is in the stream once Redis has replied.
PublishedOK(w) ==
    /\ pc[w] \in Publishing => seq[row[w]] # 0
    /\ pc[w] = "replied" => InStream(row[w])

RInv == IInv /\ SentOK /\ \A w \in Workers : BatchOK(w) /\ PublishedOK(w)

\* The row an allocation stamps next is the oldest it has left.
LEMMA OldestIsFirst ==
    ASSUME NEW S \in SUBSET Rows, NEW r \in Oldest(S, 1), NEW q \in S, q # r
    PROVE  r < q
<1>0. Rows \subseteq Nat /\ r \in S /\ Cardinality({x \in S : x < r}) < 1
    BY OutboxAssumption DEF Oldest
<1> DEFINE B == {x \in S : x < r}
<1>1. IsFiniteSet(B)
    <2>1. B \subseteq Nat /\ r \in Nat
        BY <1>0
    <2>2. \A x \in B : x <= r
        BY <2>1
    <2> QED
        BY <2>1, <2>2, FS_BoundedSetOfNaturals
<1>2. Cardinality(B) = 0
    BY <1>0, <1>1, FS_CardinalityType
<1>3. B = {}
    BY <1>1, <1>2, FS_EmptySet
<1> QED
    BY <1>0, <1>3

\* What a step does not touch of an allocation.
LEMMA BatchFramed ==
    ASSUME IInv, NEW v \in Workers, BatchOK(v), sel'[v] = sel[v], stamps'[v] = stamps[v],
           written \subseteq written', pc'[v] = "stamp" => pc[v] = "stamp"
    PROVE  BatchOK(v)'
    BY DEF BatchOK

\* Every step leaves the open allocations to stamp committed rows, oldest first.
LEMMA BatchStep ==
    ASSUME IInv, \A w \in Workers : BatchOK(w), [OutboxNext]_outboxVars
    PROVE  \A v \in Workers : BatchOK(v)'
<1>0. OutboxTypeOK
    BY DEF IInv
<1>1. ASSUME NEW w \in Workers, AllocBegin(w), NEW v \in Workers PROVE BatchOK(v)'
    <2>1. PICK t \in todo[w] : sel' = [sel EXCEPT ![w] = Oldest(Unstamped(t), SeqBatch)]
        BY <1>1 DEF AllocBegin
    <2>2. /\ pc[w] = "allocate" /\ pc' = [pc EXCEPT ![w] = "stamp"]
          /\ UNCHANGED <<stamps, written>>
        BY <1>1 DEF AllocBegin, table
    <2>3. CASE v = w
        <3>1. stamps[w] = NoStamps
            BY <2>2 DEF IInv, WorkerOK
        <3>2. sel'[w] \subseteq written
            BY <1>0, <2>1, OldestSubset DEF Unstamped, OutboxTypeOK
        <3> QED
            BY <2>2, <2>3, <3>1, <3>2 DEF BatchOK, NoStamps
    <2>4. CASE v # w
        <3>1. sel'[v] = sel[v] /\ pc'[v] = pc[v]
            BY <1>0, <2>1, <2>2, <2>4 DEF OutboxTypeOK
        <3> QED
            BY <2>2, <3>1, BatchFramed
    <2> QED
        BY <2>3, <2>4
<1>2. ASSUME NEW w \in Workers, Stamp(w), NEW v \in Workers PROVE BatchOK(v)'
    <2> DEFINE n == nextSeq[tenant[w]] + drawn[w]
    <2>1. PICK r \in Oldest(sel[w], 1) :
              /\ stamps' = [stamps EXCEPT ![w][r] = n]
              /\ sel' = [sel EXCEPT ![w] = @ \ {r}]
        BY <1>2 DEF Stamp
    <2>2. /\ pc[w] = "stamp" /\ UNCHANGED <<pc, written>>
        BY <1>2 DEF Stamp, table
    <2>3. CASE v = w
        <3>1. r \in Rows /\ r \in sel[w] /\ sel[w] \subseteq Rows
            BY <1>0, <2>1, OldestSubset DEF OutboxTypeOK
        <3>2. /\ \A q \in Rows : stamps'[w][q] = IF q = r THEN n ELSE stamps[w][q]
              /\ sel'[w] = sel[w] \ {r}
            BY <1>0, <2>1, <3>1 DEF OutboxTypeOK
        <3>3. BatchOK(w) /\ AllocationOK(w)
            BY DEF IInv
        <3>4. \A q \in sel'[w] : r < q
            BY <1>0, <2>1, <3>2, OldestIsFirst DEF OutboxTypeOK
        <3>5. \A q \in Rows : stamps[w][q] # 0 => q < r /\ stamps[w][q] < n
            BY <2>2, <3>1, <3>3 DEF BatchOK, AllocationOK
        <3>6. Rows \subseteq Nat
            BY OutboxAssumption
        <3>7. ASSUME NEW q \in Rows, stamps'[w][q] # 0
              PROVE  q \in written /\ \A x \in sel'[w] : q < x
            BY <2>2, <3>1, <3>2, <3>3, <3>4, <3>7 DEF BatchOK
        <3>8. ASSUME NEW p \in Rows, NEW q \in Rows, stamps'[w][p] # 0, stamps'[w][q] # 0, p < q
              PROVE  stamps'[w][p] < stamps'[w][q]
            BY <2>2, <3>1, <3>2, <3>3, <3>5, <3>6, <3>8 DEF BatchOK
        <3>9. sel'[w] \subseteq written
            BY <2>2, <3>2, <3>3 DEF BatchOK
        <3> QED
            BY <2>2, <2>3, <3>7, <3>8, <3>9 DEF BatchOK
    <2>4. CASE v # w
        <3>1. sel'[v] = sel[v] /\ stamps'[v] = stamps[v]
            BY <1>0, <2>1, <2>4 DEF OutboxTypeOK
        <3> QED
            BY <2>2, <3>1, BatchFramed
    <2> QED
        BY <2>3, <2>4
<1>3. ASSUME NEW w \in Workers, AllocCommit(w) \/ AllocRollback(w) \/ Crash(w), NEW v \in Workers
      PROVE  BatchOK(v)'
    <2>1. pc'[w] # "stamp" /\ written' = written
        BY <1>0, <1>3 DEF AllocCommit, AllocRollback, EndAlloc, Crash, OutboxTypeOK, table
    <2>2. v # w => pc'[v] = pc[v] /\ sel'[v] = sel[v] /\ stamps'[v] = stamps[v]
        BY <1>0, <1>3 DEF AllocCommit, AllocRollback, EndAlloc, Crash, OutboxTypeOK
    <2>3. CASE v = w
        BY <2>1, <2>3 DEF BatchOK
    <2>4. CASE v # w
        BY <2>1, <2>2, <2>4, BatchFramed
    <2> QED
        BY <2>3, <2>4
<1>4. ASSUME OutboxQuiet, NEW v \in Workers PROVE BatchOK(v)'
    BY <1>4, BatchFramed DEF OutboxQuiet
<1> QED
    BY <1>0, <1>1, <1>2, <1>3, <1>4, OutboxQuietSteps DEF Allocation

\* Committed numbers are final.
LEMMA NumbersStay ==
    ASSUME OutboxTypeOK, [OutboxNext]_outboxVars, NEW r \in Rows, seq[r] # 0
    PROVE  seq'[r] = seq[r]
<1>1. OutboxQuiet => seq'[r] = seq[r]
    BY DEF OutboxQuiet
<1>2. ASSUME NEW w \in Workers, Allocation(w) PROVE seq'[r] = seq[r]
    BY <1>2 DEF Allocation, AllocBegin, Stamp, AllocCommit, AllocRollback, Crash, table
<1> QED
    BY <1>1, <1>2, OutboxQuietSteps

\* Streams change by an XADD only.
LEMMA WhoWritesStream ==
    ASSUME [OutboxNext]_outboxVars
    PROVE  streams' = streams \/ \E m \in net : ApplyXadd(m)
    BY DEF OutboxNext, Work, Enqueue, BackoffExpires, AllocRollback, PublishFail, Crash, StartTick, AllocBegin,
           AllocNotLeader, Stamp, AllocCommit, StartPublish, PickTenant, PublishBreak, PublishBegin,
           SendXadd, PublishCommit, EndTick, outboxVars, redis

\* What a sequence is after an append.
LEMMA AppendFacts ==
    ASSUME NEW S, NEW s \in Seq(S), NEW e \in S
    PROVE  /\ DOMAIN s \subseteq DOMAIN Append(s, e)
           /\ Len(s) + 1 \in DOMAIN Append(s, e) /\ Append(s, e)[Len(s) + 1] = e
           /\ \A i \in DOMAIN s : Append(s, e)[i] = s[i]
    OBVIOUS

\* The entry is in the stream of its row's tenant, and nothing leaves a stream.
LEMMA XaddFacts ==
    ASSUME OutboxTypeOK, NEW m \in net, ApplyXadd(m)
    PROVE  InStream(m.row)' /\ \A r \in Rows : InStream(r) => InStream(r)'
<1> DEFINE e == [row |-> m.row, seq |-> m.seq]
<1>1. m.row \in Rows /\ TenantOf[m.row] \in Tenants /\ e \in [row : Rows, seq : Nat]
    BY OutboxAssumption DEF OutboxTypeOK
<1>2. PICK t : t = TenantOf[m.row]
    OBVIOUS
<1>3. streams[t] \in Seq([row : Rows, seq : Nat]) /\ t \in Tenants
    BY <1>1, <1>2 DEF OutboxTypeOK
<1>4. streams'[t] = Append(streams[t], e) /\ \A u \in Tenants \ {t} : streams'[u] = streams[u]
    BY <1>1, <1>2 DEF ApplyXadd, OutboxTypeOK
<1>5. InStream(m.row)'
    <2>1. streams'[t][Len(streams[t]) + 1] = e /\ Len(streams[t]) + 1 \in DOMAIN streams'[t]
        BY <1>1, <1>3, <1>4, AppendFacts
    <2>2. e.row = m.row
        OBVIOUS
    <2> HIDE DEF e
    <2>3. \E i \in DOMAIN streams'[t] : streams'[t][i].row = m.row
        BY <2>1, <2>2
    <2>4. t = TenantOf[m.row] /\ (\E i \in DOMAIN streams'[t] : streams'[t][i].row = m.row)
        BY <1>2, <2>3
    <2> QED
        BY <2>4 DEF InStream
<1>6. ASSUME NEW r \in Rows, InStream(r) PROVE InStream(r)'
    <2>1. TenantOf[r] \in Tenants
        BY OutboxAssumption
    <2>2. CASE TenantOf[r] = t
        BY <1>1, <1>3, <1>4, <1>6, <2>2, AppendFacts DEF InStream
    <2>3. CASE TenantOf[r] # t
        BY <1>4, <1>6, <2>1, <2>3 DEF InStream
    <2> QED
        BY <2>2, <2>3
<1> QED
    BY <1>5, <1>6

\* Only the worker itself and Redis move a worker on in its publishing.
LEMMA WhoPublishes ==
    ASSUME Placed, [OutboxNext]_outboxVars, NEW w \in Workers, pc'[w] \in Publishing
    PROVE  \/ pc'[w] = pc[w] /\ row'[w] = row[w]
           \/ PublishBegin(w) \/ SendXadd(w)
           \/ \E m \in net : ApplyXadd(m) /\ pc'[w] = "replied" /\ row'[w] = m.row
<1> DEFINE Still == pc'[w] = pc[w] /\ row'[w] = row[w]
<1>0. /\ pc \in [Workers -> Places] /\ row \in [Workers -> Rows \cup {None}]
      /\ pc'[w] \notin {"idle", "allocate", "stamp", "publish"}
    BY DEF Placed, OutboxTypeOK, Publishing
<1>1. ASSUME NEW v \in Workers, StartTick(v) PROVE Still
    BY <1>0, <1>1 DEF StartTick, alloc
<1>2. ASSUME NEW v \in Workers, AllocBegin(v) PROVE Still
    BY <1>0, <1>2 DEF AllocBegin, alloc
<1>3. ASSUME NEW v \in Workers, AllocNotLeader(v) PROVE Still
    BY <1>0, <1>3 DEF AllocNotLeader, alloc
<1>4. ASSUME NEW v \in Workers, Stamp(v) PROVE Still
    BY <1>0, <1>4 DEF Stamp, alloc
<1>5. ASSUME NEW v \in Workers, AllocCommit(v) PROVE Still
    BY <1>0, <1>5 DEF AllocCommit, EndAlloc, alloc
<1>6. ASSUME NEW v \in Workers, StartPublish(v) PROVE Still
    BY <1>0, <1>6 DEF StartPublish, alloc
<1>7. ASSUME NEW v \in Workers, PickTenant(v) PROVE Still
    BY <1>0, <1>7 DEF PickTenant, alloc
<1>8. ASSUME NEW v \in Workers, PublishBreak(v) PROVE Still
    BY <1>0, <1>8 DEF PublishBreak, alloc
<1>9. ASSUME NEW v \in Workers, PublishBegin(v) PROVE Still \/ PublishBegin(w)
    BY <1>0, <1>9 DEF PublishBegin, alloc
<1>10. ASSUME NEW v \in Workers, SendXadd(v) PROVE Still \/ SendXadd(w)
    BY <1>0, <1>10 DEF SendXadd, alloc
<1>11. ASSUME NEW v \in Workers, PublishCommit(v) PROVE Still
    BY <1>0, <1>11 DEF PublishCommit, EndPublish, alloc
<1>12. ASSUME NEW v \in Workers, EndTick(v) PROVE Still
    BY <1>0, <1>12 DEF EndTick, alloc
<1>13. ASSUME NEW v \in Workers, AllocRollback(v) PROVE Still
    BY <1>0, <1>13 DEF AllocRollback, EndAlloc, alloc
<1>14. ASSUME NEW v \in Workers, PublishFail(v) PROVE Still
    BY <1>0, <1>14 DEF PublishFail, EndPublish, alloc
<1>15. ASSUME NEW v \in Workers, Crash(v) PROVE Still
    BY <1>0, <1>15 DEF Crash, alloc
<1>16. ASSUME NEW r \in Rows, Enqueue(r) \/ BackoffExpires(r) PROVE Still
    BY <1>16 DEF Enqueue, BackoffExpires
<1>17. ASSUME NEW m \in net, ApplyXadd(m) PROVE Still \/ (pc'[w] = "replied" /\ row'[w] = m.row)
    BY <1>0, <1>17 DEF ApplyXadd, Placed, OutboxTypeOK
<1>18. ASSUME UNCHANGED outboxVars PROVE Still
    BY <1>18 DEF outboxVars
<1> QED
    BY <1>1, <1>2, <1>3, <1>4, <1>5, <1>6, <1>7, <1>8, <1>9, <1>10, <1>11, <1>12,
       <1>13, <1>14, <1>15, <1>16, <1>17, <1>18 DEF OutboxNext, Work

\* Commands are sent by SendXadd only.
LEMMA WhoSends ==
    ASSUME [OutboxNext]_outboxVars
    PROVE  net' \subseteq net \/ \E w \in Workers : SendXadd(w)
    BY DEF OutboxNext, Work, Enqueue, BackoffExpires, AllocRollback, PublishFail, Crash, StartTick, AllocBegin,
           AllocNotLeader, Stamp, AllocCommit, StartPublish, PickTenant, PublishBreak, PublishBegin,
           SendXadd, PublishCommit, EndTick, ApplyXadd, MayDrop, outboxVars, redis

\* What is sent has its committed number, whatever is committed while it is on its way.
LEMMA SentStep == ASSUME RInv, [OutboxNext]_outboxVars PROVE SentOK'
<1>1. OutboxTypeOK /\ SentOK /\ Placed
    BY DEF RInv, IInv, Placed
<1>2. \A m \in net : m.row \in Rows
    BY <1>1 DEF OutboxTypeOK
<1>3. CASE net' \subseteq net
    BY <1>1, <1>2, <1>3, NumbersStay DEF SentOK
<1>4. ASSUME NEW w \in Workers, SendXadd(w) PROVE SentOK'
    <2>1. pc[w] \in Publishing /\ net' = net \cup {Command(w)} /\ seq' = seq
        BY <1>4 DEF SendXadd, Publishing, table
    <2>2. Command(w).seq = seq[row[w]] /\ Command(w).row = row[w] /\ seq[row[w]] # 0
        BY <2>1 DEF Command, RInv, PublishedOK
    <2> QED
        BY <1>1, <2>1, <2>2 DEF SentOK
<1> QED
    BY <1>3, <1>4, WhoSends

\* A worker that publishes has a numbered row; one that Redis has answered finds it in the stream.
LEMMA PublishedStep ==
    ASSUME RInv, [OutboxNext]_outboxVars, NEW w \in Workers
    PROVE  PublishedOK(w)'
<1>1. OutboxTypeOK /\ SentOK /\ PublishedOK(w) /\ Placed
    BY DEF RInv, IInv, Placed
<1>2. CASE pc'[w] \notin Publishing
    BY <1>2 DEF PublishedOK, Publishing
<1>3. CASE pc'[w] \in Publishing /\ pc'[w] = pc[w] /\ row'[w] = row[w]
    <2>1. PICK r \in Rows : r = row[w]
        BY <1>1, <1>3, PublishingRow
    <2>2. seq'[r] # 0
        BY <1>1, <1>3, <2>1, NumbersStay DEF PublishedOK
    <2>3. InStream(r) => InStream(r)'
        <3>1. CASE streams' = streams
            BY <3>1 DEF InStream
        <3>2. CASE \E m \in net : ApplyXadd(m)
            BY <1>1, <3>2, XaddFacts
        <3> QED
            BY <3>1, <3>2, WhoWritesStream
    <2>4. pc[w] = "replied" => InStream(r)
        BY <1>1, <2>1 DEF PublishedOK, InStream
    <2>5. row'[w] = r
        BY <1>3, <2>1
    <2> QED
        BY <1>3, <2>2, <2>3, <2>4, <2>5 DEF PublishedOK, InStream
<1>4. CASE PublishBegin(w)
    <2>1. PICK r \in LowestSeq(Publishable(tenant[w])) : row' = [row EXCEPT ![w] = r]
        BY <1>4 DEF PublishBegin
    <2>2. row'[w] = r /\ seq'[r] # 0 /\ pc'[w] = "send"
        BY <1>1, <1>4, <2>1 DEF PublishBegin, LowestSeq, Publishable, OutboxTypeOK, table
    <2> QED
        BY <2>2 DEF PublishedOK
<1>5. CASE SendXadd(w)
    <2>1. row'[w] = row[w] /\ seq' = seq /\ pc[w] = "send" /\ pc'[w] = "await"
        BY <1>1, <1>5 DEF SendXadd, table, OutboxTypeOK
    <2> QED
        BY <1>1, <2>1 DEF PublishedOK, Publishing
<1>6. ASSUME NEW m \in net, ApplyXadd(m), pc'[w] = "replied", row'[w] = m.row PROVE PublishedOK(w)'
    <2>1. PICK r \in Rows : r = m.row
        BY <1>1 DEF OutboxTypeOK
    <2>2. InStream(r)' /\ seq'[r] # 0
        <3>1. seq' = seq /\ seq[r] # 0
            BY <1>1, <1>6, <2>1 DEF ApplyXadd, table, SentOK
        <3> QED
            BY <1>1, <1>6, <2>1, <3>1, XaddFacts DEF InStream
    <2>3. row'[w] = r
        BY <1>6, <2>1
    <2> QED
        BY <2>2, <2>3 DEF PublishedOK, InStream
<1> QED
    BY <1>1, <1>2, <1>3, <1>4, <1>5, <1>6, WhoPublishes

\* The strengthened invariant holds of every reachable state.
LEMMA RInvInit == OutboxInit => RInv
    BY InvInit DEF OutboxInit, RInv, SentOK, BatchOK, PublishedOK, Publishing

\* Every step keeps the invariant of the refinement.
LEMMA RInvStep == RInv /\ [OutboxNext]_outboxVars => RInv'
    BY InvStep, SentStep, PublishedStep, BatchStep DEF RInv

-----------------------------------------------------------------------------
(* The refinement.                                                         *)

\* The log of a tenant lists its numbered rows in the order of their numbers.
LogIsList(t) ==
    /\ LogOf(t) \in Seq(Rows) /\ Len(LogOf(t)) = nextSeq[t] - 1
    /\ DOMAIN LogOf(t) = 1..(nextSeq[t] - 1)
    /\ \A n \in 1..(nextSeq[t] - 1) : TenantOf[LogOf(t)[n]] = t /\ seq[LogOf(t)[n]] = n
    /\ \A r \in Rows : TenantOf[r] = t /\ seq[r] # 0 =>
          seq[r] \in 1..(nextSeq[t] - 1) /\ LogOf(t)[seq[r]] = r

\* Under the invariant, the log of a tenant is the list of its numbered rows.
LEMMA LogFacts == ASSUME NEW t \in Tenants, IInv PROVE LogIsList(t)
<1>1. Numbered(t) /\ nextSeq[t] \in Nat \ {0} /\ seq \in [Rows -> Nat]
    BY DEF IInv, OutboxTypeOK
<1>2. \A n \in 1..(nextSeq[t] - 1) :
         LogOf(t)[n] \in Rows /\ TenantOf[LogOf(t)[n]] = t /\ seq[LogOf(t)[n]] = n
    BY <1>1 DEF Numbered, LogOf
<1>3. LogOf(t) \in [1..(nextSeq[t] - 1) -> Rows]
    BY <1>2 DEF LogOf
<1>4. ASSUME NEW r \in Rows, TenantOf[r] = t, seq[r] # 0
      PROVE  seq[r] \in 1..(nextSeq[t] - 1) /\ LogOf(t)[seq[r]] = r
    <2>1. seq[r] \in 1..(nextSeq[t] - 1)
        BY <1>1, <1>4 DEF Numbered
    <2> QED
        BY <1>1, <1>2, <1>4, <2>1 DEF Numbered
<1>5. nextSeq[t] - 1 \in Nat
    BY <1>1
<1> QED
    BY <1>2, <1>3, <1>4, <1>5 DEF LogIsList

\* The same, of the next state.
LEMMA LogFactsNext == ASSUME NEW t \in Tenants PROVE (IInv => LogIsList(t))'
<1>1. IInv => LogIsList(t)
    BY LogFacts
<1> QED
    BY <1>1, PTL

\* A log changes with its numbers only.
LEMMA LogFramed ==
    ASSUME NEW t \in Tenants, nextSeq'[t] = nextSeq[t],
           \A r \in Rows : TenantOf[r] = t => seq'[r] = seq[r]
    PROVE  LogOf(t)' = LogOf(t)
<1>1. \A n : {r \in Rows : TenantOf[r] = t /\ seq'[r] = n} = {r \in Rows : TenantOf[r] = t /\ seq[r] = n}
    OBVIOUS
<1>2. \A n : (CHOOSE r \in Rows : TenantOf[r] = t /\ seq'[r] = n)
                = (CHOOSE r \in Rows : TenantOf[r] = t /\ seq[r] = n)
    OBVIOUS
<1> QED
    BY <1>2 DEF LogOf

\* The rows an allocation has stamped, in the order of their stamps.
Batch(w)   == {r \in Rows : stamps[w][r] # 0}
Stamped(w) == [i \in 1..drawn[w] |-> CHOOSE r \in Rows : stamps[w][r] = nextSeq[tenant[w]] + i - 1]

\* They are in the order they were created.
LEMMA StampedFacts ==
    ASSUME RInv, NEW w \in Workers, pc[w] = "stamp"
    PROVE  /\ Stamped(w) \in [1..drawn[w] -> Batch(w)]
           /\ \A i \in 1..drawn[w] : stamps[w][Stamped(w)[i]] = nextSeq[tenant[w]] + i - 1
           /\ Cardinality(Batch(w)) = drawn[w]
           /\ \A i, j \in 1..drawn[w] : i < j => Stamped(w)[i] < Stamped(w)[j]
<1> DEFINE n == nextSeq[tenant[w]]
           d == drawn[w]
           S == Stamped(w)
<1>1. n \in Nat \ {0} /\ d \in Nat /\ AllocationOK(w) /\ BatchOK(w) /\ \A r \in Rows : stamps[w][r] \in Nat
    BY DEF RInv, IInv, OutboxTypeOK, WorkerOK
<1>2. ASSUME NEW i \in 1..d PROVE S[i] \in Rows /\ stamps[w][S[i]] = n + i - 1
    <2>1. n + i - 1 \in Nat /\ n <= n + i - 1 /\ n + i - 1 < n + d
        BY <1>1
    <2>2. \E r \in Rows : stamps[w][r] = n + i - 1
        BY <1>1, <2>1 DEF AllocationOK
    <2>3. S[i] = CHOOSE r \in Rows : stamps[w][r] = n + i - 1
        BY DEF Stamped
    <2> QED
        BY <2>2, <2>3
<1>3. \A i \in 1..d : S[i] \in Batch(w)
    BY <1>1, <1>2 DEF Batch
<1>4. S \in [1..d -> Batch(w)]
    <2>1. S = [i \in 1..d |-> S[i]]
        BY DEF Stamped
    <2> HIDE DEF S
    <2> QED
        BY <1>3, <2>1
<1>5. \A i, j \in 1..d : i # j => S[i] # S[j]
    BY <1>1, <1>2
<1>6. ASSUME NEW r \in Batch(w) PROVE \E i \in 1..d : S[i] = r
    <2>1. r \in Rows /\ stamps[w][r] # 0 /\ n <= stamps[w][r] /\ stamps[w][r] < n + d
        BY <1>1 DEF Batch, AllocationOK
    <2> DEFINE i == stamps[w][r] - n + 1
    <2>2. i \in 1..d /\ n + i - 1 = stamps[w][r]
        BY <1>1, <2>1
    <2> HIDE DEF i
    <2>3. S[i] \in Rows /\ stamps[w][S[i]] = stamps[w][r]
        BY <1>2, <2>2
    <2>4. S[i] = r
        BY <1>1, <2>1, <2>3 DEF AllocationOK
    <2> QED
        BY <2>2, <2>4
<1>7. Cardinality(Batch(w)) = d
    <2>1. S \in Bijection(1..d, Batch(w))
        BY <1>4, <1>5, <1>6 DEF Bijection, Injection, Surjection, IsInjective
    <2>2. ExistsBijection(1..d, Batch(w))
        BY <2>1 DEF ExistsBijection
    <2> QED
        BY <1>1, <2>2, FS_CountingElements
<1>8. ASSUME NEW i \in 1..d, NEW j \in 1..d, i < j PROVE S[i] < S[j]
    <2> HIDE DEF S
    <2>1. S[i] \in Rows /\ S[j] \in Rows /\ S[i] # S[j] /\ stamps[w][S[i]] < stamps[w][S[j]]
             /\ stamps[w][S[i]] # 0 /\ stamps[w][S[j]] # 0
        BY <1>1, <1>2, <1>5, <1>8
    <2>2. ~(S[j] < S[i])
        BY <1>1, <2>1 DEF BatchOK
    <2>3. S[i] \in Nat /\ S[j] \in Nat
        BY <2>1, OutboxAssumption
    <2> QED
        BY <2>1, <2>2, <2>3
<1> QED
    BY <1>2, <1>4, <1>7, <1>8

\* A list is as long as its domain says.
LEMMA ListFacts ==
    ASSUME NEW R, NEW d \in Nat, NEW s \in [1..d -> R]
    PROVE  s \in Seq(R) /\ Len(s) = d
    OBVIOUS

\* A list that starts with one list and goes on with another is their concatenation.
LEMMA ConcatFacts ==
    ASSUME NEW R, NEW a \in Nat, NEW b \in Nat, NEW L \in Seq(R), NEW S \in Seq(R), NEW M \in Seq(R),
           Len(L) = a, Len(S) = b, Len(M) = a + b,
           \A k \in 1..a : M[k] = L[k], \A i \in 1..b : M[a + i] = S[i]
    PROVE  M = L \o S
<1>1. L \o S \in Seq(R) /\ Len(L \o S) = a + b
         /\ \A k \in 1..(a + b) : (L \o S)[k] = IF k <= a THEN L[k] ELSE S[k - a]
    BY ConcatProperties
<1>2. ASSUME NEW k \in 1..(a + b) PROVE M[k] = (L \o S)[k]
    <2>1. CASE k <= a
        BY <1>1, <2>1
    <2>2. CASE k > a
        <3>1. k - a \in 1..b /\ k = a + (k - a)
            BY <2>2
        <3>2. M[k] = S[k - a]
            BY <3>1
        <3> QED
            BY <1>1, <2>2, <3>2
    <2> QED
        BY <2>1, <2>2
<1> QED
    BY <1>1, <1>2, SeqEqual

\* A committed allocation appends them to the tenant's log.
LEMMA CommitAppends ==
    ASSUME RInv, IInv', NEW w \in Workers, AllocCommit(w), NEW t \in Tenants, t = tenant[w]
    PROVE  LogOf(t)' = LogOf(t) \o Stamped(w)
<1> DEFINE n == nextSeq[t]
           d == drawn[w]
           S == Stamped(w)
<1>1. /\ pc[w] = "stamp" /\ n \in Nat \ {0} /\ d \in Nat
      /\ nextSeq'[t] = n + d
      /\ \A r \in Rows : seq'[r] = IF seq[r] = 0 THEN stamps[w][r] ELSE seq[r]
    BY DEF AllocCommit, RInv, IInv, OutboxTypeOK
<1>2. LogIsList(t) /\ LogIsList(t)'
    BY LogFacts, LogFactsNext DEF RInv
<1>3. AllocationOK(w)
    BY DEF RInv, IInv
<1>4. Len(S) = d /\ S \in Seq(Rows)
    <2>1. S \in [1..d -> Rows]
        BY <1>1, StampedFacts DEF Batch
    <2> QED
        BY <1>1, <2>1, ListFacts
<1>5. ASSUME NEW k \in 1..(n - 1) PROVE LogOf(t)'[k] = LogOf(t)[k]
    <2> DEFINE r == LogOf(t)[k]
    <2>1. r \in Rows /\ TenantOf[r] = t /\ seq[r] = k
        BY <1>1, <1>2 DEF LogIsList
    <2>2. seq'[r] = k /\ k # 0
        BY <1>1, <2>1
    <2> HIDE DEF r
    <2>3. LogOf(t)'[k] = r
        BY <1>2, <2>1, <2>2 DEF LogIsList
    <2> QED
        BY <2>3 DEF r
<1>6. ASSUME NEW i \in 1..d PROVE LogOf(t)'[n - 1 + i] = S[i]
    <2>1. S[i] \in Batch(w) /\ stamps[w][S[i]] = n + i - 1
        BY <1>1, StampedFacts
    <2>2. S[i] \in Rows /\ TenantOf[S[i]] = t /\ seq[S[i]] = 0
        BY <1>1, <1>3, <2>1 DEF Batch, AllocationOK
    <2>3. seq'[S[i]] = n - 1 + i /\ n - 1 + i # 0
        BY <1>1, <2>1, <2>2
    <2> QED
        BY <1>2, <2>2, <2>3 DEF LogIsList
<1>7. LogOf(t)' \in Seq(Rows) /\ Len(LogOf(t)') = n - 1 + d /\ LogOf(t) \in Seq(Rows) /\ Len(LogOf(t)) = n - 1
    BY <1>1, <1>2 DEF LogIsList
<1> QED
    <2> DEFINE L == LogOf(t)
               M == LogOf(t)'
    <2>1. M \in Seq(Rows) /\ Len(M) = n - 1 + d /\ L \in Seq(Rows) /\ Len(L) = n - 1
        BY <1>7
    <2>2. \A k \in 1..(n - 1) : M[k] = L[k]
        BY <1>5
    <2>3. \A i \in 1..d : M[n - 1 + i] = S[i]
        BY <1>6
    <2> HIDE DEF L, M, S
    <2>4. n - 1 \in Nat /\ d \in Nat /\ S \in Seq(Rows) /\ Len(S) = d
        BY <1>1, <1>4
    <2> HIDE DEF n, d
    <2>6. M = L \o S
        BY <2>1, <2>2, <2>3, <2>4, ConcatFacts
    <2> QED
        BY <2>6 DEF L, M, S

\* A step that numbers nothing, sends nothing and settles nothing is no step of the log.
LogSame == UNCHANGED <<written, seq, nextSeq, streams, dispatched>>

\* A step that leaves the rows of a tenant alone leaves its log alone.
LEMMA LogStutters ==
    ASSUME LogSame
    PROVE  UNCHANGED Abstract!evars
<1>1. \A t \in Tenants : LogOf(t)' = LogOf(t)
    BY LogFramed DEF LogSame
<1>2. [t \in Tenants |-> LogOf(t)]' = [t \in Tenants |-> LogOf(t)]
    BY <1>1
<1> QED
    BY <1>2 DEF LogSame, Abstract!evars

\* A domain transaction submits its event.
LEMMA EnqueueSubmits ==
    ASSUME NEW r \in Rows, Enqueue(r)
    PROVE  Abstract!Submit(r)
<1>1. [t \in Tenants |-> LogOf(t)]' = [t \in Tenants |-> LogOf(t)]
    BY LogFramed DEF Enqueue
<1> QED
    BY <1>1 DEF Enqueue, Abstract!Submit, redis

\* An allocation that commits numbers its batch.
LEMMA CommitNumbers ==
    ASSUME RInv, IInv', NEW w \in Workers, AllocCommit(w)
    PROVE  LogSame \/ \E t \in Tenants : Abstract!Number(t)
<1>1. PICK t \in Tenants : t = tenant[w]
    BY DEF RInv, IInv, WorkerOK, AllocCommit
<1>2. /\ pc[w] = "stamp" /\ sel[w] = {} /\ drawn[w] \in Nat /\ AllocationOK(w) /\ BatchOK(w)
      /\ nextSeq' = [nextSeq EXCEPT ![t] = @ + drawn[w]] /\ nextSeq \in [Tenants -> Nat \ {0}]
      /\ \A r \in Rows : seq'[r] = IF seq[r] = 0 THEN stamps[w][r] ELSE seq[r]
      /\ seq \in [Rows -> Nat] /\ seq' \in [Rows -> Nat]
      /\ stamps[w] \in [Rows -> Nat]
      /\ UNCHANGED <<written, dispatched, streams>>
    BY <1>1 DEF AllocCommit, RInv, IInv, OutboxTypeOK, redis
<1>3. CASE drawn[w] = 0
    <2>1. \A r \in Rows : stamps[w][r] = 0
        BY <1>2, <1>3, <1>1 DEF AllocationOK
    <2>2. seq' = seq /\ nextSeq' = nextSeq
        BY <1>2, <1>3, <2>1
    <2> QED
        BY <1>2, <2>2 DEF LogSame
<1>4. CASE drawn[w] # 0
    <2>1. Stamped(w) \in [1..Cardinality(Batch(w)) -> Batch(w)]
             /\ \A i, j \in DOMAIN Stamped(w) : i < j => Stamped(w)[i] < Stamped(w)[j]
        BY <1>2, StampedFacts
    <2>2. Batch(w) # {}
        BY <1>2, <1>4, StampedFacts, FS_EmptySet
    <2>3. ASSUME NEW r \in Batch(w) PROVE r \in written /\ TenantOf[r] = t /\ seq[r] = 0
        BY <1>1, <1>2 DEF Batch, AllocationOK, BatchOK
    <2> DEFINE Log == [u \in Tenants |-> LogOf(u)]
    <2>4. ASSUME NEW i \in DOMAIN LogOf(t) PROVE LogOf(t)[i] \notin Batch(w)
        <3>1. LogIsList(t)
            BY LogFacts DEF RInv
        <3>2. i \in 1..(nextSeq[t] - 1) /\ seq[LogOf(t)[i]] = i
            BY <3>1, <2>4 DEF LogIsList
        <3>3. i # 0
            BY <1>2, <3>2
        <3> QED
            BY <2>3, <3>2, <3>3
    <2>5. Log' = [Log EXCEPT ![t] = @ \o Stamped(w)]
        <3>1. LogOf(t)' = LogOf(t) \o Stamped(w)
            BY <1>1, CommitAppends
        <3>2. ASSUME NEW u \in Tenants, u # t PROVE LogOf(u)' = LogOf(u)
            <4>1. nextSeq'[u] = nextSeq[u]
                BY <1>2, <3>2
            <4>2. \A r \in Rows : TenantOf[r] = u => stamps[w][r] = 0
                BY <1>1, <1>2, <3>2 DEF AllocationOK
            <4>3. \A r \in Rows : TenantOf[r] = u => seq'[r] = seq[r]
                BY <1>2, <4>2
            <4> QED
                BY <4>1, <4>3, LogFramed
        <3> QED
            BY <3>1, <3>2
    <2>6. Batch(w) \in SUBSET {e \in written \ Abstract!Logged(t) : TenantOf[e] = t}
        <3>1. Abstract!Logged(t) = {LogOf(t)[i] : i \in DOMAIN LogOf(t)}
            BY DEF Abstract!Logged
        <3>2. ASSUME NEW r \in Batch(w) PROVE r \in written \ Abstract!Logged(t) /\ TenantOf[r] = t
            BY <2>3, <2>4, <3>1, <3>2
        <3> QED
            BY <3>2
    <2>7. Stamped(w) \in Abstract!InOrder(Batch(w))
        <3>1. Abstract!Cardinality(Batch(w)) = Cardinality(Batch(w))
            BY DEF Cardinality, Abstract!Cardinality
        <3> QED
            BY <2>1, <3>1 DEF Abstract!InOrder
    <2> QED
        BY <1>2, <2>2, <2>5, <2>6, <2>7 DEF Abstract!Number
<1> QED
    BY <1>3, <1>4

\* An XADD that Redis applies copies a numbered event.
LEMMA XaddCopies ==
    ASSUME RInv, NEW m \in net, ApplyXadd(m)
    PROVE  \E t \in Tenants : Abstract!Copy(t)
<1>1. PICK r \in Rows : r = m.row
    BY DEF RInv, IInv, OutboxTypeOK
<1>2. PICK t \in Tenants : t = TenantOf[r]
    BY OutboxAssumption
<1>3. m.seq = seq[r] /\ seq[r] # 0 /\ LogIsList(t)
    BY <1>1, LogFacts DEF RInv, SentOK
<1>4. seq[r] \in DOMAIN LogOf(t) /\ LogOf(t)[seq[r]] = r
    BY <1>2, <1>3 DEF LogIsList
<1>5. streams' = [streams EXCEPT ![t] = Append(@, [row |-> LogOf(t)[seq[r]], seq |-> seq[r]])]
    BY <1>1, <1>2, <1>3, <1>4 DEF ApplyXadd
<1>6. UNCHANGED <<written, dispatched>> /\ [u \in Tenants |-> LogOf(u)]' = [u \in Tenants |-> LogOf(u)]
    BY LogFramed DEF ApplyXadd, table
<1> QED
    BY <1>4, <1>5, <1>6 DEF Abstract!Copy

\* A dispatched row settles an event that is in the stream.
LEMMA CommitSettles ==
    ASSUME RInv, NEW w \in Workers, PublishCommit(w)
    PROVE  \E r \in Rows : Abstract!Settle(r)
<1>1. pc[w] = "replied" /\ Placed
    BY DEF PublishCommit, RInv, IInv, Placed
<1>2. PICK r \in Rows : r = row[w]
    BY <1>1, PublishingRow DEF Publishing
<1>3. InStream(r)
    BY <1>1, <1>2 DEF RInv, PublishedOK, InStream
<1>4. dispatched' = dispatched \cup {r} /\ UNCHANGED <<written, streams>>
         /\ [u \in Tenants |-> LogOf(u)]' = [u \in Tenants |-> LogOf(u)]
    BY <1>2, LogFramed DEF PublishCommit, redis
<1> QED
    BY <1>3, <1>4 DEF Abstract!Settle, InStream

\* Every other step is no step of the log.
LEMMA OtherStepsStutter ==
    ASSUME [OutboxNext]_outboxVars
    PROVE  \/ LogSame
           \/ \E r \in Rows : Enqueue(r)
           \/ \E m \in net : ApplyXadd(m)
           \/ \E w \in Workers : AllocCommit(w) \/ PublishCommit(w)
    BY DEF OutboxNext, Work, BackoffExpires, AllocRollback, PublishFail, Crash, StartTick, AllocBegin,
           AllocNotLeader, Stamp, StartPublish, PickTenant, PublishBreak, PublishBegin,
           SendXadd, EndTick, outboxVars, redis, table, LogSame

(* The outbox implements the numbered log (seq-allocator.ts, publisher.ts): *)
(* numbers are positions, given in the order of creation within a batch and *)
(* never taken back; what reaches the stream carries its row's position; a  *)
(* row that is dispatched is in the stream.  For any number of processes,   *)
(* tenants and rows, any crash, rollback, lost reply or late command.       *)
THEOREM OutboxImplementsLog == OutboxSpec => ImplementsEventLog
<1>1. OutboxInit => Abstract!LogInit
    BY DEF OutboxInit, Abstract!LogInit, LogOf
<1>2. RInv /\ IInv' /\ [OutboxNext]_outboxVars => [Abstract!LogNext]_(Abstract!evars)
    BY OtherStepsStutter, LogStutters, EnqueueSubmits, CommitNumbers, XaddCopies, CommitSettles
    DEF Abstract!LogNext
<1>3. RInv => IInv
    BY DEF RInv
<1> QED
    BY <1>1, <1>2, <1>3, RInvInit, RInvStep, PTL DEF OutboxSpec, ImplementsEventLog, Abstract!LogSpec

-----------------------------------------------------------------------------
(* FirstOf.  The rank of an element of S is the number of elements up to it; *)
(* ranks are the numbers 1..Cardinality(S), in order.                        *)
UpTo(S, i) == {h \in S : h <= i}
Rank(S, i) == Cardinality(UpTo(S, i))

\* Ranks respect the order of the elements.
LEMMA RankGrows ==
    ASSUME NEW S \in SUBSET Nat, IsFiniteSet(S), NEW i \in S, NEW j \in S, i < j
    PROVE  Rank(S, i) \in Nat /\ Rank(S, j) \in Nat /\ Rank(S, i) < Rank(S, j)
<1>0. i \in Nat /\ j \in Nat
    OBVIOUS
<1>a. \A h \in UpTo(S, i) : h \in UpTo(S, j)
  <2> SUFFICES ASSUME NEW h \in S, h <= i PROVE h <= j
      BY DEF UpTo
  <2>1. h \in Nat OBVIOUS
  <2> QED BY <2>1, <1>0
<1>b. j \in UpTo(S, j) /\ j \notin UpTo(S, i)
    BY <1>0 DEF UpTo
<1>1. UpTo(S, i) \in SUBSET UpTo(S, j) /\ UpTo(S, i) # UpTo(S, j)
    BY <1>a, <1>b
<1>2. UpTo(S, j) \in SUBSET S
    BY DEF UpTo
<1>3. IsFiniteSet(UpTo(S, j))
    BY <1>2, FS_Subset
<1>4. /\ IsFiniteSet(UpTo(S, i))
      /\ Cardinality(UpTo(S, i)) <= Cardinality(UpTo(S, j))
      /\ Cardinality(UpTo(S, j)) # Cardinality(UpTo(S, i))
    BY <1>1, <1>3, FS_Subset
<1>5. Cardinality(UpTo(S, i)) \in Nat /\ Cardinality(UpTo(S, j)) \in Nat
    BY <1>3, <1>4, FS_CardinalityType
<1> QED BY <1>4, <1>5 DEF Rank

\* A rank is at least one and at most the size of the set.
LEMMA RankRange ==
    ASSUME NEW S \in SUBSET Nat, IsFiniteSet(S), NEW i \in S
    PROVE  Cardinality(S) \in Nat /\ Rank(S, i) \in 1..Cardinality(S)
<1>1. UpTo(S, i) \in SUBSET S /\ i \in UpTo(S, i)
    BY DEF UpTo
<1>2. IsFiniteSet(UpTo(S, i)) /\ Cardinality(UpTo(S, i)) <= Cardinality(S)
    BY <1>1, FS_Subset
<1>3. Cardinality(UpTo(S, i)) # 0
    BY <1>1, <1>2, FS_EmptySet
<1>4. Cardinality(UpTo(S, i)) \in Nat /\ Cardinality(S) \in Nat
    BY <1>2, FS_CardinalityType
<1> QED BY <1>2, <1>3, <1>4 DEF Rank

\* Different elements have different ranks.
LEMMA RankApart ==
    ASSUME NEW S \in SUBSET Nat, IsFiniteSet(S), NEW i \in S, NEW j \in S,
           Rank(S, i) = Rank(S, j)
    PROVE  i = j
<1>1. CASE i < j BY <1>1, RankGrows
<1>2. CASE j < i BY <1>2, RankGrows
<1> QED BY <1>1, <1>2

\* Every number up to the size of the set is a rank.
LEMMA RankOnto ==
    ASSUME NEW S \in SUBSET Nat, IsFiniteSet(S), NEW n \in 1..Cardinality(S)
    PROVE  \E i \in S : Rank(S, i) = n
<1> DEFINE T == 1..Cardinality(S)
           r == [i \in S |-> Rank(S, i)]
<1>1. Cardinality(S) \in Nat
    BY FS_CardinalityType
<1>2. r \in [S -> T]
    BY RankRange
<1>3. \A i, j \in S : r[i] = r[j] => i = j
    BY RankApart
<1>4. r \in Injection(S, T)
    BY <1>2, <1>3 DEF Injection, IsInjective
<1>5. IsFiniteSet(T) /\ Cardinality(T) = Cardinality(S)
    BY <1>1, FS_Interval
<1>6. r \in Surjection(S, T)
    BY <1>4, <1>5, FS_Injection
<1>7. \A m \in T : \E i \in S : r[i] = m
    BY <1>6 DEF Surjection
<1> QED BY <1>7

(* What FirstOf returns: the n smallest elements in order, leaving out none  *)
(* that is smaller than one it has, and all of them if it has fewer than n.  *)
LEMMA FirstOfFacts ==
    ASSUME NEW S \in SUBSET Nat, IsFiniteSet(S), NEW n \in Nat
    PROVE  LET f == FirstOf(S, n) IN
           /\ f \in Seq(S) /\ Len(f) <= n /\ Len(f) <= Cardinality(S)
           /\ \A a, b \in 1..Len(f) : a < b => f[a] < f[b]
           /\ \A b \in 1..Len(f), i \in S : i < f[b] => \E a \in 1..Len(f) : f[a] = i
           /\ Len(f) < n \/ Cardinality(S) <= n =>
                 \A i \in S : \E a \in 1..Len(f) : f[a] = i
           /\ S # {} /\ n # 0 => Len(f) # 0
<1> DEFINE k == IF Cardinality(S) < n THEN Cardinality(S) ELSE n
           f == FirstOf(S, n)
<1>1. Cardinality(S) \in Nat
    BY FS_CardinalityType
<1>2. k \in Nat /\ k <= n /\ k <= Cardinality(S)
    BY <1>1
<1>3. f = [j \in 1..k |-> CHOOSE i \in S : Rank(S, i) = j]
    BY DEF FirstOf, Rank, UpTo
<1>4. ASSUME NEW j \in 1..k PROVE f[j] \in S /\ Rank(S, f[j]) = j
  <2>1. \E i \in S : Rank(S, i) = j
      BY <1>1, <1>2, RankOnto
  <2> QED BY <2>1, <1>3
<1> HIDE DEF k, f
<1>5. f \in Seq(S) /\ Len(f) = k
  <2>1. f \in [1..k -> S]
      BY <1>3, <1>4
  <2> QED BY <2>1, <1>2
<1>6. \A a, b \in 1..k : a < b => f[a] < f[b]
  <2> SUFFICES ASSUME NEW a \in 1..k, NEW b \in 1..k, a < b, ~(f[a] < f[b]) PROVE FALSE
      OBVIOUS
  <2>1. f[a] \in S /\ f[b] \in S /\ Rank(S, f[a]) = a /\ Rank(S, f[b]) = b
      BY <1>4
  <2>2. f[a] # f[b] BY <2>1
  <2>3. f[a] \in Nat /\ f[b] \in Nat BY <2>1
  <2>4. f[b] < f[a] BY <2>2, <2>3
  <2>5. Rank(S, f[b]) < Rank(S, f[a]) BY <2>1, <2>4, RankGrows
  <2> QED BY <2>1, <2>5
<1>7. ASSUME NEW i \in S, Rank(S, i) <= k PROVE \E a \in 1..k : f[a] = i
  <2>1. Rank(S, i) \in 1..k
      BY <1>7, <1>2, <1>1, RankRange
  <2>2. PICK a \in 1..k : a = Rank(S, i)
      BY <2>1
  <2>3. PICK h \in S : h = f[a] /\ Rank(S, h) = Rank(S, i)
      BY <2>2, <1>4
  <2>4. h = i
      BY <2>3, RankApart
  <2> QED BY <2>3, <2>4
<1>8. \A b \in 1..k, i \in S : i < f[b] => \E a \in 1..k : f[a] = i
  <2> SUFFICES ASSUME NEW b \in 1..k, NEW i \in S, i < f[b]
               PROVE  \E a \in 1..k : f[a] = i
      OBVIOUS
  <2>1. Rank(S, i) < b /\ Rank(S, i) \in Nat
      BY <1>4, RankGrows
  <2> QED BY <2>1, <1>2, <1>7
<1>9. k < n \/ Cardinality(S) <= n => \A i \in S : \E a \in 1..k : f[a] = i
  <2> SUFFICES ASSUME k < n \/ Cardinality(S) <= n, NEW i \in S PROVE Rank(S, i) <= k
      BY <1>7
  <2> QED BY <1>1, RankRange DEF k
<1>10. S # {} /\ n # 0 => k # 0
    BY <1>1, FS_EmptySet DEF k
<1>11. Len(f) <= n /\ Len(f) <= Cardinality(S)
    BY <1>2, <1>5
<1>12. DOMAIN f = 1..k
    BY <1>5, <1>2
<1> USE <1>5
<1> QED BY <1>11, <1>6, <1>8, <1>9, <1>10 DEF f


-----------------------------------------------------------------------------
(* The relay.                                                              *)

\* A relay that is between ticks holds nothing; what it has sent is published.
HolderOK(c) ==
    /\ stage[c] = "idle" => batch[c] = <<>>
    /\ sent[c] => batch[c] # <<>> /\ Head(batch[c]) \in Items(channel)

RelayInv == RelayTypeOK /\ NothingForgotten /\ \A c \in Relays : HolderOK(c)

\* Appending to and taking from a sequence, as sets of items.
LEMMA ItemsAppend ==
    ASSUME NEW S, NEW s \in Seq(S), NEW e \in S
    PROVE  Items(Append(s, e)) = Items(s) \cup {e}
<1> DEFINE t == Append(s, e)
<1>1. /\ Len(t) = Len(s) + 1 /\ DOMAIN t = 1..Len(t) /\ DOMAIN s = 1..Len(s)
      /\ Len(s) \in Nat
      /\ t[Len(s) + 1] = e /\ \A j \in 1..Len(s) : t[j] = s[j]
    OBVIOUS
<1> HIDE DEF t
<1>2. \A x \in Items(t) : x \in Items(s) \cup {e}
    BY <1>1 DEF Items
<1>3. e \in Items(t) /\ \A x \in Items(s) : x \in Items(t)
    BY <1>1 DEF Items
<1> QED BY <1>2, <1>3 DEF t

LEMMA ItemsTail ==
    ASSUME NEW S, NEW s \in Seq(S), s # <<>>
    PROVE  Items(s) = {Head(s)} \cup Items(Tail(s))
<1>1. /\ Len(s) \in Nat \ {0} /\ DOMAIN s = 1..Len(s) /\ Head(s) = s[1]
      /\ DOMAIN Tail(s) = 1..(Len(s) - 1)
      /\ \A j \in 1..(Len(s) - 1) : Tail(s)[j] = s[j + 1]
    OBVIOUS
<1>2. \A x \in Items(s) : x = Head(s) \/ x \in Items(Tail(s))
  <2> SUFFICES ASSUME NEW j \in 1..Len(s), j # 1 PROVE s[j] \in Items(Tail(s))
      BY <1>1 DEF Items
  <2>1. j - 1 \in 1..(Len(s) - 1) /\ Tail(s)[j - 1] = s[(j - 1) + 1] /\ (j - 1) + 1 = j
      BY <1>1
  <2> QED BY <2>1, <1>1 DEF Items
<1>3. Head(s) \in Items(s) /\ \A x \in Items(Tail(s)) : x \in Items(s)
  <2>1. \A j \in 1..(Len(s) - 1) : j + 1 \in 1..Len(s)
      BY <1>1
  <2> QED BY <2>1, <1>1 DEF Items
<1> QED BY <1>2, <1>3

\* Sequences over a set are sequences over a larger one.
LEMMA SeqGrows ==
    ASSUME NEW S, NEW T, S \subseteq T, NEW s \in Seq(S) PROVE s \in Seq(T)
    OBVIOUS

LEMMA SeqWithin ==
    ASSUME NEW S, NEW T, NEW s \in Seq(S), \A a \in 1..Len(s) : s[a] \in T
    PROVE  s \in Seq(T)
<1>1. Len(s) \in Nat /\ s = [a \in 1..Len(s) |-> s[a]]
    OBVIOUS
<1> QED BY <1>1

LEMMA HeadAndTail ==
    ASSUME NEW S, NEW s \in Seq(S), s # <<>>
    PROVE  Head(s) \in S /\ Tail(s) \in Seq(S) /\ (Len(s) = 1 => Tail(s) = <<>>)
<1>1. Head(s) \in S /\ Tail(s) \in Seq(S) /\ Len(Tail(s)) = Len(s) - 1
    BY HeadTailProperties
<1>2. \A q \in Seq(S) : Len(q) = 0 => q = <<>>
    BY EmptySeq
<1>3. Len(s) = 1 => Tail(s) = <<>>
  <2> SUFFICES ASSUME Len(s) = 1 PROVE Tail(s) = <<>>
      OBVIOUS
  <2>1. \A t : Len(t) = Len(s) - 1 => Len(t) = 0
      OBVIOUS
  <2>2. Len(Tail(s)) = 0
      BY <1>1, <2>1, Zenon
  <2> QED BY <2>2, <1>1, <1>2, Zenon
<1> QED BY <1>1, <1>3

LEMMA SeqItems ==
    ASSUME NEW S, NEW s \in Seq(S)
    PROVE  Items(s) \subseteq S /\ (s # <<>> => Head(s) \in Items(s))
<1>1. Len(s) \in Nat /\ DOMAIN s = 1..Len(s) /\ \A j \in 1..Len(s) : s[j] \in S
    OBVIOUS
<1>2. s # <<>> => Len(s) # 0 /\ Head(s) = s[1]
    OBVIOUS
<1> QED BY <1>1, <1>2 DEF Items

\* FirstOf picks positions of the set it is given.
LEMMA FirstOfItems ==
    ASSUME NEW S \in SUBSET Nat, IsFiniteSet(S), NEW n \in Nat
    PROVE  FirstOf(S, n) \in Seq(S) /\ Items(FirstOf(S, n)) \subseteq S
    BY FirstOfFacts, SeqItems

\* Any set of stream positions is finite.
LEMMA PositionsFinite ==
    ASSUME stream \in Seq(Events), NEW S \in SUBSET (1..Len(stream))
    PROVE  IsFiniteSet(S) /\ S \in SUBSET Nat
<1>1. Len(stream) \in Nat
    OBVIOUS
<1>2. IsFiniteSet(1..Len(stream))
    BY <1>1, FS_Interval
<1>3. IsFiniteSet(S)
    BY <1>2, FS_Subset
<1>4. S \in SUBSET Nat
    BY <1>1
<1> QED BY <1>3, <1>4

LEMMA RelayInvInit == RelayInit => RelayInv
<1> SUFFICES ASSUME RelayInit PROVE RelayInv
    OBVIOUS
<1>1. stream \in Seq(Events) /\ Len(stream) = 0 /\ channel \in Seq(1..lastRead)
    BY DEF RelayInit
<1>2. batch \in [Relays -> Seq(1..lastRead)]
    BY DEF RelayInit
<1> QED BY <1>1, <1>2 DEF RelayInit, RelayInv, RelayTypeOK, NothingForgotten, HolderOK


\* Nothing but the events of the stream, or how much of it is trimmed, moves.
LEMMA SourceSteps ==
    ASSUME RelayInv, NEW e \in Events, AppendEntry(e) \/ Trim PROVE RelayInv'
<1> USE DEF RelayInv, RelayTypeOK, group, relay, bounds
<1>1. CASE AppendEntry(e)
  <2>1. stream' \in Seq(Events) /\ Len(stream') = Len(stream) + 1 /\ Len(stream) \in Nat
      BY <1>1 DEF AppendEntry
  <2>2. RelayTypeOK'
      BY <1>1, <2>1 DEF AppendEntry
  <2>3. NothingForgotten' /\ \A c \in Relays : HolderOK(c)'
      BY <1>1 DEF AppendEntry, NothingForgotten, HolderOK
  <2> QED BY <2>2, <2>3
<1>2. CASE Trim
  <2>1. Len(stream) \in Nat /\ trimmed' \in 0..Len(stream) /\ trimmed <= trimmed'
      BY <1>2 DEF Trim, Retained
  <2>2. RelayTypeOK'
      BY <1>2, <2>1 DEF Trim
  <2>3. NothingForgotten' /\ \A c \in Relays : HolderOK(c)'
      BY <1>2, <2>1 DEF Trim, NothingForgotten, HolderOK
  <2> QED BY <2>2, <2>3
<1> QED BY <1>1, <1>2

\* Claiming takes over pending entries, and drops the trimmed ones.
LEMMA ClaimStep == ASSUME RelayInv, NEW c \in Relays, Claim(c) PROVE RelayInv'
<1> DEFINE S == idle \cap Retained
           new == FirstOf(S, BatchSize)
<1> USE DEF RelayInv
<1>1. /\ stream \in Seq(Events) /\ Len(stream) \in Nat /\ lastRead \in 0..Len(stream)
      /\ idle \subseteq pel /\ pel \subseteq 1..lastRead /\ trimmed \in Nat
      /\ batch \in [Relays -> Seq(1..lastRead)] /\ sent \in [Relays -> BOOLEAN]
      /\ stage \in [Relays -> {"idle", "claimed", "read"}]
      /\ BatchSize \in Nat
    BY RelayAssumption DEF RelayTypeOK
<1>2. /\ stage[c] = "idle" /\ batch' = [batch EXCEPT ![c] = new]
      /\ pel' = pel \ (idle \ Retained)
      /\ idle' = S \ Items(batch'[c])
      /\ stage' = [stage EXCEPT ![c] = "claimed"]
      /\ UNCHANGED <<source, lastRead, sent, channel, bounds>>
    BY DEF Claim
<1>3. S \in SUBSET (1..Len(stream))
  <2>1. \A i \in 1..lastRead : i \in 1..Len(stream)
      BY <1>1
  <2>2. \A i \in S : i \in 1..lastRead
      BY <1>1
  <2> QED BY <2>1, <2>2
<1>4. IsFiniteSet(S) /\ S \in SUBSET Nat
    BY <1>1, <1>3, PositionsFinite
<1>5. new \in Seq(S)
    BY <1>1, <1>4, FirstOfItems
<1> HIDE DEF new
<1>6. new \in Seq(1..lastRead)
    BY <1>1, <1>5, SeqGrows
<1>7. batch' \in [Relays -> Seq(1..lastRead)]
    BY <1>1, <1>2, <1>6
<1>8. stage' \in [Relays -> {"idle", "claimed", "read"}]
    BY <1>1, <1>2
<1>9. RelayTypeOK'
    BY <1>1, <1>2, <1>7, <1>8 DEF RelayTypeOK, source, bounds
<1>10. NothingForgotten'
  <2>1. \A i \in 1..lastRead : i \in idle \ Retained => i <= trimmed
      BY <1>1 DEF Retained
  <2> QED BY <1>2, <2>1 DEF NothingForgotten, source
<1>11. ~sent[c]
    BY <1>2 DEF HolderOK
<1>12. ASSUME NEW d \in Relays PROVE HolderOK(d)'
    BY <1>1, <1>2, <1>11 DEF HolderOK
<1> QED BY <1>9, <1>10, <1>12

\* Reading takes the entries that follow the last one delivered, none left out.
LEMMA ReadStep == ASSUME RelayInv, NEW c \in Relays, Read(c) PROVE RelayInv'
<1> DEFINE S == {i \in Retained : i > lastRead}
           new == FirstOf(S, BatchSize)
<1> USE DEF RelayInv
<1>1. /\ stream \in Seq(Events) /\ Len(stream) \in Nat /\ lastRead \in 0..Len(stream)
      /\ idle \subseteq pel /\ pel \subseteq 1..lastRead /\ trimmed \in 0..Len(stream)
      /\ batch \in [Relays -> Seq(1..lastRead)] /\ sent \in [Relays -> BOOLEAN]
      /\ stage \in [Relays -> {"idle", "claimed", "read"}]
      /\ channel \in Seq(1..lastRead)
      /\ BatchSize \in Nat
    BY RelayAssumption DEF RelayTypeOK
<1>2. /\ stage[c] = "claimed" /\ batch[c] = <<>>
      /\ batch' = [batch EXCEPT ![c] = new]
      /\ pel' = pel \cup Items(new)
      /\ lastRead' = IF new = <<>> THEN lastRead ELSE new[Len(new)]
      /\ stage' = [stage EXCEPT ![c] = IF new = <<>> THEN "idle" ELSE "read"]
      /\ UNCHANGED <<source, idle, sent, channel, bounds>>
    BY DEF Read
<1>3. S \in SUBSET (1..Len(stream)) /\ \A i \in S : i > lastRead
    BY <1>1 DEF Retained
<1>4. IsFiniteSet(S) /\ S \in SUBSET Nat
    BY <1>1, <1>3, PositionsFinite
<1>5. /\ new \in Seq(S)
      /\ \A a, b \in 1..Len(new) : a < b => new[a] < new[b]
      /\ \A b \in 1..Len(new), i \in S : i < new[b] => \E a \in 1..Len(new) : new[a] = i
    BY <1>1, <1>4, FirstOfFacts
<1> HIDE DEF new
<1>6. /\ Len(new) \in Nat /\ DOMAIN new = 1..Len(new) /\ \A a \in 1..Len(new) : new[a] \in S
      /\ new # <<>> => Len(new) \in 1..Len(new)
    BY <1>5
<1>7. lastRead <= lastRead' /\ lastRead' \in 0..Len(stream)
  <2>1. CASE new = <<>> BY <2>1, <1>1, <1>2
  <2>2. CASE new # <<>>
    <3>1. new[Len(new)] \in S /\ lastRead' = new[Len(new)]
        BY <2>2, <1>1, <1>2, <1>6
    <3> QED BY <3>1, <1>1, <1>3
  <2> QED BY <2>1, <2>2
<1>8. Items(new) \subseteq 1..lastRead'
  <2>1. ASSUME NEW a \in 1..Len(new) PROVE new[a] \in 1..lastRead'
    <3>1. new # <<>> /\ Len(new) \in 1..Len(new)
        BY <1>6
    <3>2. lastRead' = new[Len(new)] /\ lastRead' \in Nat /\ lastRead \in Nat
        BY <3>1, <1>1, <1>2, <1>7
    <3>3. new[a] \in Nat /\ new[a] > lastRead
        BY <1>3, <1>4, <1>6
    <3>4. a < Len(new) => new[a] < new[Len(new)]
        BY <1>5, <3>1
    <3>5. a = Len(new) \/ a < Len(new)
      <4>1. Len(new) \in Nat BY <1>6
      <4> QED BY <4>1
    <3> QED BY <3>2, <3>3, <3>4, <3>5
  <2> QED BY <2>1, <1>6 DEF Items
<1>9. new \in Seq(1..lastRead')
  <2>1. \A a \in 1..Len(new) : new[a] \in 1..lastRead'
      BY <1>6, <1>8 DEF Items
  <2> QED BY <2>1, <1>5, SeqWithin
<1>10. batch' \in [Relays -> Seq(1..lastRead')]
  <2>1. \A d \in Relays : batch[d] \in Seq(1..lastRead')
      BY <1>1, <1>7, SeqGrows
  <2> QED BY <2>1, <1>1, <1>2, <1>9
<1>11. RelayTypeOK'
  <2>1. channel' \in Seq(1..lastRead')
      BY <1>1, <1>2, <1>7, SeqGrows
  <2>2. stage' \in [Relays -> {"idle", "claimed", "read"}]
      BY <1>1, <1>2
  <2>a. \A i \in 1..lastRead : i \in 1..lastRead'
      BY <1>1, <1>7
  <2>3. pel' \subseteq 1..lastRead' /\ idle' \subseteq pel'
      BY <2>a, <1>1, <1>2, <1>8
  <2>4. UNCHANGED <<stream, trimmed, trims, sent, crashes, slow>>
      BY <1>2 DEF source, bounds
  <2> QED BY <2>1, <2>2, <2>3, <2>4, <1>7, <1>10 DEF RelayTypeOK
<1>12. NothingForgotten'
  <2> SUFFICES ASSUME NEW i \in 1..lastRead', i \notin pel', ~(i <= trimmed)
               PROVE  i \in Items(channel)
      BY <1>2 DEF NothingForgotten, source
  <2>1. CASE i \in 1..lastRead
      BY <2>1, <1>2 DEF NothingForgotten
  <2>2. CASE i \notin 1..lastRead
    <3>1. i \in S
        BY <2>2, <1>1, <1>7 DEF Retained
    <3>2. new # <<>> /\ lastRead' = new[Len(new)] /\ Len(new) \in 1..Len(new)
        BY <2>2, <1>2, <1>6
    <3>3. \E a \in 1..Len(new) : new[a] = i
      <4>1. new[Len(new)] \in Nat /\ i \in Nat
          BY <3>2, <1>7
      <4>2. i = new[Len(new)] \/ i < new[Len(new)]
          BY <3>2, <4>1
      <4> QED BY <4>2, <3>1, <3>2, <1>5
    <3>4. i \in Items(new)
        BY <3>3, <1>6 DEF Items
    <3> QED BY <3>4, <1>2
  <2> QED BY <2>1, <2>2
<1>13. ~sent[c]
    BY <1>2 DEF HolderOK
<1>14. ASSUME NEW d \in Relays PROVE HolderOK(d)'
    BY <1>1, <1>2, <1>13 DEF HolderOK
<1> QED BY <1>11, <1>12, <1>14

\* An acknowledged entry has been published.
LEMMA PublishSteps ==
    ASSUME RelayInv, NEW c \in Relays, Publish(c) \/ Ack(c) PROVE RelayInv'
<1> USE DEF RelayInv
<1>1. /\ batch \in [Relays -> Seq(1..lastRead)] /\ sent \in [Relays -> BOOLEAN]
      /\ stage \in [Relays -> {"idle", "claimed", "read"}]
      /\ channel \in Seq(1..lastRead) /\ idle \subseteq pel /\ pel \subseteq 1..lastRead
    BY DEF RelayTypeOK
<1>2. batch[c] # <<>>
    BY DEF Publish, Ack, HolderOK
<1>3. batch[c] \in Seq(1..lastRead)
    BY <1>1
<1>4. /\ Head(batch[c]) \in 1..lastRead /\ Tail(batch[c]) \in Seq(1..lastRead)
      /\ Len(batch[c]) = 1 => Tail(batch[c]) = <<>>
    BY <1>2, <1>3, HeadAndTail
<1>5. CASE Publish(c)
  <2>1. channel' \in Seq(1..lastRead) /\ Items(channel') = Items(channel) \cup {Head(batch[c])}
      BY <1>1, <1>4, <1>5, ItemsAppend DEF Publish
  <2>2. sent' \in [Relays -> BOOLEAN]
      BY <1>1, <1>5 DEF Publish
  <2>3. RelayTypeOK'
      BY <1>5, <2>1, <2>2 DEF Publish, RelayTypeOK, source, group, bounds
  <2>4. NothingForgotten'
      BY <1>5, <2>1 DEF Publish, NothingForgotten, source, group
  <2>5. ASSUME NEW d \in Relays PROVE HolderOK(d)'
      BY <1>1, <1>2, <1>5, <2>1 DEF Publish, HolderOK
  <2> QED BY <2>3, <2>4, <2>5
<1>6. CASE Ack(c)
  <2>1. batch' \in [Relays -> Seq(1..lastRead)]
      BY <1>1, <1>4, <1>6 DEF Ack
  <2>2. sent' \in [Relays -> BOOLEAN] /\ stage' \in [Relays -> {"idle", "claimed", "read"}]
      BY <1>1, <1>6 DEF Ack
  <2>3. RelayTypeOK'
      BY <1>6, <2>1, <2>2 DEF Ack, RelayTypeOK, source, bounds
  <2>4. Head(batch[c]) \in Items(channel)
      BY <1>6 DEF Ack, HolderOK
  <2>5. NothingForgotten'
      BY <1>6, <2>4 DEF Ack, NothingForgotten, source
  <2>6. ASSUME NEW d \in Relays PROVE HolderOK(d)'
    <3>1. CASE d # c
        BY <3>1, <1>1, <1>6 DEF Ack, HolderOK
    <3>2. CASE d = c
      <4>1. ~sent'[c] /\ batch'[c] = Tail(batch[c])
          BY <1>1, <1>6 DEF Ack
      <4>2. stage[c] # "idle"
          BY <1>2 DEF HolderOK
      <4>3. stage'[c] = "idle" => Len(batch[c]) = 1
          BY <4>2, <1>1, <1>6 DEF Ack
      <4> QED BY <3>2, <4>1, <4>3, <1>4 DEF HolderOK
    <3> QED BY <3>1, <3>2
  <2> QED BY <2>3, <2>5, <2>6
<1> QED BY <1>5, <1>6

\* A crash leaves the group as it is,
LEMMA CrashStep == ASSUME RelayInv, NEW c \in Relays, RelayCrash(c) PROVE RelayInv'
<1> USE DEF RelayInv
<1>1. /\ batch \in [Relays -> Seq(1..lastRead)] /\ sent \in [Relays -> BOOLEAN]
      /\ stage \in [Relays -> {"idle", "claimed", "read"}] /\ crashes \in Nat
    BY DEF RelayTypeOK
<1>2. batch' \in [Relays -> Seq(1..lastRead)]
    BY <1>1 DEF RelayCrash
<1>3. sent' \in [Relays -> BOOLEAN] /\ stage' \in [Relays -> {"idle", "claimed", "read"}]
    BY <1>1 DEF RelayCrash
<1>4. RelayTypeOK'
    BY <1>1, <1>2, <1>3 DEF RelayCrash, RelayTypeOK, source, group
<1>5. NothingForgotten'
    BY DEF RelayCrash, NothingForgotten, source, group
<1>6. ASSUME NEW d \in Relays PROVE HolderOK(d)'
    BY <1>1 DEF RelayCrash, HolderOK
<1> QED BY <1>4, <1>5, <1>6

\* and an entry that grew idle stays pending.
LEMMA GrowIdleStep == ASSUME RelayInv, NEW i \in pel, GrowIdle(i) PROVE RelayInv'
<1> USE DEF RelayInv
<1>1. slow' \in Nat /\ idle' \subseteq pel
    BY DEF GrowIdle, RelayTypeOK
<1>2. RelayTypeOK'
    BY <1>1 DEF GrowIdle, RelayTypeOK, source, relay
<1>3. NothingForgotten' /\ \A d \in Relays : HolderOK(d)'
    BY DEF GrowIdle, NothingForgotten, HolderOK, source, relay
<1> QED BY <1>2, <1>3

LEMMA RelayInvStep == RelayInv /\ [RelayNext]_rvars => RelayInv'
<1> SUFFICES ASSUME RelayInv, [RelayNext]_rvars PROVE RelayInv'
    OBVIOUS
<1>1. CASE \E e \in Events : AppendEntry(e)
    BY <1>1, SourceSteps
<1>2. CASE Trim
  <2>1. stream # <<>>
      BY <1>2 DEF Trim, Retained, RelayInv, RelayTypeOK
  <2>2. stream[1] \in Events
      BY <2>1 DEF RelayInv, RelayTypeOK
  <2> QED BY <1>2, <2>2, SourceSteps
<1>3. ASSUME NEW c \in Relays, Tick(c) PROVE RelayInv'
    BY <1>3, ClaimStep, ReadStep, PublishSteps DEF Tick
<1>4. ASSUME NEW c \in Relays, RelayCrash(c) PROVE RelayInv'
    BY <1>4, CrashStep
<1>5. ASSUME NEW i \in pel, GrowIdle(i) PROVE RelayInv'
    BY <1>5, GrowIdleStep
<1>6. CASE UNCHANGED rvars
    BY <1>6 DEF rvars, source, group, relay, bounds, RelayInv, RelayTypeOK,
                NothingForgotten, HolderOK
<1> QED BY <1>1, <1>2, <1>3, <1>4, <1>5, <1>6 DEF RelayNext


(* No entry that the group was given is forgotten (relay.ts: a restart never *)
(* loses an event).  That an acknowledged entry was published is the heart  *)
(* of it, and holds because a relay that has sent a frame still holds it at *)
(* the head of its batch, whoever claimed the entry meanwhile.              *)
THEOREM RelayForgetsNothing == RelaySpec => []NothingForgotten
<1>1. RelayInv => NothingForgotten
    BY DEF RelayInv
<1> QED BY <1>1, RelayInvInit, RelayInvStep, PTL DEF RelaySpec


-----------------------------------------------------------------------------
(* Frames, and what a replay delivers.                                     *)

\* The frames the hub sends: an event frame carries a position of the stream.
Sent ==
    {m \in Frame : /\ m.type = "event" => m.cursor \in 1..Len(stream)
                   /\ m.type \in {"heartbeat", "resumed", "resync-required"} =>
                         m.cursor \in Ids}

\* The frames Push adds, if it adds them, follow those that were there.
LEMMA PushFacts ==
    ASSUME NEW S, NEW c, wire[c] \in Seq(S), NEW frames \in Seq(S)
    PROVE  /\ Push(c, frames) \in Seq(S)
           /\ Items(wire[c]) \subseteq Items(Push(c, frames))
           /\ Items(Push(c, frames)) \subseteq Items(wire[c]) \cup Items(frames)
           /\ Used(c) => Items(frames) \subseteq Items(Push(c, frames))
           /\ \A j \in (Len(wire[c]) + 1)..Len(Push(c, frames)) :
                 Push(c, frames)[j] \in Items(frames)
           /\ Len(wire[c]) <= Len(Push(c, frames))
           /\ \A j \in 1..Len(wire[c]) : Push(c, frames)[j] = wire[c][j]
           /\ Len(Push(c, frames)) <= Len(wire[c]) + Len(frames)
<1> DEFINE w == wire[c]
           t == w \o frames
<1>1. /\ Len(w) \in Nat /\ Len(frames) \in Nat
      /\ DOMAIN w = 1..Len(w) /\ DOMAIN frames = 1..Len(frames)
    OBVIOUS
<1>2. /\ t \in Seq(S) /\ Len(t) = Len(w) + Len(frames)
      /\ \A i \in 1..(Len(w) + Len(frames)) :
            t[i] = IF i <= Len(w) THEN w[i] ELSE frames[i - Len(w)]
    BY ConcatProperties
<1>3. DOMAIN t = 1..(Len(w) + Len(frames))
    BY <1>2
<1> HIDE DEF t, w
<1>4. ASSUME NEW i \in 1..Len(w) PROVE w[i] \in Items(t)
  <2>1. i \in 1..(Len(w) + Len(frames)) /\ t[i] = w[i]
      BY <1>1, <1>2
  <2> QED BY <2>1, <1>3 DEF Items
<1>5. ASSUME NEW i \in 1..Len(frames) PROVE frames[i] \in Items(t)
  <2>1. PICK h \in 1..(Len(w) + Len(frames)) : h = Len(w) + i
      BY <1>1
  <2>2. t[h] = frames[h - Len(w)] /\ h - Len(w) = i
      BY <2>1, <1>1, <1>2
  <2> QED BY <2>1, <2>2, <1>3 DEF Items
<1>6. ASSUME NEW i \in 1..Len(t) PROVE t[i] \in Items(w) \cup Items(frames)
  <2>1. CASE i <= Len(w)
      BY <2>1, <1>1, <1>2 DEF Items
  <2>2. CASE ~(i <= Len(w))
    <3>1. i - Len(w) \in 1..Len(frames) /\ t[i] = frames[i - Len(w)]
        BY <2>2, <1>1, <1>2
    <3> QED BY <3>1, <1>1 DEF Items
  <2> QED BY <2>1, <2>2
<1>7. ASSUME NEW j \in (Len(w) + 1)..Len(t) PROVE t[j] \in Items(frames)
  <2>1. j - Len(w) \in 1..Len(frames) /\ t[j] = frames[j - Len(w)]
      BY <1>1, <1>2
  <2> QED BY <2>1, <1>1 DEF Items
<1>8. Items(w) \subseteq Items(t) /\ Items(frames) \subseteq Items(t)
    BY <1>1, <1>4, <1>5 DEF Items
<1>9. Items(t) \subseteq Items(w) \cup Items(frames)
    BY <1>2, <1>3, <1>6 DEF Items
<1>10. CASE Used(c)
  <2>1. Push(c, frames) = t
      BY <1>10 DEF Push, t, w
  <2>2. /\ Len(w) <= Len(t) /\ \A j \in 1..Len(w) : t[j] = w[j]
        /\ Len(t) <= Len(w) + Len(frames)
      BY <1>1, <1>2
  <2> QED BY <2>1, <2>2, <1>2, <1>7, <1>8, <1>9 DEF w
<1>11. CASE ~Used(c)
  <2>1. Push(c, frames) = w /\ w \in Seq(S)
      BY <1>11 DEF Push, w
  <2>2. (Len(w) + 1)..Len(w) = {}
      BY <1>1
  <2>3. Len(w) <= Len(w) /\ Len(w) <= Len(w) + Len(frames)
      BY <1>1
  <2> QED BY <2>1, <2>2, <2>3, <1>11 DEF w
<1> QED BY <1>10, <1>11

LEMMA ConcatItems ==
    ASSUME NEW S, NEW s \in Seq(S), NEW t \in Seq(S)
    PROVE  s \o t \in Seq(S) /\ Items(s \o t) = Items(s) \cup Items(t)
<1> DEFINE u == s \o t
<1>1. /\ Len(s) \in Nat /\ DOMAIN s = 1..Len(s) /\ Len(t) \in Nat /\ DOMAIN t = 1..Len(t)
    OBVIOUS
<1>2. /\ u \in Seq(S) /\ Len(u) = Len(s) + Len(t)
      /\ \A i \in 1..(Len(s) + Len(t)) : u[i] = IF i <= Len(s) THEN s[i] ELSE t[i - Len(s)]
    BY ConcatProperties
<1>3. DOMAIN u = 1..(Len(s) + Len(t))
    BY <1>2
<1> HIDE DEF u
<1>4. ASSUME NEW i \in 1..Len(s) PROVE s[i] \in Items(u)
  <2>1. i \in 1..(Len(s) + Len(t)) /\ u[i] = s[i]
      BY <1>1, <1>2
  <2> QED BY <2>1, <1>3 DEF Items
<1>5. ASSUME NEW i \in 1..Len(t) PROVE t[i] \in Items(u)
  <2>1. PICK h \in 1..(Len(s) + Len(t)) : h = Len(s) + i
      BY <1>1
  <2>2. u[h] = t[h - Len(s)] /\ h - Len(s) = i
      BY <2>1, <1>1, <1>2
  <2> QED BY <2>1, <2>2, <1>3 DEF Items
<1>6. ASSUME NEW i \in 1..(Len(s) + Len(t)) PROVE u[i] \in Items(s) \cup Items(t)
  <2>1. CASE i <= Len(s)
      BY <2>1, <1>1, <1>2 DEF Items
  <2>2. CASE ~(i <= Len(s))
    <3>1. i - Len(s) \in 1..Len(t) /\ u[i] = t[i - Len(s)]
        BY <2>2, <1>1, <1>2
    <3> QED BY <3>1, <1>1 DEF Items
  <2> QED BY <2>1, <2>2
<1>7. Items(u) = Items(s) \cup Items(t)
  <2>1. Items(s) \subseteq Items(u) /\ Items(t) \subseteq Items(u)
      BY <1>1, <1>4, <1>5 DEF Items
  <2>2. Items(u) \subseteq Items(s) \cup Items(t)
      BY <1>3, <1>6 DEF Items
  <2> QED BY <2>1, <2>2
<1> QED BY <1>2, <1>7 DEF u

\* A one-frame sequence.
LEMMA OneFrame ==
    ASSUME NEW S, NEW m \in S PROVE <<m>> \in Seq(S) /\ Items(<<m>>) = {m}
    BY DEF Items

\* What stays in order of a list at some of its positions.
LEMMA ThoseFacts ==
    ASSUME NEW S, NEW ids \in Seq(S), NEW P \in SUBSET (1..Len(ids))
    PROVE  /\ Those(ids, P) \in Seq(S)
           /\ Items(Those(ids, P)) = {ids[j] : j \in P}
<1> DEFINE order == FirstOf(P, Len(ids))
<1>1. Len(ids) \in Nat
    OBVIOUS
<1>2. IsFiniteSet(1..Len(ids)) /\ Cardinality(1..Len(ids)) = Len(ids)
  <2>1. Len(ids) = 0 => 1 > Len(ids) OBVIOUS
  <2>2. IsFiniteSet(1..Len(ids)) /\
        Cardinality(1..Len(ids)) = IF 1 > Len(ids) THEN 0 ELSE Len(ids) - 1 + 1
      BY <1>1, FS_Interval
  <2> QED BY <2>1, <2>2, <1>1
<1>3. IsFiniteSet(P) /\ Cardinality(P) <= Len(ids)
    BY <1>2, FS_Subset
<1>4. P \in SUBSET Nat
    BY <1>1
<1>5. /\ order \in Seq(P)
      /\ \A i \in P : \E a \in 1..Len(order) : order[a] = i
    BY <1>1, <1>3, <1>4, FirstOfFacts
<1>6. Those(ids, P) = [n \in DOMAIN order |-> ids[order[n]]]
    BY DEF Those
<1> HIDE DEF order
<1>7. /\ Len(order) \in Nat /\ DOMAIN order = 1..Len(order)
      /\ \A n \in 1..Len(order) : order[n] \in P
    BY <1>5
<1>8. \A n \in 1..Len(order) : ids[order[n]] \in S
  <2>1. \A j \in P : ids[j] \in S
      OBVIOUS
  <2> QED BY <2>1, <1>7
<1>9. Those(ids, P) \in Seq(S)
    BY <1>6, <1>7, <1>8
<1>10. Items(Those(ids, P)) = {ids[j] : j \in P}
  <2>1. Items(Those(ids, P)) = {ids[order[n]] : n \in 1..Len(order)}
      BY <1>6, <1>7 DEF Items
  <2>2. \A x : (\E n \in 1..Len(order) : x = ids[order[n]]) => \E j \in P : x = ids[j]
      BY <1>7
  <2>3. \A x : (\E j \in P : x = ids[j]) => \E n \in 1..Len(order) : x = ids[order[n]]
      BY <1>5
  <2> QED BY <2>1, <2>2, <2>3
<1> QED BY <1>9, <1>10

(* deliverOnce: only what the session may see now, and, of every event that *)
(* it may see, one of the entries, unless the event was delivered before.   *)
LEMMA DeliverableFacts ==
    ASSUME NEW c, NEW done, NEW ids \in Seq(1..Len(stream))
    PROVE  LET out == Deliverable(c, ids, done) IN
           /\ out \in Seq(1..Len(stream))
           /\ \A i \in Items(out) : i \in Items(ids) /\ Authorized(c, i)
           /\ \A i \in Items(ids) : Authorized(c, i) => stream[i] \in done \cup EventsOf(out)
<1> DEFINE P == {j \in DOMAIN ids :
                   /\ Authorized(c, ids[j]) /\ stream[ids[j]] \notin done
                   /\ \A h \in 1..(j - 1) :
                         Authorized(c, ids[h]) => stream[ids[h]] # stream[ids[j]]}
           out == Deliverable(c, ids, done)
<1>1. Len(ids) \in Nat /\ DOMAIN ids = 1..Len(ids) /\ P \in SUBSET (1..Len(ids))
    OBVIOUS
<1>2. out = Those(ids, P)
    BY DEF Deliverable
<1>3. out \in Seq(1..Len(stream)) /\ Items(out) = {ids[j] : j \in P}
  <2> HIDE DEF P
  <2> QED BY <1>1, <1>2, ThoseFacts
<1> HIDE DEF out
<1>4. \A i \in Items(out) : i \in Items(ids) /\ Authorized(c, i)
    BY <1>3 DEF Items
<1>5. ASSUME NEW j \in 1..Len(ids), Authorized(c, ids[j]), stream[ids[j]] \notin done
      PROVE  stream[ids[j]] \in EventsOf(out)
  <2> DEFINE Same == {h \in 1..Len(ids) :
                        Authorized(c, ids[h]) /\ stream[ids[h]] = stream[ids[j]]}
             f == FirstOf(Same, 1)
  <2>1. IsFiniteSet(Same) /\ Same \in SUBSET Nat /\ Same # {}
    <3>1. IsFiniteSet(1..Len(ids)) BY <1>1, FS_Interval
    <3>2. IsFiniteSet(Same) BY <3>1, FS_Subset
    <3> QED BY <3>2, <1>5, <1>1
  <2>2. /\ f \in Seq(Same) /\ Len(f) <= 1 /\ Len(f) # 0
        /\ \A b \in 1..Len(f), i \in Same : i < f[b] => \E a \in 1..Len(f) : f[a] = i
    <3> HIDE DEF Same
    <3> QED BY <2>1, FirstOfFacts
  <2> HIDE DEF f
  <2>3. Len(f) = 1 /\ f[1] \in Same
    <3> HIDE DEF Same
    <3>1. Len(f) \in Nat /\ \A b \in 1..Len(f) : f[b] \in Same
        BY <2>2
    <3>2. Len(f) = 1
      <4>1. \A n \in Nat : n <= 1 /\ n # 0 => n = 1
          OBVIOUS
      <4> QED BY <3>1, <2>2, <4>1, Zenon
    <3> QED BY <3>1, <3>2
  <2>4. \A i \in Same : ~(i < f[1])
    <3> SUFFICES ASSUME NEW i \in Same, i < f[1] PROVE FALSE
        OBVIOUS
    <3>1. f[1] = i
        BY <2>2, <2>3
    <3> QED BY <3>1, <2>1
  <2>5. PICK h \in 1..Len(ids) : h = f[1]
      BY <2>3
  <2>6. Authorized(c, ids[h]) /\ stream[ids[h]] = stream[ids[j]]
      BY <2>3, <2>5
  <2>7. \A i \in 1..(h - 1) : Authorized(c, ids[i]) => stream[ids[i]] # stream[ids[h]]
    <3> SUFFICES ASSUME NEW i \in 1..(h - 1), Authorized(c, ids[i]),
                        stream[ids[i]] = stream[ids[h]]
                 PROVE  FALSE
        OBVIOUS
    <3>1. i \in 1..Len(ids) /\ i < h
        BY <1>1
    <3> QED BY <3>1, <2>4, <2>5, <2>6
  <2>8. h \in P
      BY <1>1, <1>5, <2>6, <2>7
  <2>9. ids[h] \in Items(out)
      BY <1>3, <2>8
  <2> QED BY <2>6, <2>9 DEF EventsOf
<1>6. \A i \in Items(ids) : Authorized(c, i) => stream[i] \in done \cup EventsOf(out)
    BY <1>1, <1>5 DEF Items
<1> QED BY <1>3, <1>4, <1>6 DEF out


LEMMA FramesFacts ==
    ASSUME NEW ids \in Seq(1..Len(stream))
    PROVE  Frames(ids) \in Seq(Sent) /\ Items(Frames(ids)) = {Event(i) : i \in Items(ids)}
<1>1. Len(ids) \in Nat /\ DOMAIN ids = 1..Len(ids) /\ \A j \in 1..Len(ids) : ids[j] \in 1..Len(stream)
    OBVIOUS
<1>2. \A i \in 1..Len(stream) : Event(i) \in Sent
  <2> SUFFICES ASSUME NEW i \in 1..Len(stream) PROVE Event(i) \in Sent
      OBVIOUS
  <2>1. i \in Ids
      BY DEF Ids
  <2>2. Event(i) \in Frame /\ Event(i).type = "event" /\ Event(i).cursor = i
      BY <2>1 DEF Frame, Event
  <2> QED BY <2>2 DEF Sent
<1>3. Frames(ids) \in Seq(Sent)
    BY <1>1, <1>2 DEF Frames
<1>4. Items(Frames(ids)) = {Event(i) : i \in Items(ids)}
    BY <1>1 DEF Frames, Items
<1> QED BY <1>3, <1>4

-----------------------------------------------------------------------------
(* Types.                                                                  *)

Commands == [cmd : {"subscribe", "unsubscribe", "session"}, conn : Conns, session : Sessions]
Replays  == [from : Ids, boundary : Ids, done : SUBSET Events]

HubShape ==
    /\ current \in Conns \cup {Null} /\ subscribed \in BOOLEAN
    /\ sessionSet \in [Sessions -> Conns \cup {Null}]
    /\ commands \in Seq(Commands)
    /\ heard \in 0..Len(channel)
    /\ recent \in Seq(Events) /\ Len(recent) <= DedupCapacity

SessionShape ==
    /\ at \in [Conns -> {"free", "joining", "joined", "open", "closed"}]
    /\ gen \in [Conns -> Conns \cup {Null}] /\ sgen \in [Conns -> Conns \cup {Null}]
    /\ scope \in [Conns -> SUBSET Topics]
    /\ since \in [Conns -> Nat \cup {Null}]

ResumeShape ==
    /\ wire \in [Conns -> Seq(Sent)]
    /\ request \in [Conns -> Seq(Ids \cup {Null})]
    /\ replay \in [Conns -> Replays \cup {Null}]
    /\ buffer \in [Conns -> Seq(1..Len(stream))]
    /\ asked \in [Conns -> Ids \cup {Null}]

ClientShape ==
    /\ conn \in [Clients -> Conns \cup {Null}]
    /\ cursor \in [Clients -> Ids \cup {Null}]
    /\ known \in [Clients -> SUBSET Events]
    /\ resuming \in [Clients -> BOOLEAN]
    /\ refetch \in [Clients -> Ids \cup {Null}]

Shape == RelayInv /\ HubShape /\ SessionShape /\ ResumeShape /\ ClientShape

LEMMA ShapeInit == Init => Shape
<1> SUFFICES ASSUME Init PROVE Shape
    OBVIOUS
<1>1. RelayInv
    BY RelayInvInit DEF Init
<1>2. DedupCapacity \in Nat
    BY GatewayAssumption
<1>3. Len(channel) = 0 /\ Len(recent) = 0 /\ recent \in Seq(Events) /\ commands \in Seq(Commands)
    BY DEF Init, RelayInit
<1>4. HubShape
  <2>1. heard = 0 /\ 0 \in 0..Len(channel) /\ Len(recent) <= DedupCapacity
      BY <1>2, <1>3 DEF Init
  <2>2. current = Null /\ subscribed = FALSE /\ sessionSet = [x \in Sessions |-> Null]
      BY DEF Init
  <2> QED BY <1>3, <2>1, <2>2 DEF HubShape
<1>5. SessionShape
    BY DEF Init, SessionShape
<1>6. \A S : <<>> \in Seq(S)
    OBVIOUS
<1>7. ResumeShape
    BY <1>6 DEF Init, ResumeShape
<1>8. ClientShape
    BY DEF Init, ClientShape
<1> QED BY <1>1, <1>4, <1>5, <1>7, <1>8 DEF Shape

\* What was appended stays, and what is trimmed stays trimmed.
Grows ==
    /\ Len(stream) \in Nat /\ Len(stream') \in Nat /\ Len(stream) <= Len(stream')
    /\ \A i \in 1..Len(stream) : stream'[i] = stream[i]
    /\ Len(channel) \in Nat /\ Len(channel') \in Nat /\ Len(channel) <= Len(channel')
    /\ \A p \in 1..Len(channel) : channel'[p] = channel[p]
    /\ trimmed \in Nat /\ trimmed' \in Nat /\ trimmed <= trimmed'

LEMMA RelayGrows == ASSUME RelayInv, RelayNext \/ UNCHANGED rvars PROVE Grows
<1>1. /\ stream \in Seq(Events) /\ channel \in Seq(1..lastRead)
      /\ trimmed \in Nat /\ trimmed \in 0..Len(stream)
      /\ batch \in [Relays -> Seq(1..lastRead)]
    BY DEF RelayInv, RelayTypeOK
<1>2. Len(stream) \in Nat /\ Len(channel) \in Nat
    BY <1>1
<1>3. ASSUME UNCHANGED <<stream, channel, trimmed>> PROVE Grows
    BY <1>1, <1>2, <1>3 DEF Grows
<1>4. CASE UNCHANGED rvars
    BY <1>3, <1>4 DEF rvars, source
<1>5. ASSUME NEW e \in Events, AppendEntry(e) PROVE Grows
  <2>1. stream' = Append(stream, e) /\ UNCHANGED <<channel, trimmed>>
      BY <1>5 DEF AppendEntry
  <2>2. Len(stream') = Len(stream) + 1 /\ \A i \in 1..Len(stream) : stream'[i] = stream[i]
      BY <1>1, <2>1
  <2> QED BY <1>1, <1>2, <2>1, <2>2 DEF Grows
<1>6. CASE Trim
    BY <1>1, <1>2, <1>6 DEF Trim, Retained, Grows
<1>7. ASSUME NEW c \in Relays, Tick(c) \/ RelayCrash(c) PROVE Grows
  <2>1. CASE Publish(c)
    <3>1. Head(batch[c]) \in 1..lastRead
        BY <1>1, <2>1, HeadAndTail DEF Publish
    <3>2. /\ Len(channel') = Len(channel) + 1
          /\ \A p \in 1..Len(channel) : channel'[p] = channel[p]
        BY <1>1, <2>1, <3>1, AppendProperties DEF Publish
    <3>3. UNCHANGED <<stream, trimmed>>
        BY <2>1 DEF Publish, source
    <3> QED BY <1>1, <1>2, <3>2, <3>3 DEF Grows
  <2>2. CASE Claim(c) \/ Read(c) \/ Ack(c) \/ RelayCrash(c)
      BY <1>3, <2>2 DEF Claim, Read, Ack, RelayCrash, source
  <2> QED BY <1>7, <2>1, <2>2 DEF Tick
<1>8. ASSUME NEW i \in pel, GrowIdle(i) PROVE Grows
    BY <1>3, <1>8 DEF GrowIdle, source
<1> QED BY <1>4, <1>5, <1>6, <1>7, <1>8 DEF RelayNext

\* Every step of the gateway is a step of the relay, or none of it.
RelaySteps == RelayNext \/ UNCHANGED rvars
LEMMA NextRelays == [Next]_vars => RelaySteps
    BY DEF Next, vars, RelaySteps, Connect, Disconnect, ClientStep, Receive, SendResume,
           Refetched, Subscriber, SubscribeDone, UnsubscribeDone, SessionDone, Hear, HubStep,
           ReadBounds, ResumeBounds, ReplayChunk, ReplayFails, Reauthorize


\* The sets of what may be written grow with the stream.
LEMMA SetsGrow ==
    ASSUME Grows
    PROVE  /\ Ids \subseteq Ids' /\ Sent \subseteq Sent' /\ Replays \subseteq Replays'
           /\ 1..Len(stream) \subseteq 1..Len(stream')
<1>1. Ids \subseteq Ids' /\ 1..Len(stream) \subseteq 1..Len(stream')
    BY DEF Grows, Ids
<1>2. ASSUME NEW m \in Sent PROVE m \in Sent'
  <2>1. m \in Frame /\ m \in Frame'
      BY <1>1 DEF Sent, Frame
  <2> QED BY <2>1, <1>1 DEF Sent
<1>3. Replays \subseteq Replays'
    BY <1>1 DEF Replays
<1> QED BY <1>1, <1>2, <1>3

\* What the gateway and the clients hold stays well-formed as the stream grows.
LEMMA ShapeFramed ==
    ASSUME Shape, Grows, RelayInv', UNCHANGED <<hub, session, wire, resume, client>>
    PROVE  Shape'
<1>1. /\ Ids \subseteq Ids' /\ Sent \subseteq Sent' /\ Replays \subseteq Replays'
      /\ 1..Len(stream) \subseteq 1..Len(stream')
    BY SetsGrow
<1>2. HubShape'
    BY DEF Shape, HubShape, Grows, hub
<1>3. SessionShape'
    BY DEF Shape, SessionShape, session
<1>4. ResumeShape'
  <2>1. /\ \A c \in Conns : wire[c] \in Seq(Sent') /\ request[c] \in Seq(Ids' \cup {Null})
        /\ \A c \in Conns : buffer[c] \in Seq(1..Len(stream'))
    <3>1. Ids \cup {Null} \subseteq Ids' \cup {Null}
        BY <1>1
    <3>2. ASSUME NEW c \in Conns PROVE wire[c] \in Seq(Sent')
      <4>1. wire[c] \in Seq(Sent) BY DEF Shape, ResumeShape
      <4> QED BY <4>1, <1>1, SeqGrows
    <3>3. ASSUME NEW c \in Conns PROVE request[c] \in Seq(Ids' \cup {Null})
      <4>1. request[c] \in Seq(Ids \cup {Null}) BY DEF Shape, ResumeShape
      <4> QED BY <4>1, <3>1, SeqGrows
    <3>4. ASSUME NEW c \in Conns PROVE buffer[c] \in Seq(1..Len(stream'))
      <4>1. buffer[c] \in Seq(1..Len(stream)) BY DEF Shape, ResumeShape
      <4> QED BY <4>1, <1>1, SeqGrows
    <3> QED BY <3>2, <3>3, <3>4
  <2>2. \A c \in Conns : replay[c] \in Replays' \cup {Null} /\ asked[c] \in Ids' \cup {Null}
      BY <1>1 DEF Shape, ResumeShape
  <2>3. UNCHANGED <<wire, request, replay, buffer, asked>>
      BY DEF resume
  <2>4. /\ wire = [c \in Conns |-> wire[c]] /\ request = [c \in Conns |-> request[c]]
        /\ replay = [c \in Conns |-> replay[c]] /\ buffer = [c \in Conns |-> buffer[c]]
        /\ asked = [c \in Conns |-> asked[c]]
      BY DEF Shape, ResumeShape
  <2> QED BY <2>1, <2>2, <2>3, <2>4 DEF ResumeShape
<1>5. ClientShape'
  <2>1. /\ \A k \in Clients : cursor[k] \in Ids' \cup {Null} /\ refetch[k] \in Ids' \cup {Null}
        /\ cursor = [k \in Clients |-> cursor[k]] /\ refetch = [k \in Clients |-> refetch[k]]
      BY <1>1 DEF Shape, ClientShape
  <2>2. UNCHANGED <<conn, cursor, known, resuming, refetch>>
      BY DEF client
  <2> QED BY <2>1, <2>2 DEF Shape, ClientShape
<1> QED BY <1>2, <1>3, <1>4, <1>5 DEF Shape

\* The frames and cursors of an action that leaves the stream alone.
LEMMA SameSets ==
    ASSUME UNCHANGED rvars
    PROVE  /\ Ids' = Ids /\ Sent' = Sent /\ Replays' = Replays /\ stream' = stream
           /\ channel' = channel /\ trimmed' = trimmed
           /\ RelayInv' = RelayInv
<1>1. UNCHANGED <<stream, trimmed, trims, lastRead, pel, idle, stage, batch, sent,
                  channel, crashes, slow>>
    BY DEF rvars, source, group, relay, bounds
<1>2. Ids' = Ids /\ Frame' = Frame
    BY <1>1 DEF Ids, Frame
<1>3. Sent' = Sent
    BY <1>1, <1>2 DEF Sent
<1>4. Replays' = Replays
    BY <1>2 DEF Replays
<1>5. RelayInv' = RelayInv
    BY <1>1 DEF RelayInv, RelayTypeOK, NothingForgotten, HolderOK
<1> QED BY <1>1, <1>2, <1>3, <1>4, <1>5


\* Frames without a stream position, and with one.
LEMMA SignalsSent ==
    /\ Hello \in Sent /\ Hello.type = "ack"
    /\ Signal("error", Null) \in Sent /\ Signal("error", Null).type = "error"
    /\ \A i \in Ids : /\ Signal("resumed", i) \in Sent
                      /\ Signal("resumed", i).type = "resumed"
                      /\ Signal("resumed", i).cursor = i
                      /\ Signal("resync-required", i) \in Sent
                      /\ Signal("resync-required", i).type = "resync-required"
    /\ \A i \in 1..Len(stream) : /\ Event(i) \in Sent /\ Event(i).type = "event"
                                 /\ Event(i).cursor = i
                                 /\ Heartbeat(i) \in Sent /\ Heartbeat(i).type = "heartbeat"
<1>1. Hello \in Sent /\ Hello.type = "ack"
    BY DEF Hello, Signal, Sent, Frame
<1>2. Signal("error", Null) \in Sent /\ Signal("error", Null).type = "error"
    BY DEF Signal, Sent, Frame
<1>3. ASSUME NEW i \in Ids
      PROVE  /\ Signal("resumed", i) \in Sent
             /\ Signal("resumed", i).type = "resumed"
             /\ Signal("resumed", i).cursor = i
             /\ Signal("resync-required", i) \in Sent
             /\ Signal("resync-required", i).type = "resync-required"
    BY DEF Signal, Sent, Frame
<1>4. ASSUME NEW i \in 1..Len(stream)
      PROVE  /\ Event(i) \in Sent /\ Event(i).type = "event" /\ Event(i).cursor = i
             /\ Heartbeat(i) \in Sent /\ Heartbeat(i).type = "heartbeat"
  <2>1. i \in Ids
      BY DEF Ids
  <2> QED BY <2>1 DEF Event, Heartbeat, Sent, Frame
<1> QED BY <1>1, <1>2, <1>3, <1>4

LEMMA PushSent ==
    ASSUME ResumeShape, NEW c \in Conns, NEW frames \in Seq(Sent)
    PROVE  /\ Push(c, frames) \in Seq(Sent)
           /\ [wire EXCEPT ![c] = Push(c, frames)] \in [Conns -> Seq(Sent)]
<1>1. wire \in [Conns -> Seq(Sent)] /\ wire[c] \in Seq(Sent)
    BY DEF ResumeShape
<1>2. Push(c, frames) \in Seq(Sent)
    BY <1>1, PushFacts
<1> QED BY <1>1, <1>2

LEMMA JoinShape ==
    ASSUME Shape, NEW c \in Conns, NEW x \in Sessions, NEW cmds \in Seq(Commands),
           NEW acked \in Seq(Sent), JoinSession(c, x, cmds, acked)
    PROVE  /\ sessionSet' \in [Sessions -> Conns \cup {Null}]
           /\ sgen' \in [Conns -> Conns \cup {Null}]
           /\ commands' \in Seq(Commands)
           /\ at' \in [Conns -> {"free", "joining", "joined", "open", "closed"}]
           /\ wire' \in [Conns -> Seq(Sent)]
<1>1. /\ sessionSet \in [Sessions -> Conns \cup {Null}]
      /\ sgen \in [Conns -> Conns \cup {Null}]
      /\ at \in [Conns -> {"free", "joining", "joined", "open", "closed"}]
      /\ wire \in [Conns -> Seq(Sent)]
    BY DEF Shape, HubShape, SessionShape, ResumeShape
<1>2. CASE sessionSet[x] = Null
  <2>1. ToRedis("session", c, x) \in Commands
      BY DEF ToRedis, Commands
  <2>2. commands' \in Seq(Commands)
      BY <1>2, <2>1 DEF JoinSession
  <2> QED BY <1>1, <1>2, <2>2 DEF JoinSession
<1>3. CASE sessionSet[x] # Null
  <2>1. sessionSet[x] \in Conns
      BY <1>1, <1>3
  <2> QED BY <1>1, <1>3, <2>1 DEF JoinSession
<1> QED BY <1>2, <1>3

LEMMA ClientSession == ASSUME NEW k \in Clients PROVE SessionOf[k] \in Sessions
    BY DEF Sessions

LEMMA ShapeConnect ==
    ASSUME Shape, NEW k \in Clients, NEW c \in Conns, Connect(k, c) PROVE Shape'
<1> DEFINE x == SessionOf[k]
<1>1. UNCHANGED <<rvars, subscribed, heard, scope, resume, cursor, known, resuming, refetch, more>>
    BY DEF Connect
<1>2. x \in Sessions
    BY ClientSession
<1>3. <<Hello>> \in Seq(Sent)
    BY SignalsSent
<1>4. /\ at \in [Conns -> {"free", "joining", "joined", "open", "closed"}]
      /\ gen \in [Conns -> Conns \cup {Null}] /\ commands \in Seq(Commands)
      /\ since \in [Conns -> Nat \cup {Null}] /\ current \in Conns \cup {Null}
      /\ conn \in [Clients -> Conns \cup {Null}] /\ heard \in Nat
      /\ wire \in [Conns -> Seq(Sent)]
      /\ recent \in Seq(Events) /\ Len(recent) <= DedupCapacity
      /\ sessionSet \in [Sessions -> Conns \cup {Null}]
      /\ sgen \in [Conns -> Conns \cup {Null}]
    BY DEF Shape, HubShape, SessionShape, ResumeShape, ClientShape
<1>5. /\ sessionSet' \in [Sessions -> Conns \cup {Null}]
      /\ sgen' \in [Conns -> Conns \cup {Null}]
      /\ commands' \in Seq(Commands)
      /\ at' \in [Conns -> {"free", "joining", "joined", "open", "closed"}]
      /\ wire' \in [Conns -> Seq(Sent)]
      /\ current' \in Conns \cup {Null} /\ since' \in [Conns -> Nat \cup {Null}]
      /\ recent' \in Seq(Events) /\ Len(recent') <= DedupCapacity
  <2>1. CASE current = Null
    <3>1. /\ current' = c /\ recent' = <<>>
          /\ commands' = Append(commands, ToRedis("subscribe", c, x))
          /\ at' = [at EXCEPT ![c] = "joining"]
          /\ UNCHANGED <<sessionSet, sgen, since, wire>>
        BY <2>1 DEF Connect
    <3>2. ToRedis("subscribe", c, x) \in Commands
        BY <1>2 DEF ToRedis, Commands
    <3>3. commands' \in Seq(Commands)
        BY <1>4, <3>1, <3>2
    <3>4. DedupCapacity \in Nat /\ Len(<<>>) = 0 /\ <<>> \in Seq(Events)
        BY GatewayAssumption
    <3>5. at' \in [Conns -> {"free", "joining", "joined", "open", "closed"}]
        BY <1>4, <3>1
    <3>6. Len(recent') <= DedupCapacity /\ recent' \in Seq(Events)
        BY <3>1, <3>4
    <3> QED BY <1>4, <3>1, <3>3, <3>5, <3>6
  <2>2. CASE current # Null
    <3>1. /\ since' = [since EXCEPT ![c] = IF Listening THEN heard ELSE Null]
          /\ JoinSession(c, x, commands, <<Hello>>)
          /\ UNCHANGED <<current, recent>>
        BY <2>2 DEF Connect
    <3>2. since' \in [Conns -> Nat \cup {Null}]
        BY <1>4, <3>1
    <3> QED BY <1>2, <1>3, <1>4, <3>1, <3>2, JoinShape
  <2> QED BY <2>1, <2>2
<1>6. gen' \in [Conns -> Conns \cup {Null}] /\ conn' \in [Clients -> Conns \cup {Null}]
    BY <1>4, <1>5 DEF Connect
<1>7. HubShape'
    BY <1>1, <1>5, SameSets DEF Shape, HubShape
<1>8. SessionShape'
    BY <1>1, <1>5, <1>6 DEF Shape, SessionShape
<1>9. ResumeShape'
    BY <1>1, <1>5, SameSets DEF Shape, ResumeShape, resume
<1>10. ClientShape'
    BY <1>1, <1>6, SameSets DEF Shape, ClientShape
<1> QED BY <1>1, <1>7, <1>8, <1>9, <1>10, SameSets DEF Shape


\* The command that Redis answers next.
LEMMA NextCommand ==
    ASSUME Shape, commands # <<>>
    PROVE  /\ Head(commands).conn \in Conns /\ Head(commands).session \in Sessions
           /\ Tail(commands) \in Seq(Commands)
<1>1. Head(commands) \in Commands /\ Tail(commands) \in Seq(Commands)
    BY HeadAndTail DEF Shape, HubShape
<1> QED BY <1>1 DEF Commands

LEMMA ShapeSubscriber == ASSUME Shape, Subscriber PROVE Shape'
<1>1. /\ at \in [Conns -> {"free", "joining", "joined", "open", "closed"}]
      /\ since \in [Conns -> Nat \cup {Null}]
      /\ heard \in 0..Len(channel) /\ Len(channel) \in Nat
    BY DEF Shape, HubShape, SessionShape, RelayInv, RelayTypeOK
<1>2. <<Hello>> \in Seq(Sent)
    BY SignalsSent
<1>3. CASE SubscribeDone
  <2> DEFINE c == Head(commands).conn
             x == Head(commands).session
  <2>1. /\ commands # <<>> /\ subscribed' = TRUE /\ heard' = Len(channel)
        /\ JoinSession(c, x, Tail(commands), Push(c, <<Hello>>))
        /\ UNCHANGED <<rvars, current, recent, gen, scope, resume, client, more>>
        /\ since' = [d \in Conns |-> IF since[d] = Null /\ d \in Members' /\ Listening'
                                      THEN heard' ELSE since[d]]
      BY <1>3 DEF SubscribeDone
  <2>2. c \in Conns /\ x \in Sessions /\ Tail(commands) \in Seq(Commands)
      BY <2>1, NextCommand
  <2>3. Push(c, <<Hello>>) \in Seq(Sent)
      BY <1>2, <2>2, PushSent DEF Shape
  <2>4. /\ sessionSet' \in [Sessions -> Conns \cup {Null}]
        /\ sgen' \in [Conns -> Conns \cup {Null}]
        /\ commands' \in Seq(Commands)
        /\ at' \in [Conns -> {"free", "joining", "joined", "open", "closed"}]
        /\ wire' \in [Conns -> Seq(Sent)]
    <3> HIDE DEF c, x
    <3> QED BY <2>1, <2>2, <2>3, JoinShape
  <2>5. since' \in [Conns -> Nat \cup {Null}]
      BY <1>1, <2>1
  <2>6. heard' \in 0..Len(channel')
      BY <1>1, <2>1, SameSets
  <2>7. HubShape'
      BY <2>1, <2>4, <2>6 DEF Shape, HubShape
  <2>8. SessionShape'
      BY <2>1, <2>4, <2>5 DEF Shape, SessionShape
  <2>9. ResumeShape'
      BY <2>1, <2>4, SameSets DEF Shape, ResumeShape, resume
  <2>10. ClientShape'
      BY <2>1, SameSets DEF Shape, ClientShape, client
  <2> QED BY <2>1, <2>7, <2>8, <2>9, <2>10, SameSets DEF Shape
<1>4. CASE UnsubscribeDone
  <2>1. /\ commands # <<>> /\ commands' = Tail(commands) /\ subscribed' = FALSE
        /\ UNCHANGED <<rvars, current, sessionSet, heard, recent, session, wire, resume,
                       client, more>>
      BY <1>4 DEF UnsubscribeDone
  <2>2. HubShape'
      BY <2>1, NextCommand, SameSets DEF Shape, HubShape
  <2>3. SessionShape' /\ ClientShape'
      BY <2>1, SameSets DEF Shape, SessionShape, ClientShape, session, client
  <2>4. ResumeShape'
      BY <2>1, SameSets DEF Shape, ResumeShape, resume
  <2> QED BY <2>1, <2>2, <2>3, <2>4, SameSets DEF Shape
<1>5. CASE SessionDone
  <2> DEFINE c == Head(commands).conn
  <2>1. /\ commands # <<>> /\ commands' = Tail(commands)
        /\ at' = [at EXCEPT ![c] = "open"]
        /\ wire' = [wire EXCEPT ![c] = Push(c, <<Hello>>)]
        /\ UNCHANGED <<rvars, current, sessionSet, subscribed, heard, recent, gen, sgen, scope,
                       since, resume, client, more>>
      BY <1>5 DEF SessionDone
  <2>2. c \in Conns /\ Tail(commands) \in Seq(Commands)
      BY <2>1, NextCommand
  <2>3. wire' \in [Conns -> Seq(Sent)]
      BY <1>2, <2>1, <2>2, PushSent DEF Shape
  <2>4. HubShape'
      BY <2>1, <2>2, SameSets DEF Shape, HubShape
  <2>5. SessionShape'
      BY <1>1, <2>1 DEF Shape, SessionShape
  <2>6. ResumeShape'
      BY <2>1, <2>3, SameSets DEF Shape, ResumeShape, resume
  <2>7. ClientShape'
      BY <2>1, SameSets DEF Shape, ClientShape, client
  <2> QED BY <2>1, <2>4, <2>5, <2>6, <2>7, SameSets DEF Shape
<1> QED BY <1>3, <1>4, <1>5 DEF Subscriber

\* What is heard is an entry of the stream.
LEMMA HeardEntry ==
    ASSUME Shape, NEW p \in 1..Len(channel) PROVE channel[p] \in 1..Len(stream)
<1>1. channel \in Seq(1..lastRead) /\ lastRead \in 0..Len(stream) /\ Len(stream) \in Nat
    BY DEF Shape, RelayInv, RelayTypeOK
<1>2. channel[p] \in 1..lastRead
    BY <1>1
<1> QED BY <1>1, <1>2

\* What Hear does, without its LET.
LEMMA HearFacts ==
    ASSUME Shape, Hear
    PROVE  LET i == channel[heard + 1]
               fresh == Members # {} /\ stream[i] \notin Items(recent)
           IN  /\ heard + 1 \in 1..Len(channel) /\ heard' = heard + 1
               /\ i \in 1..Len(stream) /\ stream[i] \in Events
               /\ recent' = IF fresh THEN Remember(stream[i]) ELSE recent
               /\ \A c \in Conns :
                     /\ fresh /\ c \in Members /\ replay[c] # Null =>
                           buffer'[c] = Append(buffer[c], i) /\ wire'[c] = wire[c]
                     /\ fresh /\ c \in Members /\ replay[c] = Null =>
                           /\ buffer'[c] = buffer[c]
                           /\ wire'[c] = Push(c, <<IF Authorized(c, i) THEN Event(i)
                                                                       ELSE Heartbeat(i)>>)
                     /\ ~fresh \/ c \notin Members =>
                           buffer'[c] = buffer[c] /\ wire'[c] = wire[c]
               /\ DOMAIN buffer' = Conns /\ DOMAIN wire' = Conns
               /\ buffer' = [c \in Conns |-> buffer'[c]]
               /\ wire' = [c \in Conns |-> wire'[c]]
<1> DEFINE i == channel[heard + 1]
           fresh == Members # {} /\ stream[i] \notin Items(recent)
<1>1. heard + 1 \in 1..Len(channel) /\ heard' = heard + 1
    BY DEF Hear, Shape, HubShape
<1>2. i \in 1..Len(stream)
    BY <1>1, HeardEntry
<1>3. stream[i] \in Events
    BY <1>2 DEF Shape, RelayInv, RelayTypeOK
<1>4. channel[heard'] = i
    BY <1>1
<1> HIDE DEF i
<1>5. /\ recent' = IF fresh THEN Remember(stream[i]) ELSE recent
      /\ buffer' = [c \in Conns |->
            IF fresh /\ c \in Members /\ replay[c] # Null
            THEN Append(buffer[c], i) ELSE buffer[c]]
      /\ wire' = [c \in Conns |->
            IF fresh /\ c \in Members /\ replay[c] = Null
            THEN Push(c, <<IF Authorized(c, i) THEN Event(i) ELSE Heartbeat(i)>>)
            ELSE wire[c]]
    BY <1>4 DEF Hear
<1> HIDE DEF fresh
<1>6. /\ \A c \in Conns :
            /\ fresh /\ c \in Members /\ replay[c] # Null =>
                  buffer'[c] = Append(buffer[c], i) /\ wire'[c] = wire[c]
            /\ fresh /\ c \in Members /\ replay[c] = Null =>
                  /\ buffer'[c] = buffer[c]
                  /\ wire'[c] = Push(c, <<IF Authorized(c, i) THEN Event(i) ELSE Heartbeat(i)>>)
            /\ ~fresh \/ c \notin Members => buffer'[c] = buffer[c] /\ wire'[c] = wire[c]
      /\ DOMAIN buffer' = Conns /\ DOMAIN wire' = Conns
      /\ buffer' = [c \in Conns |-> buffer'[c]]
      /\ wire' = [c \in Conns |-> wire'[c]]
    BY <1>5
<1> QED BY <1>1, <1>2, <1>3, <1>5, <1>6 DEF i, fresh

\* The cache of recent events stays within its capacity.
LEMMA RememberFacts ==
    ASSUME recent \in Seq(Events), Len(recent) <= DedupCapacity, NEW e \in Events
    PROVE  /\ Remember(e) \in Seq(Events) /\ Len(Remember(e)) <= DedupCapacity
           /\ Items(Remember(e)) \subseteq Items(recent) \cup {e}
<1> DEFINE r == Append(recent, e)
<1>1. r \in Seq(Events) /\ r # <<>> /\ Len(r) = Len(recent) + 1 /\ Len(recent) \in Nat
    BY AppendProperties
<1>2. Items(r) = Items(recent) \cup {e}
    BY ItemsAppend
<1>3. DedupCapacity \in Nat
    BY GatewayAssumption
<1> HIDE DEF r
<1>4. Tail(r) \in Seq(Events) /\ Len(Tail(r)) = Len(r) - 1
    BY <1>1, HeadTailProperties
<1>5. Items(r) = {Head(r)} \cup Items(Tail(r))
    BY <1>1, ItemsTail
<1>6. Remember(e) = IF Len(r) > DedupCapacity THEN Tail(r) ELSE r
    BY DEF Remember, r
<1>7. CASE Len(r) > DedupCapacity
  <2>1. Len(Tail(r)) <= DedupCapacity
      BY <1>1, <1>3, <1>4
  <2> QED BY <1>7, <2>1, <1>2, <1>4, <1>5, <1>6
<1>8. CASE ~(Len(r) > DedupCapacity)
  <2>1. Len(r) <= DedupCapacity
      BY <1>1, <1>3, <1>8
  <2> QED BY <1>8, <2>1, <1>1, <1>2, <1>6
<1> QED BY <1>7, <1>8

LEMMA ShapeHear == ASSUME Shape, Hear PROVE Shape'
<1> DEFINE i == channel[heard + 1]
           fresh == Members # {} /\ stream[i] \notin Items(recent)
<1>1. UNCHANGED <<rvars, current, sessionSet, commands, subscribed, session, request,
                   replay, asked, client, more>>
    BY DEF Hear
<1>2. /\ heard + 1 \in 1..Len(channel) /\ heard' = heard + 1
      /\ i \in 1..Len(stream) /\ stream[i] \in Events
      /\ recent' = IF fresh THEN Remember(stream[i]) ELSE recent
      /\ buffer' = [c \in Conns |-> buffer'[c]]
      /\ wire' = [c \in Conns |-> wire'[c]]
    BY HearFacts
<1>3. ASSUME NEW c \in Conns
      PROVE  /\ buffer'[c] \in {buffer[c], Append(buffer[c], i)}
             /\ \/ wire'[c] = wire[c]
                \/ wire'[c] = Push(c, <<Event(i)>>) \/ wire'[c] = Push(c, <<Heartbeat(i)>>)
    BY HearFacts
<1> HIDE DEF i, fresh
<1>4. ASSUME NEW c \in Conns
      PROVE  buffer'[c] \in Seq(1..Len(stream)) /\ wire'[c] \in Seq(Sent)
  <2>1. buffer[c] \in Seq(1..Len(stream)) /\ wire[c] \in Seq(Sent)
      BY DEF Shape, ResumeShape
  <2>2. Append(buffer[c], i) \in Seq(1..Len(stream))
      BY <2>1, <1>2, AppendProperties
  <2>3. <<Event(i)>> \in Seq(Sent) /\ <<Heartbeat(i)>> \in Seq(Sent)
      BY <1>2, SignalsSent
  <2>4. Push(c, <<Event(i)>>) \in Seq(Sent) /\ Push(c, <<Heartbeat(i)>>) \in Seq(Sent)
      BY <2>3, PushSent DEF Shape
  <2> QED BY <1>3, <2>1, <2>2, <2>4
<1>5. recent' \in Seq(Events) /\ Len(recent') <= DedupCapacity
    BY <1>2, RememberFacts DEF Shape, HubShape
<1>6. HubShape'
  <2>1. heard' \in 0..Len(channel')
      BY <1>1, <1>2, SameSets
  <2> QED BY <1>1, <1>5, <2>1 DEF Shape, HubShape
<1>7. SessionShape' /\ ClientShape'
    BY <1>1, SameSets DEF Shape, SessionShape, ClientShape, session, client
<1>8. ResumeShape'
  <2>1. wire' \in [Conns -> Seq(Sent)] /\ buffer' \in [Conns -> Seq(1..Len(stream))]
      BY <1>2, <1>4
  <2> QED BY <2>1, <1>1, SameSets DEF Shape, ResumeShape
<1> QED BY <1>1, <1>6, <1>7, <1>8, SameSets DEF Shape


LEMMA ShapeReadBounds ==
    ASSUME Shape, NEW c \in Conns, ReadBounds(c) PROVE Shape'
<1>1. /\ UNCHANGED <<rvars, hub, session, wire, replay, buffer, asked, client, refreshes>>
      /\ \E broken \in BOOLEAN :
            request' = [request EXCEPT ![c] = @ \o <<TailOf(broken), FloorOf(broken)>>]
    BY DEF ReadBounds
<1>2. PICK broken \in BOOLEAN :
          request' = [request EXCEPT ![c] = @ \o <<TailOf(broken), FloorOf(broken)>>]
    BY <1>1
<1>3. TailOf(broken) \in Ids /\ FloorOf(broken) \in Ids \cup {Null}
  <2>1. Len(stream) \in Nat /\ trimmed \in 0..Len(stream)
      BY DEF Shape, RelayInv, RelayTypeOK
  <2>2. Retained # {} => trimmed + 1 \in Ids
      BY <2>1 DEF Retained, Ids
  <2> QED BY <2>1, <2>2 DEF TailOf, FloorOf, Ids
<1>4. request[c] \o <<TailOf(broken), FloorOf(broken)>> \in Seq(Ids \cup {Null})
  <2>1. request[c] \in Seq(Ids \cup {Null})
      BY DEF Shape, ResumeShape
  <2>2. <<TailOf(broken), FloorOf(broken)>> \in Seq(Ids \cup {Null})
      BY <1>3
  <2> QED BY <2>1, <2>2, ConcatProperties
<1>5. request' \in [Conns -> Seq(Ids \cup {Null})]
    BY <1>2, <1>4 DEF Shape, ResumeShape
<1>6. HubShape'
    BY <1>1, SameSets DEF Shape, HubShape, hub
<1>7. SessionShape' /\ ClientShape'
    BY <1>1, SameSets DEF Shape, SessionShape, ClientShape, session, client
<1>8. ResumeShape'
    BY <1>1, <1>5, SameSets DEF Shape, ResumeShape
<1> QED BY <1>1, <1>6, <1>7, <1>8, SameSets DEF Shape

\* What ResumeBounds does, without its LET.
Lost(c) ==
    LET from == request[c][1] IN
    from = Null \/ from > request[c][2] \/ (request[c][3] # Null /\ from < request[c][3])

LEMMA BoundsFacts ==
    ASSUME NEW c, ResumeBounds(c)
    PROVE  /\ Len(request[c]) = 3 /\ request' = [request EXCEPT ![c] = <<>>]
           /\ buffer' = [buffer EXCEPT ![c] = <<>>]
           /\ Lost(c) =>
                 /\ replay' = [replay EXCEPT ![c] = Null]
                 /\ wire' = [wire EXCEPT ![c] = Push(c, <<Signal("resync-required", request[c][2])>>)]
                 /\ asked' = [asked EXCEPT ![c] = Null]
           /\ ~Lost(c) =>
                 /\ replay' = [replay EXCEPT ![c] = [from |-> request[c][1],
                                  boundary |-> request[c][2], done |-> {}]]
                 /\ wire' = [wire EXCEPT ![c] = @]
                 /\ asked' = [asked EXCEPT ![c] = request[c][1]]
           /\ UNCHANGED <<rvars, hub, session, client, more>>
    BY DEF ResumeBounds, Lost

(* The requests that wait for the hub: a cursor, then with it the stream's  *)
(* last position and its first retained one.                                *)
RequestOK(c) ==
    /\ Len(request[c]) \in {0, 1, 3}
    /\ Len(request[c]) = 3 => request[c][2] \in Ids

LEMMA ShapeResumeBounds ==
    ASSUME Shape, NEW c \in Conns, RequestOK(c), ResumeBounds(c) PROVE Shape'
<1>1. /\ Len(request[c]) = 3 /\ request' = [request EXCEPT ![c] = <<>>]
      /\ buffer' = [buffer EXCEPT ![c] = <<>>]
      /\ UNCHANGED <<rvars, hub, session, client, more>>
    BY BoundsFacts
<1>2. request[c][1] \in Ids \cup {Null} /\ request[c][2] \in Ids
  <2>1. request[c] \in Seq(Ids \cup {Null})
      BY DEF Shape, ResumeShape
  <2>2. request[c][1] \in Ids \cup {Null}
      BY <1>1, <2>1
  <2> QED BY <1>1, <2>2 DEF RequestOK
<1>3. /\ replay' \in [Conns -> Replays \cup {Null}] /\ wire' \in [Conns -> Seq(Sent)]
      /\ asked' \in [Conns -> Ids \cup {Null}]
  <2>1. CASE Lost(c)
    <3>1. <<Signal("resync-required", request[c][2])>> \in Seq(Sent)
        BY <1>2, SignalsSent
    <3>2. wire' \in [Conns -> Seq(Sent)]
      <4>1. wire' = [wire EXCEPT ![c] = Push(c, <<Signal("resync-required", request[c][2])>>)]
          BY <2>1, BoundsFacts
      <4>2. ResumeShape
          BY DEF Shape
      <4> QED BY <3>1, <4>1, <4>2, PushSent
    <3> QED BY <2>1, <3>2, BoundsFacts DEF Shape, ResumeShape
  <2>2. CASE ~Lost(c)
    <3>1. request[c][1] \in Ids
        BY <1>2, <2>2 DEF Lost
    <3>2. [from |-> request[c][1], boundary |-> request[c][2], done |-> {}] \in Replays
        BY <1>2, <3>1 DEF Replays
    <3> DEFINE r == [from |-> request[c][1], boundary |-> request[c][2], done |-> {}]
    <3>3. /\ replay' = [replay EXCEPT ![c] = r] /\ wire' = [wire EXCEPT ![c] = wire[c]]
          /\ asked' = [asked EXCEPT ![c] = request[c][1]]
        BY <2>2, BoundsFacts
    <3>4. r \in Replays
        BY <3>2
    <3> HIDE DEF r
    <3> QED BY <3>1, <3>3, <3>4 DEF Shape, ResumeShape
  <2> QED BY <2>1, <2>2
<1>4. request' \in [Conns -> Seq(Ids \cup {Null})] /\ buffer' \in [Conns -> Seq(1..Len(stream))]
  <2>1. <<>> \in Seq(Ids \cup {Null}) /\ <<>> \in Seq(1..Len(stream))
      OBVIOUS
  <2> QED BY <1>1, <2>1 DEF Shape, ResumeShape
<1>5. HubShape'
    BY <1>1, SameSets DEF Shape, HubShape, hub
<1>6. SessionShape' /\ ClientShape'
    BY <1>1, SameSets DEF Shape, SessionShape, ClientShape, session, client
<1>7. ResumeShape'
    BY <1>1, <1>3, <1>4, SameSets DEF Shape, ResumeShape
<1> QED BY <1>1, <1>5, <1>6, <1>7, SameSets DEF Shape

\* One XRANGE: the entries that come next, up to the boundary.
Ahead(c) == {i \in Retained : i > replay[c].from /\ i <= replay[c].boundary}
Chunk(c) == FirstOf(Ahead(c), ChunkSize)
Out(c)   == Deliverable(c, Chunk(c), replay[c].done)
Done(c)  == replay[c].done \cup EventsOf(Out(c))

LEMMA ReplayRecord ==
    ASSUME ResumeShape, NEW c \in Conns, replay[c] # Null
    PROVE  /\ replay[c] \in Replays /\ replay[c].from \in Ids /\ replay[c].boundary \in Ids
           /\ replay[c].done \subseteq Events
    BY DEF ResumeShape, Replays

LEMMA ChunkFacts ==
    ASSUME Shape, NEW c \in Conns, replay[c] # Null
    PROVE  /\ Chunk(c) \in Seq(1..Len(stream)) /\ Items(Chunk(c)) \subseteq Ahead(c)
           /\ Len(Chunk(c)) < ChunkSize => Ahead(c) \subseteq Items(Chunk(c))
           /\ ~(Len(Chunk(c)) < ChunkSize) =>
                 LET last == Chunk(c)[Len(Chunk(c))] IN
                 /\ last \in Ahead(c)
                 /\ \A i \in Ahead(c) : i <= last => i \in Items(Chunk(c))
           /\ Out(c) \in Seq(1..Len(stream))
           /\ \A i \in Items(Out(c)) : Authorized(c, i)
           /\ \A i \in Items(Chunk(c)) : Authorized(c, i) => stream[i] \in Done(c)
           /\ Done(c) \subseteq Events
<1>1. /\ stream \in Seq(Events) /\ Len(stream) \in Nat /\ trimmed \in 0..Len(stream)
      /\ ChunkSize \in Nat /\ ChunkSize # 0
    BY GatewayAssumption DEF Shape, RelayInv, RelayTypeOK
<1>2. Ahead(c) \in SUBSET (1..Len(stream))
    BY <1>1 DEF Ahead, Retained
<1>3. IsFiniteSet(Ahead(c)) /\ Ahead(c) \in SUBSET Nat
    BY <1>1, <1>2, PositionsFinite
<1>4. /\ Chunk(c) \in Seq(Ahead(c))
      /\ \A a, b \in 1..Len(Chunk(c)) : a < b => Chunk(c)[a] < Chunk(c)[b]
      /\ \A b \in 1..Len(Chunk(c)), i \in Ahead(c) :
            i < Chunk(c)[b] => \E a \in 1..Len(Chunk(c)) : Chunk(c)[a] = i
      /\ Len(Chunk(c)) < ChunkSize =>
            \A i \in Ahead(c) : \E a \in 1..Len(Chunk(c)) : Chunk(c)[a] = i
    BY <1>1, <1>3, FirstOfFacts DEF Chunk
<1>5. /\ Len(Chunk(c)) \in Nat /\ DOMAIN Chunk(c) = 1..Len(Chunk(c))
      /\ \A a \in 1..Len(Chunk(c)) : Chunk(c)[a] \in Ahead(c)
    BY <1>4
<1>6. Chunk(c) \in Seq(1..Len(stream)) /\ Items(Chunk(c)) \subseteq Ahead(c)
    BY <1>2, <1>4, SeqGrows, SeqItems
<1>7. Len(Chunk(c)) < ChunkSize => Ahead(c) \subseteq Items(Chunk(c))
    BY <1>4, <1>5 DEF Items
<1>8. ASSUME ~(Len(Chunk(c)) < ChunkSize)
      PROVE  LET last == Chunk(c)[Len(Chunk(c))] IN
             /\ last \in Ahead(c)
             /\ \A i \in Ahead(c) : i <= last => i \in Items(Chunk(c))
  <2>1. Len(Chunk(c)) \in 1..Len(Chunk(c))
      BY <1>1, <1>5, <1>8
  <2>2. PICK last \in Ahead(c) : last = Chunk(c)[Len(Chunk(c))]
      BY <1>5, <2>1
  <2>3. ASSUME NEW i \in Ahead(c), i <= last PROVE i \in Items(Chunk(c))
    <3>1. i \in Nat /\ last \in Nat
        BY <1>3
    <3>2. i = last \/ i < last
        BY <2>3, <3>1
    <3>3. \E a \in 1..Len(Chunk(c)) : Chunk(c)[a] = i
        BY <3>2, <2>1, <2>2, <1>4
    <3> QED BY <3>3, <1>5 DEF Items
  <2> QED BY <2>2, <2>3
<1>9. /\ Out(c) \in Seq(1..Len(stream))
      /\ \A i \in Items(Out(c)) : Authorized(c, i)
      /\ \A i \in Items(Chunk(c)) : Authorized(c, i) => stream[i] \in Done(c)
  <2> HIDE DEF Chunk
  <2> QED BY <1>6, DeliverableFacts DEF Out, Done
<1>10. Done(c) \subseteq Events
  <2>1. Items(Out(c)) \subseteq 1..Len(stream)
      BY <1>9, SeqItems
  <2>2. \A i \in 1..Len(stream) : stream[i] \in Events
      BY <1>1
  <2>3. replay[c].done \subseteq Events
      BY ReplayRecord DEF Shape
  <2> QED BY <2>1, <2>2, <2>3 DEF Done, EventsOf
<1> QED BY <1>6, <1>7, <1>8, <1>9, <1>10

\* What ReplayChunk does, without its LET.
LEMMA ReplayFacts ==
    ASSUME NEW c, ReplayChunk(c)
    PROVE  /\ replay[c] # Null
           /\ Len(Chunk(c)) < ChunkSize =>
                 Finish(c, Frames(Out(c)), Done(c), Signal("resumed", replay[c].boundary))
           /\ ~(Len(Chunk(c)) < ChunkSize) =>
                 /\ wire' = [wire EXCEPT ![c] = Push(c, Frames(Out(c)))]
                 /\ replay' = [replay EXCEPT ![c] =
                       [replay[c] EXCEPT !.from = Chunk(c)[Len(Chunk(c))], !.done = Done(c)]]
                 /\ buffer' = buffer
           /\ UNCHANGED <<rvars, hub, session, request, asked, client, more>>
    BY DEF ReplayChunk, Chunk, Ahead, Out, Done


\* What the end of a replay adds to the wire: frames, the buffer, the answer.
Drained(c, done) == Deliverable(c, buffer[c], done)
FinalFrames(c, frames, done, answer) == frames \o Frames(Drained(c, done)) \o <<answer>>
FinalItems(c, frames, done, answer) ==
    Items(frames) \cup Items(Frames(Drained(c, done))) \cup {answer}

LEMMA FinalFramesFacts ==
    ASSUME Shape, NEW c \in Conns, NEW done, NEW frames \in Seq(Sent), NEW answer \in Sent
    PROVE  LET all == FinalFrames(c, frames, done, answer) IN
           /\ all \in Seq(Sent)
           /\ Items(all) = FinalItems(c, frames, done, answer)
           /\ Drained(c, done) \in Seq(1..Len(stream))
           /\ \A i \in Items(Drained(c, done)) : Authorized(c, i)
           /\ \A i \in Items(buffer[c]) :
                 Authorized(c, i) => stream[i] \in done \cup EventsOf(Drained(c, done))
<1> DEFINE mid == Frames(Drained(c, done))
           two == frames \o mid
<1>1. buffer[c] \in Seq(1..Len(stream))
    BY DEF Shape, ResumeShape
<1>2. /\ Drained(c, done) \in Seq(1..Len(stream))
      /\ \A i \in Items(Drained(c, done)) : Authorized(c, i)
      /\ \A i \in Items(buffer[c]) :
            Authorized(c, i) => stream[i] \in done \cup EventsOf(Drained(c, done))
    BY <1>1, DeliverableFacts DEF Drained
<1>3. mid \in Seq(Sent)
    BY <1>2, FramesFacts
<1>4. <<answer>> \in Seq(Sent) /\ Items(<<answer>>) = {answer}
    BY OneFrame
<1> HIDE DEF mid
<1>5. two \in Seq(Sent) /\ Items(two) = Items(frames) \cup Items(mid)
    BY <1>3, ConcatItems
<1> HIDE DEF two
<1>6. two \o <<answer>> \in Seq(Sent) /\ Items(two \o <<answer>>) = Items(two) \cup {answer}
  <2> DEFINE last == <<answer>>
  <2>1. last \in Seq(Sent) /\ Items(last) = {answer}
      BY <1>4
  <2> HIDE DEF last
  <2>2. two \o last \in Seq(Sent) /\ Items(two \o last) = Items(two) \cup {answer}
      BY <1>5, <2>1, ConcatItems
  <2> QED BY <2>2 DEF last
<1>7. FinalFrames(c, frames, done, answer) = two \o <<answer>>
    BY DEF FinalFrames, two, mid
<1> QED BY <1>2, <1>5, <1>6, <1>7 DEF mid, FinalItems

LEMMA FinishShape ==
    ASSUME Shape, NEW c \in Conns, NEW done, NEW frames \in Seq(Sent), NEW answer \in Sent,
           Finish(c, frames, done, answer)
    PROVE  /\ wire' \in [Conns -> Seq(Sent)] /\ buffer' \in [Conns -> Seq(1..Len(stream))]
           /\ replay' \in [Conns -> Replays \cup {Null}]
<1>1. FinalFrames(c, frames, done, answer) \in Seq(Sent)
    BY FinalFramesFacts
<1>2. wire' \in [Conns -> Seq(Sent)]
  <2>1. wire' = [wire EXCEPT ![c] = Push(c, FinalFrames(c, frames, done, answer))]
      BY DEF Finish, FinalFrames, Drained
  <2>2. ResumeShape
      BY DEF Shape
  <2> QED BY <1>1, <2>1, <2>2, PushSent
<1>3. <<>> \in Seq(1..Len(stream))
    OBVIOUS
<1>4. buffer' = [buffer EXCEPT ![c] = <<>>] /\ replay' = [replay EXCEPT ![c] = Null]
    BY DEF Finish
<1> QED BY <1>2, <1>3, <1>4 DEF Shape, ResumeShape

\* A full chunk advances the replay.
LEMMA NextReplay ==
    ASSUME Shape, NEW c \in Conns, replay[c] # Null, ~(Len(Chunk(c)) < ChunkSize)
    PROVE  [replay[c] EXCEPT !.from = Chunk(c)[Len(Chunk(c))], !.done = Done(c)] \in Replays \ {Null}
<1> DEFINE r == [replay[c] EXCEPT !.from = Chunk(c)[Len(Chunk(c))], !.done = Done(c)]
<1>1. replay[c] \in Replays
    BY ReplayRecord DEF Shape
<1>2. Chunk(c)[Len(Chunk(c))] \in Ids /\ Done(c) \in SUBSET Events
  <2>1. Chunk(c)[Len(Chunk(c))] \in Ahead(c)
      BY ChunkFacts
  <2>2. trimmed \in Nat
      BY DEF Shape, RelayInv, RelayTypeOK
  <2> QED BY <2>1, <2>2, ChunkFacts DEF Ahead, Retained, Ids
<1>3. r \in Replays
    BY <1>1, <1>2, Zenon DEF Replays
<1>4. Replays \subseteq [from : Nat, boundary : Nat, done : SUBSET Events]
  <2>1. Ids \subseteq Nat
      BY DEF Ids
  <2> QED BY <2>1 DEF Replays
<1> HIDE DEF r
<1>5. r # Null
    BY <1>3, <1>4, GatewayAssumption
<1> QED BY <1>3, <1>5 DEF r

LEMMA ShapeReplay ==
    ASSUME Shape, NEW c \in Conns, ReplayChunk(c) \/ ReplayFails(c) PROVE Shape'
<1>1. /\ replay[c] # Null
      /\ UNCHANGED <<rvars, hub, session, request, asked, client, refreshes>>
    BY DEF ReplayChunk, ReplayFails, more
<1>2. /\ replay[c] \in Replays /\ replay[c].boundary \in Ids /\ replay[c].from \in Ids
    BY <1>1, ReplayRecord DEF Shape
<1>3. /\ wire' \in [Conns -> Seq(Sent)] /\ buffer' \in [Conns -> Seq(1..Len(stream))]
      /\ replay' \in [Conns -> Replays \cup {Null}]
  <2>1. CASE ReplayFails(c)
    <3>1. Finish(c, <<>>, replay[c].done, Signal("error", Null)) /\ <<>> \in Seq(Sent)
        BY <2>1 DEF ReplayFails
    <3> QED BY <3>1, SignalsSent, FinishShape
  <2>2. CASE ReplayChunk(c)
    <3>1. Out(c) \in Seq(1..Len(stream)) /\ Frames(Out(c)) \in Seq(Sent)
        BY <1>1, ChunkFacts, FramesFacts
    <3>2. CASE Len(Chunk(c)) < ChunkSize
      <4>1. Finish(c, Frames(Out(c)), Done(c), Signal("resumed", replay[c].boundary))
          BY <2>2, <3>2, ReplayFacts
      <4> QED BY <1>2, <3>1, <4>1, SignalsSent, FinishShape
    <3>3. CASE ~(Len(Chunk(c)) < ChunkSize)
      <4> DEFINE r == [replay[c] EXCEPT !.from = Chunk(c)[Len(Chunk(c))], !.done = Done(c)]
      <4>1. /\ wire' = [wire EXCEPT ![c] = Push(c, Frames(Out(c)))]
            /\ replay' = [replay EXCEPT ![c] = r] /\ buffer' = buffer
          BY <2>2, <3>3, ReplayFacts
      <4>3. r \in Replays
          BY <1>1, <3>3, NextReplay
      <4> HIDE DEF r
      <4> QED BY <3>1, <4>1, <4>3, PushSent DEF Shape, ResumeShape
    <3> QED BY <3>2, <3>3
  <2> QED BY <2>1, <2>2
<1>4. HubShape'
    BY <1>1, SameSets DEF Shape, HubShape, hub
<1>5. SessionShape' /\ ClientShape'
    BY <1>1, SameSets DEF Shape, SessionShape, ClientShape, session, client
<1>6. ResumeShape'
    BY <1>1, <1>3, SameSets DEF Shape, ResumeShape
<1> QED BY <1>1, <1>4, <1>5, <1>6, SameSets DEF Shape

LEMMA ShapeReauthorize ==
    ASSUME Shape, NEW c \in Conns, NEW s \in SUBSET Topics, Reauthorize(c, s) PROVE Shape'
<1>1. /\ scope' = [scope EXCEPT ![c] = s]
      /\ UNCHANGED <<rvars, hub, at, gen, sgen, since, wire, resume, client, faults>>
    BY DEF Reauthorize
<1>2. HubShape' /\ SessionShape'
    BY <1>1, SameSets DEF Shape, HubShape, SessionShape, hub
<1>3. ResumeShape' /\ ClientShape'
    BY <1>1, SameSets DEF Shape, ResumeShape, ClientShape, resume, client
<1> QED BY <1>1, <1>2, <1>3, SameSets DEF Shape

\* What Disconnect does, without its LET.
Emptied(c) == at[c] = "open" /\ current # Null /\ Members \subseteq {c}

LEMMA DisconnectFacts ==
    ASSUME NEW k \in Clients, Disconnect(k)
    PROVE  LET c == conn[k]
               x == SessionOf[k]
           IN  /\ c # Null
               /\ at' = [at EXCEPT ![c] = IF @ = "open" THEN "closed" ELSE @]
               /\ Emptied(c) =>
                     /\ current' = Null /\ recent' = <<>>
                     /\ commands' = Append(commands, ToRedis("unsubscribe", c, x))
               /\ ~Emptied(c) => UNCHANGED <<current, recent, commands>>
               /\ sessionSet' = [sessionSet EXCEPT ![x] =
                     IF at[c] = "open" /\ SessionMembers(x) \subseteq {c} THEN Null ELSE @]
               /\ wire' = [wire EXCEPT ![c] = <<>>]
               /\ request' = [request EXCEPT ![c] = <<>>]
               /\ replay' = [replay EXCEPT ![c] = Null]
               /\ buffer' = [buffer EXCEPT ![c] = <<>>]
               /\ conn' = [conn EXCEPT ![k] = Null]
               /\ resuming' = [resuming EXCEPT ![k] = FALSE]
               /\ UNCHANGED <<rvars, subscribed, heard, gen, sgen, scope, since, asked,
                              cursor, known, refetch, more>>
    BY DEF Disconnect, Emptied

LEMMA ShapeDisconnect ==
    ASSUME Shape, NEW k \in Clients, Disconnect(k) PROVE Shape'
<1> DEFINE c == conn[k]
           x == SessionOf[k]
<1>1. c \in Conns /\ x \in Sessions
    BY DisconnectFacts, ClientSession DEF Shape, ClientShape
<1>2. UNCHANGED <<rvars, subscribed, heard, gen, sgen, scope, since, asked,
                  cursor, known, refetch, more>>
    BY DisconnectFacts
<1>3. /\ current' \in Conns \cup {Null} /\ recent' \in Seq(Events)
      /\ Len(recent') <= DedupCapacity /\ commands' \in Seq(Commands)
  <2>1. ToRedis("unsubscribe", c, x) \in Commands
      BY <1>1 DEF ToRedis, Commands
  <2>2. Append(commands, ToRedis("unsubscribe", c, x)) \in Seq(Commands)
      BY <2>1 DEF Shape, HubShape
  <2>3. DedupCapacity \in Nat /\ <<>> \in Seq(Events) /\ Len(<<>>) = 0
      BY GatewayAssumption
  <2>4. CASE Emptied(c)
    <3>1. current' = Null /\ recent' = <<>>
          /\ commands' = Append(commands, ToRedis("unsubscribe", c, x))
        BY <2>4, DisconnectFacts
    <3>2. Len(recent') <= DedupCapacity
        BY <3>1, <2>3
    <3> QED BY <3>1, <3>2, <2>2, <2>3
  <2>5. CASE ~Emptied(c)
      BY <2>5, DisconnectFacts DEF Shape, HubShape
  <2> QED BY <2>4, <2>5
<1>4. sessionSet' \in [Sessions -> Conns \cup {Null}]
    BY DisconnectFacts DEF Shape, HubShape
<1>5. HubShape'
    BY <1>2, <1>3, <1>4, SameSets DEF Shape, HubShape
<1>6. at' \in [Conns -> {"free", "joining", "joined", "open", "closed"}]
    BY DisconnectFacts DEF Shape, SessionShape
<1>7. SessionShape'
    BY <1>2, <1>6 DEF Shape, SessionShape
<1>8. \A S : <<>> \in Seq(S)
    OBVIOUS
<1>9. /\ wire' = [wire EXCEPT ![c] = <<>>] /\ request' = [request EXCEPT ![c] = <<>>]
      /\ replay' = [replay EXCEPT ![c] = Null] /\ buffer' = [buffer EXCEPT ![c] = <<>>]
    BY DisconnectFacts
<1>10. /\ wire' \in [Conns -> Seq(Sent)] /\ request' \in [Conns -> Seq(Ids \cup {Null})]
       /\ replay' \in [Conns -> Replays \cup {Null}] /\ buffer' \in [Conns -> Seq(1..Len(stream))]
    BY <1>8, <1>9 DEF Shape, ResumeShape
<1>11. ResumeShape'
    BY <1>2, <1>10, SameSets DEF Shape, ResumeShape
<1>12. conn' \in [Clients -> Conns \cup {Null}] /\ resuming' \in [Clients -> BOOLEAN]
    BY DisconnectFacts DEF Shape, ClientShape
<1>13. ClientShape'
    BY <1>2, <1>12, SameSets DEF Shape, ClientShape
<1> QED BY <1>2, <1>5, <1>7, <1>11, <1>13, SameSets DEF Shape

\* What a client does with a frame, without the LET of Receive.
LEMMA ReceiveFacts ==
    ASSUME Shape, NEW k \in Clients, Receive(k)
    PROVE  LET c == conn[k]
               m == Head(wire[c])
           IN  /\ c \in Conns /\ wire[c] \in Seq(Sent) /\ wire[c] # <<>> /\ m \in Sent
               /\ wire' = [wire EXCEPT ![c] = Tail(wire[c])]
               /\ Items(wire[c]) = {m} \cup Items(Tail(wire[c]))
               /\ cursor' = [cursor EXCEPT ![k] =
                     IF m.type \in {"event", "heartbeat", "resumed"} THEN m.cursor
                     ELSE IF m.type = "error" THEN Null ELSE @]
               /\ known' = [known EXCEPT ![k] =
                     IF m.type = "event" THEN @ \cup {stream[m.cursor]} ELSE @]
               /\ resuming' = [resuming EXCEPT ![k] = @ \/ m.type = "ack"]
               /\ refetch' = [refetch EXCEPT ![k] =
                     IF m.type = "resync-required" THEN m.cursor ELSE @]
               /\ UNCHANGED <<rvars, hub, session, resume, conn, more>>
<1> DEFINE c == conn[k]
<1>1. c \in Conns /\ wire[c] # <<>> /\ wire[c] \in Seq(Sent)
    BY DEF Receive, Shape, ClientShape, ResumeShape
<1>2. Head(wire[c]) \in Sent /\ Items(wire[c]) = {Head(wire[c])} \cup Items(Tail(wire[c]))
    BY <1>1, HeadAndTail, ItemsTail
<1> QED BY <1>1, <1>2 DEF Receive

LEMMA ShapeClient ==
    ASSUME Shape, NEW k \in Clients, ClientStep(k) PROVE Shape'
<1>1. CASE Receive(k)
  <2> DEFINE c == conn[k]
             m == Head(wire[c])
  <2>1. m \in Sent /\ Tail(wire[c]) \in Seq(Sent) /\ c \in Conns
      BY <1>1, ReceiveFacts, HeadAndTail
  <2>2. UNCHANGED <<rvars, hub, session, resume, conn, more>>
      BY <1>1, ReceiveFacts
  <2>3. wire' \in [Conns -> Seq(Sent)]
    <3>1. wire' = [wire EXCEPT ![c] = Tail(wire[c])]
        BY <1>1, ReceiveFacts
    <3> QED BY <2>1, <3>1 DEF Shape, ResumeShape
  <2>4. m.cursor \in Ids \cup {Null} /\ (m.type = "event" => stream[m.cursor] \in Events)
    <3>1. m.cursor \in Ids \cup {Null} /\ (m.type = "event" => m.cursor \in 1..Len(stream))
        BY <2>1 DEF Sent, Frame
    <3> QED BY <3>1 DEF Shape, RelayInv, RelayTypeOK
  <2>5. cursor' \in [Clients -> Ids \cup {Null}] /\ refetch' \in [Clients -> Ids \cup {Null}]
      BY <1>1, <2>4, ReceiveFacts DEF Shape, ClientShape
  <2>6. known' \in [Clients -> SUBSET Events] /\ resuming' \in [Clients -> BOOLEAN]
    <3>1. known' \in [Clients -> SUBSET Events]
        BY <1>1, <2>4, ReceiveFacts DEF Shape, ClientShape
    <3>2. resuming' \in [Clients -> BOOLEAN]
        BY <1>1, ReceiveFacts DEF Shape, ClientShape
    <3> QED BY <3>1, <3>2
  <2>7. HubShape' /\ SessionShape'
      BY <2>2, SameSets DEF Shape, HubShape, SessionShape, hub, session
  <2>8. ResumeShape'
      BY <2>2, <2>3, SameSets DEF Shape, ResumeShape, resume
  <2>9. ClientShape'
      BY <2>2, <2>5, <2>6, SameSets DEF Shape, ClientShape
  <2> QED BY <2>2, <2>7, <2>8, <2>9, SameSets DEF Shape
<1>2. CASE SendResume(k)
  <2>1. /\ resuming' = [resuming EXCEPT ![k] = FALSE]
        /\ request' = [request EXCEPT ![conn[k]] = Append(@, cursor[k])]
        /\ UNCHANGED <<rvars, hub, session, wire, replay, buffer, asked, conn, cursor,
                       known, refetch, more>>
      BY <1>2 DEF SendResume
  <2>2. request' \in [Conns -> Seq(Ids \cup {Null})]
    <3>1. request \in [Conns -> Seq(Ids \cup {Null})] /\ cursor[k] \in Ids \cup {Null}
        BY DEF Shape, ResumeShape, ClientShape
    <3>2. ASSUME NEW c \in Conns PROVE Append(request[c], cursor[k]) \in Seq(Ids \cup {Null})
        BY <3>1, AppendProperties
    <3> QED BY <2>1, <3>1, <3>2
  <2>3. HubShape' /\ SessionShape'
      BY <2>1, SameSets DEF Shape, HubShape, SessionShape, hub, session
  <2>4. ResumeShape'
      BY <2>1, <2>2, SameSets DEF Shape, ResumeShape
  <2>5. ClientShape'
      BY <2>1, SameSets DEF Shape, ClientShape
  <2> QED BY <2>1, <2>3, <2>4, <2>5, SameSets DEF Shape
<1>3. CASE Refetched(k)
  <2>1. /\ refetch[k] # Null /\ refetch' = [refetch EXCEPT ![k] = Null]
        /\ UNCHANGED <<rvars, hub, session, wire, resume, conn, resuming, refreshes>>
        /\ \/ /\ known' = [known EXCEPT ![k] = @ \cup Items(stream)]
              /\ cursor' = [cursor EXCEPT ![k] = refetch[k]]
           \/ UNCHANGED <<known, cursor>>
      BY <1>3 DEF Refetched
  <2>2. Items(stream) \subseteq Events
      BY SeqItems DEF Shape, RelayInv, RelayTypeOK
  <2>3. known' \in [Clients -> SUBSET Events] /\ cursor' \in [Clients -> Ids \cup {Null}]
      BY <2>1, <2>2 DEF Shape, ClientShape
  <2>4. HubShape' /\ SessionShape'
      BY <2>1, SameSets DEF Shape, HubShape, SessionShape, hub, session
  <2>5. ResumeShape'
      BY <2>1, SameSets DEF Shape, ResumeShape, resume
  <2>6. ClientShape'
      BY <2>1, <2>3, SameSets DEF Shape, ClientShape
  <2> QED BY <2>1, <2>4, <2>5, <2>6, SameSets DEF Shape
<1> QED BY <1>1, <1>2, <1>3 DEF ClientStep


-----------------------------------------------------------------------------
(* Authorization.                                                          *)

\* The frames a step adds to a wire are within the scope of the session.
Within(c) ==
    \A j \in (Len(wire[c]) + 1)..Len(wire'[c]) :
        wire'[c][j].type = "event" => Authorized(c, wire'[c][j].cursor)

LEMMA PushWithin ==
    ASSUME Shape, NEW c \in Conns, NEW S, NEW frames \in Seq(S), wire'[c] = Push(c, frames),
           \A m \in Items(frames) : m.type = "event" => Authorized(c, m.cursor)
    PROVE  Within(c)
<1>1. wire[c] \in Seq(Sent \cup S) /\ frames \in Seq(Sent \cup S)
  <2>1. wire[c] \in Seq(Sent)
      BY DEF Shape, ResumeShape
  <2> QED BY <2>1, SeqGrows
<1>2. \A j \in (Len(wire[c]) + 1)..Len(Push(c, frames)) : Push(c, frames)[j] \in Items(frames)
    BY <1>1, PushFacts
<1> QED BY <1>2 DEF Within

LEMMA ShorterWithin ==
    ASSUME Shape, NEW c \in Conns,
           wire'[c] = wire[c] \/ wire'[c] = <<>>
                \/ (wire[c] # <<>> /\ wire'[c] = Tail(wire[c]))
    PROVE  Within(c)
<1>1. wire[c] \in Seq(Sent) /\ Len(wire[c]) \in Nat /\ Len(<<>>) = 0
    BY DEF Shape, ResumeShape
<1>2. ASSUME wire[c] # <<>>
      PROVE  Len(Tail(wire[c])) \in Nat /\ Len(Tail(wire[c])) <= Len(wire[c])
  <2>1. Tail(wire[c]) \in Seq(Sent) /\ Len(Tail(wire[c])) = Len(wire[c]) - 1
      BY <1>1, <1>2, HeadTailProperties
  <2>2. \A n \in Nat : n - 1 <= n
      OBVIOUS
  <2>3. Len(Tail(wire[c])) \in Nat
      BY <2>1
  <2> QED BY <1>1, <2>1, <2>2, <2>3, Zenon
<1>3. Len(wire'[c]) \in Nat /\ Len(wire'[c]) <= Len(wire[c])
  <2>1. CASE wire'[c] = wire[c] BY <2>1, <1>1
  <2>2. CASE wire'[c] = <<>> BY <2>2, <1>1
  <2>3. CASE wire[c] # <<>> /\ wire'[c] = Tail(wire[c]) BY <2>3, <1>2, Zenon
  <2> QED BY <2>1, <2>2, <2>3
<1>4. (Len(wire[c]) + 1)..Len(wire'[c]) = {}
    BY <1>1, <1>3
<1> QED BY <1>4 DEF Within

LEMMA SignalWithin ==
    ASSUME Shape, NEW c \in Conns, NEW m, m.type # "event",
           wire'[c] = Push(c, <<m>>) \/ wire'[c] = <<m>>
    PROVE  Within(c)
<1>1. <<m>> \in Seq({m}) /\ Items(<<m>>) = {m}
    BY OneFrame
<1>2. CASE wire'[c] = Push(c, <<m>>)
    BY <1>1, <1>2, PushWithin
<1>3. CASE wire'[c] = <<m>>
  <2>1. \A j \in 1..1 : <<m>>[j].type # "event"
      OBVIOUS
  <2>2. Len(wire[c]) \in Nat /\ Len(<<m>>) = 1
      BY DEF Shape, ResumeShape
  <2>3. (Len(wire[c]) + 1)..1 \subseteq 1..1
      BY <2>2
  <2> QED BY <1>3, <2>1, <2>2, <2>3 DEF Within
<1> QED BY <1>2, <1>3

LEMMA EventsWithin ==
    ASSUME NEW c, NEW ids \in Seq(1..Len(stream)), \A i \in Items(ids) : Authorized(c, i)
    PROVE  \A m \in Items(Frames(ids)) : Authorized(c, m.cursor)
<1>1. \A i : Event(i).cursor = i
    BY DEF Event
<1> QED BY <1>1, FramesFacts

LEMMA FinishWithin ==
    ASSUME Shape, NEW c \in Conns, NEW done, NEW ids \in Seq(1..Len(stream)),
           \A i \in Items(ids) : Authorized(c, i),
           NEW answer \in Sent, answer.type # "event",
           Finish(c, Frames(ids), done, answer)
    PROVE  Within(c)
<1> DEFINE all == FinalFrames(c, Frames(ids), done, answer)
<1>1. Frames(ids) \in Seq(Sent)
    BY FramesFacts
<1>2. /\ all \in Seq(Sent)
      /\ Items(all) = Items(Frames(ids)) \cup Items(Frames(Drained(c, done))) \cup {answer}
      /\ Drained(c, done) \in Seq(1..Len(stream))
      /\ \A i \in Items(Drained(c, done)) : Authorized(c, i)
      /\ wire' = [wire EXCEPT ![c] = Push(c, all)]
  <2>1. all \in Seq(Sent)
      BY <1>1, FinalFramesFacts
  <2>2. Items(all) = FinalItems(c, Frames(ids), done, answer)
      BY <1>1, FinalFramesFacts
  <2>3. /\ Drained(c, done) \in Seq(1..Len(stream))
        /\ \A i \in Items(Drained(c, done)) : Authorized(c, i)
      BY <1>1, FinalFramesFacts
  <2>4. wire' = [wire EXCEPT ![c] = Push(c, all)]
      BY DEF Finish, FinalFrames, Drained
  <2> QED BY <2>1, <2>2, <2>3, <2>4 DEF FinalItems
<1> HIDE DEF all
<1>3. \A m \in Items(all) : m.type = "event" => Authorized(c, m.cursor)
  <2>1. \A m \in Items(Frames(ids)) : Authorized(c, m.cursor)
      BY EventsWithin
  <2>2. \A m \in Items(Frames(Drained(c, done))) : Authorized(c, m.cursor)
      BY <1>2, EventsWithin
  <2> QED BY <1>2, <2>1, <2>2
<1>4. wire'[c] = Push(c, all)
    BY <1>2 DEF Shape, ResumeShape
<1> QED BY <1>2, <1>3, <1>4, PushWithin

LEMMA StepWithin ==
    ASSUME Shape, [Next]_vars, NEW c \in Conns PROVE Within(c)
<1>0. wire \in [Conns -> Seq(Sent)]
    BY DEF Shape, ResumeShape
<1>1. ASSUME wire' = wire PROVE Within(c)
    BY <1>1, ShorterWithin
<1>2. CASE (RelayNext /\ UNCHANGED <<hub, session, wire, resume, client, more>>) \/ UNCHANGED vars
    BY <1>1, <1>2 DEF vars
<1>a. Hello.type # "event"
    BY SignalsSent
<1>3. ASSUME NEW k \in Clients, NEW d \in Conns, Connect(k, d) PROVE Within(c)
  <2>1. wire' = wire \/ wire' = [wire EXCEPT ![d] = <<Hello>>]
      BY <1>3 DEF Connect, JoinSession
  <2>2. wire'[c] = wire[c] \/ wire'[c] = <<Hello>>
      BY <1>0, <2>1
  <2> QED BY <1>a, <2>2, ShorterWithin, SignalWithin
<1>4. ASSUME NEW k \in Clients, Disconnect(k) PROVE Within(c)
  <2>1. wire' = [wire EXCEPT ![conn[k]] = <<>>]
      BY <1>4, DisconnectFacts
  <2>2. wire'[c] = wire[c] \/ wire'[c] = <<>>
      BY <1>0, <2>1
  <2> QED BY <2>2, ShorterWithin
<1>5. ASSUME NEW k \in Clients, ClientStep(k) PROVE Within(c)
  <2>1. CASE Receive(k)
    <3>1. conn[k] \in Conns /\ wire[conn[k]] # <<>>
          /\ wire' = [wire EXCEPT ![conn[k]] = Tail(wire[conn[k]])]
        BY <2>1, ReceiveFacts
    <3>2. wire'[c] = wire[c] \/ (wire[c] # <<>> /\ wire'[c] = Tail(wire[c]))
        BY <1>0, <3>1
    <3> QED BY <3>2, ShorterWithin
  <2>2. CASE SendResume(k) \/ Refetched(k)
      BY <1>1, <2>2 DEF SendResume, Refetched
  <2> QED BY <1>5, <2>1, <2>2 DEF ClientStep
<1>6. CASE Subscriber
  <2>1. \/ wire' = wire
        \/ wire' = [wire EXCEPT ![Head(commands).conn] = Push(Head(commands).conn, <<Hello>>)]
      BY <1>6 DEF Subscriber, SubscribeDone, UnsubscribeDone, SessionDone, JoinSession
  <2>2. wire'[c] = wire[c] \/ wire'[c] = Push(c, <<Hello>>)
      BY <1>0, <2>1
  <2> QED BY <1>a, <2>2, ShorterWithin, SignalWithin
<1>7. CASE Hear
  <2> DEFINE i == channel[heard + 1]
  <2>1. /\ i \in 1..Len(stream)
        /\ \/ wire'[c] = wire[c]
           \/ wire'[c] = Push(c, <<IF Authorized(c, i) THEN Event(i) ELSE Heartbeat(i)>>)
      BY <1>7, HearFacts
  <2> HIDE DEF i
  <2>2. CASE wire'[c] = wire[c]
      BY <2>2, ShorterWithin
  <2>3. CASE wire'[c] = Push(c, <<Event(i)>>) /\ Authorized(c, i)
    <3>1. <<Event(i)>> \in Seq({Event(i)}) /\ Items(<<Event(i)>>) = {Event(i)}
        BY OneFrame
    <3>2. Event(i).cursor = i
        BY DEF Event
    <3> QED BY <2>3, <3>1, <3>2, PushWithin
  <2>4. CASE wire'[c] = Push(c, <<Heartbeat(i)>>)
    <3>1. Heartbeat(i).type # "event"
        BY DEF Heartbeat
    <3> QED BY <2>4, <3>1, SignalWithin
  <2> QED BY <2>1, <2>2, <2>3, <2>4
<1>8. ASSUME NEW d \in Conns, HubStep(d) PROVE Within(c)
  <2>1. CASE ReadBounds(d)
      BY <1>1, <2>1 DEF ReadBounds
  <2>2. CASE ResumeBounds(d)
    <3> DEFINE m == Signal("resync-required", request[d][2])
    <3>1. m.type # "event"
        BY DEF Signal
    <3>2. wire' = [wire EXCEPT ![d] = Push(d, <<m>>)] \/ wire' = [wire EXCEPT ![d] = @]
        BY <2>2, BoundsFacts
    <3> HIDE DEF m
    <3>3. wire'[c] = wire[c] \/ wire'[c] = Push(c, <<m>>)
        BY <1>0, <3>2
    <3> QED BY <3>1, <3>3, ShorterWithin, SignalWithin
  <2>3. CASE ReplayChunk(d)
    <3>1. replay[d] # Null
        BY <2>3, ReplayFacts
    <3>2. Out(d) \in Seq(1..Len(stream)) /\ \A i \in Items(Out(d)) : Authorized(d, i)
        BY <3>1, ChunkFacts
    <3>3. CASE Len(Chunk(d)) < ChunkSize
      <4> DEFINE m == Signal("resumed", replay[d].boundary)
      <4>1. m \in Sent /\ m.type # "event"
          BY <3>1, ReplayRecord, SignalsSent DEF Shape
      <4>2. Finish(d, Frames(Out(d)), Done(d), m)
          BY <2>3, <3>3, ReplayFacts
      <4> HIDE DEF m
      <4>3. Within(d)
          BY <3>2, <4>1, <4>2, FinishWithin
      <4>4. c # d => wire'[c] = wire[c]
          BY <1>0, <4>2 DEF Finish
      <4> QED BY <4>3, <4>4, ShorterWithin
    <3>4. CASE ~(Len(Chunk(d)) < ChunkSize)
      <4>1. wire' = [wire EXCEPT ![d] = Push(d, Frames(Out(d)))]
          BY <2>3, <3>4, ReplayFacts
      <4>2. wire'[d] = Push(d, Frames(Out(d))) /\ (c # d => wire'[c] = wire[c])
          BY <1>0, <4>1
      <4>3. Frames(Out(d)) \in Seq(Sent)
            /\ \A m \in Items(Frames(Out(d))) : Authorized(d, m.cursor)
          BY <3>2, FramesFacts, EventsWithin
      <4>4. Within(d)
          BY <4>2, <4>3, PushWithin
      <4> QED BY <4>2, <4>4, ShorterWithin
    <3> QED BY <3>3, <3>4
  <2> QED BY <1>8, <2>1, <2>2, <2>3 DEF HubStep
<1>9. ASSUME NEW d \in Conns, ReplayFails(d) PROVE Within(c)
  <2> DEFINE m == Signal("error", Null)
  <2>1. m \in Sent /\ m.type # "event"
      BY SignalsSent
  <2>2. Frames(<<>>) = <<>> /\ <<>> \in Seq(1..Len(stream)) /\ Items(<<>>) = {}
      BY DEF Frames, Items
  <2>3. Finish(d, <<>>, replay[d].done, m)
      BY <1>9 DEF ReplayFails
  <2> HIDE DEF m
  <2>4. Within(d)
      BY <2>1, <2>2, <2>3, FinishWithin
  <2>5. c # d => wire'[c] = wire[c]
      BY <1>0, <2>3 DEF Finish
  <2> QED BY <2>4, <2>5, ShorterWithin
<1>10. ASSUME NEW d \in Conns, NEW s \in SUBSET Topics, Reauthorize(d, s) PROVE Within(c)
    BY <1>1, <1>10 DEF Reauthorize
<1> QED BY <1>2, <1>3, <1>4, <1>5, <1>6, <1>7, <1>8, <1>9, <1>10 DEF Next


-----------------------------------------------------------------------------
(* The registry: connections, the tenant's set, the subscriber connection.  *)

\* A command waits for a connection that waits for it.
Pending(q)    == {j \in DOMAIN q : q[j].cmd # "unsubscribe"}
QueueOK(q, a) ==
    /\ \A j \in Pending(q) :
          a[q[j].conn] = IF q[j].cmd = "subscribe" THEN "joining" ELSE "joined"
    /\ \A i, j \in Pending(q) : q[i].conn = q[j].conn => i = j

\* A connection is used once, by one client, and hears from its registration on.
ConnOK(c) ==
    /\ at[c] = "free" => /\ gen[c] = Null /\ current # c
                         /\ \A d \in Conns : gen[d] # c
    /\ at[c] # "free" => gen[c] # Null
    /\ at[c] \in {"free", "joining"} => since[c] = Null
    /\ at[c] \in {"free", "closed"} => \A k \in Clients : conn[k] # c
    /\ gen[c] = current /\ since[c] # Null => Listening
    /\ since[c] # Null => since[c] <= heard

OwnConnections == \A k, l \in Clients : conn[k] = conn[l] /\ conn[k] # Null => k = l

Registry == QueueOK(commands, at) /\ (\A c \in Conns : ConnOK(c)) /\ OwnConnections

LEMMA QueueTail ==
    ASSUME NEW q \in Seq(Commands), q # <<>>, NEW a, QueueOK(q, a)
    PROVE  /\ QueueOK(Tail(q), a)
           /\ Head(q).cmd # "unsubscribe" =>
                 /\ a[Head(q).conn] = IF Head(q).cmd = "subscribe" THEN "joining" ELSE "joined"
                 /\ \A j \in Pending(Tail(q)) : Tail(q)[j].conn # Head(q).conn
<1> DEFINE t == Tail(q)
<1>1. /\ Len(q) \in Nat \ {0} /\ DOMAIN q = 1..Len(q) /\ Head(q) = q[1]
      /\ DOMAIN t = 1..(Len(q) - 1)
      /\ \A j \in 1..(Len(q) - 1) : t[j] = q[j + 1]
    OBVIOUS
<1> HIDE DEF t
<1>2. ASSUME NEW j \in Pending(t)
      PROVE  j \in Nat /\ j + 1 \in Pending(q) /\ t[j] = q[j + 1] /\ j + 1 # 1
  <2>1. j \in 1..(Len(q) - 1)
      BY <1>1 DEF Pending
  <2>2. j + 1 \in 1..Len(q) /\ t[j] = q[j + 1] /\ j + 1 # 1 /\ j \in Nat
      BY <2>1, <1>1
  <2> QED BY <2>2, <1>1 DEF Pending
<1>3. QueueOK(t, a)
  <2>1. \A j \in Pending(t) : a[t[j].conn] = IF t[j].cmd = "subscribe" THEN "joining" ELSE "joined"
      BY <1>2 DEF QueueOK
  <2>2. ASSUME NEW i \in Pending(t), NEW j \in Pending(t), t[i].conn = t[j].conn PROVE i = j
    <3>1. i + 1 = j + 1
        BY <1>2, <2>2 DEF QueueOK
    <3> QED BY <3>1, <1>2
  <2> QED BY <2>1, <2>2 DEF QueueOK
<1>4. ASSUME Head(q).cmd # "unsubscribe"
      PROVE  /\ a[Head(q).conn] = IF Head(q).cmd = "subscribe" THEN "joining" ELSE "joined"
             /\ \A j \in Pending(t) : t[j].conn # Head(q).conn
  <2>1. 1 \in Pending(q)
      BY <1>1, <1>4 DEF Pending
  <2> QED BY <2>1, <1>1, <1>2 DEF QueueOK
<1> QED BY <1>3, <1>4 DEF t

LEMMA QueueAppend ==
    ASSUME NEW q \in Seq(Commands), NEW a, QueueOK(q, a), NEW m \in Commands,
           m.cmd # "unsubscribe" =>
               /\ a[m.conn] = IF m.cmd = "subscribe" THEN "joining" ELSE "joined"
               /\ \A j \in Pending(q) : q[j].conn # m.conn
    PROVE  QueueOK(Append(q, m), a)
<1> DEFINE t == Append(q, m)
<1>1. /\ Len(q) \in Nat /\ DOMAIN q = 1..Len(q) /\ DOMAIN t = 1..(Len(q) + 1)
      /\ t[Len(q) + 1] = m /\ \A j \in 1..Len(q) : t[j] = q[j]
    OBVIOUS
<1> HIDE DEF t
<1>2. ASSUME NEW j \in Pending(t), j # Len(q) + 1 PROVE j \in Pending(q) /\ t[j] = q[j]
    BY <1>1, <1>2 DEF Pending
<1>3. Len(q) + 1 \in Pending(t) => m.cmd # "unsubscribe"
    BY <1>1 DEF Pending
<1>4. \A j \in Pending(t) :
          a[t[j].conn] = IF t[j].cmd = "subscribe" THEN "joining" ELSE "joined"
  <2> SUFFICES ASSUME NEW j \in Pending(t)
               PROVE  a[t[j].conn] = IF t[j].cmd = "subscribe" THEN "joining" ELSE "joined"
      OBVIOUS
  <2>1. CASE j = Len(q) + 1
      BY <2>1, <1>1, <1>3
  <2>2. CASE j # Len(q) + 1
      BY <2>2, <1>2 DEF QueueOK
  <2> QED BY <2>1, <2>2
<1>5. ASSUME NEW i \in Pending(t), NEW j \in Pending(t), t[i].conn = t[j].conn PROVE i = j
  <2>1. CASE i # Len(q) + 1 /\ j # Len(q) + 1
      BY <2>1, <1>2, <1>5 DEF QueueOK
  <2>2. CASE i = Len(q) + 1 /\ j # Len(q) + 1
      BY <2>2, <1>1, <1>2, <1>3, <1>5
  <2>3. CASE i # Len(q) + 1 /\ j = Len(q) + 1
      BY <2>3, <1>1, <1>2, <1>3, <1>5
  <2> QED BY <2>1, <2>2, <2>3
<1> QED BY <1>4, <1>5 DEF QueueOK, t

LEMMA QueueMoves ==
    ASSUME NEW q \in Seq(Commands), NEW a, NEW b, QueueOK(q, a),
           \A j \in Pending(q) : b[q[j].conn] = a[q[j].conn]
    PROVE  QueueOK(q, b)
    BY DEF QueueOK

\* addToSession keeps the queue in order: its connection waits for one command.
LEMMA JoinQueue ==
    ASSUME Shape, NEW c \in Conns, NEW x \in Sessions, NEW cmds \in Seq(Commands), NEW acked,
           JoinSession(c, x, cmds, acked), QueueOK(cmds, at),
           \A j \in Pending(cmds) : cmds[j].conn # c
    PROVE  /\ QueueOK(commands', at')
           /\ at'[c] \in {"joined", "open"} /\ \A d \in Conns : d # c => at'[d] = at[d]
           /\ \/ commands' = cmds
              \/ commands' = Append(cmds, ToRedis("session", c, x))
<1>1. at \in [Conns -> {"free", "joining", "joined", "open", "closed"}]
    BY DEF Shape, SessionShape
<1>2. ASSUME NEW j \in Pending(cmds) PROVE cmds[j].conn \in Conns
  <2>1. cmds[j] \in Commands
      BY DEF Pending
  <2> QED BY <2>1 DEF Commands
<1>3. CASE sessionSet[x] = Null
  <2> DEFINE m == ToRedis("session", c, x)
  <2>1. m \in Commands /\ m.cmd = "session" /\ m.conn = c
      BY DEF ToRedis, Commands
  <2>2. commands' = Append(cmds, m) /\ at' = [at EXCEPT ![c] = "joined"]
      BY <1>3 DEF JoinSession
  <2>a. \A j \in Pending(cmds) : at'[cmds[j].conn] = at[cmds[j].conn]
      BY <1>1, <1>2, <2>2
  <2>3. QueueOK(cmds, at')
      BY <2>a, QueueMoves
  <2> HIDE DEF m
  <2>4. at'[c] = "joined"
      BY <1>1, <2>2
  <2>5. QueueOK(Append(cmds, m), at')
      BY <2>1, <2>3, <2>4, QueueAppend
  <2> QED BY <1>1, <2>2, <2>5 DEF m
<1>4. CASE sessionSet[x] # Null
  <2>1. commands' = cmds /\ at' = [at EXCEPT ![c] = "open"]
      BY <1>4 DEF JoinSession
  <2>a. \A j \in Pending(cmds) : at'[cmds[j].conn] = at[cmds[j].conn]
      BY <1>1, <1>2, <2>1
  <2>2. QueueOK(cmds, at')
      BY <2>a, QueueMoves
  <2> QED BY <1>1, <2>1, <2>2
<1> QED BY <1>3, <1>4

LEMMA RegistryInit == Init => Registry
<1> SUFFICES ASSUME Init PROVE Registry
    OBVIOUS
<1>1. Pending(commands) = {}
    BY DEF Init, Pending
<1>2. QueueOK(commands, at)
    BY <1>1 DEF QueueOK
<1>3. ASSUME NEW c \in Conns PROVE ConnOK(c)
  <2>1. c # Null
      BY GatewayAssumption
  <2> QED BY <2>1 DEF Init, ConnOK
<1>4. OwnConnections
    BY DEF Init, OwnConnections
<1> QED BY <1>2, <1>3, <1>4 DEF Registry

LEMMA RegistryFramed ==
    ASSUME Registry, UNCHANGED <<current, commands, subscribed, at, gen, since, conn>>,
           heard' = heard \/ (Shape /\ heard' = heard + 1)
    PROVE  Registry'
<1>1. ASSUME NEW c \in Conns PROVE ConnOK(c)'
  <2>1. since[c] # Null => since[c] <= heard'
    <3>1. CASE heard' = heard
        BY <3>1 DEF Registry, ConnOK
    <3>2. CASE Shape /\ heard' = heard + 1
      <4>1. since[c] # Null => since[c] \in Nat
          BY <3>2 DEF Shape, SessionShape
      <4>2. heard \in Nat
          BY <3>2 DEF Shape, HubShape
      <4> QED BY <3>2, <4>1, <4>2 DEF Registry, ConnOK
    <3> QED BY <3>1, <3>2
  <2>2. Listening' = Listening
      BY DEF Listening
  <2> QED BY <2>1, <2>2 DEF Registry, ConnOK
<1>2. QueueOK(commands, at)' /\ OwnConnections'
    BY DEF Registry, QueueOK, OwnConnections
<1> QED BY <1>1, <1>2 DEF Registry

\* Pending commands are of connections that are being registered.
LEMMA PendingConn ==
    ASSUME Shape, Registry, NEW j \in Pending(commands)
    PROVE  commands[j].conn \in Conns /\ at[commands[j].conn] \in {"joining", "joined"}
<1>1. commands[j] \in Commands
    BY DEF Shape, HubShape, Pending
<1> QED BY <1>1 DEF Registry, QueueOK, Commands

LEMMA RegistryConnect ==
    ASSUME Shape, Registry, NEW k \in Clients, NEW c \in Conns, Connect(k, c) PROVE Registry'
<1> DEFINE x == SessionOf[k]
<1>1. /\ conn[k] = Null /\ at[c] = "free" /\ conn' = [conn EXCEPT ![k] = c]
      /\ gen' = [gen EXCEPT ![c] = current'] /\ UNCHANGED <<subscribed, heard>>
    BY DEF Connect
<1>2. /\ at \in [Conns -> {"free", "joining", "joined", "open", "closed"}]
      /\ gen \in [Conns -> Conns \cup {Null}] /\ commands \in Seq(Commands)
      /\ since \in [Conns -> Nat \cup {Null}] /\ current \in Conns \cup {Null}
      /\ conn \in [Clients -> Conns \cup {Null}] /\ heard \in Nat
    BY DEF Shape, HubShape, SessionShape, ClientShape
<1>3. x \in Sessions /\ c # Null
    BY ClientSession, GatewayAssumption
<1>4. \A j \in Pending(commands) : commands[j].conn # c /\ commands[j].conn \in Conns
    BY <1>1, PendingConn
<1>5. OwnConnections'
  <2>1. \A l \in Clients : conn[l] # c
      BY <1>1 DEF Registry, ConnOK
  <2> QED BY <1>1, <1>2, <2>1 DEF Registry, OwnConnections
<1>6. CASE current = Null
  <2> DEFINE m == ToRedis("subscribe", c, x)
  <2>1. /\ current' = c /\ commands' = Append(commands, m)
        /\ at' = [at EXCEPT ![c] = "joining"] /\ UNCHANGED since
      BY <1>6 DEF Connect
  <2>2. m \in Commands /\ m.cmd = "subscribe" /\ m.conn = c
      BY <1>3 DEF ToRedis, Commands
  <2>a. \A j \in Pending(commands) : at'[commands[j].conn] = at[commands[j].conn]
      BY <1>2, <1>4, <2>1
  <2>b. QueueOK(commands, at)
      BY DEF Registry
  <2>3. QueueOK(commands, at')
      BY <2>a, <2>b DEF QueueOK
  <2> HIDE DEF m
  <2>c. at'[c] = "joining"
      BY <1>2, <2>1
  <2>d. QueueOK(Append(commands, m), at')
      BY <1>2, <1>4, <2>2, <2>3, <2>c, QueueAppend
  <2>4. QueueOK(commands, at)'
      BY <2>1, <2>d
  <2>5. ASSUME NEW d \in Conns PROVE ConnOK(d)'
    <3>1. CASE d = c
      <4>1. at'[c] = "joining" /\ gen'[c] = c /\ since'[c] = Null
          BY <1>1, <1>2, <2>1 DEF Registry, ConnOK
      <4> QED BY <3>1, <4>1, <1>3 DEF ConnOK
    <3>2. CASE d # c
      <4>1. at'[d] = at[d] /\ gen'[d] = gen[d] /\ since'[d] = since[d] /\ gen[d] # c
          BY <1>1, <1>2, <2>1, <3>2 DEF Registry, ConnOK
      <4>2. ConnOK(d)
          BY DEF Registry
      <4>3. at[d] = "free" => \A e \in Conns : gen'[e] # d
          BY <1>1, <1>2, <2>1, <3>2, <4>2 DEF ConnOK
      <4>4. at[d] \in {"free", "closed"} => \A l \in Clients : conn'[l] # d
          BY <1>1, <1>2, <3>2, <4>2 DEF ConnOK
      <4>5. gen'[d] # current'
          BY <4>1, <2>1
      <4> QED BY <1>1, <2>1, <3>2, <4>1, <4>2, <4>3, <4>4, <4>5 DEF ConnOK
    <3> QED BY <3>1, <3>2
  <2> QED BY <1>5, <2>4, <2>5 DEF Registry
<1>7. CASE current # Null
  <2>1. /\ since' = [since EXCEPT ![c] = IF Listening THEN heard ELSE Null]
        /\ JoinSession(c, x, commands, <<Hello>>) /\ UNCHANGED current
      BY <1>7 DEF Connect
  <2> HIDE DEF x
  <2>2. /\ QueueOK(commands', at')
        /\ at'[c] \in {"joined", "open"} /\ \A d \in Conns : d # c => at'[d] = at[d]
        /\ commands' = commands \/ commands' = Append(commands, ToRedis("session", c, x))
      BY <1>2, <1>3, <1>4, <2>1, JoinQueue DEF Registry
  <2>3. Listening => Listening'
    <3>1. ToRedis("session", c, x).cmd = "session" /\ ToRedis("session", c, x) \in Commands
        BY <1>3 DEF ToRedis, Commands
    <3>2. \A j \in DOMAIN commands' :
            \/ j \in DOMAIN commands /\ commands'[j] = commands[j]
            \/ commands'[j] = ToRedis("session", c, x)
        BY <1>2, <2>2, <3>1
    <3> QED BY <1>1, <3>1, <3>2 DEF Listening
  <2>4. ASSUME NEW d \in Conns PROVE ConnOK(d)'
    <3>1. CASE d = c
      <4>1. /\ gen'[c] = current /\ current # Null
            /\ since'[c] = IF Listening THEN heard ELSE Null
          BY <1>1, <1>2, <1>7, <2>1
      <4>2. since'[c] # Null => Listening' /\ since'[c] <= heard'
          BY <4>1, <2>3, <1>1, <1>2
      <4> QED BY <3>1, <4>1, <4>2, <2>1, <2>2 DEF ConnOK
    <3>2. CASE d # c
      <4>1. at'[d] = at[d] /\ gen'[d] = gen[d] /\ since'[d] = since[d]
          BY <1>1, <1>2, <2>1, <2>2, <3>2
      <4>2. ConnOK(d)
          BY DEF Registry
      <4>3. at[d] = "free" => \A e \in Conns : gen'[e] # d
          BY <1>1, <1>2, <2>1, <3>2, <4>2 DEF ConnOK
      <4>4. at[d] \in {"free", "closed"} => \A l \in Clients : conn'[l] # d
          BY <1>1, <1>2, <3>2, <4>2 DEF ConnOK
      <4> QED BY <1>1, <2>1, <2>3, <4>1, <4>2, <4>3, <4>4 DEF ConnOK
    <3> QED BY <3>1, <3>2
  <2> QED BY <1>5, <2>2, <2>4 DEF Registry
<1> QED BY <1>6, <1>7


\* A command less to wait for does not end listening.
LEMMA ListeningTail ==
    ASSUME Shape, commands # <<>>, Listening, subscribed', commands' = Tail(commands)
    PROVE  Listening'
<1>1. /\ Len(commands) \in Nat /\ DOMAIN commands = 1..Len(commands)
      /\ DOMAIN commands' = 1..(Len(commands) - 1)
      /\ \A j \in 1..(Len(commands) - 1) : commands'[j] = commands[j + 1]
    BY DEF Shape, HubShape
<1>2. ASSUME NEW j \in DOMAIN commands' PROVE commands'[j].cmd = "session"
  <2>1. j + 1 \in DOMAIN commands /\ commands'[j] = commands[j + 1]
      BY <1>1
  <2> QED BY <2>1 DEF Listening
<1> QED BY <1>2 DEF Listening

LEMMA FirstCommand ==
    ASSUME Shape, commands # <<>> PROVE Listening => Head(commands).cmd = "session"
<1>1. 1 \in DOMAIN commands /\ Head(commands) = commands[1]
    BY DEF Shape, HubShape
<1> QED BY <1>1 DEF Listening

LEMMA RegistrySubscriber == ASSUME Shape, Registry, Subscriber PROVE Registry'
<1>1. /\ at \in [Conns -> {"free", "joining", "joined", "open", "closed"}]
      /\ commands \in Seq(Commands) /\ since \in [Conns -> Nat \cup {Null}]
      /\ heard \in Nat /\ heard <= Len(channel) /\ Len(channel) \in Nat
      /\ QueueOK(commands, at)
    BY DEF Shape, HubShape, SessionShape, Registry, RelayInv, RelayTypeOK
<1>2. Null \notin Nat
    BY GatewayAssumption
<1>3. CASE SubscribeDone
  <2> DEFINE c == Head(commands).conn
             x == Head(commands).session
  <2>1. /\ commands # <<>> /\ Head(commands).cmd = "subscribe"
        /\ subscribed' = TRUE /\ heard' = Len(channel)
        /\ JoinSession(c, x, Tail(commands), Push(c, <<Hello>>))
        /\ UNCHANGED <<current, gen, conn>>
        /\ since' = [d \in Conns |-> IF since[d] = Null /\ d \in Members' /\ Listening'
                                      THEN heard' ELSE since[d]]
      BY <1>3 DEF SubscribeDone, client
  <2>2. c \in Conns /\ x \in Sessions /\ Tail(commands) \in Seq(Commands)
      BY <2>1, NextCommand
  <2>3. /\ QueueOK(Tail(commands), at) /\ at[c] = "joining"
        /\ \A j \in Pending(Tail(commands)) : Tail(commands)[j].conn # c
      BY <1>1, <2>1, QueueTail
  <2> HIDE DEF c, x
  <2>4. /\ QueueOK(commands', at')
        /\ at'[c] \in {"joined", "open"} /\ \A d \in Conns : d # c => at'[d] = at[d]
      BY <2>1, <2>2, <2>3, JoinQueue
  <2>5. ~Listening
    <3>1. ~(Head(commands).cmd = "session")
        BY <2>1
    <3> QED BY <2>1, <3>1, FirstCommand
  <2>6. ASSUME NEW d \in Conns PROVE ConnOK(d)'
    <3>1. ConnOK(d)
        BY DEF Registry
    <3>2. CASE since'[d] = since[d]
      <4>1. gen[d] = current => since[d] = Null
          BY <2>5, <3>1 DEF ConnOK
      <4>2. since[d] # Null => since[d] <= heard'
          BY <1>1, <2>1, <3>1 DEF ConnOK
      <4>3. CASE d = c
          BY <4>1, <4>2, <4>3, <2>1, <2>3, <2>4, <3>1, <3>2 DEF ConnOK
      <4>4. CASE d # c
          BY <4>1, <4>2, <4>4, <2>1, <2>3, <2>4, <3>1, <3>2 DEF ConnOK
      <4> QED BY <4>3, <4>4
    <3>3. CASE since'[d] # since[d]
      <4>1. d \in Members' /\ Listening' /\ since'[d] = heard'
          BY <2>1, <3>3
      <4>2. at'[d] \in {"joined", "open"} /\ gen'[d] = current'
          BY <4>1 DEF Members
      <4>3. at[d] # "free"
          BY <4>2, <2>3, <2>4
      <4>4. heard' <= heard'
          BY <1>1, <2>1
      <4> QED BY <4>1, <4>2, <4>3, <4>4, <2>1, <3>1 DEF ConnOK
    <3> QED BY <3>2, <3>3
  <2>7. OwnConnections'
      BY <2>1 DEF Registry, OwnConnections
  <2> QED BY <2>4, <2>6, <2>7 DEF Registry
<1>4. CASE UnsubscribeDone
  <2>1. /\ commands # <<>> /\ Head(commands).cmd = "unsubscribe"
        /\ commands' = Tail(commands)
        /\ UNCHANGED <<current, heard, at, gen, since, conn>>
      BY <1>4 DEF UnsubscribeDone, session, client
  <2>2. QueueOK(commands, at)'
      BY <1>1, <2>1, QueueTail
  <2>3. ~Listening
    <3>1. ~(Head(commands).cmd = "session")
        BY <2>1
    <3> QED BY <2>1, <3>1, FirstCommand
  <2>4. ASSUME NEW d \in Conns PROVE ConnOK(d)'
      BY <2>1, <2>3 DEF Registry, ConnOK
  <2> QED BY <2>1, <2>2, <2>4 DEF Registry, OwnConnections
<1>5. CASE SessionDone
  <2> DEFINE c == Head(commands).conn
  <2>1. /\ commands # <<>> /\ Head(commands).cmd = "session"
        /\ commands' = Tail(commands) /\ at' = [at EXCEPT ![c] = "open"]
        /\ UNCHANGED <<current, subscribed, heard, gen, since, conn>>
      BY <1>5 DEF SessionDone, client
  <2>2. c \in Conns /\ Tail(commands) \in Seq(Commands)
      BY <2>1, NextCommand
  <2>3. /\ QueueOK(Tail(commands), at) /\ at[c] = "joined"
        /\ \A j \in Pending(Tail(commands)) : Tail(commands)[j].conn # c
      BY <1>1, <2>1, QueueTail
  <2> HIDE DEF c
  <2>4. ASSUME NEW j \in Pending(Tail(commands)) PROVE Tail(commands)[j].conn \in Conns
    <3>1. Tail(commands)[j] \in Commands
        BY <2>2 DEF Pending
    <3> QED BY <3>1 DEF Commands
  <2>5. \A j \in Pending(Tail(commands)) : at'[Tail(commands)[j].conn] = at[Tail(commands)[j].conn]
      BY <1>1, <2>1, <2>3, <2>4
  <2>6. QueueOK(Tail(commands), at')
      BY <2>2, <2>3, <2>5, QueueMoves
  <2>7. Listening => Listening'
      BY <2>1, ListeningTail DEF Listening
  <2>8. ASSUME NEW d \in Conns PROVE ConnOK(d)'
    <3>1. ConnOK(d)
        BY DEF Registry
    <3>2. CASE d = c
      <4>1. at'[d] = "open" /\ at[d] = "joined"
          BY <1>1, <2>1, <2>3, <3>2
      <4> QED BY <4>1, <2>1, <2>7, <3>1 DEF ConnOK
    <3>3. CASE d # c
      <4>1. at'[d] = at[d]
          BY <1>1, <2>1, <3>3
      <4> QED BY <4>1, <2>1, <2>7, <3>1 DEF ConnOK
    <3> QED BY <3>2, <3>3
  <2> QED BY <2>1, <2>6, <2>8 DEF Registry, OwnConnections
<1> QED BY <1>3, <1>4, <1>5 DEF Subscriber

LEMMA RegistryDisconnect ==
    ASSUME Shape, Registry, NEW k \in Clients, Disconnect(k) PROVE Registry'
<1> DEFINE c == conn[k]
           m == ToRedis("unsubscribe", c, SessionOf[k])
<1>1. c \in Conns /\ c # Null /\ SessionOf[k] \in Sessions
    BY DisconnectFacts, ClientSession DEF Shape, ClientShape
<1>2. /\ at' = [at EXCEPT ![c] = IF @ = "open" THEN "closed" ELSE @]
      /\ conn' = [conn EXCEPT ![k] = Null]
      /\ UNCHANGED <<subscribed, heard, gen, since>>
      /\ \/ Emptied(c) /\ current' = Null /\ commands' = Append(commands, m)
         \/ ~Emptied(c) /\ UNCHANGED <<current, commands>>
    BY DisconnectFacts
<1>3. /\ at \in [Conns -> {"free", "joining", "joined", "open", "closed"}]
      /\ commands \in Seq(Commands) /\ conn \in [Clients -> Conns \cup {Null}]
    BY DEF Shape, HubShape, SessionShape, ClientShape
<1>4. m \in Commands /\ m.cmd = "unsubscribe"
    BY <1>1 DEF ToRedis, Commands
<1> HIDE DEF m
<1>5. QueueOK(commands', at')
  <2>1. \A j \in Pending(commands) : at'[commands[j].conn] = at[commands[j].conn]
      BY <1>2, <1>3, PendingConn
  <2>2. QueueOK(commands, at)
      BY DEF Registry
  <2>3. QueueOK(commands, at')
      BY <1>3, <2>1, <2>2, QueueMoves
  <2>4. QueueOK(Append(commands, m), at')
      BY <1>3, <1>4, <2>3, QueueAppend
  <2> QED BY <1>2, <2>3, <2>4
<1>6. OwnConnections'
    BY <1>2, <1>3 DEF Registry, OwnConnections
<1>7. \A l \in Clients : conn'[l] # c
    BY <1>1, <1>2, <1>3 DEF Registry, OwnConnections
<1>8. ASSUME NEW d \in Conns PROVE ConnOK(d)'
  <2>1. ConnOK(d) /\ d # Null
      BY GatewayAssumption DEF Registry
  <2>2. \A l \in Clients : conn[l] # d => conn'[l] # d
      BY <1>2, <1>3, <2>1
  <2>3. gen[d] = current' /\ since[d] # Null => Listening'
    <3>1. CASE Emptied(c)
        BY <3>1, <1>2, <2>1 DEF ConnOK
    <3>2. CASE ~Emptied(c)
        BY <3>2, <1>2, <2>1 DEF ConnOK, Listening
    <3> QED BY <3>1, <3>2
  <2>4. at'[d] = at[d] \/ (d = c /\ at[d] = "open" /\ at'[d] = "closed")
      BY <1>2, <1>3
  <2>5. current' = current \/ current' = Null
      BY <1>2
  <2> QED BY <1>2, <1>7, <2>1, <2>2, <2>3, <2>4, <2>5 DEF ConnOK
<1> QED BY <1>5, <1>6, <1>8 DEF Registry

LEMMA RegistryStep == ASSUME Shape, Registry, [Next]_vars PROVE Registry'
<1>1. CASE (RelayNext /\ UNCHANGED <<hub, session, wire, resume, client, more>>) \/ UNCHANGED vars
    BY <1>1, RegistryFramed DEF vars, hub, session, client
<1>2. ASSUME NEW k \in Clients, ClientStep(k) PROVE Registry'
  <2>1. UNCHANGED <<current, commands, subscribed, at, gen, since, conn, heard>>
      BY <1>2 DEF ClientStep, Receive, SendResume, Refetched, hub, session, client
  <2> QED BY <2>1, RegistryFramed
<1>3. CASE Hear
  <2>1. UNCHANGED <<current, commands, subscribed, at, gen, since, conn>> /\ heard' = heard + 1
      BY <1>3 DEF Hear, session, client
  <2> QED BY <2>1, RegistryFramed
<1>4. ASSUME NEW c \in Conns, HubStep(c) \/ ReplayFails(c) PROVE Registry'
  <2>1. UNCHANGED <<current, commands, subscribed, at, gen, since, conn, heard>>
      BY <1>4 DEF HubStep, ReadBounds, ResumeBounds, ReplayChunk, ReplayFails, hub, session, client
  <2> QED BY <2>1, RegistryFramed
<1>5. ASSUME NEW c \in Conns, NEW s \in SUBSET Topics, Reauthorize(c, s) PROVE Registry'
  <2>1. UNCHANGED <<current, commands, subscribed, at, gen, since, conn, heard>>
      BY <1>5 DEF Reauthorize, hub, client
  <2> QED BY <2>1, RegistryFramed
<1> QED BY <1>1, <1>2, <1>3, <1>4, <1>5, RegistryConnect, RegistrySubscriber,
          RegistryDisconnect DEF Next


-----------------------------------------------------------------------------
(* The handshake: a connection is sent one ack, upon which its client asks  *)
(* to resume once, which starts at most one replay.                         *)

Acks(w)    == {j \in DOMAIN w : w[j].type = "ack"}
Early(c)   == at[c] \in {"free", "joining", "joined"}
Reading(c) == \E k \in Clients : conn[k] = c /\ resuming[k]
Fresh(c)   == request[c] = <<>> /\ replay[c] = Null /\ asked[c] = Null

HandshakeOK(c) ==
    /\ Early(c) => Acks(wire[c]) = {} /\ ~Reading(c) /\ Fresh(c)
    /\ Acks(wire[c]) # {} => ~Reading(c) /\ Fresh(c)
    /\ \A i, j \in Acks(wire[c]) : i = j
    /\ Reading(c) => Fresh(c)
    /\ request[c] # <<>> => replay[c] = Null /\ asked[c] = Null
    /\ replay[c] = Null => buffer[c] = <<>>
    /\ replay[c] # Null => asked[c] # Null
    /\ asked[c] = Null => \A m \in Items(wire[c]) : m.type # "resumed"
    /\ RequestOK(c)

Handshake ==
    /\ \A c \in Conns : HandshakeOK(c)
    /\ \A k \in Clients : resuming[k] => conn[k] # Null

\* Frames that are not acks leave the acks on the wire where they are,
LEMMA PushAcks ==
    ASSUME ResumeShape, NEW c \in Conns, NEW frames \in Seq(Sent),
           \A m \in Items(frames) : m.type # "ack"
    PROVE  Acks(Push(c, frames)) = Acks(wire[c])
<1> DEFINE w == wire[c]
           p == Push(c, frames)
<1>1. w \in Seq(Sent)
    BY DEF ResumeShape
<1>2. /\ p \in Seq(Sent) /\ Len(w) <= Len(p)
      /\ \A j \in (Len(w) + 1)..Len(p) : p[j] \in Items(frames)
      /\ \A j \in 1..Len(w) : p[j] = w[j]
    BY <1>1, PushFacts
<1> HIDE DEF p, w
<1>3. Len(w) \in Nat /\ Len(p) \in Nat /\ DOMAIN w = 1..Len(w) /\ DOMAIN p = 1..Len(p)
    BY <1>1, <1>2
<1>4. ASSUME NEW j \in Acks(p) PROVE j \in Acks(w)
  <2>1. j \in 1..Len(p) /\ p[j].type = "ack"
      BY <1>3 DEF Acks
  <2>2. j \notin (Len(w) + 1)..Len(p)
      BY <2>1, <1>2
  <2>3. j \in 1..Len(w)
      BY <2>1, <2>2, <1>3
  <2> QED BY <2>1, <2>3, <1>2, <1>3 DEF Acks
<1>5. ASSUME NEW j \in Acks(w) PROVE j \in Acks(p)
  <2>1. j \in 1..Len(w) /\ w[j].type = "ack"
      BY <1>3 DEF Acks
  <2>2. j \in 1..Len(p) /\ p[j] = w[j]
      BY <2>1, <1>2, <1>3
  <2> QED BY <2>1, <2>2, <1>3 DEF Acks
<1> QED BY <1>4, <1>5 DEF p, w

\* the ack itself is the only one,
LEMMA PushHello ==
    ASSUME ResumeShape, NEW c \in Conns, Acks(wire[c]) = {}
    PROVE  /\ \A i, j \in Acks(Push(c, <<Hello>>)) : i = j
           /\ \A i, j \in Acks(<<Hello>>) : i = j
<1> DEFINE w == wire[c]
           p == Push(c, <<Hello>>)
<1>1. w \in Seq(Sent) /\ <<Hello>> \in Seq(Sent) /\ Len(<<Hello>>) = 1
    BY SignalsSent DEF ResumeShape
<1>2. /\ p \in Seq(Sent) /\ Len(w) <= Len(p) /\ Len(p) <= Len(w) + Len(<<Hello>>)
      /\ \A j \in 1..Len(w) : p[j] = w[j]
  <2> DEFINE h == <<Hello>>
  <2>1. h \in Seq(Sent)
      BY <1>1
  <2> HIDE DEF h
  <2>2. /\ Push(c, h) \in Seq(Sent) /\ Len(w) <= Len(Push(c, h))
        /\ Len(Push(c, h)) <= Len(w) + Len(h)
        /\ \A j \in 1..Len(w) : Push(c, h)[j] = w[j]
      BY <1>1, <2>1, PushFacts
  <2> QED BY <2>2 DEF h
<1> HIDE DEF p
<1>3. Len(w) \in Nat /\ Len(p) \in Nat /\ DOMAIN w = 1..Len(w) /\ DOMAIN p = 1..Len(p)
    BY <1>1, <1>2
<1>4. ASSUME NEW j \in Acks(p) PROVE j = Len(w) + 1
  <2>1. j \in 1..Len(p) /\ p[j].type = "ack"
      BY <1>3 DEF Acks
  <2>2. j \notin 1..Len(w)
    <3> SUFFICES ASSUME j \in 1..Len(w) PROVE FALSE
        OBVIOUS
    <3>1. j \in Acks(w)
        BY <2>1, <1>2, <1>3 DEF Acks
    <3> QED BY <3>1
  <2>3. Len(p) <= Len(w) + 1
      BY <1>1, <1>2
  <2> QED BY <2>1, <2>2, <2>3, <1>3
<1>5. \A i, j \in Acks(<<Hello>>) : i = j
    BY DEF Acks
<1> QED BY <1>4, <1>5 DEF p

\* and when it is taken none is left.
LEMMA TailAcks ==
    ASSUME NEW w \in Seq(Sent), w # <<>>, \A i, j \in Acks(w) : i = j
    PROVE  /\ Head(w).type = "ack" => Acks(Tail(w)) = {} /\ Acks(w) # {}
           /\ Acks(w) = {} => Acks(Tail(w)) = {}
           /\ Acks(Tail(w)) # {} => Acks(w) # {}
           /\ \A i, j \in Acks(Tail(w)) : i = j
<1> DEFINE t == Tail(w)
<1>1. /\ Len(w) \in Nat \ {0} /\ DOMAIN w = 1..Len(w) /\ Head(w) = w[1]
      /\ DOMAIN t = 1..(Len(w) - 1) /\ \A j \in 1..(Len(w) - 1) : t[j] = w[j + 1]
    OBVIOUS
<1> HIDE DEF t
<1>2. ASSUME NEW j \in Acks(t) PROVE j \in Nat /\ j + 1 \in Acks(w) /\ j + 1 # 1
  <2>1. j \in 1..(Len(w) - 1) /\ t[j].type = "ack"
      BY <1>1 DEF Acks
  <2>2. j + 1 \in 1..Len(w) /\ t[j] = w[j + 1] /\ j \in Nat /\ j + 1 # 1
      BY <2>1, <1>1
  <2> QED BY <2>1, <2>2, <1>1 DEF Acks
<1>3. Head(w).type = "ack" => 1 \in Acks(w)
    BY <1>1 DEF Acks
<1>4. \A i, j \in Acks(t) : i = j
  <2> SUFFICES ASSUME NEW i \in Acks(t), NEW j \in Acks(t) PROVE i = j
      OBVIOUS
  <2>1. i + 1 = j + 1
      BY <1>2
  <2> QED BY <2>1, <1>2
<1> QED BY <1>2, <1>3, <1>4 DEF t

\* A connection that a step does not touch, or only advances.
LEMMA HandshakeKept ==
    ASSUME NEW d \in Conns, HandshakeOK(d), Ids \subseteq Ids',
           wire'[d] = wire[d], request'[d] = request[d], replay'[d] = replay[d],
           buffer'[d] = buffer[d], asked'[d] = asked[d],
           Early(d)' => Early(d), Reading(d)' => Reading(d)
    PROVE  HandshakeOK(d)'
<1>1. RequestOK(d)'
    BY DEF HandshakeOK, RequestOK
<1>2. Fresh(d)' = Fresh(d)
    BY DEF Fresh
<1> QED BY <1>1, <1>2 DEF HandshakeOK

\* A connection that gets frames other than an ack.
LEMMA HandshakePushed ==
    ASSUME ResumeShape, NEW d \in Conns, HandshakeOK(d), Ids' = Ids,
           NEW frames \in Seq(Sent), wire'[d] = Push(d, frames),
           \A m \in Items(frames) : m.type # "ack",
           asked'[d] = asked[d], at' = at, conn' = conn, resuming' = resuming,
           request'[d] = request[d],
           asked[d] = Null => \A m \in Items(frames) : m.type # "resumed",
           replay'[d] # Null => replay[d] # Null,
           replay'[d] = Null => buffer'[d] = <<>>
    PROVE  HandshakeOK(d)'
<1>1. Acks(wire'[d]) = Acks(wire[d])
    BY PushAcks
<1>2. Items(wire'[d]) \subseteq Items(wire[d]) \cup Items(frames)
  <2>1. wire[d] \in Seq(Sent)
      BY DEF ResumeShape
  <2> QED BY <2>1, PushFacts
<1>3. Early(d)' = Early(d) /\ Reading(d)' = Reading(d) /\ RequestOK(d)' = RequestOK(d)
    BY DEF Early, Reading, RequestOK
<1>4. Fresh(d) => Fresh(d)'
    BY DEF Fresh
<1> QED BY <1>1, <1>2, <1>3, <1>4 DEF HandshakeOK


\* A connection that becomes open is sent its ack.
LEMMA HandshakeOpened ==
    ASSUME ResumeShape, NEW c \in Conns, HandshakeOK(c), Early(c), Ids' = Ids,
           UNCHANGED <<request, replay, asked, buffer>>, ~Reading(c)',
           at'[c] \in {"joined", "open"},
           at'[c] = "joined" => wire'[c] = wire[c],
           at'[c] = "open" => wire'[c] = <<Hello>> \/ wire'[c] = Push(c, <<Hello>>)
    PROVE  HandshakeOK(c)'
<1>1. Acks(wire[c]) = {} /\ Fresh(c)
    BY DEF HandshakeOK
<1>2. Fresh(c)' /\ RequestOK(c)'
    BY <1>1 DEF Fresh, HandshakeOK, RequestOK
<1>3. CASE at'[c] = "joined"
    BY <1>1, <1>2, <1>3 DEF HandshakeOK
<1>4. CASE at'[c] = "open"
  <2>1. ~Early(c)'
      BY <1>4 DEF Early
  <2>2. \A i, j \in Acks(wire'[c]) : i = j
      BY <1>1, <1>4, PushHello
  <2>3. \A m \in Items(wire'[c]) : m.type # "resumed"
    <3>1. <<Hello>> \in Seq(Sent) /\ Items(<<Hello>>) = {Hello} /\ Hello.type = "ack"
        BY SignalsSent, OneFrame
    <3>2. wire[c] \in Seq(Sent) /\ \A m \in Items(wire[c]) : m.type # "resumed"
        BY <1>1 DEF ResumeShape, HandshakeOK, Fresh
    <3>3. Items(Push(c, <<Hello>>)) \subseteq Items(wire[c]) \cup {Hello}
        BY <3>1, <3>2, PushFacts
    <3> QED BY <1>4, <3>1, <3>2, <3>3
  <2> QED BY <1>1, <1>2, <2>1, <2>2, <2>3 DEF HandshakeOK, Fresh
<1> QED BY <1>3, <1>4

LEMMA HandshakeInit == Init => Handshake
<1> SUFFICES ASSUME Init PROVE Handshake
    OBVIOUS
<1>1. ASSUME NEW c \in Conns PROVE HandshakeOK(c)
  <2>1. /\ wire[c] = <<>> /\ request[c] = <<>> /\ replay[c] = Null /\ asked[c] = Null
        /\ buffer[c] = <<>> /\ \A k \in Clients : ~resuming[k]
      BY DEF Init
  <2>2. Acks(wire[c]) = {} /\ Items(wire[c]) = {} /\ Len(request[c]) = 0
      BY <2>1 DEF Acks, Items
  <2> QED BY <2>1, <2>2 DEF HandshakeOK, Reading, Fresh, RequestOK
<1>2. \A k \in Clients : ~resuming[k]
    BY DEF Init
<1> QED BY <1>1, <1>2 DEF Handshake

LEMMA HandshakeFramed ==
    ASSUME Handshake, Ids \subseteq Ids',
           UNCHANGED <<at, wire, request, replay, buffer, asked, conn, resuming>>
    PROVE  Handshake'
<1>1. ASSUME NEW d \in Conns PROVE HandshakeOK(d)'
  <2>1. Early(d)' = Early(d) /\ Reading(d)' = Reading(d)
      BY DEF Early, Reading
  <2> QED BY <2>1, HandshakeKept DEF Handshake
<1> QED BY <1>1 DEF Handshake

LEMMA HandshakeConnect ==
    ASSUME Shape, Registry, Handshake, NEW k \in Clients, NEW c \in Conns, Connect(k, c)
    PROVE  Handshake'
<1>1. /\ conn[k] = Null /\ at[c] = "free" /\ conn' = [conn EXCEPT ![k] = c]
      /\ UNCHANGED <<rvars, request, replay, buffer, asked, resuming>>
    BY DEF Connect, resume
<1>2. /\ conn \in [Clients -> Conns \cup {Null}] /\ wire \in [Conns -> Seq(Sent)]
      /\ at \in [Conns -> {"free", "joining", "joined", "open", "closed"}]
      /\ ResumeShape /\ c # Null
    BY GatewayAssumption DEF Shape, ClientShape, SessionShape, ResumeShape
<1>3. Ids' = Ids
    BY <1>1, SameSets
<1>4. ~resuming[k]
    BY <1>1 DEF Handshake
<1>5. \A d \in Conns : Reading(d)' => Reading(d)
    BY <1>1, <1>2, <1>4 DEF Reading
<1>6. Early(c) /\ ~Reading(c) /\ HandshakeOK(c)
    BY <1>1 DEF Early, Handshake, HandshakeOK
<1>7. \/ at'[c] = "joining" /\ wire' = wire
      \/ at'[c] = "joined" /\ wire' = wire
      \/ at'[c] = "open" /\ wire' = [wire EXCEPT ![c] = <<Hello>>]
    BY <1>2 DEF Connect, JoinSession
<1>8. \A d \in Conns : d # c => at'[d] = at[d]
    BY <1>2 DEF Connect, JoinSession
<1>9. HandshakeOK(c)'
  <2>1. CASE at'[c] = "joining" /\ wire' = wire
      BY <2>1, <1>1, <1>3, <1>5, <1>6, HandshakeKept
  <2>2. CASE at'[c] # "joining"
    <3>1. ~Reading(c)'
        BY <1>5, <1>6
    <3>2. /\ at'[c] \in {"joined", "open"}
          /\ at'[c] = "joined" => wire'[c] = wire[c]
          /\ at'[c] = "open" => wire'[c] = <<Hello>>
        BY <2>2, <1>2, <1>7
    <3>3. UNCHANGED <<request, replay, asked, buffer>>
        BY <1>1
    <3> QED BY <3>1, <3>2, <3>3, <1>2, <1>3, <1>6, HandshakeOpened
  <2> QED BY <2>1, <2>2, <1>7
<1>10. ASSUME NEW d \in Conns, d # c PROVE HandshakeOK(d)'
  <2>1. wire'[d] = wire[d] /\ at'[d] = at[d]
      BY <1>2, <1>7, <1>8, <1>10
  <2>2. HandshakeOK(d) /\ (Early(d)' => Early(d))
      BY <2>1 DEF Handshake, Early
  <2> QED BY <2>1, <2>2, <1>1, <1>3, <1>5, HandshakeKept
<1>11. \A l \in Clients : resuming'[l] => conn'[l] # Null
    BY <1>1, <1>2, <1>4 DEF Handshake
<1> QED BY <1>9, <1>10, <1>11 DEF Handshake

LEMMA HandshakeSubscriber ==
    ASSUME Shape, Registry, Handshake, Subscriber PROVE Handshake'
<1>1. /\ wire \in [Conns -> Seq(Sent)]
      /\ at \in [Conns -> {"free", "joining", "joined", "open", "closed"}]
      /\ ResumeShape /\ commands \in Seq(Commands) /\ QueueOK(commands, at)
    BY DEF Shape, HubShape, SessionShape, ResumeShape, Registry
<1>2. CASE UnsubscribeDone
  <2>1. UNCHANGED <<rvars, at, wire, request, replay, buffer, asked, conn, resuming>>
      BY <1>2 DEF UnsubscribeDone, session, resume, client
  <2> QED BY <2>1, SameSets, HandshakeFramed
<1>3. CASE SubscribeDone \/ SessionDone
  <2>1. /\ commands # <<>> /\ Head(commands).cmd # "unsubscribe"
        /\ UNCHANGED <<rvars, request, replay, buffer, asked, conn, resuming>>
      BY <1>3 DEF SubscribeDone, SessionDone, resume, client
  <2>2. PICK c \in Conns : c = Head(commands).conn
      BY <2>1, NextCommand
  <2>3. at[c] \in {"joining", "joined"}
      BY <1>1, <2>1, <2>2, QueueTail
  <2>4. /\ at'[c] = "joined" => wire'[c] = wire[c]
        /\ at'[c] = "open" => wire'[c] = Push(c, <<Hello>>)
        /\ at'[c] \in {"joined", "open"}
        /\ \A d \in Conns : d # c => wire'[d] = wire[d] /\ at'[d] = at[d]
    <3>1. CASE SubscribeDone
        BY <3>1, <1>1, <2>2 DEF SubscribeDone, JoinSession
    <3>2. CASE SessionDone
        BY <3>2, <1>1, <2>2 DEF SessionDone
    <3> QED BY <1>3, <3>1, <3>2
  <2>5. \A d \in Conns : Reading(d)' => Reading(d)
      BY <2>1 DEF Reading
  <2>6. Ids' = Ids
      BY <2>1, SameSets
  <2>7. HandshakeOK(c)'
    <3>1. HandshakeOK(c) /\ Early(c) /\ ~Reading(c)
        BY <2>2, <2>3 DEF Handshake, HandshakeOK, Early
    <3>2. UNCHANGED <<request, replay, asked, buffer>>
        BY <2>1
    <3>3. ~Reading(c)' /\ ResumeShape
        BY <3>1, <2>2, <2>5, <1>1
    <3> QED BY <3>1, <3>2, <3>3, <2>2, <2>4, <2>6, HandshakeOpened
  <2>8. ASSUME NEW d \in Conns, d # c PROVE HandshakeOK(d)'
    <3>1. wire'[d] = wire[d] /\ (Early(d)' => Early(d)) /\ HandshakeOK(d)
        BY <2>4, <2>8 DEF Early, Handshake
    <3>2. /\ request'[d] = request[d] /\ replay'[d] = replay[d] /\ buffer'[d] = buffer[d]
          /\ asked'[d] = asked[d] /\ Ids \subseteq Ids' /\ (Reading(d)' => Reading(d))
        BY <2>1, <2>5, <2>6
    <3> QED BY <3>1, <3>2, HandshakeKept
  <2> QED BY <2>1, <2>7, <2>8 DEF Handshake
<1> QED BY <1>2, <1>3 DEF Subscriber


\* Frames of entries are neither acks nor answers.
LEMMA EventFrames ==
    ASSUME NEW ids \in Seq(1..Len(stream))
    PROVE  \A m \in Items(Frames(ids)) : m.type = "event"
<1>1. \A i : Event(i).type = "event"
    BY DEF Event
<1> QED BY <1>1, FramesFacts

LEMMA HandshakeHear == ASSUME Shape, Handshake, Hear PROVE Handshake'
<1> DEFINE i == channel[heard + 1]
<1>1. UNCHANGED <<rvars, at, request, replay, asked, conn, resuming>>
    BY DEF Hear, session, client
<1>2. ResumeShape /\ buffer \in [Conns -> Seq(1..Len(stream))]
    BY DEF Shape, ResumeShape
<1>3. Ids' = Ids
    BY <1>1, SameSets
<1>4. ASSUME NEW d \in Conns PROVE HandshakeOK(d)'
  <2>1. /\ i \in 1..Len(stream)
        /\ replay[d] = Null => buffer'[d] = buffer[d]
        /\ \/ wire'[d] = wire[d]
           \/ wire'[d] = Push(d, <<Event(i)>>) \/ wire'[d] = Push(d, <<Heartbeat(i)>>)
      BY HearFacts
  <2> HIDE DEF i
  <2>2. HandshakeOK(d)
      BY DEF Handshake
  <2>3. ASSUME NEW m \in Sent, m.type \in {"event", "heartbeat"}, wire'[d] = Push(d, <<m>>)
        PROVE  HandshakeOK(d)'
    <3> DEFINE frames == <<m>>
    <3>1. frames \in Seq(Sent) /\ Items(frames) = {m}
        BY OneFrame
    <3>2. wire'[d] = Push(d, frames)
        BY <2>3
    <3> HIDE DEF frames
    <3>3. \A f \in Items(frames) : f.type # "ack" /\ f.type # "resumed"
        BY <2>3, <3>1
    <3>4. /\ asked'[d] = asked[d] /\ at' = at /\ conn' = conn /\ resuming' = resuming
          /\ request'[d] = request[d] /\ replay'[d] = replay[d]
          /\ replay'[d] = Null => buffer'[d] = <<>>
        BY <1>1, <2>1, <2>2 DEF HandshakeOK
    <3> QED BY <3>1, <3>2, <3>3, <3>4, <2>2, <1>2, <1>3, HandshakePushed
  <2>4. CASE wire'[d] = wire[d]
    <3>1. Early(d)' = Early(d) /\ Reading(d)' = Reading(d) /\ RequestOK(d)' = RequestOK(d)
          /\ Fresh(d)' = Fresh(d)
        BY <1>1, <1>3 DEF Early, Reading, RequestOK, Fresh
    <3> QED BY <3>1, <2>1, <2>2, <2>4, <1>1 DEF HandshakeOK
  <2>5. /\ Event(i) \in Sent /\ Event(i).type = "event"
        /\ Heartbeat(i) \in Sent /\ Heartbeat(i).type = "heartbeat"
      BY <2>1, SignalsSent
  <2> QED BY <2>1, <2>3, <2>4, <2>5
<1> QED BY <1>1, <1>4 DEF Handshake

LEMMA HandshakeReadBounds ==
    ASSUME Shape, Handshake, NEW c \in Conns, ReadBounds(c) PROVE Handshake'
<1>1. /\ Len(request[c]) = 1
      /\ UNCHANGED <<rvars, at, wire, replay, buffer, asked, conn, resuming>>
      /\ \E broken \in BOOLEAN :
            request' = [request EXCEPT ![c] = request[c] \o <<TailOf(broken), FloorOf(broken)>>]
    BY DEF ReadBounds, session, client
<1>2. PICK broken \in BOOLEAN :
          request' = [request EXCEPT ![c] = request[c] \o <<TailOf(broken), FloorOf(broken)>>]
    BY <1>1
<1>3. Ids' = Ids
    BY <1>1, SameSets
<1>4. TailOf(broken) \in Ids
    BY DEF TailOf, Ids, Shape, RelayInv, RelayTypeOK
<1> DEFINE two == <<TailOf(broken), FloorOf(broken)>>
           T == Ids \cup {Null} \cup {FloorOf(broken)}
<1>5. request[c] \in Seq(T) /\ two \in Seq(T) /\ Len(two) = 2 /\ two[1] = TailOf(broken)
  <2>1. request[c] \in Seq(Ids \cup {Null})
      BY DEF Shape, ResumeShape
  <2>2. two \in Seq(T)
      BY <1>4
  <2> QED BY <2>1, <2>2, SeqGrows
<1> HIDE DEF two, T
<1>6. /\ Len(request[c] \o two) = Len(request[c]) + Len(two)
      /\ \A i \in 1..(Len(request[c]) + Len(two)) : (request[c] \o two)[i] =
            IF i <= Len(request[c]) THEN request[c][i] ELSE two[i - Len(request[c])]
    BY <1>5, ConcatProperties
<1>7. Len(request[c] \o two) = 3 /\ (request[c] \o two)[2] = TailOf(broken)
    BY <1>1, <1>5, <1>6
<1>8. /\ request'[c] = request[c] \o two
      /\ \A d \in Conns : d # c => request'[d] = request[d]
    BY <1>2 DEF Shape, ResumeShape, two
<1>9. \A d \in Conns : (Early(d)' => Early(d)) /\ (Reading(d)' => Reading(d))
    BY <1>1 DEF Early, Reading
<1>10. HandshakeOK(c)'
  <2>1. request[c] # <<>> /\ HandshakeOK(c)
    <3>1. Len(<<>>) # 1
        OBVIOUS
    <3>2. request[c] # <<>>
        BY <1>1, <3>1, Zenon
    <3> QED BY <3>2 DEF Handshake
  <2>2. ~Fresh(c) /\ ~Early(c) /\ ~Reading(c) /\ Acks(wire[c]) = {}
      BY <2>1 DEF HandshakeOK, Fresh
  <2>3. RequestOK(c)'
      BY <1>3, <1>4, <1>7, <1>8 DEF RequestOK
  <2>4. ~Early(c)' /\ ~Reading(c)' /\ Acks(wire'[c]) = {}
      BY <2>2, <1>1, <1>9
  <2>5. /\ replay[c] = Null /\ asked[c] = Null /\ buffer[c] = <<>>
        /\ \A m \in Items(wire[c]) : m.type # "resumed"
      BY <2>1 DEF HandshakeOK
  <2>6. /\ replay'[c] = Null /\ asked'[c] = Null /\ buffer'[c] = <<>> /\ wire'[c] = wire[c]
      BY <2>5, <1>1
  <2> QED BY <2>3, <2>4, <2>5, <2>6 DEF HandshakeOK
<1>11. ASSUME NEW d \in Conns, d # c PROVE HandshakeOK(d)'
  <2>1. /\ wire'[d] = wire[d] /\ request'[d] = request[d] /\ replay'[d] = replay[d]
        /\ buffer'[d] = buffer[d] /\ asked'[d] = asked[d] /\ Ids \subseteq Ids'
      BY <1>1, <1>3, <1>8, <1>11
  <2> QED BY <2>1, <1>9, HandshakeKept DEF Handshake
<1> QED BY <1>1, <1>10, <1>11 DEF Handshake

\* Connection by connection.
LEMMA BoundsAt ==
    ASSUME ResumeShape, NEW c \in Conns, ResumeBounds(c)
    PROVE  /\ request'[c] = <<>> /\ buffer'[c] = <<>>
           /\ Lost(c) =>
                 /\ replay'[c] = Null /\ asked'[c] = Null
                 /\ wire'[c] = Push(c, <<Signal("resync-required", request[c][2])>>)
           /\ ~Lost(c) =>
                 /\ replay'[c] = [from |-> request[c][1], boundary |-> request[c][2], done |-> {}]
                 /\ asked'[c] = request[c][1] /\ wire'[c] = wire[c]
           /\ \A d \in Conns : d # c =>
                 /\ wire'[d] = wire[d] /\ replay'[d] = replay[d] /\ asked'[d] = asked[d]
                 /\ request'[d] = request[d] /\ buffer'[d] = buffer[d]
<1>1. \A f, v : DOMAIN f = Conns =>
          [f EXCEPT ![c] = v][c] = v /\ \A d \in Conns : d # c => [f EXCEPT ![c] = v][d] = f[d]
    OBVIOUS
<1>2. /\ DOMAIN wire = Conns /\ DOMAIN replay = Conns /\ DOMAIN asked = Conns
      /\ DOMAIN request = Conns /\ DOMAIN buffer = Conns
    BY DEF ResumeShape
<1>3. /\ request' = [request EXCEPT ![c] = <<>>] /\ buffer' = [buffer EXCEPT ![c] = <<>>]
    BY BoundsFacts
<1>4. CASE Lost(c)
  <2> DEFINE all == Push(c, <<Signal("resync-required", request[c][2])>>)
  <2>1. /\ replay' = [replay EXCEPT ![c] = Null] /\ asked' = [asked EXCEPT ![c] = Null]
        /\ wire' = [wire EXCEPT ![c] = all]
      BY <1>4, BoundsFacts
  <2>2. all = Push(c, <<Signal("resync-required", request[c][2])>>)
      OBVIOUS
  <2> HIDE DEF all
  <2> QED BY <1>1, <1>2, <1>3, <1>4, <2>1, <2>2
<1>5. CASE ~Lost(c)
  <2> DEFINE r == [from |-> request[c][1], boundary |-> request[c][2], done |-> {}]
  <2>1. /\ replay' = [replay EXCEPT ![c] = r] /\ asked' = [asked EXCEPT ![c] = request[c][1]]
        /\ wire' = [wire EXCEPT ![c] = wire[c]]
      BY <1>5, BoundsFacts
  <2>2. r = [from |-> request[c][1], boundary |-> request[c][2], done |-> {}]
      OBVIOUS
  <2> HIDE DEF r
  <2> QED BY <1>1, <1>2, <1>3, <1>5, <2>1, <2>2
<1> QED BY <1>4, <1>5

LEMMA HandshakeResumeBounds ==
    ASSUME Shape, Handshake, NEW c \in Conns, ResumeBounds(c) PROVE Handshake'
<1>1. /\ Len(request[c]) = 3 /\ request' = [request EXCEPT ![c] = <<>>]
      /\ buffer' = [buffer EXCEPT ![c] = <<>>]
      /\ UNCHANGED <<rvars, at, conn, resuming>>
    BY BoundsFacts DEF session, client
<1>2. /\ wire \in [Conns -> Seq(Sent)] /\ request \in [Conns -> Seq(Ids \cup {Null})]
      /\ replay \in [Conns -> Replays \cup {Null}]
      /\ buffer \in [Conns -> Seq(1..Len(stream))] /\ asked \in [Conns -> Ids \cup {Null}]
      /\ ResumeShape
    BY DEF Shape, ResumeShape
<1>3. Ids' = Ids
    BY <1>1, SameSets
<1>4. HandshakeOK(c) /\ request[c] # <<>>
  <2>1. Len(<<>>) = 0
      OBVIOUS
  <2> QED BY <1>1, <2>1 DEF Handshake
<1>5. /\ ~Early(c) /\ ~Reading(c) /\ Acks(wire[c]) = {}
      /\ \A m \in Items(wire[c]) : m.type # "resumed"
      /\ request[c][2] \in Ids
    BY <1>1, <1>4 DEF HandshakeOK, Fresh, RequestOK
<1>6. \A d \in Conns : (Early(d)' => Early(d)) /\ (Reading(d)' => Reading(d))
    BY <1>1 DEF Early, Reading
<1>7. request'[c] = <<>> /\ buffer'[c] = <<>> /\ RequestOK(c)'
  <2>1. request'[c] = <<>> /\ buffer'[c] = <<>>
      BY <1>2, BoundsAt
  <2>2. Len(<<>>) = 0
      OBVIOUS
  <2> QED BY <2>1, <2>2 DEF RequestOK
<1>8. HandshakeOK(c)'
  <2>1. CASE Lost(c)
    <3> DEFINE frames == <<Signal("resync-required", request[c][2])>>
    <3>1. /\ replay'[c] = Null /\ asked'[c] = Null /\ wire'[c] = Push(c, frames)
        BY <2>1, <1>2, BoundsAt
    <3>2. frames \in Seq(Sent) /\ \A m \in Items(frames) : m.type = "resync-required"
        BY <1>5, SignalsSent, OneFrame
    <3> HIDE DEF frames
    <3>3. Acks(wire'[c]) = {}
        BY <3>1, <3>2, <1>2, <1>5, PushAcks
    <3>4. wire[c] \in Seq(Sent)
        BY <1>2
    <3>5. Items(wire'[c]) \subseteq Items(wire[c]) \cup Items(frames)
        BY <3>1, <3>2, <3>4, PushFacts
    <3> QED BY <3>1, <3>2, <3>3, <3>5, <1>5, <1>6, <1>7 DEF HandshakeOK
  <2>2. CASE ~Lost(c)
    <3>1. asked'[c] = request[c][1] /\ wire'[c] = wire[c] /\ request[c][1] # Null
        BY <2>2, <1>2, BoundsAt DEF Lost
    <3> QED BY <3>1, <1>5, <1>6, <1>7 DEF HandshakeOK
  <2> QED BY <2>1, <2>2
<1>9. ASSUME NEW d \in Conns, d # c PROVE HandshakeOK(d)'
  <2>1. /\ wire'[d] = wire[d] /\ replay'[d] = replay[d] /\ asked'[d] = asked[d]
        /\ request'[d] = request[d] /\ buffer'[d] = buffer[d]
      BY <1>2, <1>9, BoundsAt
  <2>2. Ids \subseteq Ids'
      BY <1>3
  <2> QED BY <2>1, <2>2, <1>6, HandshakeKept DEF Handshake
<1> QED BY <1>1, <1>8, <1>9 DEF Handshake

\* A step that writes one connection's wire, replay and buffer leaves the others alone.
LEMMA Elsewhere ==
    ASSUME ResumeShape, NEW c \in Conns, NEW w, NEW r, NEW b,
           wire' = [wire EXCEPT ![c] = w], replay' = [replay EXCEPT ![c] = r],
           buffer' = [buffer EXCEPT ![c] = b]
    PROVE  /\ wire'[c] = w /\ replay'[c] = r /\ buffer'[c] = b
           /\ \A d \in Conns : d # c =>
                 wire'[d] = wire[d] /\ replay'[d] = replay[d] /\ buffer'[d] = buffer[d]
    BY DEF ResumeShape

LEMMA HandshakeFinish ==
    ASSUME Shape, Handshake, NEW c \in Conns, replay[c] # Null,
           NEW done, NEW frames \in Seq(Sent), NEW answer \in Sent,
           \A m \in Items(frames) : m.type # "ack", answer.type # "ack",
           Finish(c, frames, done, answer),
           UNCHANGED <<rvars, at, request, asked, conn, resuming>>
    PROVE  Handshake'
<1> DEFINE all == FinalFrames(c, frames, done, answer)
<1>1. /\ all \in Seq(Sent) /\ Drained(c, done) \in Seq(1..Len(stream))
      /\ Items(all) = Items(frames) \cup Items(Frames(Drained(c, done))) \cup {answer}
      /\ wire' = [wire EXCEPT ![c] = Push(c, all)]
      /\ buffer' = [buffer EXCEPT ![c] = <<>>]
      /\ replay' = [replay EXCEPT ![c] = Null]
  <2>1. all \in Seq(Sent) /\ Drained(c, done) \in Seq(1..Len(stream))
      BY FinalFramesFacts
  <2>2. Items(all) = FinalItems(c, frames, done, answer)
      BY FinalFramesFacts
  <2>3. /\ wire' = [wire EXCEPT ![c] = Push(c, all)]
        /\ buffer' = [buffer EXCEPT ![c] = <<>>] /\ replay' = [replay EXCEPT ![c] = Null]
      BY DEF Finish, FinalFrames, Drained
  <2> QED BY <2>1, <2>2, <2>3 DEF FinalItems
<1> HIDE DEF all
<1>2. \A m \in Items(all) : m.type # "ack"
    BY <1>1, EventFrames
<1>3. ResumeShape /\ Ids' = Ids
    BY SameSets DEF Shape
<1>4. /\ wire'[c] = Push(c, all) /\ replay'[c] = Null /\ buffer'[c] = <<>>
      /\ \A d \in Conns : d # c =>
            wire'[d] = wire[d] /\ replay'[d] = replay[d] /\ buffer'[d] = buffer[d]
    BY <1>1, <1>3, Elsewhere
<1>5. HandshakeOK(c) /\ asked[c] # Null
    BY DEF Handshake, HandshakeOK
<1>6. HandshakeOK(c)'
    BY <1>1, <1>2, <1>3, <1>4, <1>5, HandshakePushed
<1>7. \A d \in Conns : Early(d)' = Early(d) /\ Reading(d)' = Reading(d)
    BY DEF Early, Reading
<1>8. ASSUME NEW d \in Conns, d # c PROVE HandshakeOK(d)'
  <2>1. HandshakeOK(d) /\ request'[d] = request[d] /\ asked'[d] = asked[d] /\ Ids \subseteq Ids'
      BY <1>3 DEF Handshake
  <2> QED BY <2>1, <1>4, <1>7, <1>8, HandshakeKept
<1> QED BY <1>6, <1>8 DEF Handshake

LEMMA HandshakeReplay ==
    ASSUME Shape, Handshake, NEW c \in Conns, ReplayChunk(c) \/ ReplayFails(c)
    PROVE  Handshake'
<1>1. /\ replay[c] # Null /\ UNCHANGED <<rvars, at, request, asked, conn, resuming>>
    BY DEF ReplayChunk, ReplayFails, session, client
<1>2. Out(c) \in Seq(1..Len(stream)) /\ replay[c].boundary \in Ids
    BY <1>1, ChunkFacts, ReplayRecord DEF Shape
<1>3. Frames(Out(c)) \in Seq(Sent) /\ \A m \in Items(Frames(Out(c))) : m.type = "event"
    BY <1>2, FramesFacts, EventFrames
<1>4. CASE ReplayFails(c)
  <2>1. Finish(c, <<>>, replay[c].done, Signal("error", Null))
      BY <1>4 DEF ReplayFails
  <2>2. <<>> \in Seq(Sent) /\ Items(<<>>) = {}
      BY DEF Items
  <2>3. Signal("error", Null) \in Sent /\ Signal("error", Null).type # "ack"
      BY SignalsSent DEF Signal
  <2> QED BY <1>1, <2>1, <2>2, <2>3, HandshakeFinish
<1>5. CASE ReplayChunk(c) /\ Len(Chunk(c)) < ChunkSize
  <2>1. Finish(c, Frames(Out(c)), Done(c), Signal("resumed", replay[c].boundary))
      BY <1>5, ReplayFacts
  <2>2. /\ Signal("resumed", replay[c].boundary) \in Sent
        /\ Signal("resumed", replay[c].boundary).type # "ack"
      BY <1>2, SignalsSent DEF Signal
  <2>3. \A m \in Items(Frames(Out(c))) : m.type # "ack"
      BY <1>3
  <2> QED BY <1>1, <1>3, <2>1, <2>2, <2>3, HandshakeFinish
<1>6. CASE ReplayChunk(c) /\ ~(Len(Chunk(c)) < ChunkSize)
  <2> DEFINE r == [replay[c] EXCEPT !.from = Chunk(c)[Len(Chunk(c))], !.done = Done(c)]
             frames == Frames(Out(c))
  <2>1. /\ wire' = [wire EXCEPT ![c] = Push(c, frames)]
        /\ replay' = [replay EXCEPT ![c] = r] /\ buffer' = buffer
      BY <1>6, ReplayFacts
  <2>2. frames \in Seq(Sent) /\ \A m \in Items(frames) : m.type # "ack" /\ m.type # "resumed"
      BY <1>3
  <2>3. r # Null
    <3>1. r \in Replays \ {Null}
        BY <1>1, <1>6, NextReplay
    <3> QED BY <3>1
  <2> HIDE DEF r, frames
  <2>4. ResumeShape /\ Ids' = Ids
      BY <1>1, SameSets DEF Shape
  <2>5. buffer' = [buffer EXCEPT ![c] = buffer[c]]
      BY <2>1, <2>4 DEF ResumeShape
  <2>6. /\ wire'[c] = Push(c, frames) /\ replay'[c] = r /\ buffer'[c] = buffer[c]
        /\ \A d \in Conns : d # c =>
              wire'[d] = wire[d] /\ replay'[d] = replay[d] /\ buffer'[d] = buffer[d]
      BY <2>1, <2>4, <2>5, Elsewhere
  <2>7. HandshakeOK(c) /\ asked'[c] = asked[c] /\ request'[c] = request[c]
      BY <1>1 DEF Handshake
  <2>8. HandshakeOK(c)'
      BY <1>1, <2>2, <2>3, <2>4, <2>6, <2>7, HandshakePushed
  <2>9. \A d \in Conns : Early(d)' = Early(d) /\ Reading(d)' = Reading(d)
      BY <1>1 DEF Early, Reading
  <2>10. ASSUME NEW d \in Conns, d # c PROVE HandshakeOK(d)'
    <3>1. HandshakeOK(d) /\ request'[d] = request[d] /\ asked'[d] = asked[d] /\ Ids \subseteq Ids'
        BY <1>1, <2>4 DEF Handshake
    <3> QED BY <3>1, <2>6, <2>9, <2>10, HandshakeKept
  <2> QED BY <1>1, <2>8, <2>10 DEF Handshake
<1> QED BY <1>4, <1>5, <1>6


\* No two clients share a connection, and a client's connection is one.
LEMMA OwnConn ==
    ASSUME Shape, Registry, NEW k \in Clients, conn[k] # Null
    PROVE  /\ conn[k] \in Conns
           /\ \A l \in Clients : conn[l] = conn[k] => l = k
    BY DEF Shape, ClientShape, Registry, OwnConnections

LEMMA HandshakeDisconnect ==
    ASSUME Shape, Registry, Handshake, NEW k \in Clients, Disconnect(k) PROVE Handshake'
<1>1. PICK c \in Conns : c = conn[k]
    BY DisconnectFacts DEF Shape, ClientShape
<1>2. \A l \in Clients : conn[l] = c => l = k
    BY <1>1, DisconnectFacts, OwnConn
<1>3. /\ at' = [at EXCEPT ![c] = IF @ = "open" THEN "closed" ELSE @]
      /\ wire' = [wire EXCEPT ![c] = <<>>] /\ request' = [request EXCEPT ![c] = <<>>]
      /\ replay' = [replay EXCEPT ![c] = Null] /\ buffer' = [buffer EXCEPT ![c] = <<>>]
      /\ conn' = [conn EXCEPT ![k] = Null] /\ resuming' = [resuming EXCEPT ![k] = FALSE]
      /\ UNCHANGED <<rvars, asked>>
    BY <1>1, DisconnectFacts
<1>4. ResumeShape /\ Ids' = Ids /\ conn \in [Clients -> Conns \cup {Null}]
      /\ resuming \in [Clients -> BOOLEAN]
      /\ at \in [Conns -> {"free", "joining", "joined", "open", "closed"}]
    BY <1>3, SameSets DEF Shape, ClientShape, SessionShape
<1>5. /\ wire'[c] = <<>> /\ replay'[c] = Null /\ buffer'[c] = <<>>
      /\ \A d \in Conns : d # c =>
            wire'[d] = wire[d] /\ replay'[d] = replay[d] /\ buffer'[d] = buffer[d]
    BY <1>3, <1>4, Elsewhere
<1>6. request'[c] = <<>> /\ \A d \in Conns : d # c => request'[d] = request[d]
    BY <1>3, <1>4 DEF ResumeShape
<1>7. \A d \in Conns : Early(d)' => Early(d)
    BY <1>3, <1>4 DEF Early
<1>8. \A d \in Conns : Reading(d)' => Reading(d)
    BY <1>3, <1>4 DEF Reading
<1>9. HandshakeOK(c)'
  <2>1. HandshakeOK(c)
      BY DEF Handshake
  <2>2. ~Reading(c)'
      BY <1>2, <1>3, <1>4 DEF Reading
  <2>3. Acks(wire'[c]) = {} /\ Items(wire'[c]) = {} /\ Len(request'[c]) = 0
      BY <1>5, <1>6 DEF Acks, Items
  <2>4. RequestOK(c)'
      BY <2>3 DEF RequestOK
  <2>5. Early(c)' => Fresh(c)'
      BY <1>3, <1>5, <1>6, <1>7, <2>1 DEF HandshakeOK, Fresh
  <2> QED BY <1>5, <1>6, <2>2, <2>3, <2>4, <2>5 DEF HandshakeOK
<1>10. ASSUME NEW d \in Conns, d # c PROVE HandshakeOK(d)'
  <2>1. HandshakeOK(d) /\ asked'[d] = asked[d] /\ Ids \subseteq Ids'
      BY <1>3, <1>4 DEF Handshake
  <2> QED BY <2>1, <1>5, <1>6, <1>7, <1>8, <1>10, HandshakeKept
<1>11. \A l \in Clients : resuming'[l] => conn'[l] # Null
    BY <1>3, <1>4 DEF Handshake
<1> QED BY <1>9, <1>10, <1>11 DEF Handshake

LEMMA HandshakeReceive ==
    ASSUME Shape, Registry, Handshake, NEW k \in Clients, Receive(k) PROVE Handshake'
<1>1. PICK c \in Conns : c = conn[k]
    BY ReceiveFacts
<1> DEFINE w == wire[c]
<1>2. /\ w \in Seq(Sent) /\ w # <<>> /\ Head(w) \in Sent
      /\ wire' = [wire EXCEPT ![c] = Tail(w)]
      /\ Items(w) = {Head(w)} \cup Items(Tail(w))
      /\ resuming' = [resuming EXCEPT ![k] = @ \/ Head(w).type = "ack"]
      /\ UNCHANGED <<rvars, at, request, replay, buffer, asked, conn>>
    BY <1>1, ReceiveFacts DEF session, resume
<1>3. Receive(k) => conn[k] # Null
    BY DEF Receive
<1>4. \A l \in Clients : conn[l] = c => l = k
    BY <1>1, <1>3, OwnConn
<1>5. /\ wire'[c] = Tail(w) /\ \A d \in Conns : d # c => wire'[d] = wire[d]
      /\ Ids' = Ids /\ resuming \in [Clients -> BOOLEAN]
    BY <1>2, SameSets DEF Shape, ResumeShape, ClientShape
<1>6. \A d \in Conns : (Early(d)' <=> Early(d)) /\ (Fresh(d)' <=> Fresh(d))
                       /\ (RequestOK(d)' <=> RequestOK(d))
    BY <1>2, <1>5 DEF Early, Fresh, RequestOK
<1>7. HandshakeOK(c)'
  <2>1. HandshakeOK(c)
      BY DEF Handshake
  <2> HIDE DEF w
  <2>2. \A i, j \in Acks(w) : i = j
      BY <2>1 DEF HandshakeOK, w
  <2>3. /\ Head(w).type = "ack" => Acks(Tail(w)) = {} /\ Acks(w) # {}
        /\ Acks(w) = {} => Acks(Tail(w)) = {}
        /\ Acks(Tail(w)) # {} => Acks(w) # {}
        /\ \A i, j \in Acks(Tail(w)) : i = j
      BY <1>2, <2>2, TailAcks
  <2>4. Reading(c)' => Reading(c) \/ Head(w).type = "ack"
      BY <1>1, <1>2, <1>4, <1>5 DEF Reading
  <2>5. /\ Early(c) => Acks(w) = {} /\ ~Reading(c) /\ Fresh(c)
        /\ Acks(w) # {} => ~Reading(c) /\ Fresh(c)
        /\ Reading(c) => Fresh(c)
      BY <2>1 DEF HandshakeOK, w
  <2>6. /\ request[c] # <<>> => replay[c] = Null /\ asked[c] = Null
        /\ replay[c] = Null => buffer[c] = <<>>
        /\ replay[c] # Null => asked[c] # Null
        /\ asked[c] = Null => \A m \in Items(w) : m.type # "resumed"
        /\ RequestOK(c)
      BY <2>1 DEF HandshakeOK, w
  <2>7. \A m \in Items(wire'[c]) : m \in Items(w)
      BY <1>2, <1>5
  <2>8. /\ Early(c)' => Acks(wire'[c]) = {} /\ ~Reading(c)' /\ Fresh(c)'
        /\ Acks(wire'[c]) # {} => ~Reading(c)' /\ Fresh(c)'
        /\ \A i, j \in Acks(wire'[c]) : i = j
        /\ Reading(c)' => Fresh(c)'
      BY <1>5, <1>6, <2>3, <2>4, <2>5
  <2>9. /\ request'[c] = request[c] /\ replay'[c] = replay[c] /\ buffer'[c] = buffer[c]
        /\ asked'[c] = asked[c] /\ RequestOK(c)'
      BY <1>2, <1>6, <2>6
  <2> QED BY <2>6, <2>7, <2>8, <2>9 DEF HandshakeOK
<1>8. ASSUME NEW d \in Conns, d # c PROVE HandshakeOK(d)'
  <2>1. /\ HandshakeOK(d) /\ Ids \subseteq Ids' /\ wire'[d] = wire[d]
        /\ request'[d] = request[d] /\ replay'[d] = replay[d] /\ buffer'[d] = buffer[d]
        /\ asked'[d] = asked[d]
      BY <1>2, <1>5, <1>8 DEF Handshake
  <2>2. Reading(d)' => Reading(d)
      BY <1>1, <1>2, <1>5, <1>8 DEF Reading
  <2> QED BY <2>1, <2>2, <1>6, HandshakeKept
<1>9. \A l \in Clients : resuming'[l] => conn'[l] # Null
    BY <1>1, <1>2, <1>3, <1>5 DEF Handshake
<1> QED BY <1>7, <1>8, <1>9 DEF Handshake

LEMMA HandshakeSendResume ==
    ASSUME Shape, Registry, Handshake, NEW k \in Clients, SendResume(k) PROVE Handshake'
<1>1. /\ resuming[k] /\ resuming' = [resuming EXCEPT ![k] = FALSE]
      /\ request' = [request EXCEPT ![conn[k]] = Append(request[conn[k]], cursor[k])]
      /\ UNCHANGED <<rvars, at, wire, replay, buffer, asked, conn>>
    BY DEF SendResume, session
<1>2. conn[k] # Null /\ conn[k] \in Conns /\ \A l \in Clients : conn[l] = conn[k] => l = k
    BY <1>1, OwnConn DEF Handshake
<1>3. PICK c \in Conns : c = conn[k]
    BY <1>2
<1>4. /\ HandshakeOK(c) /\ Reading(c) /\ Fresh(c)
    BY <1>1, <1>3 DEF Handshake, HandshakeOK, Reading
<1>5. /\ request \in [Conns -> Seq(Ids \cup {Null})] /\ cursor[k] \in Ids \cup {Null}
      /\ resuming \in [Clients -> BOOLEAN] /\ Ids' = Ids
    BY <1>1, SameSets DEF Shape, ResumeShape, ClientShape
<1>6. /\ request'[c] = Append(request[c], cursor[k])
      /\ \A d \in Conns : d # c => request'[d] = request[d]
    BY <1>1, <1>3, <1>5
<1>7. request'[c] = <<cursor[k]>>
    BY <1>4, <1>6 DEF Fresh
<1>8. \A d \in Conns : (Early(d)' => Early(d)) /\ (Reading(d)' => Reading(d))
    BY <1>1, <1>5 DEF Early, Reading
<1>9. ~Reading(c)' /\ ~Early(c)' /\ Acks(wire'[c]) = {} /\ RequestOK(c)'
  <2>1. ~Reading(c)'
      BY <1>1, <1>2, <1>3, <1>5 DEF Reading
  <2>2. Len(request'[c]) = 1
      BY <1>7
  <2>3. RequestOK(c)'
      BY <2>2 DEF RequestOK
  <2>4. ~Early(c) /\ Acks(wire[c]) = {}
      BY <1>4 DEF HandshakeOK
  <2> QED BY <1>1, <1>8, <2>1, <2>3, <2>4
<1>10. HandshakeOK(c)'
  <2>1. /\ replay'[c] = Null /\ asked'[c] = Null /\ buffer'[c] = <<>>
        /\ \A m \in Items(wire'[c]) : m.type # "resumed"
      BY <1>1, <1>4 DEF HandshakeOK, Fresh
  <2> QED BY <2>1, <1>9 DEF HandshakeOK
<1>11. ASSUME NEW d \in Conns, d # c PROVE HandshakeOK(d)'
  <2>1. /\ HandshakeOK(d) /\ Ids \subseteq Ids' /\ wire'[d] = wire[d]
        /\ request'[d] = request[d] /\ replay'[d] = replay[d] /\ buffer'[d] = buffer[d]
        /\ asked'[d] = asked[d]
      BY <1>1, <1>5, <1>6, <1>11 DEF Handshake
  <2> QED BY <2>1, <1>8, HandshakeKept
<1>12. \A l \in Clients : resuming'[l] => conn'[l] # Null
    BY <1>1, <1>5 DEF Handshake
<1> QED BY <1>10, <1>11, <1>12 DEF Handshake

LEMMA HandshakeStep == ASSUME Shape, Registry, Handshake, [Next]_vars PROVE Handshake'
<1>1. CASE (RelayNext /\ UNCHANGED <<hub, session, wire, resume, client, more>>) \/ UNCHANGED vars
  <2>1. Grows
      BY <1>1, RelayGrows DEF Shape, vars
  <2>2. Ids \subseteq Ids'
      BY <2>1, SetsGrow
  <2> QED BY <1>1, <2>2, HandshakeFramed DEF vars, session, resume, client
<1>2. ASSUME NEW k \in Clients, ClientStep(k) PROVE Handshake'
  <2>1. CASE Refetched(k)
    <3>1. UNCHANGED <<rvars, at, wire, request, replay, buffer, asked, conn, resuming>>
        BY <2>1 DEF Refetched, session, resume
    <3>2. Ids \subseteq Ids'
        BY <3>1, SameSets
    <3> QED BY <3>1, <3>2, HandshakeFramed
  <2> QED BY <1>2, <2>1, HandshakeReceive, HandshakeSendResume DEF ClientStep
<1>3. ASSUME NEW c \in Conns, HubStep(c) \/ ReplayFails(c) PROVE Handshake'
    BY <1>3, HandshakeReadBounds, HandshakeResumeBounds, HandshakeReplay DEF HubStep
<1>4. ASSUME NEW c \in Conns, NEW s \in SUBSET Topics, Reauthorize(c, s) PROVE Handshake'
  <2>1. UNCHANGED <<rvars, at, wire, request, replay, buffer, asked, conn, resuming>>
      BY <1>4 DEF Reauthorize, resume, client
  <2>2. Ids \subseteq Ids'
      BY <2>1, SameSets
  <2> QED BY <2>1, <2>2, HandshakeFramed
<1> QED BY <1>1, <1>2, <1>3, <1>4, HandshakeConnect, HandshakeSubscriber, HandshakeHear,
          HandshakeDisconnect DEF Next

LEMMA ShapeStep == ASSUME Shape, Handshake, [Next]_vars PROVE Shape'
<1>1. CASE (RelayNext /\ UNCHANGED <<hub, session, wire, resume, client, more>>) \/ UNCHANGED vars
  <2>1. Grows
      BY <1>1, RelayGrows DEF Shape, vars
  <2>2. RelayInv'
    <3>1. [RelayNext]_rvars
        BY <1>1 DEF vars
    <3> QED BY <3>1, RelayInvStep DEF Shape
  <2> QED BY <1>1, <2>1, <2>2, ShapeFramed DEF vars
<1>2. ASSUME NEW c \in Conns, HubStep(c) \/ ReplayFails(c) PROVE Shape'
  <2>1. RequestOK(c)
      BY DEF Handshake, HandshakeOK
  <2> QED BY <1>2, <2>1, ShapeReadBounds, ShapeResumeBounds, ShapeReplay DEF HubStep
<1> QED BY <1>1, <1>2, ShapeConnect, ShapeDisconnect, ShapeClient, ShapeSubscriber, ShapeHear,
          ShapeReauthorize DEF Next

-----------------------------------------------------------------------------
(* Registration: nobody is left in a set that byTenant no longer holds, or  *)
(* whose channel is about to be left.                                       *)
Waiting(q) == {j \in DOMAIN q : q[j].cmd = "subscribe"}

\* Whoever is, or is being, registered is in the set there is.
InTheSet == \A c \in Conns : at[c] \in {"joining", "joined", "open"} => gen[c] = current

\* A SUBSCRIBE on its way is for that set, behind what leaves an earlier one.
SubscribeOK(q, s) ==
    \A j \in Waiting(q) :
        /\ q[j].conn = s
        /\ \A i \in DOMAIN q :
              /\ i < j => q[i].cmd = "unsubscribe"
              /\ i > j => q[i].cmd = "session"

\* The channel of the set is subscribed, or a SUBSCRIBE is on its way.
ChannelOK ==
    /\ current # Null => Listening \/ Waiting(commands) # {}
    /\ \A c \in Conns :
          at[c] = "joining" => \E j \in Waiting(commands) : commands[j].conn = c

\* Meanwhile a session is only in place if the first of it still waits.
SessionPending == \E j \in DOMAIN commands : commands[j].cmd = "session"
InPlace == (\E x \in Sessions : sessionSet[x] # Null) \/ (\E c \in Conns : at[c] = "open")
FirstOK == Waiting(commands) # {} /\ InPlace => SessionPending

\* A session's set has somebody in it, is named for nobody else, and serves
\* the clients of that session only.
SetFor(x) ==
    sessionSet[x] # Null =>
        /\ \E c \in Conns : at[c] \in {"joined", "open"} /\ sgen[c] = sessionSet[x]
        /\ \A y \in Sessions : sessionSet[y] = sessionSet[x] => y = x
        /\ \A k \in Clients :
              conn[k] # Null /\ sgen[conn[k]] = sessionSet[x] => SessionOf[k] = x
Unnamed(c) ==
    at[c] \in {"free", "joining"} =>
        /\ sgen[c] = Null
        /\ \A d \in Conns : sgen[d] # c
        /\ \A x \in Sessions : sessionSet[x] # c
SessionsOK == (\A x \in Sessions : SetFor(x)) /\ (\A c \in Conns : Unnamed(c))
CommandsOK(q, f) ==
    \A j \in Pending(q), k \in Clients : f[k] = q[j].conn => q[j].session = SessionOf[k]

Registration ==
    /\ InTheSet /\ SubscribeOK(commands, current) /\ ChannelOK /\ FirstOK
    /\ SessionsOK /\ CommandsOK(commands, conn)

LEMMA RegistrationInit == Init => Registration
<1> SUFFICES ASSUME Init PROVE Registration
    OBVIOUS
<1>1. Waiting(commands) = {} /\ Pending(commands) = {}
    BY DEF Init, Waiting, Pending
<1>2. /\ \A c \in Conns : at[c] = "free" /\ sgen[c] = Null /\ c # Null
      /\ \A x \in Sessions : sessionSet[x] = Null
      /\ current = Null
    BY GatewayAssumption DEF Init
<1> QED BY <1>1, <1>2 DEF Registration, InTheSet, SubscribeOK, ChannelOK, FirstOK, SessionsOK,
            SetFor, Unnamed, CommandsOK

LEMMA RegistrationFramed ==
    ASSUME Registration,
           UNCHANGED <<current, sessionSet, commands, subscribed, at, gen, sgen, conn>>
    PROVE  Registration'
<1>1. Listening' = Listening
    BY DEF Listening
<1>2. SessionsOK'
    BY DEF Registration, SessionsOK, SetFor, Unnamed
<1>3. InTheSet' /\ SubscribeOK(commands, current)' /\ ChannelOK' /\ CommandsOK(commands, conn)'
    BY <1>1 DEF Registration, InTheSet, SubscribeOK, ChannelOK, CommandsOK, Waiting, Pending
<1>4. FirstOK'
    BY DEF Registration, FirstOK, InPlace, SessionPending, Waiting
<1> QED BY <1>2, <1>3, <1>4 DEF Registration

\* addToSession gives a connection without a session the one it belongs to.
LEMMA JoinSessions ==
    ASSUME Shape, SessionsOK, NEW c \in Conns, NEW x \in Sessions, NEW cmds, NEW acked,
           JoinSession(c, x, cmds, acked), at[c] \in {"free", "joining"},
           \A k \in Clients : conn'[k] = conn[k] \/ conn'[k] = c,
           \A k \in Clients : conn'[k] = c => SessionOf[k] = x
    PROVE  SessionsOK' /\ sessionSet'[x] # Null
<1>1. /\ sessionSet \in [Sessions -> Conns \cup {Null}]
      /\ sgen \in [Conns -> Conns \cup {Null}]
      /\ at \in [Conns -> {"free", "joining", "joined", "open", "closed"}]
      /\ conn \in [Clients -> Conns \cup {Null}] /\ c # Null /\ \A d \in Conns : d # Null
    BY GatewayAssumption DEF Shape, HubShape, SessionShape, ClientShape
<1>2. Unnamed(c) /\ \A y \in Sessions : SetFor(y)
    BY DEF SessionsOK
<1>3. /\ at'[c] \in {"joined", "open"} /\ sgen'[c] = sessionSet'[x] /\ sessionSet'[x] # Null
      /\ \A d \in Conns : d # c => at'[d] = at[d] /\ sgen'[d] = sgen[d]
      /\ \A y \in Sessions : y # x => sessionSet'[y] = sessionSet[y]
      /\ \/ sessionSet[x] = Null /\ sessionSet'[x] = c
         \/ sessionSet[x] # Null /\ sessionSet'[x] = sessionSet[x]
    BY <1>1 DEF JoinSession
<1>4. ASSUME NEW y \in Sessions PROVE SetFor(y)'
  <2> SUFFICES ASSUME sessionSet'[y] # Null PROVE SetFor(y)'
      BY DEF SetFor
  <2>1. \E d \in Conns : at'[d] \in {"joined", "open"} /\ sgen'[d] = sessionSet'[y]
    <3>1. CASE y = x
        BY <3>1, <1>3
    <3>2. CASE y # x
      <4>1. PICK d \in Conns : at[d] \in {"joined", "open"} /\ sgen[d] = sessionSet[y]
          BY <3>2, <1>2, <1>3 DEF SetFor
      <4> QED BY <3>2, <4>1, <1>3
    <3> QED BY <3>1, <3>2
  <2>2. \A z \in Sessions : sessionSet'[z] = sessionSet'[y] => z = y
    <3> SUFFICES ASSUME NEW z \in Sessions, sessionSet'[z] = sessionSet'[y], z # y PROVE FALSE
        OBVIOUS
    <3>1. CASE sessionSet[x] # Null /\ sessionSet'[x] = sessionSet[x]
      <4>1. sessionSet'[z] = sessionSet[z] /\ sessionSet'[y] = sessionSet[y]
          BY <3>1, <1>3
      <4>2. sessionSet[y] # Null /\ sessionSet[z] = sessionSet[y]
          BY <4>1
      <4>3. SetFor(y)
          BY <1>2
      <4> QED BY <4>2, <4>3 DEF SetFor
    <3>2. CASE sessionSet'[x] = c
      <4>1. \A w \in Sessions : sessionSet[w] # c
          BY <1>2 DEF Unnamed
      <4>2. z # x /\ y # x
          BY <4>1, <3>2, <1>3
      <4> QED BY <4>2, <1>2, <1>3 DEF SetFor
    <3> QED BY <3>1, <3>2, <1>3
  <2>3. \A k \in Clients : conn'[k] # Null /\ sgen'[conn'[k]] = sessionSet'[y] => SessionOf[k] = y
    <3> SUFFICES ASSUME NEW k \in Clients, conn'[k] # Null, sgen'[conn'[k]] = sessionSet'[y]
                 PROVE  SessionOf[k] = y
        OBVIOUS
    <3>1. CASE conn'[k] = c
      <4>1. sessionSet'[x] = sessionSet'[y] /\ SessionOf[k] = x
          BY <3>1, <1>3
      <4> QED BY <4>1, <2>2
    <3>2. CASE conn'[k] # c
      <4>1. conn'[k] = conn[k] /\ conn[k] \in Conns
          BY <3>2, <1>1
      <4>2. sgen'[conn[k]] = sgen[conn[k]] /\ sgen[conn[k]] # c
          BY <3>2, <4>1, <1>2, <1>3 DEF Unnamed
      <4>3. sessionSet'[y] = sessionSet[y]
          BY <4>1, <4>2, <1>3
      <4> QED BY <4>1, <4>2, <4>3, <1>2 DEF SetFor
    <3> QED BY <3>1, <3>2
  <2> QED BY <2>1, <2>2, <2>3 DEF SetFor
<1>5. ASSUME NEW d \in Conns PROVE Unnamed(d)'
  <2> SUFFICES ASSUME at'[d] \in {"free", "joining"} PROVE Unnamed(d)'
      BY DEF Unnamed
  <2>1. d # c
      BY <1>3
  <2>2. at[d] \in {"free", "joining"} /\ Unnamed(d)
      BY <2>1, <1>3 DEF SessionsOK
  <2>3. \A y \in Sessions : sessionSet'[y] # d
      BY <2>1, <2>2, <1>3 DEF Unnamed
  <2>4. \A e \in Conns : sgen'[e] # d
      BY <2>2, <2>3, <1>3 DEF Unnamed
  <2> QED BY <2>1, <2>2, <2>3, <2>4, <1>3 DEF Unnamed
<1> QED BY <1>3, <1>4, <1>5 DEF SessionsOK


\* The places of a queue of commands after one was added, or the first answered.
LEMMA QueuePlaces ==
    ASSUME NEW q \in Seq(Commands), NEW m \in Commands
    PROVE  LET a == Append(q, m) IN
           /\ \A j \in DOMAIN a : \/ j \in DOMAIN q /\ a[j] = q[j]
                                  \/ j = Len(q) + 1 /\ a[j] = m
           /\ \A j \in DOMAIN q : j \in DOMAIN a /\ a[j] = q[j] /\ j < Len(q) + 1
           /\ Len(q) + 1 \in DOMAIN a /\ a[Len(q) + 1] = m
    OBVIOUS

LEMMA TailPlaces ==
    ASSUME NEW q \in Seq(Commands), q # <<>>
    PROVE  LET t == Tail(q) IN
           /\ \A j \in DOMAIN t : j \in Nat /\ j + 1 \in DOMAIN q /\ t[j] = q[j + 1]
           /\ \A j \in DOMAIN q : j \in Nat /\ j >= 1
                                  /\ (j # 1 => j - 1 \in DOMAIN t /\ t[j - 1] = q[j])
           /\ 1 \in DOMAIN q /\ Head(q) = q[1]
    OBVIOUS

\* A command of a session at the end of the queue changes nothing for the rest.
LEMMA SessionLast ==
    ASSUME NEW q \in Seq(Commands), NEW s, NEW f, NEW c \in Conns, NEW x \in Sessions,
           SubscribeOK(q, s), CommandsOK(q, f),
           \A k \in Clients : f[k] = c => SessionOf[k] = x
    PROVE  LET a == Append(q, ToRedis("session", c, x)) IN
           /\ SubscribeOK(a, s) /\ CommandsOK(a, f) /\ Waiting(a) = Waiting(q)
           /\ \A j \in DOMAIN q : j \in DOMAIN a /\ a[j] = q[j]
           /\ \E j \in DOMAIN a : a[j].cmd = "session"
           /\ (\A j \in DOMAIN q : q[j].cmd = "session") =>
                 \A j \in DOMAIN a : a[j].cmd = "session"
<1> DEFINE m == ToRedis("session", c, x)
           a == Append(q, m)
<1>1. m \in Commands /\ m.cmd = "session" /\ m.conn = c /\ m.session = x
    BY DEF ToRedis, Commands
<1> HIDE DEF m
<1>2. /\ \A j \in DOMAIN a : (j \in DOMAIN q /\ a[j] = q[j]) \/ (j = Len(q) + 1 /\ a[j] = m)
      /\ \A j \in DOMAIN q : j \in DOMAIN a /\ a[j] = q[j] /\ j < Len(q) + 1
      /\ Len(q) + 1 \in DOMAIN a /\ a[Len(q) + 1] = m
    BY <1>1, QueuePlaces
<1> HIDE DEF a
<1>3. Waiting(a) = Waiting(q)
    BY <1>1, <1>2 DEF Waiting
<1>4. SubscribeOK(a, s)
  <2> SUFFICES ASSUME NEW j \in Waiting(a)
               PROVE  /\ a[j].conn = s
                      /\ \A i \in DOMAIN a : /\ i < j => a[i].cmd = "unsubscribe"
                                             /\ i > j => a[i].cmd = "session"
      BY DEF SubscribeOK
  <2>1. j \in Waiting(q) /\ j \in DOMAIN q /\ a[j] = q[j]
      BY <1>2, <1>3 DEF Waiting
  <2>2. ASSUME NEW i \in DOMAIN a
        PROVE (i < j => a[i].cmd = "unsubscribe") /\ (i > j => a[i].cmd = "session")
    <3>1. CASE i \in DOMAIN q /\ a[i] = q[i]
      <4>1. /\ i < j => q[i].cmd = "unsubscribe"
            /\ i > j => q[i].cmd = "session"
          BY <2>1, <3>1, Zenon DEF SubscribeOK
      <4> QED BY <3>1, <4>1
    <3>2. CASE i = Len(q) + 1 /\ a[i] = m
      <4>1. j \in Nat /\ Len(q) + 1 \in Nat /\ j < Len(q) + 1
          BY <2>1
      <4> QED BY <1>1, <3>2, <4>1
    <3> QED BY <1>2, <3>1, <3>2
  <2> QED BY <2>1, <2>2 DEF SubscribeOK
<1>5. CommandsOK(a, f)
    BY <1>1, <1>2 DEF CommandsOK, Pending
<1>6. (\A j \in DOMAIN q : q[j].cmd = "session") => \A j \in DOMAIN a : a[j].cmd = "session"
    BY <1>1, <1>2
<1> QED BY <1>1, <1>2, <1>3, <1>4, <1>5, <1>6 DEF a, m

\* What is left of a queue whose first command was answered.
LEMMA TailOrdered ==
    ASSUME NEW q \in Seq(Commands), q # <<>>, NEW s, NEW f, SubscribeOK(q, s), CommandsOK(q, f)
    PROVE  LET t == Tail(q) IN
           /\ SubscribeOK(t, s) /\ CommandsOK(t, f)
           /\ Head(q).cmd # "unsubscribe" =>
                 /\ Waiting(t) = {}
                 /\ \A k \in Clients : f[k] = Head(q).conn => Head(q).session = SessionOf[k]
           /\ Head(q).cmd = "subscribe" =>
                 /\ Head(q).conn = s /\ \A j \in DOMAIN t : t[j].cmd = "session"
                 /\ \A j \in Waiting(q) : q[j] = Head(q)
           /\ Head(q).cmd = "session" => Waiting(q) = {}
           /\ Head(q).cmd = "unsubscribe" =>
                 /\ \A j \in Waiting(q) : j - 1 \in Waiting(t) /\ t[j - 1] = q[j]
                 /\ \A j \in DOMAIN q : q[j].cmd = "session" =>
                       \E i \in DOMAIN t : t[i].cmd = "session"
<1> DEFINE t == Tail(q)
<1>1. /\ \A j \in DOMAIN t : j \in Nat /\ j + 1 \in DOMAIN q /\ t[j] = q[j + 1]
      /\ \A j \in DOMAIN q : j \in Nat /\ j >= 1
                             /\ (j # 1 => j - 1 \in DOMAIN t /\ t[j - 1] = q[j])
      /\ 1 \in DOMAIN q /\ Head(q) = q[1]
    BY TailPlaces
<1> HIDE DEF t
<1>2. ASSUME NEW j \in Waiting(t) PROVE j + 1 \in Waiting(q) /\ j \in Nat /\ t[j] = q[j + 1]
    BY <1>1 DEF Waiting
<1>3. SubscribeOK(t, s)
  <2> SUFFICES ASSUME NEW j \in Waiting(t)
               PROVE  /\ t[j].conn = s
                      /\ \A i \in DOMAIN t : /\ i < j => t[i].cmd = "unsubscribe"
                                             /\ i > j => t[i].cmd = "session"
      BY DEF SubscribeOK
  <2>1. ASSUME NEW i \in DOMAIN t
        PROVE (i < j => t[i].cmd = "unsubscribe") /\ (i > j => t[i].cmd = "session")
    <3>1. i \in Nat /\ i + 1 \in DOMAIN q /\ t[i] = q[i + 1]
        BY <1>1
    <3>2. /\ i + 1 < j + 1 => q[i + 1].cmd = "unsubscribe"
          /\ i + 1 > j + 1 => q[i + 1].cmd = "session"
        BY <1>2, <3>1, Zenon DEF SubscribeOK
    <3>3. j \in Nat
        BY <1>2
    <3> QED BY <3>1, <3>2, <3>3
  <2> QED BY <1>2, <2>1 DEF SubscribeOK
<1>4. CommandsOK(t, f)
  <2>1. \A j \in Pending(t) : j + 1 \in Pending(q) /\ t[j] = q[j + 1]
      BY <1>1 DEF Pending
  <2> QED BY <2>1 DEF CommandsOK
<1>5. ASSUME Head(q).cmd # "unsubscribe"
      PROVE  /\ Waiting(t) = {}
             /\ \A k \in Clients : f[k] = Head(q).conn => Head(q).session = SessionOf[k]
  <2>1. ASSUME NEW j \in Waiting(t) PROVE FALSE
    <3>1. j + 1 \in Waiting(q) /\ j \in Nat /\ j \in DOMAIN t
        BY <1>2 DEF Waiting
    <3>2. j + 1 >= 1 /\ j + 1 \in DOMAIN q
        BY <1>1, <3>1
    <3>3. 1 < j + 1
      <4>1. j - 1 \in Int /\ j >= 1
        <5>1. t \in Seq(Commands)
            BY DEF t
        <5> QED BY <3>1, <5>1
      <4> QED BY <4>1, <3>1
    <3>4. q[1].cmd = "unsubscribe"
        BY <1>1, <3>1, <3>3, Zenon DEF SubscribeOK
    <3> QED BY <1>1, <1>5, <3>4
  <2>2. 1 \in Pending(q)
      BY <1>1, <1>5 DEF Pending
  <2> QED BY <2>1, <2>2, <1>1 DEF CommandsOK
<1>6. ASSUME Head(q).cmd = "subscribe"
      PROVE  /\ Head(q).conn = s /\ \A j \in DOMAIN t : t[j].cmd = "session"
             /\ \A j \in Waiting(q) : q[j] = Head(q)
  <2>1. 1 \in Waiting(q)
      BY <1>1, <1>6 DEF Waiting
  <2>2. ASSUME NEW j \in DOMAIN q, j # 1 PROVE q[j].cmd = "session"
    <3>1. j > 1
        BY <1>1, <2>2
    <3> QED BY <2>1, <3>1 DEF SubscribeOK
  <2>3. ASSUME NEW j \in DOMAIN t PROVE t[j].cmd = "session"
    <3>1. t \in Seq(Commands)
        BY DEF t
    <3>2. j + 1 # 1
        BY <3>1
    <3> QED BY <1>1, <2>2, <3>2
  <2>4. ASSUME NEW j \in Waiting(q) PROVE j = 1
      BY <2>2 DEF Waiting
  <2> QED BY <1>1, <2>1, <2>3, <2>4 DEF SubscribeOK
<1>7. ASSUME Head(q).cmd = "session" PROVE Waiting(q) = {}
  <2> SUFFICES ASSUME NEW j \in Waiting(q) PROVE FALSE
      OBVIOUS
  <2>1. j # 1 /\ j \in DOMAIN q
      BY <1>1, <1>7 DEF Waiting
  <2>2. 1 < j
      BY <1>1, <2>1
  <2>3. q[1].cmd = "unsubscribe"
      BY <1>1, <2>2, Zenon DEF SubscribeOK
  <2> QED BY <1>1, <1>7, <2>3
<1>8. ASSUME Head(q).cmd = "unsubscribe"
      PROVE  /\ \A j \in Waiting(q) : j - 1 \in Waiting(t) /\ t[j - 1] = q[j]
             /\ \A j \in DOMAIN q : q[j].cmd = "session" =>
                   \E i \in DOMAIN t : t[i].cmd = "session"
    BY <1>1, <1>8 DEF Waiting
<1> QED BY <1>3, <1>4, <1>5, <1>6, <1>7, <1>8 DEF t


LEMMA RegistrationConnect ==
    ASSUME Shape, Registry, Registration, NEW k \in Clients, NEW c \in Conns, Connect(k, c)
    PROVE  Registration'
<1> DEFINE x == SessionOf[k]
<1>1. /\ conn[k] = Null /\ at[c] = "free" /\ conn' = [conn EXCEPT ![k] = c]
      /\ gen' = [gen EXCEPT ![c] = current'] /\ UNCHANGED subscribed
    BY DEF Connect
<1>2. /\ at \in [Conns -> {"free", "joining", "joined", "open", "closed"}]
      /\ gen \in [Conns -> Conns \cup {Null}] /\ commands \in Seq(Commands)
      /\ current \in Conns \cup {Null} /\ conn \in [Clients -> Conns \cup {Null}]
    BY DEF Shape, HubShape, SessionShape, ClientShape
<1>3. x \in Sessions /\ c # Null
    BY ClientSession, GatewayAssumption
<1>4. /\ \A j \in Pending(commands) : commands[j].conn # c
      /\ \A l \in Clients : conn[l] # c
      /\ \A d \in Conns : d # c => gen'[d] = gen[d]
      /\ gen'[c] = current'
      /\ \A l \in Clients : conn'[l] = conn[l] \/ (l = k /\ conn'[l] = c)
    BY <1>1, <1>2, PendingConn DEF Registry, ConnOK
<1>5. /\ InTheSet /\ SubscribeOK(commands, current) /\ ChannelOK /\ FirstOK
      /\ SessionsOK /\ CommandsOK(commands, conn)
    BY DEF Registration
<1>6. CommandsOK(commands, conn')
    BY <1>4, <1>5 DEF CommandsOK
<1>7. CASE current = Null
  <2> DEFINE m == ToRedis("subscribe", c, x)
  <2>1. /\ current' = c /\ commands' = Append(commands, m)
        /\ at' = [at EXCEPT ![c] = "joining"] /\ UNCHANGED <<sessionSet, sgen>>
      BY <1>7 DEF Connect
  <2>2. m \in Commands /\ m.cmd = "subscribe" /\ m.conn = c /\ m.session = x
      BY <1>3 DEF ToRedis, Commands
  <2> HIDE DEF m
  <2>3. at'[c] = "joining" /\ \A d \in Conns : d # c => at'[d] = at[d]
      BY <1>2, <2>1
  <2>4. \A d \in Conns : at[d] \in {"free", "closed"}
    <3>1. ASSUME NEW d \in Conns, at[d] \in {"joining", "joined", "open"} PROVE FALSE
      <4>1. gen[d] = Null
          BY <1>5, <1>7, <3>1 DEF InTheSet
      <4>2. at[d] # "free" => gen[d] # Null
          BY DEF Registry, ConnOK
      <4> QED BY <3>1, <4>1, <4>2
    <3> QED BY <1>2, <3>1
  <2>5. Pending(commands) = {}
    <3>1. ASSUME NEW j \in Pending(commands) PROVE FALSE
      <4>1. commands[j].conn \in Conns /\ at[commands[j].conn] \in {"joining", "joined"}
          BY PendingConn
      <4> QED BY <2>4, <4>1
    <3> QED BY <3>1
  <2>6. \A y \in Sessions : sessionSet[y] = Null
      BY <1>5, <2>4 DEF SessionsOK, SetFor
  <2>7. /\ \A j \in DOMAIN commands' :
              \/ j \in DOMAIN commands /\ commands'[j] = commands[j]
              \/ j = Len(commands) + 1 /\ commands'[j] = m
        /\ Len(commands) + 1 \in DOMAIN commands' /\ commands'[Len(commands) + 1] = m
        /\ \A j \in DOMAIN commands : j < Len(commands) + 1 /\ j \in Nat
      BY <1>2, <2>1, <2>2, QueuePlaces
  <2>8. \A j \in DOMAIN commands : commands[j].cmd = "unsubscribe"
      BY <2>5 DEF Pending
  <2>9. SubscribeOK(commands', current')
    <3>1. ASSUME NEW j \in Waiting(commands') PROVE j = Len(commands) + 1 /\ commands'[j] = m
      <4>1. j \in DOMAIN commands' /\ commands'[j].cmd = "subscribe"
          BY DEF Waiting
      <4>2. ~("unsubscribe" = "subscribe")
          OBVIOUS
      <4> QED BY <2>7, <2>8, <4>1, <4>2
    <3>2. ASSUME NEW j \in Waiting(commands'), NEW i \in DOMAIN commands'
          PROVE  /\ i < j => commands'[i].cmd = "unsubscribe"
                 /\ i > j => commands'[i].cmd = "session"
      <4>1. j = Len(commands) + 1 /\ Len(commands) + 1 \in Nat
          BY <1>2, <3>1
      <4>2. CASE i \in DOMAIN commands /\ commands'[i] = commands[i]
        <5>1. i < Len(commands) + 1 /\ i \in Nat /\ commands[i].cmd = "unsubscribe"
            BY <2>7, <2>8, <4>2
        <5> QED BY <4>1, <4>2, <5>1
      <4>3. CASE i = Len(commands) + 1
          BY <4>1, <4>3
      <4> QED BY <2>7, <4>2, <4>3
    <3> QED BY <2>1, <2>2, <3>1, <3>2 DEF SubscribeOK
  <2>10. Len(commands) + 1 \in Waiting(commands')
      BY <2>2, <2>7 DEF Waiting
  <2>11. ChannelOK'
    <3>1. ASSUME NEW d \in Conns, at'[d] = "joining" PROVE d = c
        BY <2>3, <2>4, <3>1
    <3> QED BY <2>2, <2>7, <2>10, <3>1 DEF ChannelOK
  <2>12. InTheSet'
      BY <1>4, <2>3, <2>4 DEF InTheSet
  <2>13. FirstOK'
    <3>1. ~InPlace'
        BY <2>1, <2>3, <2>4, <2>6 DEF InPlace
    <3> QED BY <3>1 DEF FirstOK
  <2>14. SessionsOK'
    <3>1. \A y \in Sessions : SetFor(y)'
        BY <2>1, <2>6 DEF SetFor
    <3>2. \A d \in Conns : Unnamed(d)'
        BY <1>1, <1>5, <2>1, <2>3 DEF SessionsOK, Unnamed
    <3> QED BY <3>1, <3>2 DEF SessionsOK
  <2>15. CommandsOK(commands', conn')
    <3>1. \A l \in Clients : conn'[l] = c => SessionOf[l] = x
        BY <1>4
    <3>2. \A j \in Pending(commands') : commands'[j] = m
        BY <2>7, <2>8 DEF Pending
    <3> QED BY <2>2, <3>1, <3>2 DEF CommandsOK
  <2> QED BY <2>9, <2>11, <2>12, <2>13, <2>14, <2>15 DEF Registration
<1>8. CASE current # Null
  <2>1. JoinSession(c, x, commands, <<Hello>>) /\ UNCHANGED current
      BY <1>8 DEF Connect
  <2>2. \A l \in Clients : conn'[l] = c => SessionOf[l] = x
      BY <1>4
  <2> HIDE DEF x
  <2>3. SessionsOK' /\ sessionSet'[x] # Null
      BY <1>1, <1>3, <1>4, <1>5, <2>1, <2>2, JoinSessions
  <2>4. /\ at'[c] \in {"joined", "open"} /\ \A d \in Conns : d # c => at'[d] = at[d]
        /\ \/ sessionSet[x] = Null /\ commands' = Append(commands, ToRedis("session", c, x))
           \/ sessionSet[x] # Null /\ commands' = commands
      BY <1>2, <2>1 DEF JoinSession
  <2>5. /\ SubscribeOK(commands', current) /\ CommandsOK(commands', conn')
        /\ Waiting(commands') = Waiting(commands)
        /\ \A j \in DOMAIN commands : j \in DOMAIN commands' /\ commands'[j] = commands[j]
        /\ sessionSet[x] = Null => \E j \in DOMAIN commands' : commands'[j].cmd = "session"
        /\ Listening => Listening'
    <3>1. CASE sessionSet[x] # Null /\ commands' = commands
        BY <1>1, <1>5, <1>6, <3>1 DEF Listening
    <3>2. CASE sessionSet[x] = Null /\ commands' = Append(commands, ToRedis("session", c, x))
      <4>1. /\ SubscribeOK(commands', current) /\ CommandsOK(commands', conn')
            /\ Waiting(commands') = Waiting(commands)
            /\ \A j \in DOMAIN commands : j \in DOMAIN commands' /\ commands'[j] = commands[j]
            /\ \E j \in DOMAIN commands' : commands'[j].cmd = "session"
            /\ (\A j \in DOMAIN commands : commands[j].cmd = "session") =>
                  \A j \in DOMAIN commands' : commands'[j].cmd = "session"
        <5>1. PICK f : f = conn'
            OBVIOUS
        <5>2. CommandsOK(commands, f) /\ \A l \in Clients : f[l] = c => SessionOf[l] = x
            BY <1>6, <2>2, <5>1
        <5> QED BY <1>2, <1>3, <1>5, <3>2, <5>1, <5>2, SessionLast
      <4> QED BY <1>1, <4>1 DEF Listening
    <3> QED BY <2>4, <3>1, <3>2
  <2>6. ChannelOK'
    <3>1. current' # Null => Listening' \/ Waiting(commands') # {}
        BY <1>5, <2>1, <2>5 DEF ChannelOK
    <3>2. ASSUME NEW d \in Conns, at'[d] = "joining"
          PROVE \E j \in Waiting(commands') : commands'[j].conn = d
      <4>1. at[d] = "joining"
          BY <2>4, <3>2
      <4>2. PICK j \in Waiting(commands) : commands[j].conn = d
          BY <1>5, <4>1 DEF ChannelOK
      <4>3. j \in DOMAIN commands
          BY DEF Waiting
      <4> QED BY <2>5, <4>2, <4>3
    <3> QED BY <3>1, <3>2 DEF ChannelOK
  <2>7. FirstOK'
    <3>1. ASSUME Waiting(commands) # {}, SessionPending PROVE SessionPending'
        BY <2>5, <3>1 DEF SessionPending
    <3>2. sessionSet[x] = Null => SessionPending'
        BY <2>5 DEF SessionPending
    <3>3. sessionSet[x] # Null => InPlace
        BY <1>3 DEF InPlace
    <3> QED BY <1>5, <2>5, <3>1, <3>2, <3>3 DEF FirstOK
  <2>8. InTheSet'
      BY <1>4, <1>5, <2>1, <2>4 DEF InTheSet
  <2> QED BY <2>1, <2>3, <2>5, <2>6, <2>7, <2>8 DEF Registration
<1> QED BY <1>7, <1>8


LEMMA RegistrationSubscriber ==
    ASSUME Shape, Registry, Registration, Subscriber PROVE Registration'
<1>1. /\ at \in [Conns -> {"free", "joining", "joined", "open", "closed"}]
      /\ gen \in [Conns -> Conns \cup {Null}] /\ commands \in Seq(Commands)
      /\ QueueOK(commands, at)
    BY DEF Shape, HubShape, SessionShape, Registry
<1>2. /\ InTheSet /\ SubscribeOK(commands, current) /\ ChannelOK /\ FirstOK
      /\ SessionsOK /\ CommandsOK(commands, conn)
    BY DEF Registration
<1>3. CASE SubscribeDone
  <2> DEFINE c == Head(commands).conn
             x == Head(commands).session
             t == Tail(commands)
  <2>1. /\ commands # <<>> /\ Head(commands).cmd = "subscribe" /\ subscribed' = TRUE
        /\ JoinSession(c, x, t, Push(c, <<Hello>>))
        /\ UNCHANGED <<current, gen, conn>>
      BY <1>3 DEF SubscribeDone, client
  <2>2. c \in Conns /\ x \in Sessions /\ t \in Seq(Commands)
      BY <2>1, NextCommand
  <2>3. at[c] = "joining"
      BY <1>1, <2>1, QueueTail
  <2>4. /\ SubscribeOK(t, current) /\ CommandsOK(t, conn) /\ Waiting(t) = {}
        /\ \A k \in Clients : conn[k] = c => x = SessionOf[k]
        /\ c = current /\ \A j \in DOMAIN t : t[j].cmd = "session"
        /\ \A j \in Waiting(commands) : commands[j].conn = c
    <3>1. PICK f : f = conn
        OBVIOUS
    <3>2. Head(commands).cmd # "unsubscribe"
        BY <2>1
    <3>3. LET r == Tail(commands) IN
          /\ SubscribeOK(r, current) /\ CommandsOK(r, f)
          /\ Head(commands).cmd # "unsubscribe" =>
                /\ Waiting(r) = {}
                /\ \A k \in Clients :
                      f[k] = Head(commands).conn => Head(commands).session = SessionOf[k]
          /\ Head(commands).cmd = "subscribe" =>
                /\ Head(commands).conn = current /\ \A j \in DOMAIN r : r[j].cmd = "session"
                /\ \A j \in Waiting(commands) : commands[j] = Head(commands)
          /\ Head(commands).cmd = "session" => Waiting(commands) = {}
          /\ Head(commands).cmd = "unsubscribe" =>
                /\ \A j \in Waiting(commands) : j - 1 \in Waiting(r) /\ r[j - 1] = commands[j]
                /\ \A j \in DOMAIN commands : commands[j].cmd = "session" =>
                      \E i \in DOMAIN r : r[i].cmd = "session"
      <4>1. CommandsOK(commands, f)
          BY <1>2, <3>1
      <4> QED BY <1>1, <1>2, <2>1, <4>1, TailOrdered
    <3> QED BY <2>1, <3>1, <3>2, <3>3
  <2> HIDE DEF c, x, t
  <2>5. PICK d \in Conns, y \in Sessions : d = c /\ y = x
      BY <2>2
  <2>6. SessionsOK'
      BY <1>2, <2>1, <2>3, <2>4, <2>5, JoinSessions
  <2>7. /\ at'[d] \in {"joined", "open"} /\ \A e \in Conns : e # d => at'[e] = at[e]
        /\ commands' = t \/ commands' = Append(t, ToRedis("session", d, y))
      BY <1>1, <2>1, <2>5 DEF JoinSession
  <2>8. /\ SubscribeOK(commands', current') /\ CommandsOK(commands', conn')
        /\ Waiting(commands') = {}
        /\ \A j \in DOMAIN commands' : commands'[j].cmd = "session"
    <3>1. CASE commands' = t
        BY <2>1, <2>4, <3>1
    <3>2. CASE commands' = Append(t, ToRedis("session", d, y))
      <4>1. PICK f : f = conn
          OBVIOUS
      <4>2. CommandsOK(t, f) /\ \A l \in Clients : f[l] = d => SessionOf[l] = y
          BY <2>4, <2>5, <4>1
      <4>3. conn' = f /\ current' = current
          BY <2>1, <4>1
      <4>4. LET a == Append(t, ToRedis("session", d, y)) IN
            /\ SubscribeOK(a, current) /\ CommandsOK(a, f) /\ Waiting(a) = Waiting(t)
            /\ (\A j \in DOMAIN t : t[j].cmd = "session") =>
                  \A j \in DOMAIN a : a[j].cmd = "session"
          BY <2>2, <2>4, <4>2, SessionLast
      <4> QED BY <2>4, <3>2, <4>3, <4>4
    <3> QED BY <2>7, <3>1, <3>2
  <2>9. ChannelOK'
    <3>1. Listening'
        BY <2>1, <2>8 DEF Listening
    <3>2. \A e \in Conns : at'[e] # "joining"
      <4>1. \A e \in Conns : at[e] = "joining" => e = d
          BY <1>2, <2>4, <2>5 DEF ChannelOK
      <4> QED BY <2>7, <4>1
    <3> QED BY <3>1, <3>2 DEF ChannelOK
  <2>10. InTheSet'
    <3>1. gen[d] = current
        BY <1>2, <2>3, <2>5 DEF InTheSet
    <3> QED BY <1>2, <2>1, <2>7, <3>1 DEF InTheSet
  <2>11. FirstOK'
      BY <2>8 DEF FirstOK
  <2> QED BY <2>6, <2>8, <2>9, <2>10, <2>11 DEF Registration
<1>4. CASE UnsubscribeDone
  <2>1. /\ commands # <<>> /\ Head(commands).cmd = "unsubscribe" /\ commands' = Tail(commands)
        /\ UNCHANGED <<current, sessionSet, at, gen, sgen, conn>>
      BY <1>4 DEF UnsubscribeDone, session, client
  <2>2. /\ SubscribeOK(commands', current') /\ CommandsOK(commands', conn')
        /\ \A j \in Waiting(commands) :
              j - 1 \in Waiting(commands') /\ commands'[j - 1] = commands[j]
        /\ SessionPending => SessionPending'
        /\ Waiting(commands') # {} => Waiting(commands) # {}
    <3> DEFINE t == Tail(commands)
    <3>1. PICK f : f = conn
        OBVIOUS
    <3>2. /\ SubscribeOK(t, current) /\ CommandsOK(t, f)
          /\ \A j \in Waiting(commands) : j - 1 \in Waiting(t) /\ t[j - 1] = commands[j]
          /\ \A j \in DOMAIN commands : commands[j].cmd = "session" =>
                \E i \in DOMAIN t : t[i].cmd = "session"
        BY <1>1, <1>2, <2>1, <3>1, TailOrdered
    <3>3. \A j \in Waiting(t) : j + 1 \in Waiting(commands)
      <4>1. \A j \in DOMAIN t : j + 1 \in DOMAIN commands /\ t[j] = commands[j + 1]
          BY <1>1, <2>1, TailPlaces
      <4> QED BY <4>1 DEF Waiting
    <3> QED BY <2>1, <3>1, <3>2, <3>3 DEF SessionPending
  <2>3. ~Listening
    <3>1. ~(Head(commands).cmd = "session")
        BY <2>1
    <3> QED BY <2>1, <3>1, FirstCommand
  <2>4. ChannelOK'
    <3>1. current' # Null => Waiting(commands') # {}
        BY <1>2, <2>1, <2>2, <2>3 DEF ChannelOK
    <3>2. ASSUME NEW e \in Conns, at'[e] = "joining"
          PROVE \E j \in Waiting(commands') : commands'[j].conn = e
      <4>1. PICK j \in Waiting(commands) : commands[j].conn = e
          BY <1>2, <2>1, <3>2 DEF ChannelOK
      <4> QED BY <2>2, <4>1
    <3> QED BY <3>1, <3>2 DEF ChannelOK
  <2>5. InTheSet' /\ SessionsOK'
      BY <1>2, <2>1 DEF InTheSet, SessionsOK, SetFor, Unnamed
  <2>6. FirstOK'
    <3>1. InPlace' => InPlace
        BY <2>1 DEF InPlace
    <3> QED BY <1>2, <2>2, <3>1 DEF FirstOK
  <2> QED BY <2>2, <2>4, <2>5, <2>6 DEF Registration
<1>5. CASE SessionDone
  <2> DEFINE c == Head(commands).conn
  <2>1. /\ commands # <<>> /\ Head(commands).cmd = "session" /\ commands' = Tail(commands)
        /\ at' = [at EXCEPT ![c] = "open"]
        /\ UNCHANGED <<current, sessionSet, subscribed, gen, sgen, conn>>
      BY <1>5 DEF SessionDone, client
  <2>2. c \in Conns
      BY <2>1, NextCommand
  <2>3. at[c] = "joined"
    <3>1. Head(commands).cmd # "unsubscribe" /\ Head(commands).cmd # "subscribe"
        BY <2>1
    <3> QED BY <1>1, <2>1, <3>1, QueueTail
  <2>4. /\ SubscribeOK(commands', current') /\ CommandsOK(commands', conn')
        /\ Waiting(commands') = {} /\ Waiting(commands) = {}
    <3>1. PICK f : f = conn
        OBVIOUS
    <3>2. Head(commands).cmd # "unsubscribe"
        BY <2>1
    <3> QED BY <1>1, <1>2, <2>1, <3>1, <3>2, TailOrdered
  <2>5. PICK d \in Conns : d = c
      BY <2>2
  <2>6. at'[d] = "open" /\ at[d] = "joined" /\ \A e \in Conns : e # d => at'[e] = at[e]
      BY <1>1, <2>1, <2>3, <2>5
  <2> HIDE DEF c
  <2>7. ChannelOK'
    <3>1. Listening => Listening'
        BY <2>1, ListeningTail DEF Listening
    <3> QED BY <1>2, <2>1, <2>4, <2>6, <3>1 DEF ChannelOK
  <2>8. InTheSet'
      BY <1>2, <2>1, <2>6 DEF InTheSet
  <2>9. FirstOK'
      BY <2>4 DEF FirstOK
  <2>10. SessionsOK'
    <3>1. ASSUME NEW y \in Sessions PROVE SetFor(y)'
        BY <1>2, <2>1, <2>6 DEF SessionsOK, SetFor
    <3>2. ASSUME NEW e \in Conns PROVE Unnamed(e)'
        BY <1>2, <2>1, <2>6 DEF SessionsOK, Unnamed
    <3> QED BY <3>1, <3>2 DEF SessionsOK
  <2> QED BY <2>4, <2>7, <2>8, <2>9, <2>10 DEF Registration
<1> QED BY <1>3, <1>4, <1>5 DEF Subscriber


\* The last connection that is open is not the last of its set while a
\* SUBSCRIBE is on its way.
LEMMA NothingPending ==
    ASSUME Shape, Registry, Registration, NEW c \in Conns, Emptied(c)
    PROVE  Waiting(commands) = {} /\ \A d \in Conns : at[d] \in {"joining", "joined", "open"} => d = c
<1>1. at[c] = "open" /\ Members \subseteq {c}
    BY DEF Emptied
<1>2. InTheSet /\ ChannelOK /\ FirstOK
    BY DEF Registration
<1>3. Waiting(commands) = {}
  <2> SUFFICES ASSUME Waiting(commands) # {} PROVE FALSE
      OBVIOUS
  <2>1. PICK j \in DOMAIN commands : commands[j].cmd = "session"
      BY <1>1, <1>2 DEF FirstOK, InPlace, SessionPending
  <2>2. j \in Pending(commands)
      BY <2>1 DEF Pending
  <2>3. commands[j].conn \in Conns /\ at[commands[j].conn] = "joined"
      BY <2>1, <2>2, PendingConn DEF Registry, QueueOK
  <2>4. commands[j].conn \in Members
      BY <1>2, <2>3 DEF Members, InTheSet
  <2> QED BY <1>1, <2>3, <2>4
<1>4. ASSUME NEW d \in Conns, at[d] \in {"joining", "joined", "open"} PROVE d = c
  <2>1. at[d] # "joining"
      BY <1>2, <1>3 DEF ChannelOK
  <2>2. d \in Members
      BY <1>2, <1>4, <2>1 DEF InTheSet, Members
  <2> QED BY <1>1, <2>2
<1> QED BY <1>3, <1>4

LEMMA RegistrationDisconnect ==
    ASSUME Shape, Registry, Registration, NEW k \in Clients, Disconnect(k) PROVE Registration'
<1> DEFINE c == conn[k]
           x == SessionOf[k]
           m == ToRedis("unsubscribe", c, x)
<1>1. c \in Conns /\ c # Null /\ x \in Sessions
    BY DisconnectFacts, ClientSession DEF Shape, ClientShape
<1>2. /\ at' = [at EXCEPT ![c] = IF @ = "open" THEN "closed" ELSE @]
      /\ conn' = [conn EXCEPT ![k] = Null]
      /\ sessionSet' = [sessionSet EXCEPT ![x] =
            IF at[c] = "open" /\ SessionMembers(x) \subseteq {c} THEN Null ELSE @]
      /\ UNCHANGED <<subscribed, gen, sgen>>
      /\ \/ Emptied(c) /\ current' = Null /\ commands' = Append(commands, m)
         \/ ~Emptied(c) /\ UNCHANGED <<current, commands>>
    BY DisconnectFacts
<1>3. /\ at \in [Conns -> {"free", "joining", "joined", "open", "closed"}]
      /\ commands \in Seq(Commands) /\ conn \in [Clients -> Conns \cup {Null}]
      /\ sessionSet \in [Sessions -> Conns \cup {Null}]
      /\ sgen \in [Conns -> Conns \cup {Null}]
    BY DEF Shape, HubShape, SessionShape, ClientShape
<1>4. m \in Commands /\ m.cmd = "unsubscribe"
    BY <1>1 DEF ToRedis, Commands
<1>5. /\ InTheSet /\ SubscribeOK(commands, current) /\ ChannelOK /\ FirstOK
      /\ SessionsOK /\ CommandsOK(commands, conn)
    BY DEF Registration
<1>6. PICK d \in Conns, y \in Sessions : d = c /\ y = x
    BY <1>1
<1>7. /\ at'[d] = at[d] \/ (at[d] = "open" /\ at'[d] = "closed")
      /\ \A e \in Conns : e # d => at'[e] = at[e]
      /\ \A l \in Clients : conn'[l] = conn[l] \/ conn'[l] = Null
      /\ \A z \in Sessions : z # y => sessionSet'[z] = sessionSet[z]
      /\ sessionSet'[y] = sessionSet[y] \/ sessionSet'[y] = Null
      /\ at'[d] # at[d] /\ sessionSet'[y] # Null => ~(SessionMembers(y) \subseteq {d})
    BY <1>2, <1>3, <1>6
<1> HIDE DEF m
<1>8. SessionsOK'
  <2>1. ASSUME NEW z \in Sessions PROVE SetFor(z)'
    <3> SUFFICES ASSUME sessionSet'[z] # Null PROVE SetFor(z)'
        BY DEF SetFor
    <3>1. sessionSet'[z] = sessionSet[z] /\ SetFor(z)
        BY <1>5, <1>7 DEF SessionsOK
    <3>2. \E e \in Conns : at'[e] \in {"joined", "open"} /\ sgen'[e] = sessionSet'[z]
      <4>1. PICK e \in Conns : at[e] \in {"joined", "open"} /\ sgen[e] = sessionSet[z]
          BY <3>1 DEF SetFor
      <4>2. CASE at'[e] = at[e]
          BY <1>2, <3>1, <4>1, <4>2
      <4>3. CASE at'[e] # at[e]
        <5>1. e = d
            BY <1>7, <4>3
        <5>2. z = y
          <6>1. conn[k] # Null /\ sgen[conn[k]] = sessionSet[z]
              BY <1>1, <1>6, <4>1, <5>1
          <6>2. SessionOf[k] = z
              BY <3>1, <6>1 DEF SetFor
          <6> QED BY <1>6, <6>2
        <5>3. PICK f \in SessionMembers(y) : f # d
            BY <1>7, <4>3, <5>1, <5>2
        <5>4. f \in Conns /\ at[f] = "open" /\ sgen[f] = sessionSet[z] /\ at'[f] = at[f]
            BY <1>7, <5>2, <5>3 DEF SessionMembers
        <5> QED BY <1>2, <3>1, <5>4
      <4> QED BY <4>2, <4>3
    <3>3. \A w \in Sessions : sessionSet'[w] = sessionSet'[z] => w = z
      <4> SUFFICES ASSUME NEW w \in Sessions, sessionSet'[w] = sessionSet'[z] PROVE w = z
          OBVIOUS
      <4>1. sessionSet'[w] = sessionSet[w]
          BY <1>7
      <4> QED BY <3>1, <4>1 DEF SetFor
    <3>4. \A l \in Clients :
              conn'[l] # Null /\ sgen'[conn'[l]] = sessionSet'[z] => SessionOf[l] = z
      <4> SUFFICES ASSUME NEW l \in Clients, conn'[l] # Null, sgen'[conn'[l]] = sessionSet'[z]
                   PROVE  SessionOf[l] = z
          OBVIOUS
      <4>1. conn'[l] = conn[l]
          BY <1>7
      <4> QED BY <1>2, <3>1, <4>1 DEF SetFor
    <3> QED BY <3>2, <3>3, <3>4 DEF SetFor
  <2>2. ASSUME NEW e \in Conns PROVE Unnamed(e)'
    <3> SUFFICES ASSUME at'[e] \in {"free", "joining"} PROVE Unnamed(e)'
        BY DEF Unnamed
    <3>1. at[e] \in {"free", "joining"} /\ Unnamed(e)
        BY <1>5, <1>7 DEF SessionsOK
    <3>2. e # Null
        BY GatewayAssumption
    <3> QED BY <1>2, <1>7, <3>1, <3>2 DEF Unnamed
  <2> QED BY <2>1, <2>2 DEF SessionsOK
<1>9. CASE Emptied(c)
  <2>1. /\ Waiting(commands) = {}
        /\ \A e \in Conns : at[e] \in {"joining", "joined", "open"} => e = d
      BY <1>6, <1>9, NothingPending
  <2>2. current' = Null /\ commands' = Append(commands, m) /\ at'[d] = "closed"
      BY <1>2, <1>3, <1>6, <1>9 DEF Emptied
  <2>3. \A j \in DOMAIN commands' : \/ j \in DOMAIN commands /\ commands'[j] = commands[j]
                                    \/ commands'[j] = m
      BY <1>3, <1>4, <2>2, QueuePlaces
  <2>4. Waiting(commands') = {}
    <3>1. "unsubscribe" # "subscribe"
        OBVIOUS
    <3> QED BY <1>4, <2>1, <2>3, <3>1 DEF Waiting
  <2>5. SubscribeOK(commands', current') /\ FirstOK'
      BY <2>4 DEF SubscribeOK, FirstOK
  <2>6. \A e \in Conns : at'[e] \in {"free", "closed"}
      BY <1>3, <1>7, <2>1, <2>2
  <2>7. InTheSet' /\ ChannelOK'
      BY <2>2, <2>6 DEF InTheSet, ChannelOK
  <2>8. CommandsOK(commands', conn')
    <3> SUFFICES ASSUME NEW j \in Pending(commands'), NEW l \in Clients,
                        conn'[l] = commands'[j].conn
                 PROVE  commands'[j].session = SessionOf[l]
        BY DEF CommandsOK
    <3>1. j \in Pending(commands) /\ commands'[j] = commands[j]
        BY <1>4, <2>3 DEF Pending
    <3>2. commands[j].conn \in Conns /\ commands[j].conn # Null
        BY <3>1, PendingConn, GatewayAssumption
    <3>3. conn[l] = commands[j].conn
        BY <1>7, <3>1, <3>2
    <3> QED BY <1>5, <3>1, <3>3 DEF CommandsOK
  <2> QED BY <1>8, <2>5, <2>7, <2>8 DEF Registration
<1>10. CASE ~Emptied(c)
  <2>1. UNCHANGED <<current, commands, subscribed, gen>>
      BY <1>2, <1>10
  <2>2. InTheSet'
      BY <1>5, <1>7, <2>1 DEF InTheSet
  <2>3. ChannelOK'
    <3>1. Listening' = Listening
        BY <2>1 DEF Listening
    <3>2. \A e \in Conns : at'[e] = "joining" => at[e] = "joining"
        BY <1>7
    <3> QED BY <1>5, <2>1, <3>1, <3>2 DEF ChannelOK
  <2>4. FirstOK'
    <3>1. InPlace' => InPlace
        BY <1>7 DEF InPlace
    <3> QED BY <1>5, <2>1, <3>1 DEF FirstOK, SessionPending
  <2>5. CommandsOK(commands', conn')
    <3> SUFFICES ASSUME NEW j \in Pending(commands), NEW l \in Clients,
                        conn'[l] = commands[j].conn
                 PROVE  commands[j].session = SessionOf[l]
        BY <2>1 DEF CommandsOK
    <3>1. commands[j].conn \in Conns /\ commands[j].conn # Null
        BY PendingConn, GatewayAssumption
    <3>2. conn[l] = commands[j].conn
        BY <1>7, <3>1
    <3> QED BY <1>5, <3>2 DEF CommandsOK
  <2> QED BY <1>5, <1>8, <2>1, <2>2, <2>3, <2>4, <2>5 DEF Registration
<1> QED BY <1>9, <1>10

LEMMA RegistrationStep ==
    ASSUME Shape, Registry, Registration, [Next]_vars PROVE Registration'
<1>1. CASE (RelayNext /\ UNCHANGED <<hub, session, wire, resume, client, more>>) \/ UNCHANGED vars
    BY <1>1, RegistrationFramed DEF vars, hub, session, client
<1>2. ASSUME NEW k \in Clients, ClientStep(k) PROVE Registration'
  <2>1. UNCHANGED <<current, sessionSet, commands, subscribed, at, gen, sgen, conn>>
      BY <1>2 DEF ClientStep, Receive, SendResume, Refetched, hub, session, client
  <2> QED BY <2>1, RegistrationFramed
<1>3. CASE Hear
    BY <1>3, RegistrationFramed DEF Hear, session, client
<1>4. ASSUME NEW c \in Conns, HubStep(c) \/ ReplayFails(c) PROVE Registration'
  <2>1. UNCHANGED <<current, sessionSet, commands, subscribed, at, gen, sgen, conn>>
      BY <1>4 DEF HubStep, ReadBounds, ResumeBounds, ReplayChunk, ReplayFails, hub, session, client
  <2> QED BY <2>1, RegistrationFramed
<1>5. ASSUME NEW c \in Conns, NEW s \in SUBSET Topics, Reauthorize(c, s) PROVE Registration'
    BY <1>5, RegistrationFramed DEF Reauthorize, hub, client
<1> QED BY <1>1, <1>2, <1>3, <1>4, <1>5, RegistrationConnect, RegistrationSubscriber,
          RegistrationDisconnect DEF Next


(* What holds at every moment of the gateway, without the coverage of its   *)
(* replays.                                                                 *)
GatewayInv == Shape /\ Registry /\ Handshake /\ Registration

LEMMA GatewayInvInit == Init => GatewayInv
    BY ShapeInit, RegistryInit, HandshakeInit, RegistrationInit DEF GatewayInv

LEMMA GatewayInvStep == GatewayInv /\ [Next]_vars => GatewayInv'
    BY ShapeStep, RegistryStep, HandshakeStep, RegistrationStep DEF GatewayInv

(* Every variable of the gateway keeps its type, and the cache of recent    *)
(* event ids never outgrows its capacity (recent-event-ids.ts, hub.ts).     *)
THEOREM GatewayTypeCorrect == Spec => []TypeOK
<1>1. GatewayInv => TypeOK
  <2> SUFFICES ASSUME GatewayInv PROVE TypeOK
      OBVIOUS
  <2>1. Shape
      BY DEF GatewayInv
  <2>2. RelayTypeOK
      BY <2>1 DEF Shape, RelayInv
  <2>3. ASSUME NEW c \in Conns PROVE Items(wire[c]) \subseteq Frame /\ Items(buffer[c]) \subseteq Ids
    <3>1. wire[c] \in Seq(Sent) /\ buffer[c] \in Seq(1..Len(stream))
        BY <2>1 DEF Shape, ResumeShape
    <3>2. Items(wire[c]) \subseteq Sent /\ Items(buffer[c]) \subseteq 1..Len(stream)
        BY <3>1, SeqItems
    <3>3. Sent \subseteq Frame /\ 1..Len(stream) \subseteq Ids
        BY DEF Sent, Ids
    <3> QED BY <3>2, <3>3
  <2>4. Items(recent) \subseteq Events /\ Len(recent) <= DedupCapacity
      BY <2>1, SeqItems DEF Shape, HubShape
  <2>5. heard \in 0..Len(channel)
      BY <2>1, <2>2 DEF Shape, HubShape, RelayTypeOK
  <2> QED BY <2>1, <2>2, <2>3, <2>4, <2>5 DEF TypeOK, Shape, HubShape, SessionShape, ClientShape
<1> QED BY <1>1, GatewayInvInit, GatewayInvStep, PTL DEF Spec

(* Nobody is stranded, whatever connections come, break or wait: a set that *)
(* empties is only dropped, and its channel only left, when nobody is being *)
(* added to it (addToTenant, addToSession and unregister, hub.ts).          *)
THEOREM StrandedHolds == Spec => []NobodyIsStranded
<1>1. GatewayInv => NobodyIsStranded
  <2> SUFFICES ASSUME GatewayInv PROVE NobodyIsStranded
      OBVIOUS
  <2>1. InTheSet /\ ChannelOK /\ SubscribeOK(commands, current)
      BY DEF GatewayInv, Registration
  <2>2. ASSUME current # Null, ~Listening
        PROVE \E j \in DOMAIN commands : commands[j].cmd = "subscribe" /\ commands[j].conn = current
    <3>1. PICK j \in Waiting(commands) : TRUE
        BY <2>1, <2>2 DEF ChannelOK
    <3> QED BY <2>1, <3>1 DEF SubscribeOK, Waiting
  <2> QED BY <2>1, <2>2 DEF NobodyIsStranded, InTheSet
<1> QED BY <1>1, GatewayInvInit, GatewayInvStep, PTL DEF Spec

(* ADR-0017 section 9, at every step: whatever is pushed on a connection,   *)
(* live, replayed or drained from the buffer, is within the scope that its  *)
(* session has at that moment.                                              *)
THEOREM AuthorizedHolds == Spec => OnlyAuthorizedFrames
<1>1. GatewayInv /\ [Next]_vars =>
         [\A c \in Conns : \A j \in (Len(wire[c]) + 1)..Len(wire'[c]) :
             wire'[c][j].type = "event" => Authorized(c, wire'[c][j].cursor)]_vars
    BY StepWithin DEF GatewayInv, Within
<1> QED BY <1>1, GatewayInvInit, GatewayInvStep, PTL DEF Spec, OnlyAuthorizedFrames


-----------------------------------------------------------------------------
(* Coverage: what a client has been told of, and what is on its way to it.  *)

Told(k, e) ==
    \/ e \in known[k]
    \/ \E m \in Items(wire[conn[k]]) : m.type = "event" /\ stream[m.cursor] = e

\* Client k has been told of the public entries from its cursor to position n.
Upto(k, n) ==
    \A i \in Public : asked[conn[k]] < i /\ i <= n => Told(k, stream[i]) \/ i <= trimmed

(* A replay has delivered what it passed and what it says it did; an answer *)
(* is sent when it has passed everything the answer stands for.             *)
ReplayOK(k) ==
    conn[k] # Null =>
        /\ replay[conn[k]] # Null =>
              /\ Upto(k, replay[conn[k]].from)
              /\ \A e \in replay[conn[k]].done : Told(k, e)
        /\ \A m \in Items(wire[conn[k]]) : m.type = "resumed" => Upto(k, m.cursor)

\* An event heard before a connection listened is the replay's to deliver.
Before(c, e) == \E q \in 1..since[c] : stream[channel[q]] = e
Safe(k, e)   == Told(k, e) \/ e \in EventsOf(buffer[conn[k]])

HandoffOK(k) ==
    conn[k] # Null /\ gen[conn[k]] = current =>
        \A p \in HeardBy(conn[k]) : LET e == stream[channel[p]] IN
            TopicOf[e] = Everyone => Before(conn[k], e) \/ Safe(k, e)

\* The cache of recent events holds events that were heard.
RecentOK == \A e \in Items(recent) : \E q \in 1..heard : stream[channel[q]] = e

Coverage == RecentOK /\ \A k \in Clients : ReplayOK(k) /\ HandoffOK(k)

(* A step that leaves the replay of a connection where it is, and answers   *)
(* nothing on it, only adds to its wire and its buffer.                     *)
Quiet(c) ==
    /\ Items(wire[c]) \subseteq Items(wire'[c])
    /\ \A m \in Items(wire'[c]) : m \in Items(wire[c]) \/ m.type # "resumed"
    /\ replay'[c] = replay[c] /\ asked'[c] = asked[c]
    /\ Items(buffer[c]) \subseteq Items(buffer'[c])

LEMMA QuietPush ==
    ASSUME ResumeShape, NEW c \in Conns, NEW frames \in Seq(Sent), wire'[c] = Push(c, frames),
           \A m \in Items(frames) : m.type # "resumed",
           replay'[c] = replay[c], asked'[c] = asked[c],
           Items(buffer[c]) \subseteq Items(buffer'[c])
    PROVE  Quiet(c)
<1>1. wire[c] \in Seq(Sent)
    BY DEF ResumeShape
<1>2. /\ Items(wire[c]) \subseteq Items(wire'[c])
      /\ Items(wire'[c]) \subseteq Items(wire[c]) \cup Items(frames)
    BY <1>1, PushFacts
<1> QED BY <1>2 DEF Quiet

LEMMA QuietSame ==
    ASSUME NEW c \in Conns, wire'[c] = wire[c], replay'[c] = replay[c], asked'[c] = asked[c],
           buffer'[c] = buffer[c]
    PROVE  Quiet(c)
    BY DEF Quiet

LEMMA QuietHello ==
    ASSUME ResumeShape, NEW c \in Conns, UNCHANGED resume,
           wire' = [wire EXCEPT ![c] = Push(c, <<Hello>>)] \/ wire' = wire
    PROVE  \A d \in Conns : Quiet(d)
<1> SUFFICES ASSUME NEW d \in Conns PROVE Quiet(d)
    OBVIOUS
<1>1. replay' = replay /\ asked' = asked /\ buffer' = buffer
    BY DEF resume
<1>2. CASE wire'[d] = wire[d]
    BY <1>1, <1>2, QuietSame
<1>3. CASE wire'[d] # wire[d]
  <2> DEFINE h == <<Hello>>
  <2>1. h \in Seq(Sent) /\ Items(h) = {Hello} /\ Hello.type = "ack"
      BY SignalsSent, OneFrame
  <2>2. wire'[d] = Push(d, h)
      BY <1>3 DEF ResumeShape
  <2> HIDE DEF h
  <2>3. \A m \in Items(h) : m.type # "resumed"
      BY <2>1
  <2> QED BY <1>1, <2>1, <2>2, <2>3, QuietPush
<1> QED BY <1>2, <1>3

LEMMA QuietHear == ASSUME Shape, Hear, NEW d \in Conns PROVE Quiet(d)
<1> DEFINE i == channel[heard + 1]
<1>1. ResumeShape /\ replay' = replay /\ asked' = asked
    BY DEF Shape, Hear
<1>2. /\ i \in 1..Len(stream)
      /\ \/ wire'[d] = wire[d]
         \/ wire'[d] = Push(d, <<Event(i)>>) \/ wire'[d] = Push(d, <<Heartbeat(i)>>)
      /\ buffer'[d] = buffer[d] \/ buffer'[d] = Append(buffer[d], i)
    BY HearFacts
<1> HIDE DEF i
<1>3. Items(buffer[d]) \subseteq Items(buffer'[d])
  <2>1. buffer[d] \in Seq(1..Len(stream))
      BY <1>1 DEF ResumeShape
  <2>2. Items(Append(buffer[d], i)) = Items(buffer[d]) \cup {i}
      BY <1>2, <2>1, ItemsAppend
  <2> QED BY <1>2, <2>2
<1>4. ASSUME NEW m \in Sent, m.type # "resumed", wire'[d] = Push(d, <<m>>) PROVE Quiet(d)
  <2> DEFINE frames == <<m>>
  <2>1. frames \in Seq(Sent) /\ Items(frames) = {m}
      BY OneFrame
  <2>2. wire'[d] = Push(d, frames)
      BY <1>4
  <2> HIDE DEF frames
  <2>3. \A f \in Items(frames) : f.type # "resumed"
      BY <1>4, <2>1
  <2> QED BY <1>1, <1>3, <2>1, <2>2, <2>3, QuietPush
<1>5. CASE wire'[d] = wire[d]
    BY <1>1, <1>3, <1>5 DEF Quiet
<1>6. /\ Event(i) \in Sent /\ Event(i).type # "resumed"
      /\ Heartbeat(i) \in Sent /\ Heartbeat(i).type # "resumed"
    BY <1>2, SignalsSent
<1> QED BY <1>2, <1>4, <1>5, <1>6

LEMMA QuietSteps ==
    ASSUME GatewayInv, [Next]_vars, NEW k \in Clients, conn[k] # Null, conn'[k] = conn[k]
    PROVE  \/ Quiet(conn[k]) \/ Receive(k) \/ ResumeBounds(conn[k])
           \/ ReplayChunk(conn[k]) \/ ReplayFails(conn[k])
<1>1. PICK c \in Conns : c = conn[k]
    BY OwnConn DEF GatewayInv
<1>2. Shape /\ Registry /\ ResumeShape
    BY DEF GatewayInv, Shape
<1>3. \A l \in Clients : conn[l] = c => l = k
    BY <1>1, <1>2, OwnConn
<1>4. /\ wire \in [Conns -> Seq(Sent)] /\ conn \in [Clients -> Conns \cup {Null}]
      /\ request \in [Conns -> Seq(Ids \cup {Null})]
    BY <1>2 DEF ResumeShape, Shape, ClientShape
<1>5. CASE UNCHANGED <<wire, resume>>
    BY <1>1, <1>5, QuietSame DEF resume
<1>6. ASSUME NEW l \in Clients, NEW d \in Conns, Connect(l, d) PROVE Quiet(c)
  <2>1. at[d] = "free" /\ d # c
      BY <1>1, <1>2, <1>6 DEF Connect, Registry, ConnOK
  <2>2. UNCHANGED resume
      BY <1>6 DEF Connect
  <2>3. wire'[c] = wire[c]
      BY <1>4, <1>6, <2>1 DEF Connect, JoinSession
  <2> QED BY <2>2, <2>3, QuietSame DEF resume
<1>7. ASSUME NEW l \in Clients, Disconnect(l) PROVE Quiet(c)
  <2>1. conn' = [conn EXCEPT ![l] = Null] /\ UNCHANGED asked
      BY <1>7, DisconnectFacts
  <2>2. l # k
      BY <1>1, <1>4, <2>1
  <2>3. conn[l] # c /\ conn[l] \in Conns
      BY <1>3, <1>4, <1>7, <2>2, DisconnectFacts
  <2>4. /\ wire' = [wire EXCEPT ![conn[l]] = <<>>]
        /\ replay' = [replay EXCEPT ![conn[l]] = Null]
        /\ buffer' = [buffer EXCEPT ![conn[l]] = <<>>]
      BY <1>7, DisconnectFacts
  <2>5. wire'[c] = wire[c] /\ replay'[c] = replay[c] /\ buffer'[c] = buffer[c]
      BY <1>2, <2>3, <2>4, Elsewhere
  <2> QED BY <2>1, <2>5, QuietSame
<1>8. ASSUME NEW l \in Clients, ClientStep(l) PROVE Quiet(c) \/ Receive(k)
  <2>1. CASE Receive(l)
    <3>1. wire' = [wire EXCEPT ![conn[l]] = Tail(wire[conn[l]])] /\ UNCHANGED resume
        BY <1>2, <2>1, ReceiveFacts
    <3>2. l # k => wire'[c] = wire[c]
        BY <1>3, <1>4, <3>1
    <3> QED BY <2>1, <3>1, <3>2, QuietSame DEF resume
  <2>2. CASE SendResume(l) \/ Refetched(l)
    <3>1. UNCHANGED <<wire, replay, asked, buffer>>
        BY <2>2 DEF SendResume, Refetched, resume
    <3> QED BY <3>1, QuietSame
  <2> QED BY <1>8, <2>1, <2>2 DEF ClientStep
<1>9. CASE Subscriber
  <2>1. CASE UnsubscribeDone
      BY <2>1, <1>5 DEF UnsubscribeDone
  <2>2. CASE SessionDone
    <3>1. commands # <<>> /\ UNCHANGED resume
          /\ wire' = [wire EXCEPT ![Head(commands).conn] = Push(Head(commands).conn, <<Hello>>)]
        BY <2>2 DEF SessionDone
    <3>2. PICK d \in Conns : d = Head(commands).conn
        BY <1>2, <3>1, NextCommand
    <3>3. wire' = [wire EXCEPT ![d] = Push(d, <<Hello>>)]
        BY <3>1, <3>2
    <3>4. \A e \in Conns : Quiet(e)
        BY <1>2, <3>1, <3>3, QuietHello
    <3> QED BY <1>1, <3>4
  <2>3. CASE SubscribeDone
    <3>1. commands # <<>> /\ UNCHANGED resume
        BY <2>3 DEF SubscribeDone
    <3>2. \/ wire' = [wire EXCEPT ![Head(commands).conn] = Push(Head(commands).conn, <<Hello>>)]
          \/ wire' = wire
        BY <2>3 DEF SubscribeDone, JoinSession
    <3>3. PICK d \in Conns : d = Head(commands).conn
        BY <1>2, <3>1, NextCommand
    <3>4. wire' = [wire EXCEPT ![d] = Push(d, <<Hello>>)] \/ wire' = wire
        BY <3>2, <3>3
    <3>5. \A e \in Conns : Quiet(e)
        BY <1>2, <3>1, <3>4, QuietHello
    <3> QED BY <1>1, <3>5
  <2> QED BY <1>9, <2>1, <2>2, <2>3 DEF Subscriber
<1>10. ASSUME NEW d \in Conns, HubStep(d) \/ ReplayFails(d), c # d PROVE Quiet(c)
  <2>1. CASE ReadBounds(d)
    <3>1. UNCHANGED <<wire, replay, asked, buffer>>
        BY <2>1 DEF ReadBounds
    <3> QED BY <3>1, QuietSame
  <2>2. CASE ResumeBounds(d)
      BY <1>2, <1>10, <2>2, BoundsAt, QuietSame
  <2>3. CASE ReplayChunk(d) \/ ReplayFails(d)
    <3>1. /\ asked' = asked /\ wire'[c] = wire[c] /\ replay'[c] = replay[c]
          /\ buffer'[c] = buffer[c]
        BY <1>2, <1>10, <2>3 DEF ReplayChunk, ReplayFails, Finish, ResumeShape
    <3> QED BY <3>1, QuietSame
  <2> QED BY <1>10, <2>1, <2>2, <2>3 DEF HubStep
<1>11. CASE ReadBounds(c)
  <2>1. UNCHANGED <<wire, replay, asked, buffer>>
      BY <1>11 DEF ReadBounds
  <2> QED BY <1>1, <2>1, QuietSame
<1>12. CASE (RelayNext /\ UNCHANGED <<hub, session, wire, resume, client, more>>) \/ UNCHANGED vars
    BY <1>5, <1>12 DEF vars
<1>13. CASE Hear
    BY <1>1, <1>2, <1>13, QuietHear
<1>14. ASSUME NEW d \in Conns, NEW s \in SUBSET Topics, Reauthorize(d, s) PROVE Quiet(c)
    BY <1>1, <1>14, QuietSame DEF Reauthorize, resume
<1> QED BY <1>1, <1>6, <1>7, <1>8, <1>9, <1>10, <1>11, <1>12, <1>13, <1>14 DEF Next, HubStep


\* The hub's own steps add to the wire too.
LEMMA ReplayWire ==
    ASSUME Shape, NEW c \in Conns, RequestOK(c),
           ResumeBounds(c) \/ ReplayChunk(c) \/ ReplayFails(c)
    PROVE  Items(wire[c]) \subseteq Items(wire'[c])
<1>1. wire[c] \in Seq(Sent) /\ ResumeShape
    BY DEF Shape, ResumeShape
<1>2. ASSUME NEW frames, wire'[c] = Push(c, frames), frames \in Seq(Sent)
      PROVE  Items(wire[c]) \subseteq Items(wire'[c])
    BY <1>1, <1>2, PushFacts
<1>3. ASSUME NEW done, NEW frames \in Seq(Sent), NEW answer \in Sent,
             Finish(c, frames, done, answer)
      PROVE  Items(wire[c]) \subseteq Items(wire'[c])
  <2> DEFINE all == FinalFrames(c, frames, done, answer)
  <2>1. all \in Seq(Sent) /\ wire' = [wire EXCEPT ![c] = Push(c, all)]
    <3>1. all \in Seq(Sent)
        BY <1>3, FinalFramesFacts
    <3>2. wire' = [wire EXCEPT ![c] = Push(c, all)]
        BY <1>3 DEF Finish, FinalFrames, Drained
    <3> QED BY <3>1, <3>2
  <2> HIDE DEF all
  <2>2. wire'[c] = Push(c, all)
      BY <1>1, <2>1 DEF ResumeShape
  <2> QED BY <1>2, <2>1, <2>2
<1>4. CASE ResumeBounds(c)
  <2>1. CASE Lost(c)
    <3> DEFINE frames == <<Signal("resync-required", request[c][2])>>
    <3>1. wire'[c] = Push(c, frames)
        BY <1>1, <1>4, <2>1, BoundsAt
    <3>2. request[c][2] \in Ids
        BY <1>4, BoundsFacts DEF RequestOK
    <3>3. frames \in Seq(Sent)
        BY <3>2, SignalsSent, OneFrame
    <3> HIDE DEF frames
    <3> QED BY <1>2, <3>1, <3>3
  <2>2. CASE ~Lost(c)
      BY <1>1, <1>4, <2>2, BoundsAt
  <2> QED BY <2>1, <2>2
<1>5. CASE ReplayFails(c)
  <2>1. Finish(c, <<>>, replay[c].done, Signal("error", Null)) /\ <<>> \in Seq(Sent)
      BY <1>5 DEF ReplayFails
  <2> QED BY <2>1, <1>3, SignalsSent
<1>6. CASE ReplayChunk(c)
  <2>1. replay[c] # Null
      BY <1>6, ReplayFacts
  <2>2. Out(c) \in Seq(1..Len(stream)) /\ replay[c].boundary \in Ids
      BY <1>1, <2>1, ChunkFacts, ReplayRecord
  <2>3. Frames(Out(c)) \in Seq(Sent)
      BY <2>2, FramesFacts
  <2>4. CASE Len(Chunk(c)) < ChunkSize
    <3>1. Finish(c, Frames(Out(c)), Done(c), Signal("resumed", replay[c].boundary))
        BY <1>6, <2>4, ReplayFacts
    <3> QED BY <1>3, <2>2, <2>3, <3>1, SignalsSent
  <2>5. CASE ~(Len(Chunk(c)) < ChunkSize)
    <3>1. wire' = [wire EXCEPT ![c] = Push(c, Frames(Out(c)))]
        BY <1>6, <2>5, ReplayFacts
    <3>2. wire'[c] = Push(c, Frames(Out(c)))
        BY <1>1, <3>1 DEF ResumeShape
    <3> QED BY <1>2, <2>3, <3>2
  <2> QED BY <2>4, <2>5
<1> QED BY <1>4, <1>5, <1>6

\* What a client was told it stays told of, as long as its connection lasts.
LEMMA ToldGrows ==
    ASSUME GatewayInv, [Next]_vars, NEW k \in Clients, conn[k] # Null, conn'[k] = conn[k],
           NEW e, Told(k, e)
    PROVE  Told(k, e)'
<1>1. PICK c \in Conns : c = conn[k]
    BY OwnConn DEF GatewayInv
<1>2. Shape /\ Grows
  <2>1. RelayNext \/ UNCHANGED rvars
      BY NextRelays DEF RelaySteps
  <2> QED BY <2>1, RelayGrows DEF GatewayInv, Shape
<1>3. known[k] \subseteq known'[k]
  <2>1. ASSUME NEW l \in Clients, Receive(l) PROVE known[k] \subseteq known'[k]
    <3>1. known' = [known EXCEPT ![l] =
               IF Head(wire[conn[l]]).type = "event"
               THEN known[l] \cup {stream[Head(wire[conn[l]]).cursor]} ELSE known[l]]
        BY <1>2, <2>1, ReceiveFacts
    <3> QED BY <3>1, <1>2 DEF Shape, ClientShape
  <2>2. ASSUME NEW l \in Clients, Refetched(l) PROVE known[k] \subseteq known'[k]
      BY <1>2, <2>2 DEF Refetched, Shape, ClientShape
  <2>3. CASE UNCHANGED known
      BY <2>3
  <2> QED BY <2>1, <2>2, <2>3
          DEF Next, vars, client, resume, ClientStep, Connect, Disconnect, SendResume, Subscriber,
              SubscribeDone, UnsubscribeDone, SessionDone, Hear, HubStep, ReadBounds,
              ResumeBounds, ReplayChunk, ReplayFails, Reauthorize
<1>4. ASSUME NEW m \in Items(wire[c]), m.type = "event", stream[m.cursor] = e,
             m \in Items(wire'[c])
      PROVE  Told(k, e)'
  <2>1. m \in Sent
    <3>1. wire[c] \in Seq(Sent)
        BY <1>2 DEF Shape, ResumeShape
    <3> QED BY <3>1, SeqItems
  <2>2. stream'[m.cursor] = e
      BY <1>2, <1>4, <2>1 DEF Sent, Grows
  <2> QED BY <1>1, <1>4, <2>2 DEF Told
<1>5. CASE e \in known[k]
    BY <1>3, <1>5 DEF Told
<1>6. CASE \E m \in Items(wire[c]) : m.type = "event" /\ stream[m.cursor] = e
  <2>1. PICK m \in Items(wire[c]) : m.type = "event" /\ stream[m.cursor] = e
      BY <1>6
  <2>2. CASE m \in Items(wire'[c])
      BY <2>1, <2>2, <1>4
  <2>3. CASE m \notin Items(wire'[c])
    <3>1. CASE Receive(k)
      <4>1. /\ Items(wire[c]) = {Head(wire[c])} \cup Items(Tail(wire[c]))
            /\ wire' = [wire EXCEPT ![c] = Tail(wire[c])]
            /\ known' = [known EXCEPT ![k] =
                  IF Head(wire[c]).type = "event"
                  THEN @ \cup {stream[Head(wire[c]).cursor]} ELSE @]
          BY <1>1, <1>2, <3>1, ReceiveFacts
      <4>2. wire'[c] = Tail(wire[c])
          BY <4>1, <1>2 DEF Shape, ResumeShape
      <4>3. m = Head(wire[c])
          BY <2>3, <4>1, <4>2
      <4>4. e \in known'[k]
          BY <2>1, <4>1, <4>3, <1>2 DEF Shape, ClientShape
      <4> QED BY <4>4 DEF Told
    <3>2. CASE Quiet(c)
        BY <2>3, <3>2 DEF Quiet
    <3>3. CASE ResumeBounds(c) \/ ReplayChunk(c) \/ ReplayFails(c)
      <4>1. Items(wire[c]) \subseteq Items(wire'[c])
          BY <1>2, <3>3, ReplayWire DEF GatewayInv, Handshake, HandshakeOK
      <4> QED BY <2>3, <4>1
    <3> QED BY <1>1, <3>1, <3>2, <3>3, QuietSteps
  <2> QED BY <2>2, <2>3
<1> QED BY <1>1, <1>5, <1>6 DEF Told


\* All that a finished replay adds reaches the wire of a connection in use.
LEMMA FinishWire ==
    ASSUME Shape, NEW c \in Conns, NEW done, NEW frames \in Seq(Sent), NEW answer \in Sent,
           Finish(c, frames, done, answer)
    PROVE  /\ Used(c) => Items(frames) \subseteq Items(wire'[c])
           /\ Used(c) => \A i \in Items(Drained(c, done)) : Event(i) \in Items(wire'[c])
           /\ \A m \in Items(wire'[c]) :
                 m \in Items(wire[c]) \/ m \in Items(frames) \/ m.type = "event" \/ m = answer
           /\ replay'[c] = Null /\ buffer'[c] = <<>>
<1> DEFINE all == FinalFrames(c, frames, done, answer)
<1>1. /\ all \in Seq(Sent) /\ Drained(c, done) \in Seq(1..Len(stream))
      /\ Items(all) = Items(frames) \cup Items(Frames(Drained(c, done))) \cup {answer}
      /\ wire' = [wire EXCEPT ![c] = Push(c, all)]
      /\ buffer' = [buffer EXCEPT ![c] = <<>>]
      /\ replay' = [replay EXCEPT ![c] = Null]
  <2>1. all \in Seq(Sent) /\ Drained(c, done) \in Seq(1..Len(stream))
      BY FinalFramesFacts
  <2>2. Items(all) = FinalItems(c, frames, done, answer)
      BY FinalFramesFacts
  <2>3. /\ wire' = [wire EXCEPT ![c] = Push(c, all)]
        /\ buffer' = [buffer EXCEPT ![c] = <<>>] /\ replay' = [replay EXCEPT ![c] = Null]
      BY DEF Finish, FinalFrames, Drained
  <2> QED BY <2>1, <2>2, <2>3 DEF FinalItems
<1> HIDE DEF all
<1>2. /\ Items(Frames(Drained(c, done))) = {Event(i) : i \in Items(Drained(c, done))}
      /\ \A m \in Items(Frames(Drained(c, done))) : m.type = "event"
    BY <1>1, FramesFacts, EventFrames
<1>3. ResumeShape /\ wire[c] \in Seq(Sent)
    BY DEF Shape, ResumeShape
<1>4. wire'[c] = Push(c, all) /\ replay'[c] = Null /\ buffer'[c] = <<>>
    BY <1>1, <1>3 DEF ResumeShape
<1>5. /\ Used(c) => Items(all) \subseteq Items(wire'[c])
      /\ Items(wire'[c]) \subseteq Items(wire[c]) \cup Items(all)
  <2>1. /\ Used(c) => Items(all) \subseteq Items(Push(c, all))
        /\ Items(Push(c, all)) \subseteq Items(wire[c]) \cup Items(all)
      BY <1>1, <1>3, PushFacts
  <2> QED BY <1>4, <2>1
<1> QED BY <1>1, <1>2, <1>4, <1>5

\* The connection of a client changes by Connect, or is gone.
LEMMA ConnMoves ==
    ASSUME Shape, [Next]_vars, NEW k \in Clients
    PROVE  \/ conn'[k] = conn[k] \/ conn'[k] = Null
           \/ \E c \in Conns : Connect(k, c) /\ conn'[k] = c
<1>1. conn \in [Clients -> Conns \cup {Null}]
    BY DEF Shape, ClientShape
<1>2. ASSUME NEW l \in Clients, NEW c \in Conns, Connect(l, c)
      PROVE  conn'[k] = conn[k] \/ (l = k /\ conn'[k] = c)
    BY <1>1, <1>2 DEF Connect
<1>3. ASSUME NEW l \in Clients, Disconnect(l) PROVE conn'[k] = conn[k] \/ conn'[k] = Null
    BY <1>1, <1>3 DEF Disconnect
<1>4. CASE UNCHANGED conn
    BY <1>4
<1> QED BY <1>2, <1>3, <1>4
        DEF Next, vars, client, resume, ClientStep, Receive, SendResume, Refetched, Subscriber,
            SubscribeDone, UnsubscribeDone, SessionDone, Hear, HubStep, ReadBounds,
            ResumeBounds, ReplayChunk, ReplayFails, Reauthorize

\* What was delivered up to a position stays delivered as the stream grows.
LEMMA UptoKept ==
    ASSUME GatewayInv, [Next]_vars, NEW k \in Clients, conn[k] # Null, conn'[k] = conn[k],
           asked'[conn[k]] = asked[conn[k]], NEW n \in Ids, Upto(k, n)
    PROVE  Upto(k, n)'
<1>1. Shape /\ Grows
  <2>1. RelayNext \/ UNCHANGED rvars
      BY NextRelays DEF RelaySteps
  <2> QED BY <2>1, RelayGrows DEF GatewayInv, Shape
<1>2. DOMAIN stream = 1..Len(stream) /\ Len(stream) \in Nat
    BY <1>1 DEF Shape, RelayInv, RelayTypeOK
<1>3. ASSUME NEW i \in Public', i <= n, asked[conn[k]] < i
      PROVE  Told(k, stream[i])' \/ i <= trimmed'
  <2>1. i \in DOMAIN stream' /\ TopicOf[stream'[i]] = Everyone
      BY <1>3 DEF Public
  <2>2. DOMAIN stream' = 1..Len(stream')
    <3>1. Shape'
        BY ShapeStep DEF GatewayInv
    <3>2. stream' \in Seq(Events)
        BY <3>1 DEF Shape, RelayInv, RelayTypeOK
    <3> QED BY <3>2
  <2>3. i \in 1..Len(stream) /\ stream'[i] = stream[i]
      BY <1>1, <1>2, <1>3, <2>1, <2>2 DEF Ids, Grows
  <2>4. i \in Public
      BY <1>2, <2>1, <2>3 DEF Public
  <2>5. Told(k, stream[i]) \/ i <= trimmed
      BY <1>3, <2>4 DEF Upto
  <2>6. CASE Told(k, stream[i])
    <3>1. PICK e : e = stream[i]
        OBVIOUS
    <3>2. Told(k, e)'
        BY <2>6, <3>1, ToldGrows
    <3>3. stream'[i] = e
        BY <2>3, <3>1
    <3> QED BY <3>2, <3>3 DEF Told
  <2>7. CASE i <= trimmed
      BY <2>7, <2>3, <1>1 DEF Grows
  <2> QED BY <2>5, <2>6, <2>7
<1> QED BY <1>3 DEF Upto


\* A public entry is within every scope.
LEMMA PublicAuthorized ==
    ASSUME NEW c, NEW i, TopicOf[stream[i]] = Everyone PROVE Authorized(c, i)
    BY DEF Authorized

\* A chunk whose frames reach the client tells it of all the chunk passes,
LEMMA ChunkTold ==
    ASSUME GatewayInv, [Next]_vars, NEW k \in Clients, NEW c \in Conns, conn[k] = c,
           conn'[k] = c, ReplayOK(k), replay[c] # Null, UNCHANGED <<rvars, asked>>,
           Items(Frames(Out(c))) \subseteq Items(wire'[c])
    PROVE  /\ \A e \in Done(c) : Told(k, e)'
           /\ \A n \in Ids :
                 /\ n <= replay[c].boundary
                 /\ \A i \in Ahead(c) : i <= n => i \in Items(Chunk(c))
                 => Upto(k, n)'
<1>1. Shape /\ c # Null
    BY GatewayAssumption DEF GatewayInv
<1>2. /\ stream' = stream /\ trimmed' = trimmed /\ asked' = asked
      /\ Len(stream) \in Nat /\ DOMAIN stream = 1..Len(stream) /\ trimmed \in 0..Len(stream)
    BY <1>1, SameSets DEF Shape, RelayInv, RelayTypeOK
<1>3. replay[c].from \in Ids /\ replay[c].boundary \in Ids
    BY <1>1, ReplayRecord DEF Shape
<1>4. ASSUME NEW e \in Done(c) PROVE Told(k, e)'
  <2>1. CASE e \in replay[c].done
    <3>1. Told(k, e)
        BY <1>1, <2>1 DEF ReplayOK
    <3> QED BY <1>1, <3>1, ToldGrows
  <2>2. CASE e \in EventsOf(Out(c))
    <3>1. PICK i \in Items(Out(c)) : e = stream[i]
        BY <2>2 DEF EventsOf
    <3>2. Out(c) \in Seq(1..Len(stream))
        BY <1>1, ChunkFacts
    <3>3. i \in 1..Len(stream) /\ Event(i) \in Items(Frames(Out(c)))
        BY <3>1, <3>2, FramesFacts, SeqItems
    <3>4. Event(i) \in Items(wire'[c]) /\ Event(i).type = "event" /\ Event(i).cursor = i
        BY <3>3, SignalsSent
    <3>5. stream'[Event(i).cursor] = e
        BY <1>2, <3>1, <3>4
    <3> QED BY <3>4, <3>5 DEF Told
  <2> QED BY <2>1, <2>2 DEF Done
<1>5. ASSUME NEW n \in Ids, n <= replay[c].boundary,
             \A i \in Ahead(c) : i <= n => i \in Items(Chunk(c))
      PROVE  Upto(k, n)'
  <2>1. ASSUME NEW i \in Public, asked[c] < i, i <= n PROVE Told(k, stream[i])' \/ i <= trimmed
    <3>1. i \in 1..Len(stream) /\ TopicOf[stream[i]] = Everyone
        BY <1>2 DEF Public
    <3>2. CASE i <= replay[c].from
      <4>1. Told(k, stream[i]) \/ i <= trimmed
          BY <1>1, <2>1, <3>2 DEF ReplayOK, Upto
      <4>2. PICK e : e = stream[i]
          OBVIOUS
      <4>3. Told(k, e) => Told(k, e)'
          BY <1>1, ToldGrows
      <4>4. stream'[i] = e
          BY <1>2, <4>2
      <4> QED BY <4>1, <4>2, <4>3, <4>4 DEF Told
    <3>3. CASE ~(i <= replay[c].from) /\ ~(i <= trimmed)
      <4>1. i \in Ahead(c)
          BY <1>2, <1>3, <1>5, <2>1, <3>1, <3>3 DEF Ahead, Retained, Ids
      <4>2. i \in Items(Chunk(c)) /\ Authorized(c, i)
          BY <1>5, <2>1, <3>1, <4>1, PublicAuthorized
      <4>3. stream[i] \in Done(c)
          BY <1>1, <4>2, ChunkFacts
      <4>4. PICK e \in Done(c) : e = stream[i]
          BY <4>3
      <4>5. Told(k, e)' /\ stream'[i] = e
          BY <1>2, <1>4, <4>4
      <4> QED BY <4>5 DEF Told
    <3> QED BY <3>2, <3>3
  <2>2. Public' = Public
      BY <1>2 DEF Public
  <2> QED BY <1>2, <2>1, <2>2 DEF Upto
<1> QED BY <1>4, <1>5

\* Frames on the wire have positions of the stream.
LEMMA WireCursor ==
    ASSUME Shape, NEW c \in Conns, NEW m \in Items(wire[c]), m.type = "resumed"
    PROVE  m.cursor \in Ids
<1>1. wire[c] \in Seq(Sent)
    BY DEF Shape, ResumeShape
<1>2. m \in Sent
    BY <1>1, SeqItems
<1> QED BY <1>2 DEF Sent

LEMMA ReplayKept ==
    ASSUME GatewayInv, GatewayInv', NEW k \in Clients, ReplayOK(k), [Next]_vars
    PROVE  ReplayOK(k)'
<1>1. Shape /\ Handshake /\ Handshake' /\ Shape'
    BY DEF GatewayInv
<1>2. CASE conn'[k] = Null
    BY <1>2 DEF ReplayOK
<1>3. CASE conn'[k] # Null
  <2>1. PICK c \in Conns : conn'[k] = c
      BY <1>1, <1>3 DEF Shape, ClientShape
  <2>2. CASE asked'[c] = Null
    <3>1. replay'[c] = Null /\ \A m \in Items(wire'[c]) : m.type # "resumed"
        BY <1>1, <2>2 DEF Handshake, HandshakeOK
    <3> QED BY <2>1, <3>1 DEF ReplayOK
  <2>3. CASE asked'[c] # Null
    <3>1. conn[k] = c
      <4>1. ASSUME Connect(k, c) PROVE FALSE
        <5>1. Early(c) /\ asked'[c] = asked[c]
            BY <4>1 DEF Connect, Early, resume
        <5>2. asked[c] = Null
            BY <1>1, <5>1 DEF Handshake, HandshakeOK, Fresh
        <5> QED BY <2>3, <5>1, <5>2
      <4> QED BY <4>1, <1>1, <1>3, <2>1, ConnMoves
    <3>2. HandshakeOK(c) /\ c # Null /\ Used(c)
        BY <1>1, <3>1, GatewayAssumption DEF Handshake, Used
    <3>3. ASSUME asked'[c] = asked[c], NEW n \in Ids, Upto(k, n) PROVE Upto(k, n)'
        BY <2>1, <3>1, <3>2, <3>3, UptoKept
    <3>4. ASSUME asked'[c] = asked[c], NEW m \in Items(wire[c]), m.type = "resumed"
          PROVE  Upto(k, m.cursor)'
      <4>1. m.cursor \in Ids
          BY <1>1, <3>4, WireCursor
      <4>2. Upto(k, m.cursor)
          BY <3>1, <3>2, <3>4 DEF ReplayOK
      <4> QED BY <3>3, <3>4, <4>1, <4>2
    <3>5. ASSUME asked'[c] = asked[c], replay'[c] = replay[c], replay[c] # Null
          PROVE  (Upto(k, replay[c].from) /\ \A e \in replay[c].done : Told(k, e))'
      <4>1. replay[c].from \in Ids
          BY <1>1, <3>5, ReplayRecord DEF Shape
      <4>2. Upto(k, replay[c].from) /\ \A e \in replay[c].done : Told(k, e)
          BY <3>1, <3>2, <3>5 DEF ReplayOK
      <4>3. PICK n \in Ids : n = replay[c].from
          BY <4>1
      <4>4. Upto(k, n)'
          BY <3>3, <3>5, <4>2, <4>3
      <4>5. \A e \in replay[c].done : Told(k, e)'
          BY <2>1, <3>1, <3>2, <4>2, ToldGrows
      <4>6. replay'[c].from = n /\ replay'[c].done = replay[c].done
          BY <3>5, <4>3
      <4> QED BY <4>4, <4>5, <4>6 DEF Upto
    <3>6. CASE Quiet(c)
      <4>1. /\ asked'[c] = asked[c] /\ replay'[c] = replay[c]
            /\ \A m \in Items(wire'[c]) : m.type = "resumed" => m \in Items(wire[c])
          BY <3>6 DEF Quiet
      <4>2. \A m \in Items(wire'[c]) : m.type = "resumed" => Upto(k, m.cursor)'
          BY <3>4, <4>1
      <4> QED BY <2>1, <3>5, <4>1, <4>2 DEF ReplayOK
    <3>7. CASE Receive(k)
      <4>1. /\ asked' = asked /\ replay' = replay
            /\ Items(wire[c]) = {Head(wire[c])} \cup Items(Tail(wire[c]))
            /\ wire' = [wire EXCEPT ![c] = Tail(wire[c])]
          BY <1>1, <3>1, <3>7, ReceiveFacts DEF resume
      <4>2. Items(wire'[c]) \subseteq Items(wire[c])
          BY <1>1, <4>1 DEF Shape, ResumeShape
      <4>3. \A m \in Items(wire'[c]) : m.type = "resumed" => Upto(k, m.cursor)'
          BY <3>4, <4>1, <4>2
      <4> QED BY <2>1, <3>5, <4>1, <4>3 DEF ReplayOK
    <3>8. CASE ResumeBounds(c)
      <4>1. request[c] # <<>>
        <5>1. Len(<<>>) # 3
            OBVIOUS
        <5>2. Len(request[c]) = 3
            BY <3>8, BoundsFacts
        <5> QED BY <5>1, <5>2, Zenon
      <4>2. asked[c] = Null /\ \A m \in Items(wire[c]) : m.type # "resumed"
          BY <3>2, <4>1 DEF HandshakeOK
      <4>3. ~Lost(c)
          BY <1>1, <2>3, <3>8, BoundsAt DEF Shape
      <4>4. /\ replay'[c] = [from |-> request[c][1], boundary |-> request[c][2], done |-> {}]
            /\ asked'[c] = request[c][1] /\ wire'[c] = wire[c]
          BY <1>1, <3>8, <4>3, BoundsAt DEF Shape
      <4>5. replay'[c].from = asked'[c] /\ replay'[c].done = {}
          BY <4>4
      <4>6. Upto(k, replay[c].from)'
        <5>1. asked'[c] \in Nat
            BY <1>1, <2>3 DEF Shape, ResumeShape, Ids
        <5>2. Public' \subseteq Nat
            BY <1>1 DEF Public, Shape, RelayInv, RelayTypeOK
        <5>3. \A i \in Public' : ~(asked'[c] < i /\ i <= asked'[c])
            BY <5>1, <5>2
        <5> QED BY <2>1, <4>5, <5>3 DEF Upto
      <4> QED BY <2>1, <4>2, <4>4, <4>5, <4>6 DEF ReplayOK
    <3>9. ASSUME NEW done, NEW frames \in Seq(Sent), NEW answer \in Sent,
                 Finish(c, frames, done, answer), UNCHANGED asked,
                 \A m \in Items(frames) : m.type = "event",
                 answer.type = "resumed" => Upto(k, answer.cursor)'
          PROVE  ReplayOK(k)'
      <4>1. /\ \A m \in Items(wire'[c]) :
                  m \in Items(wire[c]) \/ m \in Items(frames) \/ m.type = "event" \/ m = answer
            /\ replay'[c] = Null
          BY <1>1, <3>9, FinishWire
      <4>2. \A m \in Items(wire'[c]) :
                m.type = "resumed" => m \in Items(wire[c]) \/ m = answer
          BY <3>9, <4>1
      <4>3. \A m \in Items(wire'[c]) : m.type = "resumed" => Upto(k, m.cursor)'
          BY <3>4, <3>9, <4>2
      <4> QED BY <2>1, <4>1, <4>3 DEF ReplayOK
    <3>10. CASE ReplayFails(c)
      <4>1. Finish(c, <<>>, replay[c].done, Signal("error", Null)) /\ UNCHANGED asked
          BY <3>10 DEF ReplayFails
      <4>2. <<>> \in Seq(Sent) /\ Items(<<>>) = {}
          BY DEF Items
      <4>3. Signal("error", Null) \in Sent /\ Signal("error", Null).type # "resumed"
          BY SignalsSent DEF Signal
      <4> QED BY <3>9, <4>1, <4>2, <4>3
    <3>11. CASE ReplayChunk(c)
      <4>1. replay[c] # Null /\ UNCHANGED <<rvars, asked>>
          BY <3>11, ReplayFacts
      <4>2. /\ Out(c) \in Seq(1..Len(stream)) /\ replay[c].boundary \in Ids
            /\ replay[c].from \in Ids
          BY <1>1, <4>1, ChunkFacts, ReplayRecord DEF Shape
      <4>3. Frames(Out(c)) \in Seq(Sent) /\ \A m \in Items(Frames(Out(c))) : m.type = "event"
          BY <4>2, FramesFacts, EventFrames
      <4>4. CASE Len(Chunk(c)) < ChunkSize
        <5>5. PICK n \in Ids : n = replay[c].boundary
            BY <4>2
        <5> DEFINE answer == Signal("resumed", n)
        <5>1. Finish(c, Frames(Out(c)), Done(c), answer)
            BY <3>11, <4>4, <5>5, ReplayFacts
        <5>2. answer \in Sent /\ answer.cursor = n
            BY SignalsSent
        <5> HIDE DEF answer
        <5>3. Items(Frames(Out(c))) \subseteq Items(wire'[c])
            BY <1>1, <3>2, <4>3, <5>1, <5>2, FinishWire
        <5>4. Ahead(c) \subseteq Items(Chunk(c))
            BY <1>1, <4>1, <4>4, ChunkFacts
        <5>6. n <= replay[c].boundary /\ \A i \in Ahead(c) : i <= n => i \in Items(Chunk(c))
            BY <5>4, <5>5 DEF Ids
        <5>7. Upto(k, n)'
            BY <2>1, <3>1, <4>1, <5>3, <5>6, ChunkTold
        <5>8. Upto(k, answer.cursor)'
            BY <5>2, <5>7
        <5> QED BY <3>9, <4>1, <4>3, <5>1, <5>2, <5>8
      <4>5. CASE ~(Len(Chunk(c)) < ChunkSize)
        <5> DEFINE last == Chunk(c)[Len(Chunk(c))]
                   r == [replay[c] EXCEPT !.from = last, !.done = Done(c)]
                   frames == Frames(Out(c))
        <5>1. /\ wire' = [wire EXCEPT ![c] = Push(c, frames)]
              /\ replay' = [replay EXCEPT ![c] = r]
            BY <3>11, <4>5, ReplayFacts
        <5>2. last \in Ahead(c) /\ \A i \in Ahead(c) : i <= last => i \in Items(Chunk(c))
            BY <1>1, <4>1, <4>5, ChunkFacts
        <5>3. r.from = last /\ r.done = Done(c)
            BY <1>1, <4>1, ReplayRecord DEF Shape, Replays
        <5> HIDE DEF last, r, frames
        <5>4. wire'[c] = Push(c, frames) /\ replay'[c] = r /\ wire[c] \in Seq(Sent)
            BY <1>1, <5>1 DEF Shape, ResumeShape
        <5>5. frames \in Seq(Sent) /\ \A m \in Items(frames) : m.type = "event"
            BY <4>3 DEF frames
        <5>6. /\ Items(frames) \subseteq Items(wire'[c])
              /\ Items(wire'[c]) \subseteq Items(wire[c]) \cup Items(frames)
            BY <3>2, <5>4, <5>5, PushFacts
        <5>7. last \in Ids /\ last <= replay[c].boundary
            BY <1>1, <5>2 DEF Ahead, Retained, Ids, Shape, RelayInv, RelayTypeOK
        <5>8. Items(Frames(Out(c))) \subseteq Items(wire'[c])
            BY <5>6 DEF frames
        <5>9. PICK n \in Ids : n = last
            BY <5>7
        <5>10. Upto(k, n)' /\ \A e \in Done(c) : Told(k, e)'
            BY <2>1, <3>1, <4>1, <5>2, <5>7, <5>8, <5>9, ChunkTold
        <5>11. replay'[c].from = n /\ replay'[c].done = Done(c)
            BY <5>3, <5>4, <5>9
        <5>12. (Upto(k, replay[c].from) /\ \A e \in replay[c].done : Told(k, e))'
            BY <5>10, <5>11 DEF Upto
        <5>13. \A m \in Items(wire'[c]) : m.type = "resumed" => Upto(k, m.cursor)'
            BY <3>4, <4>1, <5>5, <5>6
        <5> QED BY <2>1, <5>12, <5>13 DEF ReplayOK
      <4> QED BY <4>4, <4>5
    <3> QED BY <2>1, <3>1, <3>2, <3>6, <3>7, <3>8, <3>10, <3>11, QuietSteps
  <2> QED BY <2>2, <2>3
<1> QED BY <1>2, <1>3


\* What is buffered reaches the wire before the buffer is cleared.
LEMMA SafeKept ==
    ASSUME GatewayInv, NEW k \in Clients, ReplayOK(k), [Next]_vars, conn[k] # Null,
           conn'[k] = conn[k], NEW e, TopicOf[e] = Everyone, Safe(k, e)
    PROVE  Safe(k, e)'
<1>1. PICK c \in Conns : c = conn[k]
    BY OwnConn DEF GatewayInv
<1>2. Shape /\ HandshakeOK(c) /\ c # Null /\ Used(c)
    BY <1>1, GatewayAssumption DEF GatewayInv, Handshake, Used
<1>3. CASE Told(k, e)
    BY <1>3, ToldGrows DEF Safe
<1>4. CASE e \in EventsOf(buffer[c])
  <2>1. PICK i \in Items(buffer[c]) : e = stream[i]
      BY <1>4 DEF EventsOf
  <2>2. buffer[c] \in Seq(1..Len(stream))
      BY <1>2 DEF Shape, ResumeShape
  <2>3. i \in 1..Len(stream) /\ Authorized(c, i)
      BY <2>1, <2>2, SeqItems, PublicAuthorized
  <2>4. stream'[i] = e
    <3>1. RelayNext \/ UNCHANGED rvars
        BY NextRelays DEF RelaySteps
    <3>2. Grows
        BY <1>2, <3>1, RelayGrows DEF Shape
    <3> QED BY <2>1, <2>3, <3>2 DEF Grows
  <2>5. ASSUME i \in Items(buffer'[c]) PROVE Safe(k, e)'
      BY <1>1, <2>4, <2>5 DEF Safe, EventsOf
  <2>6. CASE Quiet(c)
      BY <2>5, <2>6, <2>1 DEF Quiet
  <2>7. CASE Receive(k)
      BY <1>2, <2>1, <2>5, <2>7, ReceiveFacts DEF resume
  <2>8. CASE ResumeBounds(c)
    <3>1. request[c] # <<>>
      <4>1. Len(<<>>) # 3
          OBVIOUS
      <4>2. Len(request[c]) = 3
          BY <2>8, BoundsFacts
      <4> QED BY <4>1, <4>2, Zenon
    <3>2. buffer[c] = <<>>
        BY <1>2, <3>1 DEF HandshakeOK
    <3> QED BY <2>1, <3>2 DEF Items
  <2>9. ASSUME NEW done, NEW frames \in Seq(Sent), NEW answer \in Sent,
               Finish(c, frames, done, answer), UNCHANGED rvars,
               e \in done => Told(k, e)'
        PROVE  Safe(k, e)'
    <3>1. Used(c) => \A j \in Items(Drained(c, done)) : Event(j) \in Items(wire'[c])
        BY <1>2, <2>9, FinishWire
    <3>2. /\ Drained(c, done) \in Seq(1..Len(stream))
          /\ \A j \in Items(buffer[c]) :
                Authorized(c, j) => stream[j] \in done \cup EventsOf(Drained(c, done))
      <4>1. buffer[c] \in Seq(1..Len(stream))
          BY <2>2
      <4> QED BY <4>1, DeliverableFacts DEF Drained
    <3>3. CASE e \in done
        BY <2>9, <3>3 DEF Safe
    <3>4. CASE e \notin done
      <4>1. PICK j \in Items(Drained(c, done)) : e = stream[j]
          BY <2>1, <2>3, <3>2, <3>4 DEF EventsOf
      <4>2. j \in 1..Len(stream)
          BY <3>2, <4>1, SeqItems
      <4>3. Event(j) \in Items(wire'[c]) /\ Event(j).type = "event" /\ Event(j).cursor = j
          BY <1>2, <3>1, <4>1, <4>2, SignalsSent
      <4>4. stream' = stream
          BY <2>9, SameSets
      <4> QED BY <1>1, <4>1, <4>3, <4>4 DEF Safe, Told
    <3> QED BY <3>3, <3>4
  <2>10. ASSUME replay[c] # Null, e \in replay[c].done PROVE Told(k, e)'
    <3>1. Told(k, e)
        BY <1>1, <1>2, <2>10 DEF ReplayOK
    <3> QED BY <3>1, ToldGrows
  <2>11. CASE ReplayFails(c)
    <3>1. /\ replay[c] # Null /\ UNCHANGED rvars
          /\ Finish(c, <<>>, replay[c].done, Signal("error", Null))
        BY <2>11 DEF ReplayFails
    <3>2. <<>> \in Seq(Sent) /\ Signal("error", Null) \in Sent
        BY SignalsSent
    <3>3. PICK done : done = replay[c].done
        OBVIOUS
    <3>4. Finish(c, <<>>, done, Signal("error", Null))
        BY <3>1, <3>3
    <3>5. e \in done => Told(k, e)'
        BY <2>10, <3>1, <3>3
    <3> QED BY <2>9, <3>1, <3>2, <3>4, <3>5
  <2>12. CASE ReplayChunk(c) /\ Len(Chunk(c)) < ChunkSize
    <3>0. /\ replay[c] # Null /\ UNCHANGED <<rvars, asked>>
          /\ Finish(c, Frames(Out(c)), Done(c), Signal("resumed", replay[c].boundary))
        BY <2>12, ReplayFacts
    <3>2. Out(c) \in Seq(1..Len(stream)) /\ replay[c].boundary \in Ids
        BY <1>2, <3>0, ChunkFacts, ReplayRecord DEF Shape
    <3>3. Frames(Out(c)) \in Seq(Sent) /\ Signal("resumed", replay[c].boundary) \in Sent
        BY <3>2, FramesFacts, SignalsSent
    <3>a. PICK answer \in Sent : answer = Signal("resumed", replay[c].boundary)
        BY <3>3
    <3>1. /\ replay[c] # Null /\ UNCHANGED <<rvars, asked>>
          /\ Finish(c, Frames(Out(c)), Done(c), answer)
        BY <3>0, <3>a
    <3>4. Items(Frames(Out(c))) \subseteq Items(wire'[c])
        BY <1>2, <3>1, <3>3, FinishWire
    <3>5. \A d \in Done(c) : Told(k, d)'
        BY <1>1, <3>1, <3>4, ChunkTold
    <3>6. PICK done : done = Done(c)
        OBVIOUS
    <3>7. Finish(c, Frames(Out(c)), done, answer)
        BY <3>1, <3>6
    <3>8. e \in done => Told(k, e)'
        BY <3>5, <3>6
    <3> QED BY <2>9, <3>1, <3>3, <3>7, <3>8
  <2>13. CASE ReplayChunk(c) /\ ~(Len(Chunk(c)) < ChunkSize)
    <3>1. buffer' = buffer
        BY <2>13, ReplayFacts
    <3> QED BY <2>1, <2>5, <3>1
  <2> QED BY <1>1, <2>6, <2>7, <2>8, <2>11, <2>12, <2>13, QuietSteps
<1> QED BY <1>1, <1>3, <1>4 DEF Safe

LEMMA RecentKept == ASSUME GatewayInv, RecentOK, [Next]_vars PROVE RecentOK'
<1>1. Shape
    BY DEF GatewayInv
<1>2. Grows
  <2>1. RelayNext \/ UNCHANGED rvars
      BY NextRelays DEF RelaySteps
  <2> QED BY <1>1, <2>1, RelayGrows DEF Shape
<1>3. heard \in Nat /\ heard <= Len(channel) /\ Len(channel) \in Nat
    BY <1>1, <1>2 DEF Shape, HubShape, Grows
<1>4. ASSUME NEW q \in 1..heard PROVE stream'[channel'[q]] = stream[channel[q]]
  <2>1. q \in 1..Len(channel)
      BY <1>3
  <2>2. channel[q] \in 1..Len(stream)
      BY <1>1, <2>1, HeardEntry
  <2> QED BY <1>2, <2>1, <2>2 DEF Grows
<1>5. ASSUME heard' \in Nat, heard <= heard', Items(recent') \subseteq Items(recent)
      PROVE  RecentOK'
    BY <1>3, <1>4, <1>5 DEF RecentOK
<1>6. CASE Hear
  <2> DEFINE i == channel[heard + 1]
  <2>1. /\ heard + 1 \in 1..Len(channel) /\ heard' = heard + 1
        /\ i \in 1..Len(stream) /\ stream[i] \in Events
        /\ recent' = recent \/ recent' = Remember(stream[i])
      BY <1>1, <1>6, HearFacts
  <2>2. Items(recent') \subseteq Items(recent) \cup {stream[i]}
      BY <1>1, <2>1, RememberFacts DEF Shape, HubShape
  <2>3. stream'[channel'[heard + 1]] = stream[i]
      BY <1>2, <2>1 DEF Grows
  <2> HIDE DEF i
  <2>4. ASSUME NEW e \in Items(recent') PROVE \E q \in 1..heard' : stream'[channel'[q]] = e
    <3>1. CASE e = stream[i]
      <4>1. heard + 1 \in 1..heard'
          BY <1>3, <2>1
      <4> QED BY <3>1, <4>1, <2>3
    <3>2. CASE e \in Items(recent)
      <4>1. PICK q \in 1..heard : stream[channel[q]] = e
          BY <3>2 DEF RecentOK
      <4>2. q \in 1..heard'
          BY <1>3, <2>1
      <4> QED BY <1>4, <4>1, <4>2
    <3> QED BY <2>2, <3>1, <3>2
  <2> QED BY <2>4 DEF RecentOK
<1>7. CASE SubscribeDone
  <2>1. heard' = Len(channel) /\ recent' = recent
      BY <1>7 DEF SubscribeDone
  <2> QED BY <1>3, <1>5, <2>1
<1>8. ASSUME NEW k \in Clients, NEW c \in Conns, Connect(k, c) PROVE RecentOK'
  <2>1. heard' = heard /\ (recent' = recent \/ recent' = <<>>)
      BY <1>8 DEF Connect
  <2>2. Items(<<>>) = {}
      BY DEF Items
  <2> QED BY <1>3, <1>5, <2>1, <2>2
<1>9. ASSUME NEW k \in Clients, Disconnect(k) PROVE RecentOK'
  <2>1. heard' = heard /\ (recent' = recent \/ recent' = <<>>)
      BY <1>9 DEF Disconnect
  <2>2. Items(<<>>) = {}
      BY DEF Items
  <2> QED BY <1>3, <1>5, <2>1, <2>2
<1>10. CASE UNCHANGED <<heard, recent>>
    BY <1>3, <1>5, <1>10
<1> QED BY <1>6, <1>7, <1>8, <1>9, <1>10
        DEF Next, vars, hub, ClientStep, Receive, SendResume, Refetched, Subscriber,
            UnsubscribeDone, SessionDone, HubStep, ReadBounds, ResumeBounds, ReplayChunk,
            ReplayFails, Reauthorize


\* An event that a listening connection has, or need not have, stays so.
LEMMA DutyKept ==
    ASSUME GatewayInv, NEW k \in Clients, ReplayOK(k), [Next]_vars, NEW c \in Conns,
           conn[k] = c, conn'[k] = c, since[c] # Null, since'[c] = since[c],
           NEW e, TopicOf[e] = Everyone, Before(c, e) \/ Safe(k, e)
    PROVE  (Before(c, e) \/ Safe(k, e))'
<1>1. Shape /\ ConnOK(c) /\ c # Null
    BY GatewayAssumption DEF GatewayInv, Registry
<1>2. Grows
  <2>1. RelayNext \/ UNCHANGED rvars
      BY NextRelays DEF RelaySteps
  <2> QED BY <1>1, <2>1, RelayGrows DEF Shape
<1>3. CASE Before(c, e)
  <2>1. PICK q \in 1..since[c] : stream[channel[q]] = e
      BY <1>3 DEF Before
  <2>2. q \in 1..Len(channel)
    <3>1. since[c] \in Nat /\ heard \in Nat /\ heard <= Len(channel) /\ Len(channel) \in Nat
        BY <1>1, <1>2 DEF Shape, HubShape, SessionShape, Grows
    <3>2. since[c] <= heard
        BY <1>1 DEF ConnOK
    <3> QED BY <2>1, <3>1, <3>2
  <2>3. channel[q] \in 1..Len(stream)
      BY <1>1, <2>2, HeardEntry
  <2>4. stream'[channel'[q]] = e
      BY <1>2, <2>1, <2>2, <2>3 DEF Grows
  <2> QED BY <2>1, <2>4 DEF Before
<1>4. CASE Safe(k, e)
    BY <1>1, <1>4, SafeKept
<1> QED BY <1>3, <1>4

\* A step but Hear makes no connection listen to what was said before.
LEMMA ListensOn ==
    ASSUME GatewayInv, [Next]_vars, NEW k \in Clients, NEW c \in Conns, conn'[k] = c,
           gen'[c] = current', NEW p \in HeardBy(c)'
    PROVE  /\ conn[k] = c /\ gen[c] = current /\ since[c] # Null /\ since'[c] = since[c]
           /\ \/ p \in HeardBy(c)
              \/ Hear /\ p = heard + 1
<1>1. /\ Shape /\ ConnOK(c) /\ c # Null /\ heard \in Nat /\ since[c] \in Nat \cup {Null}
      /\ conn \in [Clients -> Conns \cup {Null}] /\ since \in [Conns -> Nat \cup {Null}]
      /\ gen \in [Conns -> Conns \cup {Null}]
    BY GatewayAssumption DEF GatewayInv, Registry, Shape, HubShape, SessionShape, ClientShape
<1>2. since'[c] # Null /\ p \in (since'[c] + 1)..heard'
    BY DEF HeardBy
<1>3. since[c] # Null => at[c] # "free" /\ gen[c] # Null
    BY <1>1 DEF ConnOK
<1>4. ASSUME UNCHANGED <<heard, since, gen, current, conn>>
      PROVE  /\ conn[k] = c /\ gen[c] = current /\ since[c] # Null /\ since'[c] = since[c]
             /\ p \in HeardBy(c)
    BY <1>2, <1>4 DEF HeardBy
<1>5. ASSUME NEW l \in Clients, NEW d \in Conns, Connect(l, d)
      PROVE  /\ conn[k] = c /\ gen[c] = current /\ since[c] # Null /\ since'[c] = since[c]
             /\ p \in HeardBy(c)
  <2>1. /\ conn[l] = Null /\ at[d] = "free" /\ conn' = [conn EXCEPT ![l] = d]
        /\ gen' = [gen EXCEPT ![d] = current'] /\ heard' = heard
        /\ \/ current' = d /\ since' = since
           \/ /\ current' = current
              /\ since' = [since EXCEPT ![d] = IF Listening THEN heard ELSE Null]
      BY <1>5 DEF Connect
  <2>2. ConnOK(d)
      BY DEF GatewayInv, Registry
  <2>3. CASE d = c
    <3>1. since[c] = Null
        BY <2>1, <2>2, <2>3 DEF ConnOK
    <3>2. since'[c] = heard
        BY <1>1, <1>2, <2>1, <2>3, <3>1
    <3> QED BY <1>1, <1>2, <2>1, <3>2
  <2>4. CASE d # c
    <3>1. conn[k] = c /\ gen'[c] = gen[c] /\ since'[c] = since[c]
        BY <1>1, <2>1, <2>4
    <3>2. gen[c] # d
        BY <2>1, <2>2 DEF ConnOK
    <3>3. gen[c] = current
        BY <2>1, <3>1, <3>2
    <3> QED BY <1>2, <2>1, <3>1, <3>3 DEF HeardBy
  <2> QED BY <2>3, <2>4
<1>6. ASSUME NEW l \in Clients, Disconnect(l)
      PROVE  /\ conn[k] = c /\ gen[c] = current /\ since[c] # Null /\ since'[c] = since[c]
             /\ p \in HeardBy(c)
  <2>1. /\ conn' = [conn EXCEPT ![l] = Null] /\ UNCHANGED <<heard, gen, since>>
        /\ current' = current \/ current' = Null
      BY <1>6 DEF Disconnect
  <2>2. conn[k] = c
      BY <1>1, <2>1
  <2>3. gen[c] = current
      BY <1>2, <1>3, <2>1
  <2> QED BY <1>2, <2>1, <2>2, <2>3 DEF HeardBy
<1>7. CASE SubscribeDone
  <2>1. /\ commands # <<>> /\ Head(commands).cmd = "subscribe" /\ UNCHANGED <<gen, current, conn>>
        /\ since'[c] = since[c] \/ since'[c] = heard'
      BY <1>7 DEF SubscribeDone, client
  <2>2. ~Listening
    <3>1. ~(Head(commands).cmd = "session")
        BY <2>1
    <3> QED BY <1>1, <2>1, <3>1, FirstCommand
  <2>3. since[c] = Null
      BY <1>1, <2>1, <2>2 DEF ConnOK
  <2>4. since'[c] = heard' /\ heard' \in Nat
    <3>1. Len(channel) \in Nat
        BY <1>1 DEF Shape, RelayInv, RelayTypeOK
    <3>2. heard' = Len(channel)
        BY <1>7 DEF SubscribeDone
    <3> QED BY <1>2, <2>1, <2>3, <3>1, <3>2
  <2>5. p \in (heard' + 1)..heard'
      BY <1>2, <2>4
  <2>6. \A n \in Nat : (n + 1)..n = {}
      OBVIOUS
  <2> QED BY <2>4, <2>5, <2>6
<1>8. CASE Hear
  <2>1. heard' = heard + 1 /\ UNCHANGED <<since, gen, current, conn>>
      BY <1>8 DEF Hear, session, client
  <2>2. since[c] \in Nat /\ since'[c] = since[c]
      BY <1>1, <1>2, <2>1
  <2>3. p = heard + 1 \/ p \in (since[c] + 1)..heard
      BY <1>1, <1>2, <2>1, <2>2
  <2> QED BY <1>2, <1>8, <2>1, <2>3 DEF HeardBy
<1> QED BY <1>4, <1>5, <1>6, <1>7, <1>8
        DEF Next, vars, hub, session, client, ClientStep, Receive, SendResume, Refetched,
            Subscriber, UnsubscribeDone, SessionDone, HubStep, ReadBounds, ResumeBounds,
            ReplayChunk, ReplayFails, Reauthorize

LEMMA HandoffKept ==
    ASSUME GatewayInv, RecentOK, NEW k \in Clients, ReplayOK(k), HandoffOK(k), [Next]_vars
    PROVE  HandoffOK(k)'
<1>1. Shape /\ Grows
  <2>1. RelayNext \/ UNCHANGED rvars
      BY NextRelays DEF RelaySteps
  <2> QED BY <2>1, RelayGrows DEF GatewayInv, Shape
<1> SUFFICES ASSUME NEW c \in Conns, conn'[k] = c, gen'[c] = current', NEW p \in HeardBy(c)',
                    NEW e, e = stream'[channel'[p]], TopicOf[e] = Everyone
             PROVE  (Before(c, e) \/ Safe(k, e))'
  <2>1. conn'[k] # Null => conn'[k] \in Conns
    <3>1. conn' \in [Clients -> Conns \cup {Null}]
      <4>1. Shape'
          BY ShapeStep DEF GatewayInv
      <4> QED BY <4>1 DEF Shape, ClientShape
    <3> QED BY <3>1
  <2> QED BY <2>1 DEF HandoffOK
<1>2. /\ conn[k] = c /\ gen[c] = current /\ since[c] # Null /\ since'[c] = since[c]
      /\ p \in HeardBy(c) \/ (Hear /\ p = heard + 1)
    BY ListensOn
<1>3. /\ ConnOK(c) /\ c # Null /\ HandshakeOK(c) /\ Used(c)
      /\ since[c] \in Nat /\ heard \in Nat /\ heard <= Len(channel) /\ Len(channel) \in Nat
    BY <1>1, <1>2, GatewayAssumption
       DEF GatewayInv, Registry, Handshake, Used, Shape, HubShape, SessionShape, Grows
<1>4. ASSUME Before(c, e) \/ Safe(k, e) PROVE (Before(c, e) \/ Safe(k, e))'
    BY <1>2, <1>4, DutyKept
<1>5. CASE p \in HeardBy(c)
  <2>1. p \in 1..Len(channel)
      BY <1>2, <1>3, <1>5 DEF HeardBy
  <2>2. channel[p] \in 1..Len(stream)
      BY <1>1, <2>1, HeardEntry
  <2>3. e = stream[channel[p]]
      BY <1>1, <2>1, <2>2 DEF Grows
  <2>4. Before(c, e) \/ Safe(k, e)
      BY <1>2, <1>3, <1>5, <2>3 DEF HandoffOK
  <2> QED BY <1>4, <2>4
<1>6. CASE Hear /\ p = heard + 1
  <2>1. PICK i : i = channel[heard + 1]
      OBVIOUS
  <2> DEFINE fresh == Members # {} /\ stream[i] \notin Items(recent)
  <2>2. /\ heard + 1 \in 1..Len(channel) /\ i \in 1..Len(stream)
        /\ fresh /\ c \in Members /\ replay[c] # Null => buffer'[c] = Append(buffer[c], i)
        /\ fresh /\ c \in Members /\ replay[c] = Null =>
              wire'[c] = Push(c, <<IF Authorized(c, i) THEN Event(i) ELSE Heartbeat(i)>>)
      BY <1>1, <1>6, <2>1, HearFacts
  <2>3. e = stream[i] /\ stream' = stream
    <3>1. stream' = stream /\ channel' = channel
        BY <1>6, SameSets DEF Hear
    <3> QED BY <1>6, <2>1, <3>1
  <2>4. c \in Members
    <3>1. at[c] \in {"joined", "open"}
        BY <1>1, <1>2, <1>3 DEF ConnOK, Shape, SessionShape
    <3> QED BY <1>2, <3>1 DEF Members
  <2>5. CASE fresh /\ replay[c] # Null
    <3>1. buffer[c] \in Seq(1..Len(stream))
        BY <1>1 DEF Shape, ResumeShape
    <3>2. i \in Items(buffer'[c])
      <4>1. Items(Append(buffer[c], i)) = Items(buffer[c]) \cup {i}
          BY <2>2, <3>1, ItemsAppend
      <4> QED BY <2>2, <2>4, <2>5, <4>1
    <3> QED BY <2>3, <3>2 DEF Safe, EventsOf
  <2>6. CASE fresh /\ replay[c] = Null
    <3>1. Authorized(c, i)
        BY <2>3, PublicAuthorized
    <3> DEFINE frames == <<Event(i)>>
    <3>2. Event(i) \in Sent /\ Event(i).type = "event" /\ Event(i).cursor = i
        BY <2>2, SignalsSent
    <3>3. wire'[c] = Push(c, frames)
        BY <2>2, <2>4, <2>6, <3>1
    <3>4. frames \in Seq(Sent) /\ Items(frames) = {Event(i)}
        BY <3>2, OneFrame
    <3> HIDE DEF frames
    <3>5. wire[c] \in Seq(Sent)
        BY <1>1 DEF Shape, ResumeShape
    <3>6. Event(i) \in Items(wire'[c])
        BY <1>3, <3>3, <3>4, <3>5, PushFacts
    <3> QED BY <2>3, <3>2, <3>6 DEF Safe, Told
  <2>7. CASE ~fresh
    <3>1. e \in Items(recent)
        BY <2>3, <2>4, <2>7
    <3>2. PICK q \in 1..heard : stream[channel[q]] = e
        BY <3>1 DEF RecentOK
    <3>3. CASE q \in 1..since[c]
        BY <3>2, <3>3, <1>4 DEF Before
    <3>4. CASE q \notin 1..since[c]
      <4>1. q \in HeardBy(c)
          BY <1>2, <1>3, <3>2, <3>4 DEF HeardBy
      <4>2. Before(c, e) \/ Safe(k, e)
          BY <1>2, <1>3, <3>2, <4>1 DEF HandoffOK
      <4> QED BY <1>4, <4>2
    <3> QED BY <3>3, <3>4
  <2> QED BY <2>5, <2>6, <2>7
<1> QED BY <1>2, <1>5, <1>6


(* The inductive invariant of the hand-over: the gateway's, and what every  *)
(* client was told, is being sent, or has waiting for it in the buffer.     *)
HandoverInv == GatewayInv /\ Coverage

LEMMA HandoverInit == Init => HandoverInv
<1> SUFFICES ASSUME Init PROVE HandoverInv
    OBVIOUS
<1>1. recent = <<>> /\ \A k \in Clients : conn[k] = Null
    BY DEF Init
<1>2. Items(recent) = {}
    BY <1>1 DEF Items
<1> QED BY <1>1, <1>2, GatewayInvInit DEF HandoverInv, Coverage, RecentOK, ReplayOK, HandoffOK

LEMMA HandoverStep == HandoverInv /\ [Next]_vars => HandoverInv'
<1> SUFFICES ASSUME HandoverInv, [Next]_vars PROVE HandoverInv'
    OBVIOUS
<1>1. GatewayInv /\ GatewayInv' /\ RecentOK
    BY GatewayInvStep DEF HandoverInv, Coverage
<1>2. RecentOK'
    BY <1>1, RecentKept
<1>3. ASSUME NEW k \in Clients PROVE ReplayOK(k)' /\ HandoffOK(k)'
  <2>1. ReplayOK(k) /\ HandoffOK(k)
      BY DEF HandoverInv, Coverage
  <2> QED BY <1>1, <2>1, ReplayKept, HandoffKept
<1> QED BY <1>1, <1>2, <1>3 DEF HandoverInv, Coverage

(* A resumed answer stands for a complete replay, whatever the chunk size,  *)
(* the interleaved live events, the scope changes and the duplicates        *)
(* (replayThenHandoff and deliverOnce, hub.ts).                             *)
THEOREM ReplayHolds == Spec => []ReplayIsComplete
<1>1. HandoverInv => ReplayIsComplete
  <2> SUFFICES ASSUME HandoverInv, NEW k \in Clients, conn[k] # Null,
                      NEW j \in DOMAIN wire[conn[k]], wire[conn[k]][j].type = "resumed",
                      NEW i \in Public, asked[conn[k]] < i, i <= wire[conn[k]][j].cursor
               PROVE  Covered(k, i) \/ i <= trimmed
      BY DEF ReplayIsComplete
  <2>1. wire[conn[k]][j] \in Items(wire[conn[k]])
      BY DEF Items
  <2>2. Upto(k, wire[conn[k]][j].cursor)
      BY <2>1 DEF HandoverInv, Coverage, ReplayOK
  <2> QED BY <2>2 DEF Upto, Told, Covered
<1> QED BY <1>1, HandoverInit, HandoverStep, PTL DEF Spec

(* The hand-over from replay to live delivery leaves no gap, whatever stage *)
(* a resume is in and whoever else connects, leaves or fails (deliverLive   *)
(* and replayThenHandoff, hub.ts).                                          *)
THEOREM HandoffHolds == Spec => []HandoffLeavesNoGap
<1>1. HandoverInv => HandoffLeavesNoGap
  <2> SUFFICES ASSUME HandoverInv, NEW k \in Clients, conn[k] # Null,
                      NEW p \in HeardBy(conn[k]), channel[p] \in Public,
                      \A q \in 1..since[conn[k]] : stream[channel[q]] # stream[channel[p]]
               PROVE  Covered(k, channel[p]) \/ stream[channel[p]] \in EventsOf(buffer[conn[k]])
      BY DEF HandoffLeavesNoGap
  <2>1. gen[conn[k]] = current
    <3>1. /\ conn[k] \in Conns /\ ConnOK(conn[k]) /\ InTheSet
          /\ at \in [Conns -> {"free", "joining", "joined", "open", "closed"}]
        BY DEF HandoverInv, GatewayInv, Shape, SessionShape, ClientShape, Registry, Registration
    <3>2. at[conn[k]] \notin {"free", "closed"}
        BY <3>1 DEF ConnOK
    <3> QED BY <3>1, <3>2 DEF InTheSet
  <2>2. Before(conn[k], stream[channel[p]]) \/ Safe(k, stream[channel[p]])
      BY <2>1 DEF HandoverInv, Coverage, HandoffOK, Public
  <2> QED BY <2>2 DEF Before, Safe, Told, Covered
<1> QED BY <1>1, HandoverInit, HandoverStep, PTL DEF Spec

=============================================================================
