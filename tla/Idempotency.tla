------------------------------ MODULE Idempotency ------------------------------
(***************************************************************************)
(* The idempotency store of the API (apps/api/src/common/idempotency): the *)
(* requests that carry one key, that is one (tenant, scope, principal,     *)
(* key), and the row of idempotency_key they compete for.                  *)
(*                                                                         *)
(* A request claims the row, runs its handler, and stores its response;    *)
(* the handler's own transactions are not those of the store.  A claim is  *)
(* a lease: it can be taken over once it is stale, and a row vanishes once *)
(* it has expired, although the owner may still be running.  A request     *)
(* claims at most once, so its name stands for its claim token.            *)
(***************************************************************************)
EXTENDS Integers

CONSTANTS
    Requests,   \* requests that carry the key
    HashOf,     \* fingerprint of a request
    Nothing,
    MaxFailures   \* bound: crashes, failures of the store, partial failures

Steps == {"acquiring", "finding", "reclaiming", "handling",
          "storing", "releasing", "over"}

\* Responses other than the value that an execution has returned.
Refusals == {"reused", "inProgress", "unavailable", "error", "lost"}

\* A row of idempotency_key: its owner's claim, the response that is stored in
\* it, and what the clock says of lockedAt and expiresAt.
Row == [owner : Requests, hash : {HashOf[r] : r \in Requests},
        status : {"PENDING", "DONE"}, snapshot : Requests \cup {Nothing},
        stale : BOOLEAN, expired : BOOLEAN]

ASSUME IdempotencyAssumption ==
    /\ MaxFailures \in Nat
    /\ Nothing \notin Requests \cup Refusals \cup Row
    /\ Requests \cap Refusals = {}

VARIABLES
    row,        \* the row of the key, or Nothing
    place,         \* where a request is in the interceptor
    seen,       \* the claim it has found stale, while it takes it over
    late,       \* its deadline has passed, while it waits
    answer,     \* what the interceptor answers: a refusal, or whose result
    executed,   \* requests whose handler has committed changes
    lapsed,     \* requests whose lease has become stale or has expired
    failures

storeVars == <<row, place, seen, late, answer, executed, lapsed, failures>>

StoreInit ==
    /\ row = Nothing
    /\ place = [r \in Requests |-> "acquiring"]
    /\ seen = [r \in Requests |-> Nothing]
    /\ late = [r \in Requests |-> FALSE]
    /\ answer = [r \in Requests |-> Nothing]
    /\ executed = {}
    /\ lapsed = {}
    /\ failures = 0

-----------------------------------------------------------------------------

Waiting == {"acquiring", "finding", "reclaiming"}

\* The next step of r.  What it knows while it waits goes out of scope.
MoveTo(r, step) ==
    /\ place' = [place EXCEPT ![r] = step]
    /\ seen' = [seen EXCEPT ![r] = Nothing]
    /\ late' = [late EXCEPT ![r] = step \in Waiting /\ @]
    /\ UNCHANGED answer

\* The execution of r ends with a response.
Respond(r, value) ==
    /\ place' = [place EXCEPT ![r] = "over"]
    /\ seen' = [seen EXCEPT ![r] = Nothing]
    /\ late' = [late EXCEPT ![r] = FALSE]
    /\ answer' = [answer EXCEPT ![r] = value]

Fault ==
    /\ failures < MaxFailures
    /\ failures' = failures + 1

\* A claim of r that has just been made.
Claim(r) == [owner |-> r, hash |-> HashOf[r], status |-> "PENDING",
             snapshot |-> Nothing, stale |-> FALSE, expired |-> FALSE]

\* There is no row, or none that counts.
Gone == row # Nothing => row.expired

\* The condition that guards every update by an owner.
Owns(r) == row # Nothing /\ row.owner = r /\ row.status = "PENDING"

\* Date.now() passes the deadline of resolve().
DeadlinePasses(r) ==
    /\ place[r] \in Waiting /\ ~late[r]
    /\ late' = [late EXCEPT ![r] = TRUE]
    /\ UNCHANGED <<row, place, seen, answer, executed, lapsed, failures>>

\* Defect: the deadline is not checked while the claim is in progress.
InProgressForEver(r) == MoveTo(r, "acquiring")

\* in_progress, retry: wait and try again, or give up at the deadline.
InProgress(r) ==
    IF late[r] THEN Respond(r, "inProgress") ELSE MoveTo(r, "acquiring")

\* acquire, its first two statements: delete the row if it has expired, and
\* insert a claim unless there is one.  now() is the begin of the transaction,
\* so a row that has only just expired may be left.
Insert(r) ==
    /\ place[r] = "acquiring"
    /\ \/ /\ Gone
          /\ row' = Claim(r)
          /\ MoveTo(r, "handling")
       \/ /\ row # Nothing
          /\ MoveTo(r, "finding")
          /\ UNCHANGED row
    /\ UNCHANGED <<executed, lapsed, failures>>

\* The row that acquire reads when there was one.  It may be gone again.
Find(r) ==
    /\ place[r] = "finding"
    /\ \/ /\ Gone
          /\ InProgress(r)
       \/ /\ row # Nothing /\ row.hash # HashOf[r]
          /\ Respond(r, "reused")
       \/ /\ row # Nothing /\ row.hash = HashOf[r] /\ row.status = "DONE"
          /\ Respond(r, IF row.snapshot = Nothing THEN "unavailable"
                        ELSE row.snapshot)
       \/ /\ row # Nothing /\ row.hash = HashOf[r] /\ row.status = "PENDING"
          /\ InProgress(r)
       \/ /\ row # Nothing /\ row.hash = HashOf[r] /\ row.status = "PENDING"
          /\ row.stale
          /\ place' = [place EXCEPT ![r] = "reclaiming"]
          /\ seen' = [seen EXCEPT ![r] = row.owner]
          /\ UNCHANGED <<late, answer>>
    /\ UNCHANGED <<row, executed, lapsed, failures>>

\* The UPDATE that takes over exactly the claim that was found stale.
Reclaim(r) ==
    /\ place[r] = "reclaiming"
    /\ IF Owns(seen[r]) THEN row' = Claim(r) /\ MoveTo(r, "handling")
       ELSE UNCHANGED row /\ InProgress(r)
    /\ UNCHANGED <<executed, lapsed, failures>>

\* The handler commits and returns its value.
HandlerReturns(r) ==
    /\ place[r] = "handling"
    /\ executed' = executed \cup {r}
    /\ MoveTo(r, "storing")
    /\ UNCHANGED <<row, lapsed, failures>>

\* The handler throws and has committed nothing.
HandlerThrows(r) ==
    /\ place[r] = "handling"
    /\ MoveTo(r, "releasing")
    /\ UNCHANGED <<row, executed, lapsed, failures>>

\* The handler throws after a first transaction of it has committed, like
\* createAsyncAttemptForBranchScoped when the provider does not answer.
HandlerThrowsLate(r) ==
    /\ place[r] = "handling" /\ Fault
    /\ executed' = executed \cup {r}
    /\ MoveTo(r, "releasing")
    /\ UNCHANGED <<row, lapsed>>

\* Defect: the response is stored whoever owns the row.
StoreUnowned(r) ==
    /\ place[r] = "storing"
    /\ \E kept \in BOOLEAN :
          row' = IF row # Nothing
                 THEN [row EXCEPT !.status = "DONE",
                                  !.snapshot = IF kept THEN r ELSE Nothing]
                 ELSE row
    /\ Respond(r, r)
    /\ UNCHANGED <<executed, lapsed, failures>>

\* onSuccess, markDone.  A response that is too large or cannot be serialised
\* is not kept.
Store(r) ==
    /\ place[r] = "storing"
    /\ \E kept \in BOOLEAN :
          row' = IF Owns(r)
                 THEN [row EXCEPT !.status = "DONE",
                                  !.snapshot = IF kept THEN r ELSE Nothing]
                 ELSE row
    /\ Respond(r, r)
    /\ UNCHANGED <<executed, lapsed, failures>>

\* All attempts of markDone fail; the client gets its result all the same.
StoreFails(r) ==
    /\ place[r] = "storing" /\ Fault
    /\ Respond(r, r)
    /\ UNCHANGED <<row, executed, lapsed>>

\* Defect: a row is released whoever owns it.
ReleaseUnowned(r) ==
    /\ place[r] = "releasing"
    /\ row' = Nothing
    /\ Respond(r, "error")
    /\ UNCHANGED <<executed, lapsed, failures>>

\* release: a failed request frees the key.
Release(r) ==
    /\ place[r] = "releasing"
    /\ row' = IF Owns(r) THEN Nothing ELSE row
    /\ Respond(r, "error")
    /\ UNCHANGED <<executed, lapsed, failures>>

\* The release fails, which is ignored.
ReleaseFails(r) ==
    /\ place[r] = "releasing" /\ Fault
    /\ Respond(r, "error")
    /\ UNCHANGED <<row, executed, lapsed>>

\* The process dies, or the store fails in acquire.  Dying after the last
\* statement to the store is not told apart from having answered.
Crash(r) ==
    /\ place[r] # "over" /\ Fault
    /\ Respond(r, "lost")
    /\ UNCHANGED <<row, executed, lapsed>>

-----------------------------------------------------------------------------
(* Time, and the sweep of expired rows. *)

LeaseGoesStale ==
    /\ row # Nothing /\ row.status = "PENDING" /\ ~row.stale
    /\ row' = [row EXCEPT !.stale = TRUE]
    /\ lapsed' = lapsed \cup {row.owner}
    /\ UNCHANGED <<place, seen, late, answer, executed, failures>>

RowExpires ==
    /\ row # Nothing /\ ~row.expired
    /\ row' = [row EXCEPT !.expired = TRUE]
    /\ lapsed' = lapsed \cup {row.owner}
    /\ UNCHANGED <<place, seen, late, answer, executed, failures>>

\* sweepExpired, which an operator or a scheduler may call at any time.
Sweep ==
    /\ row # Nothing /\ row.expired
    /\ row' = Nothing
    /\ UNCHANGED <<place, seen, late, answer, executed, lapsed, failures>>

Interceptor(r) ==
    \/ Insert(r) \/ Find(r) \/ Reclaim(r)
    \/ HandlerReturns(r) \/ HandlerThrows(r) \/ Store(r) \/ Release(r)

Failure(r) ==
    HandlerThrowsLate(r) \/ StoreFails(r) \/ ReleaseFails(r) \/ Crash(r)

StoreNext ==
    \/ \E r \in Requests :
          DeadlinePasses(r) \/ Interceptor(r) \/ Failure(r)
    \/ LeaseGoesStale \/ RowExpires \/ Sweep

StoreSpec == StoreInit /\ [][StoreNext]_storeVars

\* The store answers, handlers end, and a deadline comes.
FairStoreSpec ==
    /\ StoreSpec
    /\ \A r \in Requests :
          WF_storeVars(Interceptor(r)) /\ WF_storeVars(DeadlinePasses(r))

-----------------------------------------------------------------------------
(* Properties. *)

\* Every variable has its type.
StoreTypeOK ==
    /\ row \in Row \cup {Nothing}
    /\ place \in [Requests -> Steps]
    /\ seen \in [Requests -> Requests \cup {Nothing}]
    /\ late \in [Requests -> BOOLEAN]
    /\ answer \in [Requests -> Requests \cup Refusals \cup {Nothing}]
    /\ executed \subseteq Requests
    /\ lapsed \subseteq Requests
    /\ failures \in 0..MaxFailures

\* Executions whose successor has an excuse: their lease has run out, or they
\* have ended with an error.
Excused ==
    lapsed \cup {r \in Requests : place[r] = "releasing" \/ answer[r] = "error"}

\* The handler has its effect once among all requests of a key, whatever waits,
\* is retried, or takes over a stale claim, except after a lapsed lease or an
\* error: an owner that has lost its claim never ends the claim of another.
OnceUnlessExcused == \A r, q \in executed \ Excused : r = q

\* A request is only ever answered by a value that an execution of the very
\* same request has computed and committed.
AnswersAreGenuine ==
    \A r \in Requests :
        answer[r] \in Requests =>
            answer[r] \in executed /\ HashOf[answer[r]] = HashOf[r]

\* A stored response stays what it is until it expires, though owners of
\* earlier claims may still finish after it was stored.
StoredAnswerIsFinal ==
    [][row # Nothing /\ row.status = "DONE" /\ ~row.expired =>
          /\ row' # Nothing
          /\ row'.status = "DONE" /\ row'.owner = row.owner
          /\ row'.snapshot = row.snapshot]_storeVars

\* The wait for the owner is bounded: no request spins or waits for ever,
\* whatever becomes of the owner and however often the row comes and goes
\* (resolve, "hard-bounded by IDEMPOTENCY_WAIT_MS").
WaitsEnd == \A r \in Requests : place[r] = "acquiring" ~> place[r] = "over"
=============================================================================
