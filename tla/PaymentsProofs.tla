--------------------------- MODULE PaymentsProofs ---------------------------
(***************************************************************************)
(* Proofs about the payment modules.  First Payments, for any number of    *)
(* keys, executions and inbox processors, any amounts and any bounds: sums *)
(* of amounts are the cardinalities of sets of minor units, so that the    *)
(* theorems on finite sets apply to them.  Then Idempotency, the store the *)
(* payment commands are dispatched through, for any number of requests     *)
(* under a key, any fingerprints and any number of failures.  The two      *)
(* specifications share no variable.                                       *)
(***************************************************************************)
EXTENDS Payments, Idempotency, FiniteSetTheorems, TLAPS

\* An execution that calls the provider has an attempt; an answer it holds is
\* no capture, and if it is a refusal then the intent is and stays refused.
CallerOK(c) ==
    /\ pc[c] \in {"calling", "applying"} => Found(c)
    /\ pc[c] = "applying" =>
          /\ outcome[c] \in States \ {"CAPTURED"}
          /\ outcome[c] \in Released => intent[KeyOf[c]] \in Released

\* The provider has intents for attempts only, and never revives one.
ProviderOK(k) ==
    /\ intent[k] # None => attempt[k] # None
    /\ intent[k] = None => reached[k] = {}
    /\ reached[k] \cap Released # {} => intent[k] \in Released

\* A genuine event that waits in the inbox reports a state of the intent.
InboxOK(e) ==
    inbox[e] = "RECEIVED" /\ e.genuine => e.target \in reached[e.key]

\* An attempt is released only when its intent is.
AttemptOK(k) ==
    attempt[k] # None /\ attempt[k].state \in Released =>
        intent[k] \in Released

Shape ==
    /\ TypeOK
    /\ \A c \in Callers : CallerOK(c)
    /\ \A k \in Keys : ProviderOK(k) /\ AttemptOK(k)
    /\ \A e \in Events : InboxOK(e)

IInv == Shape /\ OnePaymentPerCapture /\ NeverOvercovered /\ NeverPromisedTwice

-----------------------------------------------------------------------------
\* The minor units of the attempts in S, where a has their rows.
Units(S, a) == UNION {{k} \X (1..a[k].amount) : k \in S}

\* Finitely many attempts have finitely many units.
LEMMA UnitsFinite ==
    ASSUME NEW S, IsFiniteSet(S), NEW a, \A k \in S : a[k].amount \in Nat
    PROVE  IsFiniteSet(Units(S, a)) /\ Cardinality(Units(S, a)) \in Nat
<1> DEFINE Of == [k \in S |-> {k} \X (1..a[k].amount)]
           Parts == {{k} \X (1..a[k].amount) : k \in S}
<1>1. Of \in Surjection(S, Parts)
    BY DEF Surjection
<1>2. IsFiniteSet(Parts)
    BY <1>1, FS_Surjection
<1>3. ASSUME NEW T \in Parts PROVE IsFiniteSet(T)
    <2>1. PICK k \in S : T = {k} \X (1..a[k].amount)
        OBVIOUS
    <2>2. IsFiniteSet({k})
        BY FS_Singleton
    <2>3. a[k].amount \in Int
        OBVIOUS
    <2>4. IsFiniteSet(1..a[k].amount)
        BY <2>3, FS_Interval
    <2> QED BY <2>1, <2>2, <2>4, FS_Product
<1>4. IsFiniteSet(UNION Parts)
    BY <1>2, <1>3, FS_UNION
<1> QED BY <1>4, FS_CardinalityType DEF Units

\* Fewer attempts have no more units.
LEMMA UnitsMonotonic ==
    ASSUME NEW T, IsFiniteSet(T), NEW S \in SUBSET T,
           NEW a, \A k \in T : a[k].amount \in Nat
    PROVE  Cardinality(Units(S, a)) <= Cardinality(Units(T, a))
<1>1. Units(S, a) \subseteq Units(T, a)
    BY DEF Units
<1> QED BY <1>1, UnitsFinite, FS_Subset

\* One more attempt adds its amount.
LEMMA UnitsAdd ==
    ASSUME NEW S, IsFiniteSet(S), NEW k, k \notin S,
           NEW a, \A h \in S \cup {k} : a[h].amount \in Nat
    PROVE  Cardinality(Units(S \cup {k}, a)) =
               Cardinality(Units(S, a)) + a[k].amount
<1> DEFINE mine == {k} \X (1..a[k].amount)
<1>1. Units(S \cup {k}, a) = Units(S, a) \cup mine
    BY DEF Units
<1>2. Units(S, a) \cap mine = {}
    BY DEF Units
<1>3. IsFiniteSet(mine) /\ Cardinality(mine) = a[k].amount
    <2> DEFINE n == a[k].amount
    <2> n \in Nat
        OBVIOUS
    <2> HIDE DEF n
    <2>1. IsFiniteSet({k}) /\ Cardinality({k}) = 1
        BY FS_Singleton
    <2>2. IsFiniteSet(1..n) /\ Cardinality(1..n) = n
        BY FS_Interval
    <2>3. /\ IsFiniteSet({k} \X (1..n))
          /\ Cardinality({k} \X (1..n)) = Cardinality({k}) * Cardinality(1..n)
        BY <2>1, <2>2, FS_Product
    <2>4. Cardinality({k} \X (1..n)) = n
        BY <2>1, <2>2, <2>3
    <2> QED BY <2>3, <2>4 DEF n
<1>4. IsFiniteSet(Units(S, a)) /\ Cardinality(Units(S, a)) \in Nat
    BY UnitsFinite
<1>5. Cardinality(Units(S, a) \cup mine) =
          Cardinality(Units(S, a)) + Cardinality(mine)
              - Cardinality(Units(S, a) \cap mine)
    BY <1>3, <1>4, FS_Union
<1>6. Cardinality(Units(S, a) \cap mine) = 0
    BY <1>2, FS_EmptySet
<1>7. a[k].amount \in Nat
    OBVIOUS
<1>8. Cardinality(Units(S \cup {k}, a)) = Cardinality(Units(S, a) \cup mine)
    BY <1>1
<1> DEFINE u == Cardinality(Units(S, a))
<1> HIDE DEF mine, u
<1>9. u + a[k].amount - 0 = u + a[k].amount
    BY <1>4, <1>7 DEF u
<1> QED BY <1>3, <1>5, <1>6, <1>8, <1>9 DEF u

\* Units depend on the amounts only.
LEMMA UnitsFramed ==
    ASSUME NEW S, NEW a, NEW b, \A k \in S : a[k].amount = b[k].amount
    PROVE  Units(S, a) = Units(S, b)
BY DEF Units

-----------------------------------------------------------------------------
\* The initial state.
LEMMA ShapeInit == Init => Shape
<1> SUFFICES ASSUME Init PROVE Shape
    OBVIOUS
<1>1. TypeOK
    <2>1. /\ runs \in 0..MaxRuns /\ faults \in 0..MaxFaults
          /\ reached \in [Keys -> SUBSET States]
        BY PaymentsAssumption DEF Init
    <2> QED BY <2>1 DEF Init, TypeOK
<1>2. (\A c \in Callers : CallerOK(c)) /\ (\A e \in Events : InboxOK(e))
    BY PaymentsAssumption DEF Init, CallerOK, InboxOK, Events
<1>3. \A k \in Keys : ProviderOK(k) /\ AttemptOK(k)
    BY DEF Init, ProviderOK, AttemptOK
<1> QED BY <1>1, <1>2, <1>3 DEF Shape

\* What the attempts, and so every sum over them, are made of.
LEMMA SumType ==
    ASSUME TypeOK, NEW S \in SUBSET Attempts
    PROVE  SumOf(S) \in Nat
<1>1. IsFiniteSet(S)
    BY PaymentsAssumption, FS_Subset DEF Attempts
<1>2. \A k \in S : attempt[k].amount \in Nat
    BY DEF TypeOK, Attempts, AttemptRow
<1> QED BY <1>1, <1>2, UnitsFinite DEF SumOf, Units

\* The amounts of the balance are numbers.
LEMMA BalanceType ==
    ASSUME TypeOK
    PROVE  /\ Reserved \in Nat /\ Covered \in Nat
           /\ Outstanding \in Int /\ Available \in Nat
<1>1. Reserved \in Nat
    BY SumType DEF Reserved, Reserving
<1>2. Covered \in Nat
    BY DEF TypeOK, Covered
<1>3. Outstanding \in Int
    BY <1>2, PaymentsAssumption DEF TypeOK, Outstanding
<1>4. Available \in Nat
    BY <1>1, <1>3 DEF Available
<1> QED BY <1>1, <1>2, <1>3, <1>4

\* An amount that is collected is available, what is available outstanding.
LEMMA AvailableBound ==
    ASSUME TypeOK, NEW n \in Nat \ {0}, n <= Available
    PROVE  n + Reserved <= Outstanding
BY BalanceType DEF Available

-----------------------------------------------------------------------------
(* Every action preserves Shape. *)

\* A transaction that only moves amounts of the balance.
LEMMA BalanceShape ==
    ASSUME Shape, UNCHANGED <<attempt, inbox, caller, provider>>, TypeOK'
    PROVE  Shape'
BY DEF Shape, CallerOK, Found, ProviderOK, AttemptOK, InboxOK, caller, provider

\* The writers of the balance.
LEMMA PayShape ==
    ASSUME Shape, NEW n \in Amounts,
           PayDirectly(n) \/ Receive(n) \/ ApplyAdvance(n)
    PROVE  Shape'
<1>1. n \in Nat
    BY PaymentsAssumption DEF Amounts
<1>2. TypeOK'
    BY <1>1 DEF Shape, TypeOK, PayDirectly, Receive, ApplyAdvance, caller,
                provider, bounds
<1>3. UNCHANGED <<attempt, inbox, caller, provider>>
    BY DEF PayDirectly, Receive, ApplyAdvance
<1> QED BY <1>2, <1>3, BalanceShape

\* The credit note is not negative because the invoice is not overcovered.
LEMMA CancelShape ==
    ASSUME Shape, NeverOvercovered, CancelOrder
    PROVE  Shape'
<1>1. credited' \in Nat
    BY BalanceType, PaymentsAssumption
       DEF Shape, TypeOK, NeverOvercovered, CancelOrder
<1>2. TypeOK'
    BY <1>1 DEF Shape, TypeOK, CancelOrder, caller, provider, bounds
<1>3. UNCHANGED <<attempt, inbox, caller, provider>>
    BY DEF CancelOrder
<1> QED BY <1>2, <1>3, BalanceShape

\* Steps of an execution before its reservation, and its crash.
LEMMA ReuseShape ==
    ASSUME Shape, NEW c \in Callers,
           Discover(c) \/ LookUp(c) \/ CrashCaller(c)
    PROVE  Shape'
<1>1. UNCHANGED <<attempt, inbox, provider>>
    BY DEF Discover, LookUp, CrashCaller
<1>2. /\ \/ pc' = [pc EXCEPT ![c] = "idle"]
         \/ pc' = [pc EXCEPT ![c] = "configured"]
         \/ pc' = [pc EXCEPT ![c] = "locking"]
         \/ pc' = [pc EXCEPT ![c] = "calling"] /\ Found(c)
      /\ outcome' = [outcome EXCEPT ![c] = None] \/ outcome' = outcome
    BY Zenon DEF Discover, LookUp, CrashCaller, Reuse, Finish, GoTo
<1>3. runs' \in 0..MaxRuns /\ faults' \in 0..MaxFaults
    BY PaymentsAssumption
       DEF Shape, TypeOK, Discover, LookUp, CrashCaller, bounds
<1>4. TypeOK'
    BY <1>1, <1>2, <1>3
       DEF Shape, TypeOK, Discover, LookUp, CrashCaller, balance, provider
<1>5. \A d \in Callers : CallerOK(d)'
    BY <1>1, <1>2 DEF Shape, TypeOK, CallerOK, Found, provider
<1> QED BY <1>1, <1>4, <1>5
       DEF Shape, ProviderOK, AttemptOK, InboxOK, provider

\* The reservation inserts a row or leaves the one of the key alone.
LEMMA ReserveShape ==
    ASSUME Shape, NEW c \in Callers, Reserve(c)
    PROVE  Shape'
<1> DEFINE k == KeyOf[c]
           new == [amount |-> AmountOf[c], state |-> "PENDING",
                   fresh |-> ~cancelled]
<1>1. k \in Keys /\ new \in AttemptRow /\ new # None
    <2>1. k \in Keys /\ AmountOf[c] \in Nat \ {0}
        BY PaymentsAssumption
    <2>2. (~cancelled) \in BOOLEAN /\ "PENDING" \in States
        BY DEF States, Active
    <2>3. new \in AttemptRow
        BY <2>1, <2>2, Zenon DEF AttemptRow
    <2> QED BY <2>1, <2>3, PaymentsAssumption
<1>2. UNCHANGED <<balance, paid, inbox, handling, provider, bounds>>
    BY DEF Reserve
<1>3. \/ attempt' = attempt /\ pc' = [pc EXCEPT ![c] = "idle"]
      \/ attempt' = attempt /\ Found(c) /\ pc' = [pc EXCEPT ![c] = "calling"]
      \/ /\ attempt[k] = None /\ attempt' = [attempt EXCEPT ![k] = new]
         /\ pc' = [pc EXCEPT ![c] = "calling"]
    BY DEF Reserve, Reuse, Finish, GoTo, Found
<1>4. outcome' = [outcome EXCEPT ![c] = None] \/ outcome' = outcome
    BY DEF Reserve, Reuse, Finish, GoTo
<1>5. TypeOK'
    BY <1>1, <1>2, <1>3, <1>4
       DEF Shape, TypeOK, balance, provider, bounds
<1>6. \A d \in Callers : CallerOK(d)'
    BY <1>1, <1>2, <1>3, <1>4, PaymentsAssumption
       DEF Shape, TypeOK, CallerOK, Found, provider
<1>7. \A h \in Keys : ProviderOK(h)' /\ AttemptOK(h)'
    BY <1>1, <1>2, <1>3
       DEF Shape, TypeOK, ProviderOK, AttemptOK, Released, provider
<1> QED BY <1>2, <1>5, <1>6, <1>7 DEF Shape, InboxOK, provider

\* What a call leaves at the provider: an intent of the attempt, as it was if
\* there was one.
LEMMA IntendedOK ==
    ASSUME Shape, NEW k \in Keys, attempt[k] # None,
           NEW s \in ProviderStates, Intended(k, s)
    PROVE  /\ intent' \in [Keys -> {None} \cup States]
           /\ reached' \in [Keys -> SUBSET States]
           /\ intent'[k] = s
           /\ \A h \in Keys : intent[h] # None =>
                 intent'[h] = intent[h] /\ reached'[h] = reached[h]
           /\ \A h \in Keys :
                 /\ intent'[h] # None => attempt[h] # None
                 /\ intent'[h] = None => reached'[h] = {}
                 /\ reached'[h] \cap Released # {} => intent'[h] \in Released
<1>1. s \in States /\ s # None
    BY PaymentsAssumption
<1>2. CASE intent[k] = None
    BY <1>1, <1>2 DEF Intended, Shape, TypeOK, ProviderOK
<1>3. CASE intent[k] # None
    BY <1>1, <1>3 DEF Intended, Shape, TypeOK, ProviderOK, provider
<1> QED BY <1>2, <1>3

\* The call and its failure.
LEMMA CallShape ==
    ASSUME Shape, NEW c \in Callers, CallProvider(c) \/ CallFails(c)
    PROVE  Shape'
<1> DEFINE k == KeyOf[c]
<1>1. k \in Keys /\ attempt[k] # None
    BY PaymentsAssumption
       DEF Shape, CallerOK, Found, CallProvider, CallFails
<1>2. UNCHANGED <<balance, attempt, paid, inbox, handling, runs>>
    BY DEF CallProvider, CallFails, bounds
<1>3. PICK s \in ProviderStates \cup {None} :
         /\ s = None => UNCHANGED provider
         /\ s # None => Intended(k, s)
         /\ \/ /\ pc' = [pc EXCEPT ![c] = "idle"]
               /\ outcome' = [outcome EXCEPT ![c] = None]
            \/ /\ s \notin {None, "CAPTURED"}
               /\ pc' = [pc EXCEPT ![c] = "applying"]
               /\ outcome' = [outcome EXCEPT ![c] = s]
    <2>1. CASE CallProvider(c)
        BY <2>1, PaymentsAssumption DEF CallProvider, Finish
    <2>2. CASE CallFails(c)
        BY <2>2, PaymentsAssumption DEF CallFails, Finish
    <2> QED BY <2>1, <2>2
<1>4. faults' \in 0..MaxFaults
    BY PaymentsAssumption
       DEF Shape, TypeOK, CallProvider, CallFails, bounds
<1>5. /\ intent' \in [Keys -> {None} \cup States]
      /\ reached' \in [Keys -> SUBSET States]
      /\ s # None => intent'[k] = s
      /\ \A h \in Keys : intent[h] # None =>
            intent'[h] = intent[h] /\ reached'[h] = reached[h]
      /\ \A h \in Keys :
            /\ intent'[h] # None => attempt[h] # None
            /\ intent'[h] = None => reached'[h] = {}
            /\ reached'[h] \cap Released # {} => intent'[h] \in Released
    <2>1. CASE s = None
        BY <1>3, <2>1 DEF Shape, TypeOK, ProviderOK, provider
    <2>2. CASE s # None
        BY <1>1, <1>3, <2>2, IntendedOK
    <2> QED BY <2>1, <2>2
<1>6. s # None => s \in States
    BY PaymentsAssumption
<1>7. pc' \in [Callers -> {"idle", "configured", "locking", "calling",
                           "applying"}]
    BY <1>3 DEF Shape, TypeOK
<1>8. outcome' \in [Callers -> {None} \cup States]
    BY <1>3, <1>6 DEF Shape, TypeOK
<1>9. TypeOK'
    BY <1>2, <1>4, <1>5, <1>7, <1>8 DEF Shape, TypeOK, balance
<1>10. None \notin Released
    BY PaymentsAssumption DEF States
<1>11. \A d \in Callers : CallerOK(d)'
    <2> SUFFICES ASSUME NEW d \in Callers PROVE CallerOK(d)'
        OBVIOUS
    <2>1. KeyOf[d] \in Keys
        BY PaymentsAssumption
    <2>2. CASE d = c
        BY <1>1, <1>2, <1>3, <1>5, <1>6, <2>1, <2>2
           DEF Shape, TypeOK, CallerOK, Found
    <2>3. CASE d # c
        BY <1>2, <1>3, <1>5, <1>10, <2>1, <2>3
           DEF Shape, TypeOK, CallerOK, Found
    <2> QED BY <2>2, <2>3
<1>12. \A h \in Keys : ProviderOK(h)' /\ AttemptOK(h)'
    BY <1>2, <1>5, <1>10 DEF Shape, ProviderOK, AttemptOK
<1>13. \A e \in Events : InboxOK(e)'
    BY <1>2, <1>5 DEF Shape, InboxOK, ProviderOK, Events
<1> QED BY <1>9, <1>11, <1>12, <1>13 DEF Shape

\* The result of the call reaches the attempt only along the transitions.
LEMMA ApplyShape ==
    ASSUME Shape, NEW c \in Callers, ApplyInitiation(c)
    PROVE  Shape'
<1> DEFINE k == KeyOf[c]
<1>1. /\ k \in Keys /\ attempt[k] \in AttemptRow
      /\ outcome[c] \in States
      /\ outcome[c] \in Released => intent[k] \in Released
    BY PaymentsAssumption
       DEF Shape, TypeOK, CallerOK, Found, ApplyInitiation
<1>2. /\ UNCHANGED <<balance, paid, inbox, handling, provider, bounds>>
      /\ pc' = [pc EXCEPT ![c] = "idle"]
      /\ outcome' = [outcome EXCEPT ![c] = None]
    BY DEF ApplyInitiation, Finish
<1>3. \/ attempt' = attempt
      \/ attempt' = [attempt EXCEPT ![k].state = outcome[c]]
    BY DEF ApplyInitiation
<1>4. \A h \in Keys :
         /\ attempt'[h] = None <=> attempt[h] = None
         /\ attempt'[h] \in {None} \cup AttemptRow
         /\ \/ attempt'[h] = attempt[h]
            \/ h = k /\ attempt'[h].state = outcome[c]
    BY <1>1, <1>3, PaymentsAssumption DEF Shape, TypeOK, AttemptRow
<1>5. attempt' \in [Keys -> {None} \cup AttemptRow]
    BY <1>3, <1>4 DEF Shape, TypeOK
<1>6. TypeOK'
    BY <1>2, <1>5 DEF Shape, TypeOK, balance, provider, bounds
<1>7. \A d \in Callers : CallerOK(d)'
    BY <1>2, <1>4, PaymentsAssumption
       DEF Shape, TypeOK, CallerOK, Found, provider
<1>8. \A h \in Keys : ProviderOK(h)' /\ AttemptOK(h)'
    BY <1>1, <1>2, <1>4 DEF Shape, ProviderOK, AttemptOK, provider
<1> QED BY <1>2, <1>6, <1>7, <1>8 DEF Shape, InboxOK, provider

\* The provider moves an intent it has not refused.
LEMMA ProviderShape ==
    ASSUME Shape, NEW k \in Keys, ProviderMoves(k)
    PROVE  Shape'
<1>1. UNCHANGED <<balance, attempt, paid, inbox, caller, handling, bounds>>
    BY DEF ProviderMoves
<1>2. PICK s \in ProviderStates :
         /\ CanTransition(intent[k], s)
         /\ intent' = [intent EXCEPT ![k] = s]
         /\ reached' = [reached EXCEPT ![k] = @ \cup {s}]
    BY DEF ProviderMoves
<1>3. s \in States /\ intent[k] # None /\ intent[k] \notin Released
    BY <1>2, PaymentsAssumption DEF ProviderMoves, CanTransition, Released
<1>4. TypeOK'
    BY <1>1, <1>2, <1>3 DEF Shape, TypeOK, balance, caller, bounds
<1>5. \A c \in Callers : CallerOK(c)'
    BY <1>1, <1>2, <1>3, PaymentsAssumption
       DEF Shape, TypeOK, CallerOK, Found, caller
<1>6. \A h \in Keys : ProviderOK(h)' /\ AttemptOK(h)'
    <2>1. s # None
        BY <1>3, PaymentsAssumption
    <2> QED BY <1>1, <1>2, <1>3, <2>1
               DEF Shape, TypeOK, ProviderOK, AttemptOK
<1>7. \A e \in Events : InboxOK(e)'
    BY <1>1, <1>2 DEF Shape, TypeOK, InboxOK, Events
<1> QED BY <1>4, <1>5, <1>6, <1>7 DEF Shape

\* The inbox row of a delivery, the reading and the failure of a processor.
LEMMA InboxShape ==
    ASSUME Shape,
           \E e \in Events :
                 DeliverWebhook(e) \/ PeekEvent(e) \/ ProcessFails(e)
    PROVE  Shape'
<1>1. UNCHANGED <<balance, attempt, paid, caller, provider, runs>>
    BY DEF DeliverWebhook, PeekEvent, ProcessFails, bounds
<1>2. \A e \in Events :
         inbox'[e] = inbox[e] \/ (inbox'[e] = "RECEIVED" /\ Sent(e))
    BY DEF Shape, TypeOK, DeliverWebhook, PeekEvent, ProcessFails
<1>3. inbox' \in [Events -> {None, "RECEIVED"} \cup Verdicts]
    BY DEF Shape, TypeOK, DeliverWebhook, PeekEvent, ProcessFails
<1>4. handling' \in [Events -> Nat]
    BY DEF Shape, TypeOK, DeliverWebhook, PeekEvent, ProcessFails
<1>5. faults' \in 0..MaxFaults
    BY PaymentsAssumption
       DEF Shape, TypeOK, DeliverWebhook, PeekEvent, ProcessFails, bounds
<1>6. TypeOK'
    BY <1>1, <1>3, <1>4, <1>5 DEF Shape, TypeOK, balance, caller, provider
<1>7. \A e \in Events : InboxOK(e)'
    BY <1>1, <1>2 DEF Shape, InboxOK, Sent, provider
<1> QED BY <1>1, <1>6, <1>7
       DEF Shape, CallerOK, Found, ProviderOK, AttemptOK, caller, provider

\* What processing an event can change: it stamps the event and moves the
\* attempt of a genuine one, to CAPTURED with a payment or to another state.
LEMMA ProcessCases ==
    ASSUME Shape, NEW e \in Events, ProcessEvent(e)
    PROVE  LET k == e.key
           IN  /\ UNCHANGED <<direct, received, advanced, credited, cancelled,
                              caller, provider, bounds>>
               /\ handling' = [handling EXCEPT ![e] = @ - 1] /\ handling[e] > 0
               /\ \/ UNCHANGED inbox
                  \/ /\ inbox[e] = "RECEIVED"
                     /\ \E v \in Verdicts : inbox' = [inbox EXCEPT ![e] = v]
               /\ \/ UNCHANGED <<attempt, paid, captured>>
                  \/ /\ inbox[e] = "RECEIVED" /\ e.genuine
                     /\ k \in Attempts /\ e.target = "CAPTURED"
                     /\ attempt[k].state \in Active
                     /\ Demand(k) <= Outstanding
                     /\ attempt' = [attempt EXCEPT ![k].state = "CAPTURED"]
                     /\ paid' = [paid EXCEPT ![k] = @ + 1]
                     /\ captured' = captured + attempt[k].amount
                  \/ /\ inbox[e] = "RECEIVED" /\ e.genuine
                     /\ k \in Attempts /\ e.target # "CAPTURED"
                     /\ CanTransition(attempt[k].state, e.target)
                     /\ attempt' = [attempt EXCEPT ![k].state = e.target]
                     /\ UNCHANGED <<paid, captured>>
<1>1. e \in Events
    BY DEF Shape, TypeOK, ProcessEvent
<1>2. e.key \in Keys
    BY <1>1 DEF Events
<1>3. ASSUME inbox[e] = "RECEIVED", e.genuine PROVE e.key \in Attempts
    BY <1>1, <1>2, <1>3 DEF Shape, InboxOK, ProviderOK, Attempts
<1>4. CASE inbox[e] # "RECEIVED"
    BY <1>1, <1>4 DEF ProcessEvent
<1>5. CASE inbox[e] = "RECEIVED" /\ UNCHANGED <<attempt, paid, captured>>
    BY <1>1, <1>5
       DEF ProcessEvent, Refuse, Finalize, ApplyCapture, ApplyTransition,
           Verdicts, Reasons
<1>6. CASE /\ inbox[e] = "RECEIVED" /\ e.genuine
           /\ e.target = "CAPTURED" /\ ApplyCapture(e)
    BY <1>1, <1>3, <1>6
       DEF ProcessEvent, Refuse, Finalize, ApplyCapture, Verdicts, Reasons
<1>7. CASE /\ inbox[e] = "RECEIVED" /\ e.genuine
           /\ e.target # "CAPTURED" /\ ApplyTransition(e)
    BY <1>1, <1>3, <1>7
       DEF ProcessEvent, Finalize, ApplyTransition, Verdicts, Reasons
<1> QED BY <1>4, <1>5, <1>6, <1>7 DEF ProcessEvent, Refuse

\* A processed event leaves a released attempt only where its intent is.
LEMMA ProcessShape ==
    ASSUME Shape, NEW e \in Events, ProcessEvent(e)
    PROVE  Shape'
<1> DEFINE k == e.key
<1>1. /\ e \in Events /\ k \in Keys /\ e.target \in States
      /\ UNCHANGED <<direct, received, advanced, credited, cancelled,
                     caller, provider, bounds>>
      /\ handling' = [handling EXCEPT ![e] = @ - 1] /\ handling[e] > 0
    BY ProcessCases, PaymentsAssumption DEF Events
<1>2. \/ UNCHANGED inbox
      \/ \E v \in Verdicts : inbox' = [inbox EXCEPT ![e] = v]
    BY ProcessCases
<1>3. \/ UNCHANGED <<attempt, paid, captured>>
      \/ /\ attempt[k] \in AttemptRow
         /\ attempt' = [attempt EXCEPT ![k].state = "CAPTURED"]
         /\ paid' = [paid EXCEPT ![k] = @ + 1]
         /\ captured' = captured + attempt[k].amount
      \/ /\ attempt[k] \in AttemptRow
         /\ e.target \in reached[k]
         /\ attempt' = [attempt EXCEPT ![k].state = e.target]
         /\ UNCHANGED <<paid, captured>>
    BY <1>1, ProcessCases DEF Shape, TypeOK, Attempts, InboxOK
<1>4. inbox' \in [Events -> {None, "RECEIVED"} \cup Verdicts]
    BY <1>1, <1>2 DEF Shape, TypeOK
<1>5. handling' \in [Events -> Nat]
    BY <1>1 DEF Shape, TypeOK
<1>6. captured' \in Nat /\ paid' \in [Keys -> Nat]
    BY <1>1, <1>3 DEF Shape, TypeOK, AttemptRow
<1>7. \A h \in Keys :
         /\ attempt'[h] = None <=> attempt[h] = None
         /\ attempt'[h] \in {None} \cup AttemptRow
         /\ \/ attempt'[h] = attempt[h]
            \/ h = k /\ attempt'[h].state = "CAPTURED"
            \/ h = k /\ attempt'[h].state = e.target /\ e.target \in reached[k]
    <2>1. None \notin AttemptRow /\ "CAPTURED" \in States
        BY PaymentsAssumption DEF States
    <2>2. attempt \in [Keys -> {None} \cup AttemptRow]
        BY DEF Shape, TypeOK
    <2>3. CASE attempt' = attempt
        BY <2>2, <2>3
    <2>4. ASSUME NEW s \in States, attempt[k] \in AttemptRow,
                 attempt' = [attempt EXCEPT ![k].state = s]
          PROVE  /\ attempt'[k] \in AttemptRow /\ attempt'[k].state = s
                 /\ \A h \in Keys : h # k => attempt'[h] = attempt[h]
        BY <1>1, <2>2, <2>4 DEF AttemptRow
    <2> QED BY <1>1, <1>3, <2>1, <2>2, <2>3, <2>4
<1>8. attempt' \in [Keys -> {None} \cup AttemptRow]
    BY <1>3, <1>7 DEF Shape, TypeOK
<1>9. TypeOK'
    BY <1>1, <1>4, <1>5, <1>6, <1>8
       DEF Shape, TypeOK, caller, provider, bounds
<1>10. \A c \in Callers : CallerOK(c)'
    BY <1>1, <1>7, PaymentsAssumption
       DEF Shape, CallerOK, Found, caller, provider
<1>11. \A h \in Keys : ProviderOK(h)' /\ AttemptOK(h)'
    <2>1. "CAPTURED" \notin Released
        BY DEF Released
    <2> QED BY <1>1, <1>7, <2>1 DEF Shape, ProviderOK, AttemptOK, provider
<1>12. \A f \in Events : InboxOK(f)'
    <2>1. "RECEIVED" \notin Verdicts
        BY DEF Verdicts, Reasons
    <2> QED BY <1>1, <1>2, <2>1 DEF Shape, TypeOK, InboxOK, provider
<1> QED BY <1>9, <1>10, <1>11, <1>12 DEF Shape

\* Nothing changes.
LEMMA StutterShape ==
    ASSUME Shape, UNCHANGED vars
    PROVE  Shape'
<1>1. TypeOK'
    BY DEF Shape, TypeOK, vars, balance, caller, provider, bounds
<1> QED BY <1>1, BalanceShape DEF vars

\* Shape is inductive as long as the invoice is not overcovered.
LEMMA ShapeStep ==
    ASSUME Shape, NeverOvercovered, [Next]_vars
    PROVE  Shape'
<1>1. ASSUME NEW n \in Amounts, PayDirectly(n) \/ Receive(n) \/ ApplyAdvance(n)
      PROVE  Shape'
    BY <1>1, PayShape
<1>2. CASE CancelOrder
    BY <1>2, CancelShape
<1>3. ASSUME NEW c \in Callers,
             \/ Discover(c) \/ LookUp(c) \/ Reserve(c) \/ CallProvider(c)
             \/ CallFails(c) \/ ApplyInitiation(c) \/ CrashCaller(c)
      PROVE  Shape'
    BY <1>3, ReuseShape, ReserveShape, CallShape, ApplyShape
<1>4. ASSUME NEW k \in Keys, ProviderMoves(k) PROVE Shape'
    BY <1>4, ProviderShape
<1>5. CASE \E e \in Events :
                 DeliverWebhook(e) \/ PeekEvent(e) \/ ProcessFails(e)
    BY <1>5, InboxShape
<1>6. ASSUME NEW e \in Events, ProcessEvent(e) PROVE Shape'
    BY <1>6, ProcessShape
<1>7. CASE UNCHANGED vars
    BY <1>7, StutterShape
<1> QED BY <1>1, <1>2, <1>3, <1>4, <1>5, <1>6, <1>7 DEF Next

-----------------------------------------------------------------------------
(* The steps that matter for the money, and what they do to its sums. *)

\* A reservation that inserts its attempt.
Reserves(c) ==
    /\ KeyOf[c] \notin Attempts
    /\ AmountOf[c] <= Available
    /\ attempt' = [attempt EXCEPT ![KeyOf[c]] =
          [amount |-> AmountOf[c], state |-> "PENDING", fresh |-> ~cancelled]]
    /\ UNCHANGED <<balance, paid>>

\* A transition other than a capture, by an initiation result or an event.
Moves(k, s) ==
    /\ k \in Attempts
    /\ CanTransition(attempt[k].state, s)
    /\ attempt' = [attempt EXCEPT ![k].state = s]
    /\ UNCHANGED <<balance, paid>>

\* A capture.
Captures(k) ==
    /\ k \in Attempts /\ attempt[k].state \in Active
    /\ Demand(k) <= Outstanding
    /\ attempt' = [attempt EXCEPT ![k].state = "CAPTURED"]
    /\ paid' = [paid EXCEPT ![k] = @ + 1]
    /\ captured' = captured + attempt[k].amount
    /\ UNCHANGED <<direct, received, advanced, credited, cancelled>>

\* No other step touches the balance, the attempts or their payments.
LEMMA MoneyCases ==
    ASSUME Shape, [Next]_vars
    PROVE  \/ \E n \in Amounts : PayDirectly(n) \/ Receive(n) \/ ApplyAdvance(n)
           \/ CancelOrder
           \/ UNCHANGED <<balance, attempt, paid>>
           \/ \E c \in Callers : Reserves(c)
           \/ \E k \in Keys, s \in States \ {"CAPTURED"} : Moves(k, s)
           \/ \E k \in Keys : Captures(k)
<1>1. ASSUME NEW c \in Callers,
             Discover(c) \/ LookUp(c) \/ CallProvider(c) \/ CallFails(c)
                 \/ CrashCaller(c)
      PROVE  UNCHANGED <<balance, attempt, paid>>
    BY <1>1 DEF Discover, LookUp, CallProvider, CallFails, CrashCaller
<1>2. ASSUME NEW c \in Callers, Reserve(c)
      PROVE  UNCHANGED <<balance, attempt, paid>> \/ Reserves(c)
    <2>1. AmountOf[c] \in Nat /\ Available \in Nat /\ KeyOf[c] \in Keys
        BY BalanceType, PaymentsAssumption DEF Shape
    <2> QED BY <1>2, <2>1 DEF Reserve, Reserves, Found, Attempts
<1>3. ASSUME NEW c \in Callers, ApplyInitiation(c)
      PROVE  \/ UNCHANGED <<balance, attempt, paid>>
             \/ /\ KeyOf[c] \in Keys /\ outcome[c] \in States \ {"CAPTURED"}
                /\ Moves(KeyOf[c], outcome[c])
    BY <1>3, PaymentsAssumption
       DEF ApplyInitiation, Moves, Attempts, Shape, CallerOK, Found
<1>4. ASSUME NEW k \in Keys, ProviderMoves(k)
      PROVE  UNCHANGED <<balance, attempt, paid>>
    BY <1>4 DEF ProviderMoves
<1>5. ASSUME NEW e \in Events,
             DeliverWebhook(e) \/ PeekEvent(e)
      PROVE  UNCHANGED <<balance, attempt, paid>>
    BY <1>5 DEF DeliverWebhook, PeekEvent
<1>6. ASSUME NEW e \in Events, ProcessFails(e)
      PROVE  UNCHANGED <<balance, attempt, paid>>
    BY <1>6 DEF ProcessFails
<1>7. ASSUME NEW e \in Events, ProcessEvent(e)
      PROVE  \/ UNCHANGED <<balance, attempt, paid>>
             \/ \E k \in Keys, s \in States \ {"CAPTURED"} : Moves(k, s)
             \/ \E k \in Keys : Captures(k)
    <2>1. /\ e.key \in Keys /\ e.target \in States
          /\ UNCHANGED <<direct, received, advanced, credited, cancelled>>
        BY <1>7, ProcessCases, PaymentsAssumption DEF Events
    <2>2. \/ UNCHANGED <<balance, attempt, paid>>
          \/ Captures(e.key)
          \/ e.target # "CAPTURED" /\ Moves(e.key, e.target)
        BY <1>7, <2>1, ProcessCases DEF Captures, Moves, balance
    <2> QED BY <2>1, <2>2
<1>8. CASE UNCHANGED vars
    BY <1>8 DEF vars
<1> QED BY <1>1, <1>2, <1>3, <1>4, <1>5, <1>6, <1>7, <1>8 DEF Next

\* The units of a part of the attempts, after a step that keeps their amounts.
LEMMA SumShrinks ==
    ASSUME TypeOK, NEW T \in SUBSET Attempts, NEW S \in SUBSET T,
           \A k \in S : attempt'[k].amount = attempt[k].amount
    PROVE  /\ SumOf(S)' \in Nat
           /\ SumOf(S)' <= SumOf(T)
<1>1. IsFiniteSet(T) /\ IsFiniteSet(S)
    BY PaymentsAssumption, FS_Subset DEF Attempts
<1>2. \A k \in T : attempt[k].amount \in Nat
    BY DEF TypeOK, Attempts, AttemptRow
<1>3. Units(S, attempt') = Units(S, attempt)
    BY UnitsFramed
<1>4. Cardinality(Units(S, attempt)) <= Cardinality(Units(T, attempt))
    BY <1>1, <1>2, UnitsMonotonic
<1>5. Cardinality(Units(S, attempt)) \in Nat
    BY <1>1, <1>2, UnitsFinite
<1>6. /\ SumOf(T) = Cardinality(Units(T, attempt))
      /\ SumOf(S)' = Cardinality(Units(S, attempt'))
    BY DEF SumOf, Units
<1> QED BY <1>3, <1>4, <1>5, <1>6

\* Reservations only ever shrink by a transition; a capture ends its own.
LEMMA ReservedStep ==
    ASSUME Shape, OnePaymentPerCapture, NEW k \in Keys
    PROVE  /\ \A s \in States \ {"CAPTURED"} :
                 Moves(k, s) => Reserved' \in Nat /\ Reserved' <= Reserved
           /\ Captures(k) =>
                 /\ Reserved' \in Nat
                 /\ attempt[k].amount + Reserved' <= Outstanding
<1>1. TypeOK
    BY DEF Shape
<1>2. ASSUME NEW s \in States \ {"CAPTURED"}, Moves(k, s)
      PROVE  Reserved' \in Nat /\ Reserved' <= Reserved
    <2>1. /\ attempt[k] \in AttemptRow /\ attempt[k].state \in Active
          /\ paid' = paid
        BY <1>1, <1>2 DEF Moves, Attempts, TypeOK, CanTransition, Active
    <2>2. \A h \in Keys : h # k => attempt'[h] = attempt[h]
        BY <1>1, <1>2 DEF Moves, TypeOK
    <2>3. attempt'[k].amount = attempt[k].amount
        BY <1>1, <1>2, <2>1 DEF Moves, TypeOK, AttemptRow
    <2>4. Reserving' \subseteq Reserving
        BY <1>2, <2>1, <2>2 DEF Reserving, Attempts, Moves
    <2>5. \A h \in Reserving' : attempt'[h].amount = attempt[h].amount
        BY <2>2, <2>3 DEF Reserving, Attempts
    <2>6. Reserving \subseteq Attempts
        BY DEF Reserving
    <2> QED BY <1>1, <2>4, <2>5, <2>6, SumShrinks DEF Reserved, SumOf
<1>3. ASSUME Captures(k)
      PROVE  Reserved' \in Nat /\ attempt[k].amount + Reserved' <= Outstanding
    <2>1. attempt[k] \in AttemptRow
        BY <1>1, <1>3 DEF Captures, Attempts, TypeOK
    <2>2. \A h \in Keys : h # k => attempt'[h] = attempt[h] /\ paid'[h] = paid[h]
        BY <1>1, <1>3 DEF Captures, TypeOK
    <2>3. attempt'[k].state \notin Active
        BY <1>1, <1>3, <2>1 DEF Captures, TypeOK, AttemptRow, Active
    <2>4. Reserving' \subseteq Reserving \ {k}
        BY <2>2, <2>3 DEF Reserving, Attempts
    <2>5. \A h \in Reserving' : attempt'[h].amount = attempt[h].amount
        BY <2>2, <2>4 DEF Reserving, Attempts
    <2>6. Reserving \ {k} \subseteq Attempts
        BY DEF Reserving
    <2>7. Reserved' \in Nat /\ Reserved' <= SumOf(Reserving \ {k})
        BY <1>1, <2>4, <2>5, <2>6, SumShrinks DEF Reserved, SumOf
    <2>8. SumOf(Reserving \ {k}) \in Nat /\ attempt[k].amount \in Nat
        BY <1>1, <2>1, <2>6, SumType DEF AttemptRow
    <2> QED BY <1>1, <1>3, <2>7, <2>8, BalanceType DEF Captures, Demand
<1> QED BY <1>2, <1>3

\* A reservation adds its amount, which was available.
LEMMA ReservationAdds ==
    ASSUME Shape, OnePaymentPerCapture, NEW c \in Callers, Reserves(c)
    PROVE  /\ Reserved' = Reserved + AmountOf[c]
           /\ AmountOf[c] + Reserved <= Outstanding
<1> DEFINE k == KeyOf[c]
           new == [amount |-> AmountOf[c], state |-> "PENDING",
                   fresh |-> ~cancelled]
<1>1. TypeOK /\ k \in Keys /\ AmountOf[c] \in Nat \ {0}
    BY PaymentsAssumption DEF Shape
<1>2. k \notin Attempts /\ paid' = paid /\ paid[k] = 0
    BY <1>1 DEF Reserves, OnePaymentPerCapture
<1>3. attempt'[k] = new /\ \A h \in Keys : h # k => attempt'[h] = attempt[h]
    BY <1>1 DEF Reserves, TypeOK
<1>4. new # None
    <2>1. (~cancelled) \in BOOLEAN /\ "PENDING" \in States
        BY DEF States, Active
    <2>2. new \in AttemptRow
        BY <1>1, <2>1, Zenon DEF AttemptRow
    <2> QED BY <2>2, PaymentsAssumption
<1>5. Reserving' = Reserving \cup {k}
    BY <1>1, <1>2, <1>3, <1>4 DEF Reserving, Attempts, Active
<1>6. k \notin Reserving /\ IsFiniteSet(Reserving)
    BY <1>2, PaymentsAssumption, FS_Subset DEF Reserving, Attempts
<1>7. attempt'[k].amount = AmountOf[c]
    BY <1>3
<1>8. \A h \in Reserving : attempt'[h].amount = attempt[h].amount
    BY <1>2, <1>3 DEF Reserving, Attempts
<1>9. \A h \in Reserving : attempt[h].amount \in Nat
    BY <1>1 DEF Reserving, Attempts, TypeOK, AttemptRow
<1>10. \A h \in Reserving \cup {k} : attempt'[h].amount \in Nat
    BY <1>1, <1>7, <1>8, <1>9
<1>11. Cardinality(Units(Reserving \cup {k}, attempt')) =
           Cardinality(Units(Reserving, attempt')) + attempt'[k].amount
    BY <1>6, <1>10, UnitsAdd
<1>12. Units(Reserving, attempt') = Units(Reserving, attempt)
    BY <1>8, UnitsFramed
<1>13. /\ Reserved = Cardinality(Units(Reserving, attempt))
       /\ Reserved' = Cardinality(Units(Reserving', attempt'))
    BY DEF Reserved, SumOf, Units
<1>14. Reserved' = Reserved + AmountOf[c]
    BY <1>5, <1>7, <1>11, <1>12, <1>13
<1> QED BY <1>1, <1>14, AvailableBound DEF Reserves

-----------------------------------------------------------------------------
(* The safety properties are preserved. *)

\* An attempt gets its payment with its capture, and no second one.
LEMMA OnePaymentStep ==
    ASSUME Shape, OnePaymentPerCapture, [Next]_vars
    PROVE  OnePaymentPerCapture'
<1>1. TypeOK
    BY DEF Shape
<1>2. CASE UNCHANGED <<attempt, paid>>
    BY <1>2 DEF OnePaymentPerCapture, Attempts
<1>3. ASSUME NEW c \in Callers, Reserves(c) PROVE OnePaymentPerCapture'
    BY <1>1, <1>3, PaymentsAssumption
       DEF OnePaymentPerCapture, Attempts, Reserves, TypeOK
<1>4. ASSUME NEW k \in Keys, NEW s \in States \ {"CAPTURED"}, Moves(k, s)
      PROVE  OnePaymentPerCapture'
    <2>1. attempt[k] \in AttemptRow /\ attempt[k].state # "CAPTURED"
        BY <1>1, <1>4 DEF Moves, Attempts, TypeOK, CanTransition
    <2>2. attempt'[k].state = s
        BY <1>1, <1>4, <2>1 DEF Moves, TypeOK, AttemptRow
    <2>3. \A h \in Keys : h # k => attempt'[h] = attempt[h]
        BY <1>1, <1>4 DEF Moves, TypeOK
    <2>4. paid' = paid /\ paid[k] = 0
        BY <1>4, <2>1 DEF Moves, OnePaymentPerCapture
    <2> QED BY <2>2, <2>3, <2>4 DEF OnePaymentPerCapture, Attempts
<1>5. ASSUME NEW k \in Keys, Captures(k) PROVE OnePaymentPerCapture'
    <2>1. attempt[k] \in AttemptRow /\ attempt[k].state # "CAPTURED"
        BY <1>1, <1>5 DEF Captures, Attempts, TypeOK, Active
    <2>2. attempt'[k] \in AttemptRow /\ attempt'[k].state = "CAPTURED"
        BY <1>1, <1>5, <2>1 DEF Captures, TypeOK, AttemptRow, States
    <2>3. \A h \in Keys : h # k => attempt'[h] = attempt[h] /\ paid'[h] = paid[h]
        BY <1>1, <1>5 DEF Captures, TypeOK
    <2>4. paid'[k] = 1
        BY <1>1, <1>5, <2>1 DEF Captures, OnePaymentPerCapture, TypeOK
    <2> QED BY <2>2, <2>3, <2>4, PaymentsAssumption
               DEF OnePaymentPerCapture, Attempts
<1>6. ASSUME \/ \E n \in Amounts : PayDirectly(n) \/ Receive(n) \/ ApplyAdvance(n)
             \/ CancelOrder
      PROVE  UNCHANGED <<attempt, paid>>
    BY <1>6 DEF PayDirectly, Receive, ApplyAdvance, CancelOrder
<1> QED BY <1>2, <1>3, <1>4, <1>5, <1>6, MoneyCases

\* Every writer of the balance takes from what is outstanding.
LEMMA CoverageStep ==
    ASSUME Shape, OnePaymentPerCapture, NeverOvercovered, [Next]_vars
    PROVE  NeverOvercovered'
<1>1. /\ direct \in Nat /\ captured \in Nat /\ received \in Nat
      /\ advanced \in Nat /\ credited \in Nat /\ Total \in Nat
      /\ Outstanding \in Int
    BY BalanceType, PaymentsAssumption DEF Shape, TypeOK
<1>2. CASE UNCHANGED balance
    BY <1>2 DEF NeverOvercovered, Covered, balance
<1>3. ASSUME NEW n \in Amounts, PayDirectly(n) PROVE NeverOvercovered'
    <2>1. n \in Nat \ {0} /\ n <= Available
        BY <1>1, <1>3 DEF Amounts, PayDirectly
    <2>2. n <= Outstanding
        BY <1>1, <2>1, AvailableBound, BalanceType DEF Shape
    <2> QED BY <1>1, <1>3, <2>1, <2>2
               DEF PayDirectly, NeverOvercovered, Covered, Outstanding
<1>4. ASSUME NEW n \in Amounts, Receive(n) \/ ApplyAdvance(n)
      PROVE  NeverOvercovered'
    BY <1>1, <1>4
       DEF Amounts, Receive, ApplyAdvance, NeverOvercovered, Covered,
           Outstanding
<1>5. CASE CancelOrder
    BY <1>1, <1>5 DEF CancelOrder, NeverOvercovered, Covered
<1>6. ASSUME NEW k \in Keys, Captures(k) PROVE NeverOvercovered'
    <2>1. /\ Reserved' \in Nat
          /\ attempt[k].amount + Reserved' <= Outstanding
        BY <1>6, ReservedStep
    <2>2. attempt[k].amount \in Nat
        BY <1>6 DEF Captures, Attempts, Shape, TypeOK, AttemptRow
    <2> QED BY <1>1, <1>6, <2>1, <2>2
               DEF Captures, NeverOvercovered, Covered, Outstanding
<1>7. ASSUME NEW c \in Callers, Reserves(c) PROVE UNCHANGED balance
    BY <1>7 DEF Reserves
<1>8. ASSUME NEW k \in Keys, NEW s \in States, Moves(k, s)
      PROVE  UNCHANGED balance
    BY <1>8 DEF Moves
<1> QED BY <1>2, <1>3, <1>4, <1>5, <1>6, <1>7, <1>8, MoneyCases

\* What is collected or reserved was available, and a capture only turns its
\* own reservation into money.
LEMMA PromiseStep ==
    ASSUME Shape, OnePaymentPerCapture, NeverPromisedTwice, [Next]_vars
    PROVE  NeverPromisedTwice'
<1>1. /\ direct \in Nat /\ captured \in Nat /\ received \in Nat
      /\ advanced \in Nat /\ credited \in Nat /\ Total \in Nat
      /\ Reserved \in Nat /\ Outstanding \in Int
    BY BalanceType, PaymentsAssumption DEF Shape, TypeOK
<1>2. ASSUME UNCHANGED <<attempt, paid>> PROVE Reserved' = Reserved
    BY <1>2 DEF Reserved, SumOf, Reserving, Attempts
<1>3. CASE UNCHANGED <<balance, attempt, paid>>
    BY <1>2, <1>3 DEF NeverPromisedTwice, balance
<1>4. ASSUME NEW n \in Amounts, PayDirectly(n) PROVE NeverPromisedTwice'
    <2>1. n \in Nat \ {0} /\ n <= Available
        BY <1>1, <1>4 DEF Amounts, PayDirectly
    <2>2. n + Reserved <= Outstanding
        BY <2>1, AvailableBound DEF Shape
    <2>3. /\ direct' = direct + n /\ captured' = captured
          /\ Reserved' = Reserved
        BY <1>2, <1>4 DEF PayDirectly
    <2> QED BY <1>1, <2>1, <2>2, <2>3
               DEF NeverPromisedTwice, Covered, Outstanding
<1>5. ASSUME \/ CancelOrder
             \/ \E n \in Amounts : Receive(n) \/ ApplyAdvance(n)
      PROVE  NeverPromisedTwice'
    <2>1. UNCHANGED <<direct, captured, attempt, paid>>
        BY <1>5 DEF CancelOrder, Receive, ApplyAdvance
    <2> QED BY <1>2, <2>1 DEF NeverPromisedTwice
<1>6. ASSUME NEW c \in Callers, Reserves(c) PROVE NeverPromisedTwice'
    <2>1. /\ Reserved' = Reserved + AmountOf[c]
          /\ AmountOf[c] + Reserved <= Outstanding
          /\ AmountOf[c] \in Nat
        BY <1>6, ReservationAdds, PaymentsAssumption
    <2>2. direct' = direct /\ captured' = captured
        BY <1>6 DEF Reserves, balance
    <2> QED BY <1>1, <2>1, <2>2 DEF NeverPromisedTwice, Covered, Outstanding
<1>7. ASSUME NEW k \in Keys, NEW s \in States \ {"CAPTURED"}, Moves(k, s)
      PROVE  NeverPromisedTwice'
    <2>1. Reserved' \in Nat /\ Reserved' <= Reserved
        BY <1>7, ReservedStep
    <2>2. direct' = direct /\ captured' = captured
        BY <1>7 DEF Moves, balance
    <2> DEFINE r == Reserved
               q == Reserved'
    <2>3. r \in Nat /\ q \in Nat /\ q <= r /\ direct + captured + r <= Total
        BY <1>1, <2>1 DEF NeverPromisedTwice
    <2> HIDE DEF r, q
    <2>4. direct' + captured' + q <= Total
        BY <1>1, <2>2, <2>3
    <2> QED BY <2>4 DEF NeverPromisedTwice, q
<1>8. ASSUME NEW k \in Keys, Captures(k) PROVE NeverPromisedTwice'
    <2>1. /\ Reserved' \in Nat
          /\ attempt[k].amount + Reserved' <= Outstanding
        BY <1>8, ReservedStep
    <2>2. attempt[k].amount \in Nat
        BY <1>8 DEF Captures, Attempts, Shape, TypeOK, AttemptRow
    <2>3. direct' = direct /\ captured' = captured + attempt[k].amount
        BY <1>8 DEF Captures
    <2> QED BY <1>1, <2>1, <2>2, <2>3
               DEF NeverPromisedTwice, Covered, Outstanding
<1> QED BY <1>3, <1>4, <1>5, <1>6, <1>7, <1>8, MoneyCases

-----------------------------------------------------------------------------
(* Theorems. *)

\* Nothing is collected, reserved or paid for at first.
LEMMA InvariantInit == Init => IInv
<1> SUFFICES ASSUME Init PROVE IInv
    OBVIOUS
<1>1. OnePaymentPerCapture /\ Reserving = {}
    BY DEF Init, OnePaymentPerCapture, Attempts, Reserving
<1>2. Reserved = 0
    BY <1>1, FS_EmptySet DEF Reserved, SumOf
<1>3. NeverOvercovered /\ NeverPromisedTwice
    BY <1>2, PaymentsAssumption
       DEF Init, NeverOvercovered, NeverPromisedTwice, Covered
<1> QED BY <1>1, <1>3, ShapeInit DEF IInv

\* The conjunction is inductive.
LEMMA InvariantStep == IInv /\ [Next]_vars => IInv'
BY ShapeStep, OnePaymentStep, CoverageStep, PromiseStep DEF IInv

\* Every reachable state satisfies it.
LEMMA InvariantHolds == Spec => []IInv
BY InvariantInit, InvariantStep, PTL DEF Spec

\* Every variable keeps its type: in particular the credit note of a
\* cancellation is never negative.
THEOREM PaymentsTypeCorrect == Spec => []TypeOK
<1>1. IInv => TypeOK
    BY DEF IInv, Shape
<1> QED BY <1>1, InvariantHolds, PTL

\* Direct payments, captures, receipts, advances and the credit note never
\* take more than the total, whatever interleaves: the coverage trigger of the
\* database never rejects one of them.
THEOREM CoverageHolds == Spec => []NeverOvercovered
<1>1. IInv => NeverOvercovered
    BY DEF IInv
<1> QED BY <1>1, InvariantHolds, PTL

\* What is collected and what is reserved fit in the total, for any number of
\* attempts that race each other, the direct payments and the webhooks.
THEOREM PromiseHolds == Spec => []NeverPromisedTwice
<1>1. IInv => NeverPromisedTwice
    BY DEF IInv
<1> QED BY <1>1, InvariantHolds, PTL

\* A captured attempt has one payment, however often and by however many
\* processors its events are taken up.
THEOREM OnePaymentHolds == Spec => []OnePaymentPerCapture
<1>1. IInv => OnePaymentPerCapture
    BY DEF IInv
<1> QED BY <1>1, InvariantHolds, PTL

\* An attempt whose intent can still be charged has not been released, with
\* any number of lost replies and crashes.
THEOREM HeldHolds == Spec => []HeldWhileChargeable
<1>1. IInv => HeldWhileChargeable
    BY DEF IInv, Shape, ProviderOK, AttemptOK, HeldWhileChargeable, Attempts
<1> QED BY <1>1, InvariantHolds, PTL

\* Attempts move along the transition graph only, whichever of a late answer
\* and a webhook comes first.
THEOREM RegressionNever == Spec => AttemptsNeverRegress
<1> DEFINE Step == \A k \in Keys :
                      attempt[k] # None =>
                         /\ attempt'[k] # None
                         /\ \/ attempt'[k] = attempt[k]
                            \/ CanTransition(attempt[k].state, attempt'[k].state)
<1>1. ASSUME Shape, [Next]_vars PROVE Step
    <2>1. TypeOK
        BY <1>1 DEF Shape
    <2>2. ASSUME NEW c \in Callers, Reserves(c) PROVE Step
        BY <2>1, <2>2, PaymentsAssumption DEF Reserves, Attempts, TypeOK
    <2>3. ASSUME NEW k \in Keys, NEW s \in States, Moves(k, s) PROVE Step
        <3>1. attempt[k] \in AttemptRow
            BY <2>1, <2>3 DEF Moves, Attempts, TypeOK
        <3>2. attempt'[k] \in AttemptRow /\ attempt'[k].state = s
            BY <2>1, <2>3, <3>1 DEF Moves, TypeOK, AttemptRow
        <3>3. \A h \in Keys : h # k => attempt'[h] = attempt[h]
            BY <2>1, <2>3 DEF Moves, TypeOK
        <3> QED BY <2>3, <3>2, <3>3, PaymentsAssumption DEF Moves
    <2>4. ASSUME NEW k \in Keys, Captures(k) PROVE Step
        <3>1. attempt[k] \in AttemptRow
            BY <2>1, <2>4 DEF Captures, Attempts, TypeOK
        <3>2. attempt'[k] \in AttemptRow /\ attempt'[k].state = "CAPTURED"
            BY <2>1, <2>4, <3>1 DEF Captures, TypeOK, AttemptRow, States
        <3>3. \A h \in Keys : h # k => attempt'[h] = attempt[h]
            BY <2>1, <2>4 DEF Captures, TypeOK
        <3> QED BY <2>4, <3>2, <3>3, PaymentsAssumption
                   DEF Captures, CanTransition, Active
    <2>5. CASE attempt' = attempt
        BY <2>5
    <2>6. ASSUME \/ \E n \in Amounts :
                        PayDirectly(n) \/ Receive(n) \/ ApplyAdvance(n)
                 \/ CancelOrder
          PROVE  attempt' = attempt
        BY <2>6 DEF PayDirectly, Receive, ApplyAdvance, CancelOrder
    <2> QED BY <1>1, <2>2, <2>3, <2>4, <2>5, <2>6, MoneyCases
<1>2. IInv => Shape
    BY DEF IInv
<1>3. Spec => [][Step]_vars
    BY <1>1, <1>2, InvariantHolds, PTL DEF Spec
<1> QED BY <1>3 DEF AttemptsNeverRegress

-----------------------------------------------------------------------------
(* The verdicts on events. *)

\* An event gets one verdict; one that refuses a capture has seen the balance
\* or the order that it refuses it for.
LEMMA VerdictCases ==
    ASSUME Shape, [Next]_vars, NEW f \in Events
    PROVE  \/ inbox'[f] = inbox[f]
           \/ inbox[f] = None /\ inbox'[f] = "RECEIVED"
           \/ /\ inbox[f] = "RECEIVED" /\ inbox'[f] \in Verdicts
              /\ inbox'[f] = "FINANCIAL_INVARIANT_VIOLATION" =>
                    /\ f.key \in Attempts /\ attempt[f.key].state \in Active
                    /\ Demand(f.key) > Outstanding
                    /\ Bound(attempt[f.key])
                    /\ UNCHANGED balance
              /\ inbox'[f] = "ORDER_BINDING_MISMATCH" =>
                    f.key \in Attempts /\ ~Bound(attempt[f.key])
<1> DEFINE Goal ==
        \/ inbox'[f] = inbox[f]
        \/ inbox[f] = None /\ inbox'[f] = "RECEIVED"
        \/ /\ inbox[f] = "RECEIVED" /\ inbox'[f] \in Verdicts
           /\ inbox'[f] = "FINANCIAL_INVARIANT_VIOLATION" =>
                 /\ f.key \in Attempts /\ attempt[f.key].state \in Active
                 /\ Demand(f.key) > Outstanding
                 /\ Bound(attempt[f.key])
                 /\ UNCHANGED balance
           /\ inbox'[f] = "ORDER_BINDING_MISMATCH" =>
                 f.key \in Attempts /\ ~Bound(attempt[f.key])
<1>1. inbox \in [Events -> {None, "RECEIVED"} \cup Verdicts]
    BY DEF Shape, TypeOK
<1>2. CASE UNCHANGED inbox
    BY <1>2
<1>3. ASSUME NEW e \in Events, DeliverWebhook(e) PROVE Goal
    BY <1>1, <1>3 DEF DeliverWebhook
<1>4. ASSUME NEW e \in Events, ProcessEvent(e) PROVE Goal
    <2>1. /\ e \in Events /\ e.key \in Keys
          /\ UNCHANGED <<direct, received, advanced, credited, cancelled>>
        BY <1>4, ProcessCases DEF Events
    <2>2. CASE inbox[e] # "RECEIVED"
        BY <1>4, <2>2 DEF ProcessEvent
    <2>3. CASE inbox[e] = "RECEIVED" /\ ~e.genuine
        BY <1>1, <1>4, <2>1, <2>3
           DEF ProcessEvent, Refuse, Finalize, Verdicts, Reasons
    <2>4. CASE inbox[e] = "RECEIVED" /\ e.genuine
        <3>1. e.key \in Attempts
            BY <2>1, <2>4 DEF Shape, InboxOK, ProviderOK, Attempts
        <3>2. CASE ~Bound(attempt[e.key])
            BY <1>1, <1>4, <2>1, <2>4, <3>1, <3>2
               DEF ProcessEvent, Refuse, Finalize, Verdicts, Reasons
        <3>3. CASE Bound(attempt[e.key]) /\ e.target = "CAPTURED"
            BY <1>1, <1>4, <2>1, <2>4, <3>1, <3>3
               DEF ProcessEvent, ApplyCapture, Refuse, Finalize, Verdicts,
                   Reasons, balance
        <3>4. CASE Bound(attempt[e.key]) /\ e.target # "CAPTURED"
            BY <1>1, <1>4, <2>1, <2>4, <3>4
               DEF ProcessEvent, ApplyTransition, Finalize, Verdicts, Reasons
        <3> QED BY <3>2, <3>3, <3>4
    <2> QED BY <2>2, <2>3, <2>4
<1>5. ASSUME NEW c \in Callers,
             \/ Discover(c) \/ LookUp(c) \/ Reserve(c) \/ CallProvider(c)
             \/ CallFails(c) \/ ApplyInitiation(c) \/ CrashCaller(c)
      PROVE  UNCHANGED inbox
    BY <1>5 DEF Discover, LookUp, Reserve, CallProvider, CallFails,
                ApplyInitiation, CrashCaller
<1>6. ASSUME \/ \E n \in Amounts : PayDirectly(n) \/ Receive(n) \/ ApplyAdvance(n)
             \/ CancelOrder
             \/ \E k \in Keys : ProviderMoves(k)
             \/ \E e \in Events : PeekEvent(e) \/ ProcessFails(e)
             \/ UNCHANGED vars
      PROVE  UNCHANGED inbox
    BY <1>6 DEF PayDirectly, Receive, ApplyAdvance, CancelOrder, ProviderMoves,
                PeekEvent, ProcessFails, vars
<1> QED BY <1>2, <1>3, <1>4, <1>5, <1>6 DEF Next

\* Once an event has been decided, by whichever processor, it stays so.
THEOREM VerdictHolds == Spec => VerdictIsFinal
<1> DEFINE Step == \A e \in Events : inbox[e] \in Verdicts => inbox'[e] = inbox[e]
<1>1. ASSUME Shape, [Next]_vars PROVE Step
    <2>1. "RECEIVED" \notin Verdicts /\ None \notin Verdicts
        BY PaymentsAssumption DEF Verdicts, Reasons
    <2> QED BY <1>1, <2>1, VerdictCases
<1>2. IInv => Shape
    BY DEF IInv
<1>3. Spec => [][Step]_vars
    BY <1>1, <1>2, InvariantHolds, PTL DEF Spec
<1> QED BY <1>3 DEF VerdictIsFinal

\* Once the order is cancelled nothing is outstanding, so no attempt is ever
\* reserved against the version the cancellation gave it.
CauseInv ==
    /\ ~cancelled => credited = 0
    /\ cancelled => Outstanding <= 0
    /\ \A k \in Attempts : attempt[k].fresh = TRUE
    /\ RefusalHasACause

\* The balance part of CauseInv and the freshness of attempts are preserved,
\* and draws on the invoice are never taken back.
LEMMA CauseBalance ==
    ASSUME IInv, CauseInv, [Next]_vars
    PROVE  /\ ~cancelled' => credited' = 0
           /\ cancelled' => Outstanding' <= 0
           /\ \A k \in Attempts' : attempt'[k].fresh = TRUE
           /\ cancelled => cancelled'
           /\ received + advanced > 0 => received' + advanced' > 0
<1> DEFINE Goal ==
        /\ ~cancelled' => credited' = 0
        /\ cancelled' => Outstanding' <= 0
        /\ \A k \in Attempts' : attempt'[k].fresh = TRUE
        /\ cancelled => cancelled'
        /\ received + advanced > 0 => received' + advanced' > 0
<1>1. /\ TypeOK
      /\ direct \in Nat /\ captured \in Nat /\ received \in Nat
      /\ advanced \in Nat /\ credited \in Nat /\ Total \in Nat
      /\ Outstanding \in Int /\ Reserved \in Nat
    BY BalanceType, PaymentsAssumption DEF IInv, Shape, TypeOK
<1>2. CASE UNCHANGED <<balance, attempt>>
    BY <1>2 DEF CauseInv, balance, Outstanding, Covered, Attempts
<1>3. ASSUME NEW n \in Amounts, PayDirectly(n) \/ Receive(n) \/ ApplyAdvance(n)
      PROVE  Goal
    <2>1. /\ UNCHANGED <<attempt, cancelled, credited, captured>>
          /\ n \in Nat
          /\ \/ direct' = direct + n /\ UNCHANGED <<received, advanced>>
             \/ received' = received + n /\ UNCHANGED <<direct, advanced>>
             \/ advanced' = advanced + n /\ UNCHANGED <<direct, received>>
        BY <1>1, <1>3 DEF Amounts, PayDirectly, Receive, ApplyAdvance
    <2>2. cancelled' => Outstanding' <= 0
        BY <1>1, <2>1 DEF CauseInv, Outstanding, Covered
    <2>3. received + advanced > 0 => received' + advanced' > 0
        BY <1>1, <2>1
    <2> QED BY <2>1, <2>2, <2>3 DEF CauseInv, Attempts
<1>4. CASE CancelOrder
    <2>1. /\ UNCHANGED <<attempt, direct, captured, received, advanced>>
          /\ cancelled' = TRUE /\ credited' = Total - Covered
        BY <1>4 DEF CancelOrder
    <2>2. Covered' = Covered /\ Covered \in Nat
        BY <1>1, <2>1, BalanceType DEF Covered
    <2>3. Outstanding' <= 0
        BY <1>1, <2>1, <2>2 DEF Outstanding
    <2> QED BY <2>1, <2>3 DEF CauseInv, Attempts
<1>5. ASSUME NEW c \in Callers, Reserves(c) PROVE Goal
    <2>1. /\ AmountOf[c] + Reserved <= Outstanding
          /\ AmountOf[c] \in Nat \ {0} /\ KeyOf[c] \in Keys
        BY <1>5, ReservationAdds, PaymentsAssumption DEF IInv
    <2>2. Outstanding > 0
        BY <1>1, <2>1
    <2>3. cancelled = FALSE
        BY <1>1, <2>2 DEF CauseInv, TypeOK
    <2>4. /\ attempt'[KeyOf[c]].fresh = TRUE
          /\ \A k \in Keys : k # KeyOf[c] => attempt'[k] = attempt[k]
          /\ UNCHANGED balance
        BY <1>1, <1>5, <2>1, <2>3 DEF Reserves, TypeOK
    <2>5. \A k \in Attempts' : attempt'[k].fresh = TRUE
        BY <2>4 DEF CauseInv, Attempts
    <2> QED BY <2>3, <2>4, <2>5
               DEF CauseInv, balance, Outstanding, Covered
<1>6. ASSUME NEW k \in Keys, NEW s \in States, Moves(k, s) PROVE Goal
    <2>1. attempt[k] \in AttemptRow /\ k \in Attempts
        BY <1>1, <1>6 DEF Moves, Attempts, TypeOK
    <2>2. /\ attempt'[k].fresh = attempt[k].fresh
          /\ \A h \in Keys : h # k => attempt'[h] = attempt[h]
        BY <1>1, <1>6, <2>1 DEF Moves, TypeOK, AttemptRow
    <2>3. \A h \in Attempts' : attempt'[h].fresh = TRUE
        BY <2>1, <2>2 DEF CauseInv, Attempts
    <2> QED BY <1>6, <2>3 DEF Moves, CauseInv, balance, Outstanding, Covered
<1>7. ASSUME NEW k \in Keys, Captures(k) PROVE Goal
    <2>1. attempt[k] \in AttemptRow /\ k \in Attempts
        BY <1>1, <1>7 DEF Captures, Attempts, TypeOK
    <2>2. /\ attempt'[k].fresh = attempt[k].fresh
          /\ \A h \in Keys : h # k => attempt'[h] = attempt[h]
        BY <1>1, <1>7, <2>1 DEF Captures, TypeOK, AttemptRow
    <2>3. \A h \in Attempts' : attempt'[h].fresh = TRUE
        BY <2>1, <2>2 DEF CauseInv, Attempts
    <2>4. /\ UNCHANGED <<direct, received, advanced, credited, cancelled>>
          /\ captured' = captured + attempt[k].amount
          /\ attempt[k].amount \in Nat
        BY <1>7, <2>1 DEF Captures, AttemptRow
    <2>5. cancelled' => Outstanding' <= 0
        BY <1>1, <2>4 DEF CauseInv, Outstanding, Covered
    <2> QED BY <2>3, <2>4, <2>5 DEF CauseInv
<1> QED BY <1>2, <1>3, <1>4, <1>5, <1>6, <1>7, MoneyCases DEF IInv

\* An active attempt is part of the reservations that its capture demands, and
\* these were promised: only draws or a credit note can make them too much.
LEMMA DemandPromised ==
    ASSUME IInv, CauseInv, NEW k \in Attempts, attempt[k].state \in Active,
           Bound(attempt[k]), Demand(k) > Outstanding
    PROVE  received + advanced > 0
<1>1. /\ TypeOK
      /\ direct \in Nat /\ captured \in Nat /\ received \in Nat
      /\ advanced \in Nat /\ credited \in Nat /\ Total \in Nat
      /\ Reserved \in Nat
    BY BalanceType, PaymentsAssumption DEF IInv, Shape, TypeOK
<1>2. ~cancelled /\ credited = 0
    BY <1>1 DEF CauseInv, Bound, TypeOK
<1>3. k \in Reserving
    BY DEF Reserving, IInv, OnePaymentPerCapture, Attempts, Active
<1>4. SumOf(Reserving \ {k}) + attempt[k].amount = Reserved
    <2>1. IsFiniteSet(Reserving \ {k})
        BY PaymentsAssumption, FS_Subset DEF Reserving, Attempts
    <2>2. Reserving = (Reserving \ {k}) \cup {k}
        BY <1>3
    <2>3. \A h \in (Reserving \ {k}) \cup {k} : attempt[h].amount \in Nat
        BY <1>1, <2>2 DEF Reserving, Attempts, TypeOK, AttemptRow
    <2>4. k \notin Reserving \ {k}
        OBVIOUS
    <2>5. Cardinality(Units((Reserving \ {k}) \cup {k}, attempt)) =
              Cardinality(Units(Reserving \ {k}, attempt)) + attempt[k].amount
        BY <2>1, <2>3, <2>4, UnitsAdd
    <2> QED BY <2>2, <2>5 DEF Reserved, SumOf, Units
<1>5. Reserved > Outstanding
    BY <1>4 DEF Demand
<1>6. direct + captured + Reserved <= Total
    BY DEF IInv, NeverPromisedTwice
<1> QED BY <1>1, <1>2, <1>5, <1>6 DEF Outstanding, Covered

\* A genuine capture fails for money only because of a receipt or an advance,
\* and for the order only because it was cancelled: never because of direct
\* payments, other attempts or the order of the webhooks.
THEOREM RefusalHolds == Spec => []RefusalHasACause
<1>1. Init => CauseInv
    <2> SUFFICES ASSUME Init PROVE CauseInv
        OBVIOUS
    <2>1. cancelled = FALSE /\ credited = 0 /\ Attempts = {}
        BY DEF Init, Attempts
    <2>2. RefusalHasACause
        BY PaymentsAssumption DEF Init, RefusalHasACause, Verdicts, Reasons
    <2> QED BY <2>1, <2>2 DEF CauseInv
<1>2. ASSUME IInv, CauseInv, [Next]_vars PROVE CauseInv'
    <2>1. /\ ~cancelled' => credited' = 0
          /\ cancelled' => Outstanding' <= 0
          /\ \A k \in Attempts' : attempt'[k].fresh = TRUE
          /\ cancelled => cancelled'
          /\ received + advanced > 0 => received' + advanced' > 0
        BY <1>2, CauseBalance
    <2>2. ASSUME NEW e \in Events
          PROVE  /\ inbox'[e] = "FINANCIAL_INVARIANT_VIOLATION" =>
                        received' + advanced' > 0
                 /\ inbox'[e] = "ORDER_BINDING_MISMATCH" => cancelled'
        <3>1. CASE inbox'[e] = inbox[e]
            BY <1>2, <2>1, <3>1 DEF CauseInv, RefusalHasACause
        <3>2. CASE inbox'[e] = "RECEIVED"
            BY <3>2
        <3>3. CASE /\ inbox'[e] = "FINANCIAL_INVARIANT_VIOLATION"
                   /\ inbox'[e] # inbox[e]
            BY <1>2, <2>1, <3>3, VerdictCases, DemandPromised DEF IInv
        <3>4. CASE /\ inbox'[e] = "ORDER_BINDING_MISMATCH"
                   /\ inbox'[e] # inbox[e]
            <4>1. e.key \in Attempts /\ ~Bound(attempt[e.key])
                BY <1>2, <3>4, VerdictCases DEF IInv
            <4>2. cancelled \in BOOLEAN
                BY <1>2 DEF IInv, Shape, TypeOK
            <4> QED BY <2>1, <3>4, <4>1, <4>2, <1>2 DEF CauseInv, Bound
        <3> QED BY <3>1, <3>2, <3>3, <3>4
    <2> QED BY <2>1, <2>2 DEF CauseInv, RefusalHasACause
<1>3. CauseInv => RefusalHasACause
    BY DEF CauseInv
<1>4. Spec => []CauseInv
    BY <1>1, <1>2, InvariantHolds, PTL DEF Spec
<1> QED BY <1>3, <1>4, PTL

-----------------------------------------------------------------------------
\* The idempotency store.

Owning == {"handling", "storing", "releasing"}

\* What the row says of its owner.
RowOK ==
    row # Nothing =>
        /\ row.hash = HashOf[row.owner]
        /\ row.snapshot \in {Nothing, row.owner}
        /\ row.status = "DONE" => row.owner \in executed
        /\ row.stale \/ row.expired => row.owner \in lapsed

\* A request that may still claim the row with effect, or whose execution
\* counts, owns the row unless its lease has lapsed.
Live(r) ==
    \/ place[r] \in Owning
    \/ r \in executed /\ answer[r] # "error"

LiveOK(r) == r \notin lapsed /\ Live(r) => row # Nothing /\ row.owner = r

\* What the place of a request in the interceptor says of it.
PlaceOK(r) ==
    /\ place[r] # "over" => answer[r] = Nothing
    /\ r \in executed => place[r] \notin Waiting \cup {"handling"}
    /\ place[r] = "storing" => r \in executed
    /\ place[r] = "reclaiming" =>
          /\ seen[r] \in lapsed
          /\ HashOf[seen[r]] = HashOf[r]

\* A request is only answered by a value of its own kind.
GenuineOK(r) ==
    answer[r] \in Requests =>
        answer[r] \in executed /\ HashOf[answer[r]] = HashOf[r]

RequestOK(r) == LiveOK(r) /\ PlaceOK(r) /\ GenuineOK(r)

StoreIInv == StoreTypeOK /\ RowOK /\ \A r \in Requests : RequestOK(r)

-----------------------------------------------------------------------------
(* Lemmas on the helpers. *)

\* A new claim is a row of its request that is pending and fresh.
LEMMA ClaimFacts ==
    ASSUME NEW r \in Requests
    PROVE  /\ Claim(r) \in Row /\ Claim(r) # Nothing
           /\ Claim(r).owner = r /\ Claim(r).hash = HashOf[r]
           /\ Claim(r).status = "PENDING" /\ Claim(r).snapshot = Nothing
           /\ ~Claim(r).stale /\ ~Claim(r).expired
<1>1. Claim(r) \in Row
    BY Zenon DEF Claim, Row
<1> QED
    BY <1>1, IdempotencyAssumption DEF Claim

\* Going to another step keeps the types and changes one request.
LEMMA MoveToFacts ==
    ASSUME StoreTypeOK, NEW r \in Requests, NEW step \in Steps, MoveTo(r, step)
    PROVE  /\ place' \in [Requests -> Steps]
           /\ seen' \in [Requests -> Requests \cup {Nothing}]
           /\ late' \in [Requests -> BOOLEAN]
           /\ answer' = answer
           /\ place'[r] = step
           /\ \A q \in Requests \ {r} : place'[q] = place[q] /\ seen'[q] = seen[q]
<1>1. late' \in [Requests -> BOOLEAN]
    BY Zenon DEF MoveTo, StoreTypeOK
<1> QED
    BY <1>1 DEF MoveTo, StoreTypeOK

\* A response keeps the types and changes one request.
LEMMA RespondFacts ==
    ASSUME StoreTypeOK, NEW r \in Requests,
           NEW value \in Requests \cup Refusals, Respond(r, value)
    PROVE  /\ place' \in [Requests -> Steps]
           /\ seen' \in [Requests -> Requests \cup {Nothing}]
           /\ late' \in [Requests -> BOOLEAN]
           /\ answer' \in [Requests -> Requests \cup Refusals \cup {Nothing}]
           /\ place'[r] = "over" /\ answer'[r] = value
           /\ \A q \in Requests \ {r} :
                 place'[q] = place[q] /\ seen'[q] = seen[q] /\ answer'[q] = answer[q]
    BY DEF Respond, StoreTypeOK, Steps

\* A response leaves the invariant if it leaves the row and its response is
\* genuine; the execution of r, if there was one, still counts or is excused.
LEMMA RespondKeeps ==
    ASSUME StoreIInv, NEW r \in Requests, place[r] # "over",
           NEW value \in Requests \cup Refusals, Respond(r, value),
           value \in Requests => value \in executed /\ HashOf[value] = HashOf[r],
           UNCHANGED <<row, executed, lapsed>>, failures' \in 0..MaxFailures
    PROVE  StoreIInv'
<1>1. StoreTypeOK'
    BY RespondFacts DEF StoreIInv, StoreTypeOK
<1>2. RowOK'
    BY DEF StoreIInv, RowOK
<1>3. RequestOK(r)'
    <2>1. LiveOK(r)'
        BY RespondFacts, IdempotencyAssumption
        DEF StoreIInv, StoreTypeOK, RequestOK, LiveOK, Live, PlaceOK, Owning, Waiting, Steps
    <2> QED
        BY <2>1, RespondFacts, IdempotencyAssumption
        DEF StoreIInv, RequestOK, PlaceOK, GenuineOK, Waiting
<1>4. ASSUME NEW q \in Requests \ {r} PROVE RequestOK(q)'
    BY <1>4, RespondFacts DEF StoreIInv, RequestOK, LiveOK, Live, PlaceOK, GenuineOK
<1> QED
    BY <1>1, <1>2, <1>3, <1>4 DEF StoreIInv

\* Giving up or waiting on leaves the invariant.
LEMMA InProgressKeeps ==
    ASSUME StoreIInv, NEW r \in Requests, place[r] \in Waiting, InProgress(r),
           UNCHANGED <<row, executed, lapsed, failures>>
    PROVE  StoreIInv'
<1>1. CASE Respond(r, "inProgress")
    <2>1. failures' \in 0..MaxFailures
        BY DEF StoreIInv, StoreTypeOK
    <2> QED
        BY <1>1, <2>1, RespondKeeps, IdempotencyAssumption DEF Waiting, Refusals
<1>2. CASE MoveTo(r, "acquiring")
    <2>1. StoreTypeOK'
        BY <1>2, MoveToFacts DEF StoreIInv, StoreTypeOK, Steps
    <2>2. RowOK'
        BY DEF StoreIInv, RowOK
    <2>3. ASSUME NEW q \in Requests PROVE RequestOK(q)'
        BY <1>2, <2>3, MoveToFacts
        DEF StoreIInv, RequestOK, LiveOK, Live, PlaceOK, GenuineOK, Waiting, Owning, Steps
    <2> QED
        BY <2>1, <2>2, <2>3 DEF StoreIInv
<1> QED
    BY <1>1, <1>2 DEF InProgress

\* A claim of r leaves the invariant if the claim it replaces, if any, has
\* lapsed.
LEMMA ClaimKeeps ==
    ASSUME StoreIInv, NEW r \in Requests, place[r] \in Waiting,
           row # Nothing => row.owner \in lapsed,
           row' = Claim(r), MoveTo(r, "handling"),
           UNCHANGED <<executed, lapsed, failures>>
    PROVE  StoreIInv'
<1>1. StoreTypeOK'
    BY ClaimFacts, MoveToFacts DEF StoreIInv, StoreTypeOK, Steps
<1>2. RowOK'
    BY ClaimFacts DEF RowOK
<1>3. ASSUME NEW q \in Requests PROVE RequestOK(q)'
    BY <1>3, ClaimFacts, MoveToFacts
    DEF StoreIInv, RequestOK, LiveOK, Live, PlaceOK, GenuineOK, Waiting, Owning, Steps
<1> QED
    BY <1>1, <1>2, <1>3 DEF StoreIInv

-----------------------------------------------------------------------------
(* One lemma per action. *)

\* Inserting a record keeps the invariant.
LEMMA InsertKeeps ==
    ASSUME StoreIInv, NEW r \in Requests, Insert(r) PROVE StoreIInv'
<1>0. place[r] = "acquiring" /\ place[r] \in Waiting
    BY DEF Insert, Waiting
<1>1. CASE Gone /\ row' = Claim(r) /\ MoveTo(r, "handling")
    <2>1. row # Nothing => row.owner \in lapsed
        BY <1>1 DEF StoreIInv, RowOK, Gone
    <2> QED
        BY <1>0, <1>1, <2>1, ClaimKeeps DEF Insert
<1>2. CASE MoveTo(r, "finding") /\ UNCHANGED row
    <2>1. StoreTypeOK'
        BY <1>2, MoveToFacts DEF Insert, StoreIInv, StoreTypeOK, Steps
    <2>2. RowOK'
        BY <1>2 DEF Insert, StoreIInv, RowOK
    <2>3. ASSUME NEW q \in Requests PROVE RequestOK(q)'
        BY <1>0, <1>2, <2>3, MoveToFacts
        DEF Insert, StoreIInv, RequestOK, LiveOK, Live, PlaceOK, GenuineOK, Waiting, Owning, Steps
    <2> QED
        BY <2>1, <2>2, <2>3 DEF StoreIInv
<1> QED
    BY <1>1, <1>2 DEF Insert

\* Finding a record, answering from it or refusing, keeps the invariant.
LEMMA FindKeeps ==
    ASSUME StoreIInv, NEW r \in Requests, Find(r) PROVE StoreIInv'
<1>0. /\ place[r] = "finding" /\ place[r] \in Waiting /\ place[r] # "over"
      /\ UNCHANGED <<row, executed, lapsed, failures>>
      /\ failures' \in 0..MaxFailures
    BY DEF Find, Waiting, StoreIInv, StoreTypeOK
<1>1. CASE InProgress(r)
    BY <1>0, <1>1, InProgressKeeps
<1>2. CASE Respond(r, "reused")
    BY <1>0, <1>2, RespondKeeps, IdempotencyAssumption DEF Refusals
<1>3. CASE /\ row # Nothing /\ row.hash = HashOf[r] /\ row.status = "DONE"
           /\ Respond(r, IF row.snapshot = Nothing THEN "unavailable"
                         ELSE row.snapshot)
    <2>1. row \in Row
        BY <1>3 DEF StoreIInv, StoreTypeOK
    <2>2. CASE row.snapshot = Nothing
        BY <1>0, <1>3, <2>2, RespondKeeps, IdempotencyAssumption DEF Refusals
    <2>3. CASE row.snapshot # Nothing
        <3>1. row.snapshot \in executed /\ HashOf[row.snapshot] = HashOf[r]
            BY <1>3, <2>3 DEF StoreIInv, RowOK
        <3>2. row.snapshot \in Requests
            BY <3>1 DEF StoreIInv, StoreTypeOK
        <3> QED
            BY <1>0, <1>3, <2>3, <3>1, <3>2, RespondKeeps
    <2> QED
        BY <2>2, <2>3
<1>4. CASE /\ row # Nothing /\ row.hash = HashOf[r] /\ row.stale
           /\ place' = [place EXCEPT ![r] = "reclaiming"]
           /\ seen' = [seen EXCEPT ![r] = row.owner]
           /\ UNCHANGED <<late, answer>>
    <2>1. row \in Row /\ row.owner \in Requests
        BY <1>4 DEF StoreIInv, StoreTypeOK, Row
    <2>2. StoreTypeOK'
        BY <1>0, <1>4, <2>1 DEF StoreIInv, StoreTypeOK, Steps
    <2>3. RowOK'
        BY <1>0 DEF StoreIInv, RowOK
    <2>4. HashOf[row.owner] = HashOf[r] /\ row.owner \in lapsed
        BY <1>4 DEF StoreIInv, RowOK
    <2>5. ASSUME NEW q \in Requests PROVE RequestOK(q)'
        BY <1>0, <1>4, <2>1, <2>4, <2>5
        DEF StoreIInv, StoreTypeOK, RequestOK, LiveOK, Live, PlaceOK, GenuineOK, Waiting, Owning
    <2> QED
        BY <2>2, <2>3, <2>5 DEF StoreIInv
<1> QED
    BY <1>1, <1>2, <1>3, <1>4 DEF Find

\* Reclaiming an expired record keeps the invariant: its owner has lost it.
LEMMA ReclaimKeeps ==
    ASSUME StoreIInv, NEW r \in Requests, Reclaim(r) PROVE StoreIInv'
<1>0. /\ place[r] = "reclaiming" /\ place[r] \in Waiting
      /\ UNCHANGED <<executed, lapsed, failures>>
    BY DEF Reclaim, Waiting
<1>1. CASE Owns(seen[r]) /\ row' = Claim(r) /\ MoveTo(r, "handling")
    <2>1. row.owner \in lapsed
        BY <1>0, <1>1 DEF Owns, StoreIInv, RequestOK, PlaceOK
    <2> QED
        BY <1>0, <1>1, <2>1, ClaimKeeps
<1>2. CASE UNCHANGED row /\ InProgress(r)
    BY <1>0, <1>2, InProgressKeeps
<1> QED
    BY <1>1, <1>2 DEF Reclaim

\* Running the handler keeps the invariant.
LEMMA HandlerKeeps ==
    ASSUME StoreIInv, NEW r \in Requests,
           HandlerReturns(r) \/ HandlerThrows(r) \/ HandlerThrowsLate(r)
    PROVE  StoreIInv'
<1>0. /\ place[r] = "handling" /\ UNCHANGED <<row, lapsed>>
      /\ failures' \in 0..MaxFailures
    BY IdempotencyAssumption
    DEF HandlerReturns, HandlerThrows, HandlerThrowsLate, Fault, StoreIInv, StoreTypeOK
<1>1. PICK step \in {"storing", "releasing"} :
          /\ MoveTo(r, step)
          /\ executed' \in {executed, executed \cup {r}}
          /\ step = "storing" => r \in executed'
    BY DEF HandlerReturns, HandlerThrows, HandlerThrowsLate
<1>2. StoreTypeOK'
    BY <1>0, <1>1, MoveToFacts DEF StoreIInv, StoreTypeOK, Steps
<1>3. RowOK'
    BY <1>0, <1>1 DEF StoreIInv, RowOK
<1>4. ASSUME NEW q \in Requests PROVE RequestOK(q)'
    BY <1>0, <1>1, <1>4, MoveToFacts
    DEF StoreIInv, RequestOK, LiveOK, Live, PlaceOK, GenuineOK, Waiting, Owning, Steps
<1> QED
    BY <1>2, <1>3, <1>4 DEF StoreIInv

\* Storing the answer keeps the invariant.
LEMMA StoreKeeps ==
    ASSUME StoreIInv, NEW r \in Requests, Store(r) PROVE StoreIInv'
<1>0. /\ place[r] = "storing" /\ r \in executed /\ Respond(r, r)
      /\ UNCHANGED <<executed, lapsed, failures>>
    BY DEF Store, StoreIInv, RequestOK, PlaceOK
<1>1. CASE row' = row
    BY <1>0, <1>1, RespondKeeps DEF StoreIInv, StoreTypeOK
<1>2. ASSUME NEW kept \in BOOLEAN, Owns(r),
             row' = [row EXCEPT !.status = "DONE",
                                !.snapshot = IF kept THEN r ELSE Nothing]
      PROVE  StoreIInv'
    <2>1. row \in Row /\ row # Nothing /\ row.owner = r
        BY <1>2 DEF Owns, StoreIInv, StoreTypeOK
    <2>2. row' \in Row
        BY <1>2, <2>1, Zenon DEF Row
    <2>3. /\ row' # Nothing /\ row'.owner = row.owner /\ row'.hash = row.hash
          /\ row'.snapshot \in {Nothing, r} /\ row'.stale = row.stale
          /\ row'.expired = row.expired
        BY <1>2, <2>1, <2>2, IdempotencyAssumption DEF Row
    <2>4. StoreTypeOK'
        BY <1>0, <2>2, RespondFacts DEF StoreIInv, StoreTypeOK
    <2>5. RowOK'
        BY <1>0, <2>1, <2>3 DEF StoreIInv, RowOK
    <2>6. ASSUME NEW q \in Requests PROVE RequestOK(q)'
        BY <1>0, <2>1, <2>3, <2>6, RespondFacts, IdempotencyAssumption
        DEF StoreIInv, RequestOK, LiveOK, Live, PlaceOK, GenuineOK, Waiting, Owning
    <2> QED
        BY <2>4, <2>5, <2>6 DEF StoreIInv
<1> QED
    BY <1>1, <1>2 DEF Store

\* Releasing the record keeps the invariant.
LEMMA ReleaseKeeps ==
    ASSUME StoreIInv, NEW r \in Requests, Release(r) PROVE StoreIInv'
<1>0. /\ place[r] = "releasing" /\ Respond(r, "error") /\ "error" \in Refusals
      /\ UNCHANGED <<executed, lapsed, failures>> /\ failures' \in 0..MaxFailures
    BY DEF Release, Refusals, StoreIInv, StoreTypeOK
<1>1. CASE row' = row
    BY <1>0, <1>1, RespondKeeps, IdempotencyAssumption
<1>2. CASE Owns(r) /\ row' = Nothing
    <2>1. StoreTypeOK'
        BY <1>0, <1>2, RespondFacts DEF StoreIInv, StoreTypeOK
    <2>2. RowOK'
        BY <1>2 DEF RowOK
    <2>3. ASSUME NEW q \in Requests PROVE RequestOK(q)'
        BY <1>0, <1>2, <2>3, RespondFacts, IdempotencyAssumption
        DEF Owns, StoreIInv, RequestOK, LiveOK, Live, PlaceOK, GenuineOK, Waiting, Owning
    <2> QED
        BY <2>1, <2>2, <2>3 DEF StoreIInv
<1> QED
    BY <1>1, <1>2 DEF Release

\* A store or a release that fails, and a crash, keep the invariant.
LEMMA FailureKeeps ==
    ASSUME StoreIInv, NEW r \in Requests,
           StoreFails(r) \/ ReleaseFails(r) \/ Crash(r)
    PROVE  StoreIInv'
<1>0. /\ UNCHANGED <<row, executed, lapsed>>
      /\ failures' \in 0..MaxFailures
      /\ place[r] # "over"
    BY IdempotencyAssumption
    DEF StoreFails, ReleaseFails, Crash, Fault, StoreIInv, StoreTypeOK
<1>1. CASE StoreFails(r)
    <2>1. r \in executed /\ Respond(r, r)
        BY <1>1 DEF StoreFails, StoreIInv, RequestOK, PlaceOK
    <2> QED
        BY <1>0, <2>1, RespondKeeps
<1>2. CASE ReleaseFails(r) \/ Crash(r)
    <2>1. PICK value \in {"error", "lost"} : Respond(r, value)
        BY <1>2 DEF ReleaseFails, Crash
    <2>2. value \in Refusals /\ value \notin Requests
        BY IdempotencyAssumption DEF Refusals
    <2> QED
        BY <1>0, <2>1, <2>2, RespondKeeps
<1> QED
    BY <1>1, <1>2

\* A deadline that passes keeps the invariant.
LEMMA DeadlineKeeps ==
    ASSUME StoreIInv, NEW r \in Requests, DeadlinePasses(r) PROVE StoreIInv'
<1>1. late' \in [Requests -> BOOLEAN]
    BY Zenon DEF DeadlinePasses, StoreIInv, StoreTypeOK
<1>2. UNCHANGED <<row, place, seen, answer, executed, lapsed, failures>>
    BY DEF DeadlinePasses
<1> QED
    BY <1>1, <1>2
    DEF StoreIInv, StoreTypeOK, RowOK, RequestOK, LiveOK, Live, PlaceOK, GenuineOK

\* A lease that goes stale and a record that expires keep the invariant.
LEMMA ClockKeeps ==
    ASSUME StoreIInv, LeaseGoesStale \/ RowExpires PROVE StoreIInv'
<1>0. /\ row # Nothing /\ row \in Row /\ lapsed' = lapsed \cup {row.owner}
      /\ UNCHANGED <<place, seen, late, answer, executed, failures>>
    BY DEF LeaseGoesStale, RowExpires, StoreIInv, StoreTypeOK
<1>1. row' \in Row
    <2>1. CASE row' = [row EXCEPT !.stale = TRUE]
        BY <1>0, <2>1, Zenon DEF Row
    <2>2. CASE row' = [row EXCEPT !.expired = TRUE]
        BY <1>0, <2>2, Zenon DEF Row
    <2> QED
        BY <2>1, <2>2 DEF LeaseGoesStale, RowExpires
<1>2. /\ row' # Nothing /\ row'.owner = row.owner /\ row'.hash = row.hash
      /\ row'.snapshot = row.snapshot /\ row'.status = row.status
    BY <1>0, <1>1, IdempotencyAssumption DEF LeaseGoesStale, RowExpires, Row
<1>3. StoreTypeOK'
    BY <1>0, <1>1 DEF StoreIInv, StoreTypeOK, Row
<1>4. RowOK'
    BY <1>0, <1>2 DEF StoreIInv, RowOK
<1>5. ASSUME NEW q \in Requests PROVE RequestOK(q)'
    BY <1>0, <1>2, <1>5
    DEF StoreIInv, RequestOK, LiveOK, Live, PlaceOK, GenuineOK
<1> QED
    BY <1>3, <1>4, <1>5 DEF StoreIInv

\* Sweeping expired records keeps the invariant.
LEMMA SweepKeeps ==
    ASSUME StoreIInv, Sweep PROVE StoreIInv'
<1>0. /\ row # Nothing /\ row.owner \in lapsed /\ row' = Nothing
      /\ UNCHANGED <<place, seen, late, answer, executed, lapsed, failures>>
    BY DEF Sweep, StoreIInv, RowOK
<1> QED
    BY <1>0
    DEF StoreIInv, StoreTypeOK, RowOK, RequestOK, LiveOK, Live, PlaceOK, GenuineOK

-----------------------------------------------------------------------------
(* The theorems. *)

\* The inductive invariant holds: an execution that counts has its row.
THEOREM OwnershipHolds == StoreSpec => []StoreIInv
<1>1. StoreInit => StoreIInv
    BY IdempotencyAssumption
    DEF StoreInit, StoreIInv, StoreTypeOK, RowOK, RequestOK, LiveOK, Live, PlaceOK, GenuineOK,
        Steps, Owning
<1>2. StoreIInv /\ [StoreNext]_storeVars => StoreIInv'
    <2> SUFFICES ASSUME StoreIInv, [StoreNext]_storeVars PROVE StoreIInv'
        OBVIOUS
    <2>1. ASSUME NEW r \in Requests, DeadlinePasses(r) PROVE StoreIInv'
        BY <2>1, DeadlineKeeps
    <2>2. ASSUME NEW r \in Requests, Interceptor(r) PROVE StoreIInv'
        BY <2>2, InsertKeeps, FindKeeps, ReclaimKeeps, HandlerKeeps,
           StoreKeeps, ReleaseKeeps
        DEF Interceptor
    <2>3. ASSUME NEW r \in Requests, Failure(r) PROVE StoreIInv'
        BY <2>3, HandlerKeeps, FailureKeeps DEF Failure
    <2>4. ASSUME LeaseGoesStale \/ RowExpires \/ Sweep PROVE StoreIInv'
        BY <2>4, ClockKeeps, SweepKeeps
    <2>5. CASE UNCHANGED storeVars
        BY <2>5
        DEF storeVars, StoreIInv, StoreTypeOK, RowOK, RequestOK, LiveOK, Live, PlaceOK, GenuineOK
    <2> QED
        BY <2>1, <2>2, <2>3, <2>4, <2>5 DEF StoreNext
<1> QED
    BY <1>1, <1>2, PTL DEF StoreSpec

\* The types hold of every reachable state.
THEOREM IdempotencyTypeCorrect == StoreSpec => []StoreTypeOK
<1>1. StoreIInv => StoreTypeOK
    BY DEF StoreIInv
<1> QED
    BY <1>1, OwnershipHolds, PTL

\* The handler has its effect once, but for a lapsed lease or an error: two
\* executions that count would own the same row.
THEOREM OnceHolds == StoreSpec => []OnceUnlessExcused
<1>1. StoreIInv => OnceUnlessExcused
    <2> SUFFICES ASSUME StoreIInv, NEW r \in executed \ Excused, NEW q \in executed \ Excused
                 PROVE  r = q
        BY DEF OnceUnlessExcused
    <2>1. r \in Requests /\ q \in Requests
        BY DEF StoreIInv, StoreTypeOK
    <2>2. ASSUME NEW p \in executed \ Excused, p \in Requests
          PROVE  row # Nothing /\ row.owner = p
        BY <2>2 DEF StoreIInv, RequestOK, LiveOK, Live, Excused
    <2> QED
        BY <2>1, <2>2
<1> QED
    BY <1>1, OwnershipHolds, PTL

\* A request is only answered by a committed value of the very same request.
THEOREM GenuineHolds == StoreSpec => []AnswersAreGenuine
<1>1. StoreIInv => AnswersAreGenuine
    BY DEF StoreIInv, RequestOK, GenuineOK, AnswersAreGenuine
<1> QED
    BY <1>1, OwnershipHolds, PTL

\* A stored response stays what it is until it expires: every update by an
\* owner asks for a pending row.
THEOREM FinalHolds == StoreSpec => StoredAnswerIsFinal
<1> DEFINE Kept ==
        row # Nothing /\ row.status = "DONE" /\ ~row.expired =>
            /\ row' # Nothing
            /\ row'.status = "DONE" /\ row'.owner = row.owner
            /\ row'.snapshot = row.snapshot
<1>1. StoreIInv /\ [StoreNext]_storeVars => [Kept]_storeVars
    <2> SUFFICES ASSUME StoreIInv, [StoreNext]_storeVars,
                        row # Nothing, row.status = "DONE", ~row.expired
                 PROVE  /\ row' # Nothing
                        /\ row'.status = "DONE" /\ row'.owner = row.owner
                        /\ row'.snapshot = row.snapshot
        OBVIOUS
    <2>1. row \in Row
        BY DEF StoreIInv, StoreTypeOK
    <2>2. CASE UNCHANGED row
        BY <2>2
    <2>3. CASE RowExpires
        <3>1. row' = [row EXCEPT !.expired = TRUE] /\ row' \in Row
            BY <2>1, <2>3, Zenon DEF RowExpires, Row
        <3> QED
            BY <2>1, <3>1, IdempotencyAssumption DEF Row
    <2>4. ASSUME NEW r \in Requests,
                 DeadlinePasses(r) \/ Interceptor(r) \/ Failure(r)
          PROVE  UNCHANGED row
        BY <2>4
        DEF DeadlinePasses, Interceptor, Failure, Insert, Find, Reclaim,
            HandlerReturns, HandlerThrows, HandlerThrowsLate, Store, StoreFails,
            Release, ReleaseFails, Crash, Gone, Owns
    <2>5. ~LeaseGoesStale /\ ~Sweep
        BY DEF LeaseGoesStale, Sweep
    <2> QED
        BY <2>2, <2>3, <2>4, <2>5 DEF StoreNext, storeVars
<1> QED
    BY <1>1, OwnershipHolds, PTL DEF StoreSpec, StoredAnswerIsFinal

=============================================================================
