-------------------------------- MODULE Relay --------------------------------
(***************************************************************************)
(* One tenant's Redis stream, its consumer group 'relay' and the relay     *)
(* processes that copy stream entries to the tenant's Pub/Sub channel      *)
(* (apps/worker/src/realtime-relay), with the retention job that trims the *)
(* stream (apps/worker/src/stream-retention).  An entry's id is its        *)
(* position in the stream.                                                 *)
(***************************************************************************)
EXTENDS Integers, FiniteSets, Sequences

CONSTANTS
    Events,       \* event ids; the dispatcher may append one more than once
    Relays,       \* relay processes
    BatchSize,    \* COUNT of XAUTOCLAIM and XREADGROUP
    MaxEntries,   \* bound: entries of the stream
    MaxTrims,     \* bound: trims
    MaxCrashes,   \* bound: relay crashes and failed ticks
    MaxSlow       \* bound: entries that grow idle while a live relay holds them

ASSUME RelayAssumption ==
    /\ BatchSize \in Nat \ {0}
    /\ {MaxEntries, MaxTrims, MaxCrashes, MaxSlow} \subseteq Nat

VARIABLES
    stream,     \* the event of every entry ever appended
    trimmed,    \* entries 1..trimmed are gone from the stream
    trims,      \* trims so far
    lastRead,   \* last-delivered-id of the group
    pel,        \* pending entries of the group: delivered, not acknowledged
    idle,       \* pending entries idle for at least minIdleMs
    stage,      \* "idle", "claimed" or "read": where a relay is in its tick
    batch,      \* entries a relay has still to publish and acknowledge
    sent,       \* whether the first of them has been published
    channel,    \* what was PUBLISHed to rt:live:<tenant>, in order
    crashes, slow

source == <<stream, trimmed, trims>>
group  == <<lastRead, pel, idle>>
relay  == <<stage, batch, sent>>
bounds == <<crashes, slow>>
rvars  == <<source, group, relay, channel, bounds>>

RelayInit ==
    /\ stream = <<>> /\ trimmed = 0 /\ trims = 0
    /\ lastRead = 0 /\ pel = {} /\ idle = {}
    /\ stage = [c \in Relays |-> "idle"]
    /\ batch = [c \in Relays |-> <<>>]
    /\ sent = [c \in Relays |-> FALSE]
    /\ channel = <<>>
    /\ crashes = 0 /\ slow = 0

Retained == (trimmed + 1)..Len(stream)

\* The first n of a set of entries, in stream order.
FirstOf(S, n) ==
    LET k == IF Cardinality(S) < n THEN Cardinality(S) ELSE n
    IN  [j \in 1..k |-> CHOOSE i \in S : Cardinality({h \in S : h <= i}) = j]

Items(s) == {s[j] : j \in DOMAIN s}

-----------------------------------------------------------------------------
(* The dispatcher's XADD, see Outbox. *)
AppendEntry(e) ==
    /\ Len(stream) < MaxEntries
    /\ stream' = Append(stream, e)
    /\ UNCHANGED <<trimmed, trims, group, relay, channel, bounds>>

(* trimTenantStream: XTRIM MINID drops the entries older than the floor. *)
Trim ==
    /\ trims < MaxTrims
    /\ trims' = trims + 1
    /\ trimmed' \in Retained
    /\ UNCHANGED <<stream, group, relay, channel, bounds>>

\* Defect: a tick reads new entries only.
ClaimNothing(c) ==
    /\ stage[c] = "idle"
    /\ stage' = [stage EXCEPT ![c] = "claimed"]
    /\ UNCHANGED <<source, group, batch, sent, channel, bounds>>

(* XAUTOCLAIM from '0': take over the oldest entries that grew idle,        *)
(* whoever held them; those trimmed meanwhile leave the pending list.       *)
Claim(c) ==
    /\ stage[c] = "idle"
    /\ batch' = [batch EXCEPT ![c] = FirstOf(idle \cap Retained, BatchSize)]
    /\ pel' = pel \ (idle \ Retained)
    /\ idle' = (idle \cap Retained) \ Items(batch'[c])
    /\ stage' = [stage EXCEPT ![c] = "claimed"]
    /\ UNCHANGED <<source, lastRead, sent, channel, bounds>>

(* XREADGROUP '>': the next entries nobody in the group was given. *)
Read(c) ==
    /\ stage[c] = "claimed"
    /\ batch[c] = <<>>
    /\ LET new == FirstOf({i \in Retained : i > lastRead}, BatchSize)
       IN  /\ batch' = [batch EXCEPT ![c] = new]
           /\ pel' = pel \cup Items(new)
           /\ lastRead' = IF new = <<>> THEN lastRead ELSE new[Len(new)]
           /\ stage' = [stage EXCEPT ![c] = IF new = <<>> THEN "idle" ELSE "read"]
    /\ UNCHANGED <<source, idle, sent, channel, bounds>>

(* publishEntries, for each entry: PUBLISH, then XACK. *)
Publish(c) ==
    /\ batch[c] # <<>> /\ ~sent[c]
    /\ channel' = Append(channel, Head(batch[c]))
    /\ sent' = [sent EXCEPT ![c] = TRUE]
    /\ UNCHANGED <<source, group, stage, batch, bounds>>

\* Defect: an entry is acknowledged whether it was published or not.
AckUnpublished(c) ==
    /\ batch[c] # <<>>
    /\ pel' = pel \ {Head(batch[c])}
    /\ idle' = idle \ {Head(batch[c])}
    /\ batch' = [batch EXCEPT ![c] = Tail(@)]
    /\ sent' = [sent EXCEPT ![c] = FALSE]
    /\ stage' = [stage EXCEPT ![c] =
                    IF @ = "read" /\ Len(batch[c]) = 1 THEN "idle" ELSE @]
    /\ UNCHANGED <<source, lastRead, channel, bounds>>

Ack(c) ==
    /\ sent[c]
    /\ pel' = pel \ {Head(batch[c])}
    /\ idle' = idle \ {Head(batch[c])}
    /\ batch' = [batch EXCEPT ![c] = Tail(@)]
    /\ sent' = [sent EXCEPT ![c] = FALSE]
    /\ stage' = [stage EXCEPT ![c] =
                    IF @ = "read" /\ Len(batch[c]) = 1 THEN "idle" ELSE @]
    /\ UNCHANGED <<source, lastRead, channel, bounds>>

(* The process dies or a command of the tick throws: what it had left to    *)
(* publish or acknowledge stays pending.                                    *)
RelayCrash(c) ==
    /\ stage[c] # "idle"
    /\ crashes < MaxCrashes
    /\ crashes' = crashes + 1
    /\ stage' = [stage EXCEPT ![c] = "idle"]
    /\ batch' = [batch EXCEPT ![c] = <<>>]
    /\ sent' = [sent EXCEPT ![c] = FALSE]
    /\ UNCHANGED <<source, group, channel, slow>>

Held(i) == \E c \in Relays : i \in Items(batch[c])

(* A pending entry has been idle for minIdleMs: nobody works on it, or the  *)
(* relay that holds it is slower than that.                                 *)
GrowIdle(i) ==
    /\ i \in pel \ idle
    /\ Held(i) => slow < MaxSlow
    /\ slow' = IF Held(i) THEN slow + 1 ELSE slow
    /\ idle' = idle \cup {i}
    /\ UNCHANGED <<source, lastRead, pel, relay, channel, crashes>>

Tick(c) == Claim(c) \/ Read(c) \/ Publish(c) \/ Ack(c)

RelayNext ==
    \/ \E e \in Events : AppendEntry(e)
    \/ Trim
    \/ \E c \in Relays : Tick(c) \/ RelayCrash(c)
    \/ \E i \in pel : GrowIdle(i)

RelaySpec == RelayInit /\ [][RelayNext]_rvars

(* The relay loop re-arms its timer after every tick, failed ones included, *)
(* and time passes.                                                         *)
RelayFairness ==
    /\ \A c \in Relays : WF_rvars(Tick(c))
    /\ \A i \in 1..MaxEntries : WF_rvars(~Held(i) /\ GrowIdle(i))

FairRelaySpec == RelaySpec /\ RelayFairness

-----------------------------------------------------------------------------
\* Types; pending, idle, held and published entries were given to the group.
RelayTypeOK ==
    /\ stream \in Seq(Events)
    /\ trimmed \in 0..Len(stream) /\ trims \in Nat
    /\ lastRead \in 0..Len(stream)
    /\ pel \subseteq 1..lastRead /\ idle \subseteq pel
    /\ stage \in [Relays -> {"idle", "claimed", "read"}]
    /\ batch \in [Relays -> Seq(1..lastRead)]
    /\ sent \in [Relays -> BOOLEAN]
    /\ channel \in Seq(1..lastRead)
    /\ crashes \in Nat /\ slow \in Nat

(* relay.ts: "a restart never loses an event".  An entry the group has been *)
(* given is published, or still pending where any relay can reclaim it, or  *)
(* was trimmed: acknowledging comes after publishing, whoever else claimed  *)
(* the entry meanwhile.                                                     *)
NothingForgotten ==
    \A i \in 1..lastRead : i \in Items(channel) \/ i \in pel \/ i <= trimmed

(* Every appended entry is eventually published, unless retention trims it  *)
(* first.                                                                   *)
EventuallyPublished ==
    \A i \in 1..MaxEntries :
        i \in DOMAIN stream ~> i \in Items(channel) \/ i <= trimmed

=============================================================================
