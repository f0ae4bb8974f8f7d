------------------------------- MODULE Gateway -------------------------------
(***************************************************************************)
(* One realtime gateway process (apps/realtime: app.ts, gateway/hub.ts),   *)
(* fed by the relay over Pub/Sub, and the clients connected to it          *)
(* (packages/realtime-client/transport.ts), all of one tenant.             *)
(*                                                                         *)
(* A client reconnects on a fresh connection each time.  Frames travel in  *)
(* order on a connection.  The hub's maps byTenant and bySession hold sets *)
(* of connections; a set that emptied is dropped and a later one is another *)
(* set, so a set is named by the connection it was created for.            *)
(***************************************************************************)
EXTENDS Relay

CONSTANTS
    Clients,       \* clients: devices, or tabs of one
    SessionOf,     \* the login session a client belongs to
    Conns,         \* connections, each used once
    Null,          \* no cursor, no connection, no request, no replay
    Topics,        \* branches a session may be limited to
    Everyone,      \* the topic of a tenant-wide event
    TopicOf,       \* the topic of an event
    ChunkSize,     \* COUNT of a replay's XRANGE
    DedupCapacity, \* capacity of RecentEventIds
    MaxFaults,     \* bound: failing Redis commands of resumes, failing refetches
    MaxRefreshes   \* bound: token refreshes that change a scope

ASSUME GatewayAssumption ==
    /\ Everyone \notin Topics /\ Null \notin Conns \cup Clients \cup Nat
    /\ Null \notin [from : Nat, boundary : Nat, done : SUBSET Events]
    /\ DOMAIN SessionOf = Clients
    /\ TopicOf \in [Events -> Topics \cup {Everyone}]
    /\ {ChunkSize, DedupCapacity} \subseteq Nat \ {0}
    /\ {MaxFaults, MaxRefreshes} \subseteq Nat

VARIABLES
    current,    \* the set in byTenant, Null when there is none
    sessionSet, \* the set of each session in bySession, Null when none
    commands,   \* commands of the subscriber connection, on their way to Redis
    subscribed, \* whether Redis delivers rt:live:<tenant> to this process
    heard,      \* channel messages handled by, or never sent to, this process
    recent,     \* RecentEventIds of the tenant, oldest first
    at,         \* "free", "joining", "joined", "open" or "closed"
    gen,        \* the tenant's set a connection was, or will be, added to
    sgen,       \* its session's set, likewise
    scope,      \* branchScope of a connection's session
    wire,       \* frames on their way to the client
    request,    \* cursor of a resume not answered yet, then the stream's bounds
    replay,     \* the replay in progress on a connection, Null if none
    buffer,     \* its liveBuffer
    since,      \* channel position from which it hears every live message
    asked,      \* the cursor its resume was granted from, Null before
    conn,       \* the connection of a client, Null when it has none
    cursor,     \* the client's persisted cursor
    known,      \* events the client was told of, or refetched the effect of
    resuming,   \* the client got its ack and is reading its cursor store
    refetch,    \* the tail it will persist when its REST refetch is done
    faults, refreshes

hub     == <<current, sessionSet, commands, subscribed, heard, recent>>
session == <<at, gen, sgen, scope, since>>
resume  == <<request, replay, buffer, asked>>
client  == <<conn, cursor, known, resuming, refetch>>
more    == <<faults, refreshes>>
vars    == <<rvars, hub, session, wire, resume, client, more>>

Sessions == {SessionOf[k] : k \in Clients}

Init ==
    /\ RelayInit
    /\ current = Null /\ sessionSet = [x \in Sessions |-> Null]
    /\ commands = <<>> /\ subscribed = FALSE /\ heard = 0 /\ recent = <<>>
    /\ at = [c \in Conns |-> "free"]
    /\ gen = [c \in Conns |-> Null] /\ sgen = [c \in Conns |-> Null]
    /\ scope = [c \in Conns |-> Topics] /\ since = [c \in Conns |-> Null]
    /\ wire = [c \in Conns |-> <<>>]
    /\ request = [c \in Conns |-> <<>>] /\ replay = [c \in Conns |-> Null]
    /\ buffer = [c \in Conns |-> <<>>] /\ asked = [c \in Conns |-> Null]
    /\ conn = [k \in Clients |-> Null] /\ cursor = [k \in Clients |-> Null]
    /\ known = [k \in Clients |-> {}] /\ resuming = [k \in Clients |-> FALSE]
    /\ refetch = [k \in Clients |-> Null]
    /\ faults = 0 /\ refreshes = 0

-----------------------------------------------------------------------------
(* isAuthorized, for the branch dimension: the tenant is the same and the   *)
(* company dimension is checked alike.                                      *)
Authorized(c, i) == TopicOf[stream[i]] \in scope[c] \cup {Everyone}

\* The connections of the set in byTenant, and of a session's in bySession.
Members == {c \in Conns : at[c] \in {"joined", "open"} /\ gen[c] = current}
SessionMembers(x) == {c \in Conns : at[c] = "open" /\ sgen[c] = sessionSet[x]}

Event(i)     == [type |-> "event", cursor |-> i]
Heartbeat(i) == [type |-> "heartbeat", cursor |-> i]
Signal(t, i) == [type |-> t, cursor |-> i]
Hello        == Signal("ack", Null)

\* Only a connection that a client still reads keeps its frames.
Used(c) == \E k \in Clients : conn[k] = c
Push(c, frames) == IF Used(c) THEN wire[c] \o frames ELSE wire[c]

\* streamBounds: the last generated id survives trimming, the first retained
\* id is unknown (Null) once nothing is retained.  A failing XINFO is taken
\* for a stream that does not exist yet.
TailOf(broken)  == IF broken THEN 0 ELSE Len(stream)
FloorOf(broken) == IF broken \/ Retained = {} THEN Null ELSE trimmed + 1

-----------------------------------------------------------------------------
ToRedis(cmd, c, x) == [cmd |-> cmd, conn |-> c, session |-> x]

\* This process is, and stays, subscribed to the channel.
Listening ==
    subscribed /\ \A j \in DOMAIN commands : commands[j].cmd = "session"

(* addToSession for a connection just added to the tenant's set.  The first *)
(* of a session waits for the SUBSCRIBE to its revocation channel, another  *)
(* is registered at once and the client is sent its ack.                    *)
JoinSession(c, x, cmds, acked) ==
    IF sessionSet[x] = Null
    THEN /\ sessionSet' = [sessionSet EXCEPT ![x] = c]
         /\ sgen' = [sgen EXCEPT ![c] = c]
         /\ commands' = Append(cmds, ToRedis("session", c, x))
         /\ at' = [at EXCEPT ![c] = "joined"]
         /\ wire' = wire
    ELSE /\ sgen' = [sgen EXCEPT ![c] = sessionSet[x]]
         /\ commands' = cmds
         /\ at' = [at EXCEPT ![c] = "open"]
         /\ wire' = [wire EXCEPT ![c] = acked]
         /\ UNCHANGED sessionSet

(* A client connects: its session is authenticated and register() runs      *)
(* addToTenant.  The connection a set is created for waits for SUBSCRIBE,   *)
(* one that finds the set there is added to it at once.                     *)
Connect(k, c) ==
    /\ conn[k] = Null /\ at[c] = "free"
    /\ conn' = [conn EXCEPT ![k] = c]
    /\ \/ /\ current = Null
          /\ current' = c
          /\ recent' = <<>>
          /\ commands' = Append(commands, ToRedis("subscribe", c, SessionOf[k]))
          /\ at' = [at EXCEPT ![c] = "joining"]
          /\ UNCHANGED <<sessionSet, sgen, since, wire>>
       \/ /\ current # Null
          /\ since' = [since EXCEPT ![c] = IF Listening THEN heard ELSE Null]
          /\ JoinSession(c, SessionOf[k], commands, <<Hello>>)
          /\ UNCHANGED <<current, recent>>
    /\ gen' = [gen EXCEPT ![c] = current']
    /\ UNCHANGED <<rvars, subscribed, heard, scope, resume, cursor, known, resuming,
                   refetch, more>>

(* Redis answers the next command of the subscriber connection, and the     *)
(* registration that awaits it goes on.  Channel messages sent before the   *)
(* answer are handled before it.                                            *)
SubscribeDone ==
    /\ commands # <<>> /\ Head(commands).cmd = "subscribe"
    /\ subscribed => heard = Len(channel)
    /\ subscribed' = TRUE
    /\ heard' = Len(channel)
    /\ LET c == Head(commands).conn
       IN  JoinSession(c, Head(commands).session, Tail(commands), Push(c, <<Hello>>))
    /\ UNCHANGED <<rvars, current, recent, gen, scope, resume, client, more>>
    /\ since' = [d \in Conns |-> IF since[d] = Null /\ d \in Members' /\ Listening'
                                  THEN heard' ELSE since[d]]

UnsubscribeDone ==
    /\ commands # <<>> /\ Head(commands).cmd = "unsubscribe"
    /\ commands' = Tail(commands)
    /\ subscribed' = FALSE
    /\ UNCHANGED <<rvars, current, sessionSet, heard, recent, session, wire, resume,
                   client, more>>

(* register() returns, and the client is sent its ack. *)
SessionDone ==
    /\ commands # <<>> /\ Head(commands).cmd = "session"
    /\ commands' = Tail(commands)
    /\ LET c == Head(commands).conn
       IN  /\ at' = [at EXCEPT ![c] = "open"]
           /\ wire' = [wire EXCEPT ![c] = Push(c, <<Hello>>)]
    /\ UNCHANGED <<rvars, current, sessionSet, subscribed, heard, recent, gen, sgen, scope,
                   since, resume, client, more>>

Subscriber == SubscribeDone \/ UnsubscribeDone \/ SessionDone

(* deliverLive: nobody to deliver to, or a duplicate; else remember the     *)
(* event and give every connection the event, a heartbeat, or buffer it.    *)
Remember(e) ==
    LET r == Append(recent, e)
    IN  IF Len(r) > DedupCapacity THEN Tail(r) ELSE r

Hear ==
    /\ subscribed /\ heard < Len(channel)
    /\ heard' = heard + 1
    /\ LET i == channel[heard']
           fresh == Members # {} /\ stream[i] \notin Items(recent)
       IN  /\ recent' = IF fresh THEN Remember(stream[i]) ELSE recent
           /\ buffer' = [c \in Conns |->
                 IF fresh /\ c \in Members /\ replay[c] # Null
                 THEN Append(buffer[c], i) ELSE buffer[c]]
           /\ wire' = [c \in Conns |->
                 IF fresh /\ c \in Members /\ replay[c] = Null
                 THEN Push(c, <<IF Authorized(c, i) THEN Event(i) ELSE Heartbeat(i)>>)
                 ELSE wire[c]]
    /\ UNCHANGED <<rvars, current, sessionSet, commands, subscribed, session, request,
                   replay, asked, client, more>>

(* resume() asks for the bounds of the stream, *)
ReadBounds(c) ==
    /\ at[c] = "open" /\ Len(request[c]) = 1
    /\ \E broken \in BOOLEAN :
          /\ broken => faults < MaxFaults
          /\ faults' = IF broken THEN faults + 1 ELSE faults
          /\ request' = [request EXCEPT ![c] = @ \o <<TailOf(broken), FloorOf(broken)>>]
    /\ UNCHANGED <<rvars, hub, session, wire, replay, buffer, asked, client, refreshes>>

(* and when it has them answers the cursor, or starts a replay from it.     *)
ResumeBounds(c) ==
    /\ Len(request[c]) = 3
    /\ request' = [request EXCEPT ![c] = <<>>]
    /\ LET from  == request[c][1]
           tail  == request[c][2]
           floor == request[c][3]
           lost  == from = Null \/ from > tail \/ (floor # Null /\ from < floor)
       IN  /\ replay' = [replay EXCEPT ![c] = IF lost THEN Null ELSE
                            [from |-> from, boundary |-> tail, done |-> {}]]
           /\ wire' = [wire EXCEPT ![c] =
                 IF lost THEN Push(c, <<Signal("resync-required", tail)>>) ELSE @]
           /\ asked' = [asked EXCEPT ![c] = IF lost THEN Null ELSE from]
    /\ buffer' = [buffer EXCEPT ![c] = <<>>]
    /\ UNCHANGED <<rvars, hub, session, client, more>>

\* The entries of a list at certain positions, in order.
Those(ids, positions) ==
    LET order == FirstOf(positions, Len(ids)) IN [n \in DOMAIN order |-> ids[order[n]]]

\* Defect: authorization is not checked again during the replay.
DeliverableUnchecked(c, ids, done) ==
    Those(ids, {j \in DOMAIN ids : /\ stream[ids[j]] \notin done
                                   /\ \A h \in 1..(j - 1) : stream[ids[h]] # stream[ids[j]]})

\* Defect: a replay leaves out what the tenant's live sessions were sent.
DeliverableUnlessLive(c, ids, done) ==
    Those(ids, {j \in DOMAIN ids : /\ Authorized(c, ids[j])
                                   /\ stream[ids[j]] \notin done \cup Items(recent)})

\* deliverOnce over a list of entries: those authorized now whose event was
\* not delivered yet, each event once.
Deliverable(c, ids, done) ==
    Those(ids, {j \in DOMAIN ids :
                   /\ Authorized(c, ids[j]) /\ stream[ids[j]] \notin done
                   /\ \A h \in 1..(j - 1) :
                         Authorized(c, ids[h]) => stream[ids[h]] # stream[ids[j]]})

Frames(ids)   == [j \in DOMAIN ids |-> Event(ids[j])]
EventsOf(ids) == {stream[i] : i \in Items(ids)}

\* Defect: the buffer is cleared without being drained.
FinishWithoutDrain(c, frames, done, answer) ==
    /\ wire' = [wire EXCEPT ![c] = Push(c, frames \o <<answer>>)]
    /\ buffer' = [buffer EXCEPT ![c] = <<>>]
    /\ replay' = [replay EXCEPT ![c] = Null]

\* The replay ends: the buffer is drained and cleared, then comes the answer.
Finish(c, frames, done, answer) ==
    /\ wire' = [wire EXCEPT ![c] =
                   Push(c, frames \o Frames(Deliverable(c, buffer[c], done)) \o <<answer>>)]
    /\ buffer' = [buffer EXCEPT ![c] = <<>>]
    /\ replay' = [replay EXCEPT ![c] = Null]

(* replayThenHandoff, one XRANGE chunk.  A short chunk is the last one, and *)
(* is followed by the hand-over to live delivery without a yield.           *)
ReplayChunk(c) ==
    /\ replay[c] # Null
    /\ LET r     == replay[c]
           chunk == FirstOf({i \in Retained : i > r.from /\ i <= r.boundary}, ChunkSize)
           out   == Deliverable(c, chunk, r.done)
           done  == r.done \cup EventsOf(out)
       IN  IF Len(chunk) < ChunkSize
           THEN Finish(c, Frames(out), done, Signal("resumed", r.boundary))
           ELSE /\ wire' = [wire EXCEPT ![c] = Push(c, Frames(out))]
                /\ replay' = [replay EXCEPT ![c] =
                       [r EXCEPT !.from = chunk[Len(chunk)], !.done = done]]
                /\ buffer' = buffer
    /\ UNCHANGED <<rvars, hub, session, request, asked, client, more>>

(* An XRANGE throws: the buffer is drained all the same, the client is told.*)
ReplayFails(c) ==
    /\ replay[c] # Null
    /\ faults < MaxFaults
    /\ faults' = faults + 1
    /\ Finish(c, <<>>, replay[c].done, Signal("error", Null))
    /\ UNCHANGED <<rvars, hub, session, request, asked, client, refreshes>>

(* refresh_token: from now on the connection has another branch scope.      *)
Reauthorize(c, s) ==
    /\ at[c] = "open" /\ Used(c) /\ s # scope[c]
    /\ refreshes < MaxRefreshes
    /\ refreshes' = refreshes + 1
    /\ scope' = [scope EXCEPT ![c] = s]
    /\ UNCHANGED <<rvars, hub, at, gen, sgen, since, wire, resume, client, faults>>

(* The connection of k breaks.  The hub unregisters it, dropping each set   *)
(* that is empty then; but the close handler exists only once register()    *)
(* has returned, a connection that breaks earlier stays in its sets.        *)
Disconnect(k) ==
    /\ conn[k] # Null
    /\ LET c == conn[k]
           x == SessionOf[k]
           emptied == at[c] = "open" /\ current # Null /\ Members \subseteq {c}
       IN  /\ at' = [at EXCEPT ![c] = IF @ = "open" THEN "closed" ELSE @]
           /\ current' = IF emptied THEN Null ELSE current
           /\ recent' = IF emptied THEN <<>> ELSE recent
           /\ commands' = IF emptied THEN Append(commands, ToRedis("unsubscribe", c, x))
                          ELSE commands
           /\ sessionSet' = [sessionSet EXCEPT ![x] =
                 IF at[c] = "open" /\ SessionMembers(x) \subseteq {c} THEN Null ELSE @]
           /\ wire' = [wire EXCEPT ![c] = <<>>]
           /\ request' = [request EXCEPT ![c] = <<>>]
           /\ replay' = [replay EXCEPT ![c] = Null]
           /\ buffer' = [buffer EXCEPT ![c] = <<>>]
    /\ conn' = [conn EXCEPT ![k] = Null]
    /\ resuming' = [resuming EXCEPT ![k] = FALSE]
    /\ UNCHANGED <<rvars, subscribed, heard, gen, sgen, scope, since, asked, cursor,
                   known, refetch, more>>

-----------------------------------------------------------------------------
(* The client handles the next frame (handleMessage).                       *)
Receive(k) ==
    /\ conn[k] # Null /\ wire[conn[k]] # <<>>
    /\ wire' = [wire EXCEPT ![conn[k]] = Tail(@)]
    /\ LET m == Head(wire[conn[k]])
           advances == m.type \in {"event", "heartbeat", "resumed"}
       IN  /\ cursor' = [cursor EXCEPT ![k] =
                 IF advances THEN m.cursor ELSE IF m.type = "error" THEN Null ELSE @]
           /\ known' = [known EXCEPT ![k] =
                 IF m.type = "event" THEN @ \cup {stream[m.cursor]} ELSE @]
           /\ resuming' = [resuming EXCEPT ![k] = @ \/ m.type = "ack"]
           /\ refetch' = [refetch EXCEPT ![k] =
                 IF m.type = "resync-required" THEN m.cursor ELSE @]
    /\ UNCHANGED <<rvars, hub, session, resume, conn, more>>

(* sendResume, once cursorStore.get() has answered.                         *)
SendResume(k) ==
    /\ resuming[k]
    /\ resuming' = [resuming EXCEPT ![k] = FALSE]
    /\ request' = [request EXCEPT ![conn[k]] = Append(@, cursor[k])]
    /\ UNCHANGED <<rvars, hub, session, wire, replay, buffer, asked, conn, cursor,
                   known, refetch, more>>

(* onResyncRequired: the REST bootstrap reads everything committed so far,  *)
(* then the tail that came with the frame is persisted.  If it fails,       *)
(* nothing is.                                                              *)
Refetched(k) ==
    /\ refetch[k] # Null
    /\ \/ /\ known' = [known EXCEPT ![k] = @ \cup Items(stream)]
          /\ cursor' = [cursor EXCEPT ![k] = refetch[k]]
          /\ faults' = faults
       \/ /\ faults < MaxFaults
          /\ faults' = faults + 1
          /\ UNCHANGED <<known, cursor>>
    /\ refetch' = [refetch EXCEPT ![k] = Null]
    /\ UNCHANGED <<rvars, hub, session, wire, resume, conn, resuming, refreshes>>

-----------------------------------------------------------------------------
\* Defect: a resume is not answered while the stream does not exist.
HubStepOnceStreamed(c) ==
    (stream # <<>> /\ ReadBounds(c)) \/ ResumeBounds(c) \/ ReplayChunk(c)


HubStep(c) == ReadBounds(c) \/ ResumeBounds(c) \/ ReplayChunk(c)
ClientStep(k) == Receive(k) \/ SendResume(k) \/ Refetched(k)

Next ==
    \/ RelayNext /\ UNCHANGED <<hub, session, wire, resume, client, more>>
    \/ \E k \in Clients : \/ \E c \in Conns : Connect(k, c)
                          \/ Disconnect(k) \/ ClientStep(k)
    \/ Subscriber \/ Hear
    \/ \E c \in Conns : HubStep(c) \/ ReplayFails(c)
    \/ \E c \in Conns, s \in SUBSET Topics : Reauthorize(c, s)

Spec == Init /\ [][Next]_vars

(* Redis answers, frames arrive, and a client reads what it is sent.        *)
Fairness ==
    /\ \A c \in Relays : WF_vars(Tick(c) /\ UNCHANGED <<hub, session, wire, resume, client, more>>)
    /\ WF_vars(Subscriber) /\ WF_vars(Hear)
    /\ \A c \in Conns : WF_vars(HubStep(c))
    /\ \A k \in Clients : WF_vars(ClientStep(k))

FairSpec == Spec /\ Fairness

-----------------------------------------------------------------------------
Ids == 0..Len(stream)
Frame == [type : {"event", "heartbeat", "ack", "resumed", "resync-required", "error"},
          cursor : Ids \cup {Null}]

\* Types; the cache of recent events never outgrows its capacity.
TypeOK ==
    /\ RelayTypeOK
    /\ current \in Conns \cup {Null} /\ subscribed \in BOOLEAN
    /\ sessionSet \in [Sessions -> Conns \cup {Null}]
    /\ heard \in 0..Len(channel)
    /\ Items(recent) \subseteq Events /\ Len(recent) <= DedupCapacity
    /\ at \in [Conns -> {"free", "joining", "joined", "open", "closed"}]
    /\ gen \in [Conns -> Conns \cup {Null}] /\ sgen \in [Conns -> Conns \cup {Null}]
    /\ scope \in [Conns -> SUBSET Topics]
    /\ \A c \in Conns : Items(wire[c]) \subseteq Frame /\ Items(buffer[c]) \subseteq Ids
    /\ conn \in [Clients -> Conns \cup {Null}]
    /\ cursor \in [Clients -> Ids \cup {Null}]
    /\ known \in [Clients -> SUBSET Events]

\* Client k knows of the event of entry i, or a frame on its wire says it.
Covered(k, i) ==
    \/ stream[i] \in known[k]
    \/ conn[k] # Null /\ \E m \in Items(wire[conn[k]]) :
          m.type = "event" /\ stream[m.cursor] = stream[i]

\* Entries of every session of the tenant, whatever its scope.
Public == {i \in DOMAIN stream : TopicOf[stream[i]] = Everyone}

(* A connection the gateway registered, or is registering, is in the set    *)
(* that byTenant holds, and that set's channel is subscribed for good or a  *)
(* SUBSCRIBE made for it is on its way: dropping the empty set of a         *)
(* connection that closed never takes away a set, or a subscription, that   *)
(* another one is about to be added to or relies on.                        *)
NobodyIsStranded ==
    /\ \A c \in Conns : at[c] \in {"joining", "joined", "open"} => gen[c] = current
    /\ current # Null =>
          \/ Listening
          \/ \E j \in DOMAIN commands :
                commands[j].cmd = "subscribe" /\ commands[j].conn = current

(* ADR-0017 section 9: every event frame, live, replayed or drained from    *)
(* the buffer, is within the scope the session has when it is sent.         *)
OnlyAuthorizedFrames ==
    [][\A c \in Conns : \A j \in (Len(wire[c]) + 1)..Len(wire'[c]) :
          wire'[c][j].type = "event" => Authorized(c, wire'[c][j].cursor)]_vars

(* A resumed answer stands for a complete replay: the client has been sent  *)
(* every retained tenant-wide event between the cursor it asked from and    *)
(* the cursor in the answer, over chunks, interleaved live events, scope    *)
(* changes and duplicate entries.                                           *)
ReplayIsComplete ==
    \A k \in Clients :
        conn[k] # Null =>
            \A j \in DOMAIN wire[conn[k]] :
                LET m == wire[conn[k]][j]
                IN  m.type = "resumed" =>
                        \A i \in Public : asked[conn[k]] < i /\ i <= m.cursor =>
                            Covered(k, i) \/ i <= trimmed

\* The positions of the channel that connection c was there to hear.
HeardBy(c) == IF since[c] = Null THEN {} ELSE (since[c] + 1)..heard

(* The hand-over leaves no gap: an event that this process hears for the    *)
(* first time while a connection listens was sent to it or is buffered, in  *)
(* whatever stage its resume is, answered, replaying or failed.  What was   *)
(* heard before, and is then dropped as a duplicate, is the replay's to     *)
(* deliver.                                                                 *)
HandoffLeavesNoGap ==
    \A k \in Clients : LET c == conn[k] IN
        c # Null =>
            \A p \in HeardBy(c) : LET i == channel[p] IN
                i \in Public /\ (\A q \in 1..since[c] : stream[channel[q]] # stream[i]) =>
                    Covered(k, i) \/ stream[i] \in EventsOf(buffer[c])

(* Nobody is left buffering: a replay ends, and a resume is answered.       *)
ResumeIsAnswered ==
    \A c \in Conns : (request[c] # <<>> \/ replay[c] # Null) ~>
        (request[c] = <<>> /\ replay[c] = Null)

(* An event first published while a connection listens reaches the client   *)
(* that resumed on it from before that event, unless the connection breaks: *)
(* even if the resume was answered from a failing Redis or failed half-way. *)
ListenerIsTold ==
    \A k \in Clients, c \in Conns, i \in 1..MaxEntries :
        (/\ conn[k] = c /\ asked[c] # Null /\ since[c] # Null /\ i \in Public
         /\ \A h \in 1..asked[c] : stream[h] # stream[i]
         /\ \A p \in 1..since[c] : stream[channel[p]] # stream[i]
         /\ i \in Items(channel))
            ~> (conn[k] # c \/ (i \in DOMAIN stream /\ stream[i] \in known[k]))

(* ADR-0017, acceptance test 4: a client that reconnects within retention   *)
(* receives exactly the events it missed: when a resume has been granted to *)
(* a client that was told of an event, the later ones up to the cursor it   *)
(* asked from have reached it too.                                          *)
ResumeMissesNothing ==
    \A k \in Clients : LET c == conn[k] IN
        c # Null /\ asked[c] # Null /\ refetch[k] = Null =>
            \A i \in Public, h \in DOMAIN stream :
                /\ h < i /\ i <= asked[c] /\ stream[h] \in known[k]
                /\ \A j \in i..Len(stream) : stream[j] # stream[h]
                => Covered(k, i)
=============================================================================
