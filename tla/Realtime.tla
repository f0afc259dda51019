------------------------------ MODULE Realtime ------------------------------
(***************************************************************************)
(* hub.go, postgres.go and streamEvents: the database notifies one LISTEN  *)
(* connection of every committed change, the hub copies the notification   *)
(* into the buffer of each subscribed stream, and the stream tells its     *)
(* browser to reload, or to sign in again when identities changed.         *)
(* Nothing is replayed: a browser that may have missed something must be   *)
(* disconnected and loads everything afresh.                               *)
(***************************************************************************)
EXTENDS Naturals, Sequences

CONSTANTS
    Viewer,       \* the users with a console open
    Buffer,       \* capacity of a subscription (32 in the code)
    MaxWrites,    \* bound on the commits
    MaxWire       \* bound on the notifications on their way

VARIABLES
    access,       \* per viewer, what the database says: active, may read the audit log
    written,      \* number of commits to the audit log
    commits,      \* number of commits
    wire,         \* notifications sent and not received
    listener,     \* the goroutine of Start
    available,    \* Hub.available
    clients,      \* Hub.clients: the viewers whose subscription is registered
    events,       \* per viewer, the channel of the subscription
    stream        \* per viewer, streamEvents and what the browser has loaded

realtimeVars == <<access, written, commits, wire, listener, available, clients, events, stream>>

NoStream == [at |-> "none", audit |-> FALSE, seen |-> 0]

RealtimeInit ==
    /\ access = [v \in Viewer |-> [active |-> TRUE, audit |-> TRUE]]
    /\ written = 0 /\ commits = 0 /\ wire = <<>>
    /\ listener = "listening" /\ available = TRUE
    /\ clients = {}
    /\ events = [v \in Viewer |-> <<>>]
    /\ stream = [v \in Viewer |-> NoStream]

-----------------------------------------------------------------------------
\* The triggers: a notification reaches a connection that LISTENs at the commit.
access_gateway_emit(change) ==
    /\ commits < MaxWrites /\ Len(wire) < MaxWire
    /\ commits' = commits + 1
    /\ wire' = IF listener \in {"listening", "connected"} THEN Append(wire, change) ELSE wire
    /\ UNCHANGED <<listener, available, clients, events, stream>>

\* An audit event: for everyone who may read the log.
commitAudit ==
    /\ access_gateway_emit([topic |-> "audit", user |-> "", permission |-> "audit:read"])
    /\ written' = written + 1
    /\ UNCHANGED access

\* A user is deactivated, reactivated or signed out everywhere.
commitUser(v) ==
    /\ access_gateway_emit([topic |-> "identity", user |-> v, permission |-> ""])
    /\ access' = [access EXCEPT ![v].active = ~ @]
    /\ UNCHANGED written

\* A role, a binding or an assignment changes.
commitRole(v) ==
    /\ access_gateway_emit([topic |-> "identity", user |-> "", permission |-> ""])
    /\ access' = [access EXCEPT ![v].audit = ~ @]
    /\ UNCHANGED written

-----------------------------------------------------------------------------
\* hub.go.
Addressed(change) == {v \in clients : change.user \in {"", v}}
Full(change) == {v \in Addressed(change) : Len(events[v]) = Buffer}

Deliver(change) ==
    events' = [v \in Viewer |->
        IF v \in Addressed(change) \ Full(change) THEN Append(events[v], change) ELSE events[v]]

\* A mutant of Publish: a full buffer loses the change.
PublishLossy(change) == Deliver(change) /\ UNCHANGED clients

\* The subscription of a slow client is closed.
Publish(change) ==
    /\ Deliver(change)
    /\ clients' = clients \ Full(change)

setAvailable(now) ==
    /\ available' = now
    /\ clients' = IF now THEN clients ELSE {}

unsubscribe(v) ==
    /\ clients' = clients \ {v}
    /\ events' = [events EXCEPT ![v] = <<>>]
    /\ stream' = [stream EXCEPT ![v] = NoStream]

\* The route filter and the first currentUser.
streamEvents(v) ==
    /\ stream[v].at = "none" /\ access[v].active
    /\ stream' = [stream EXCEPT ![v].at = "filtered"]
    /\ UNCHANGED <<access, written, commits, wire, listener, available, clients, events>>

Subscribe(v) ==
    /\ stream[v].at = "filtered"
    /\ IF available
       THEN /\ clients' = clients \cup {v}
            /\ stream' = [stream EXCEPT ![v].at = "subscribed"]
       ELSE /\ stream' = [stream EXCEPT ![v] = NoStream]
            /\ UNCHANGED clients
    /\ UNCHANGED <<access, written, commits, wire, listener, available, events>>

\* "Subscribe first, then recheck identity and active status."
requireActive(v) ==
    /\ stream[v].at = "subscribed"
    /\ IF access[v].active
       THEN /\ stream' = [stream EXCEPT ![v].at = "checked"]
            /\ UNCHANGED <<clients, events>>
       ELSE unsubscribe(v)
    /\ UNCHANGED <<access, written, commits, wire, listener, available>>

loadPermissions(v) ==
    /\ stream[v].at = "checked"
    /\ stream' = [stream EXCEPT ![v].at = "loaded", ![v].audit = access[v].audit]
    /\ UNCHANGED <<access, written, commits, wire, listener, available, clients, events>>

\* The "ready" event: the browser loads a snapshot.
writeReady(v) ==
    /\ stream[v].at = "loaded"
    /\ stream' = [stream EXCEPT ![v].at = "open", ![v].seen = written]
    /\ UNCHANGED <<access, written, commits, wire, listener, available, clients, events>>

\* One change of the channel: not for this viewer, a reset, or a reload.
writeChange(v) ==
    LET change == Head(events[v]) IN
    /\ stream[v].at = "open" /\ events[v] # <<>>
    /\ IF change.topic = "identity" THEN unsubscribe(v)
       ELSE /\ events' = [events EXCEPT ![v] = Tail(@)]
            /\ stream' = IF change.permission # "" /\ ~ stream[v].audit THEN stream
                         ELSE [stream EXCEPT ![v].seen = written]
            /\ UNCHANGED clients
    /\ UNCHANGED <<access, written, commits, wire, listener, available>>

\* The channel was closed and is drained.
streamClosed(v) ==
    /\ stream[v].at = "open" /\ v \notin clients /\ events[v] = <<>>
    /\ unsubscribe(v)
    /\ UNCHANGED <<access, written, commits, wire, listener, available>>

\* The browser leaves, a write fails, or the session expires.
streamEnds(v) ==
    /\ stream[v].at \in {"subscribed", "checked", "loaded", "open"}
    /\ unsubscribe(v)
    /\ UNCHANGED <<access, written, commits, wire, listener, available>>

-----------------------------------------------------------------------------
\* postgres.go: the goroutine of Start.
WaitForNotification ==
    /\ listener = "listening" /\ wire # <<>>
    /\ Publish(Head(wire))
    /\ wire' = Tail(wire)
    /\ UNCHANGED <<access, written, commits, listener, available, stream>>

connectionLost ==
    /\ listener = "listening"
    /\ listener' = "lost" /\ wire' = <<>>
    /\ UNCHANGED <<access, written, commits, available, clients, events, stream>>

disconnected ==
    /\ listener = "lost"
    /\ listener' = "down"
    /\ setAvailable(FALSE)
    /\ UNCHANGED <<access, written, commits, wire, events, stream>>

\* LISTEN first; only then are streams accepted again.
connect ==
    /\ listener = "down"
    /\ listener' = "connected"
    /\ UNCHANGED <<access, written, commits, wire, available, clients, events, stream>>

reconnected ==
    /\ listener = "connected"
    /\ listener' = "listening"
    /\ setAvailable(TRUE)
    /\ UNCHANGED <<access, written, commits, wire, events, stream>>

RealtimeNext ==
    \/ commitAudit
    \/ \E v \in Viewer : commitUser(v)
    \/ \E v \in Viewer : commitRole(v)
    \/ \E v \in Viewer : streamEvents(v)
    \/ \E v \in Viewer : Subscribe(v)
    \/ \E v \in Viewer : requireActive(v)
    \/ \E v \in Viewer : loadPermissions(v)
    \/ \E v \in Viewer : writeReady(v)
    \/ \E v \in Viewer : writeChange(v)
    \/ \E v \in Viewer : streamClosed(v)
    \/ \E v \in Viewer : streamEnds(v)
    \/ WaitForNotification
    \/ connectionLost
    \/ disconnected
    \/ connect
    \/ reconnected

-----------------------------------------------------------------------------
OnItsWay(v, topic) ==
    \E queue \in {wire, events[v]} : \E n \in 1 .. Len(queue) :
        queue[n].topic = topic /\ queue[n].user \in {"", v}

\* The stream is cut off, or will be when the listener notices its lost connection.
CutOff(v) == v \notin clients \/ listener = "lost"

\* hub.go: "A slow client reconnects and reloads a snapshot instead of losing
\* updates", and "a concurrent role change is queued and forces the stream to
\* authenticate again".  An open stream that belongs to a deactivated user, filters
\* by permissions that changed, or shows less than what was committed has the
\* change that repairs it on its way, or is cut off: nothing is missed while the
\* stream is being set up, when its buffer is full, or around a lost connection.
NothingMissed ==
    \A v \in Viewer : stream[v].at \in {"loaded", "open"} =>
        \/ CutOff(v) \/ OnItsWay(v, "identity")
        \/ /\ access[v].active /\ stream[v].audit = access[v].audit
           /\ stream[v].at = "open" /\ stream[v].audit /\ stream[v].seen < written
                => OnItsWay(v, "audit")
=============================================================================
