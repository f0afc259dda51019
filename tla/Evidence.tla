------------------------------ MODULE Evidence ------------------------------
(***************************************************************************)
(* The access evidence the control plane keeps: connection events and      *)
(* operations reported by session agents, and the operations an asset-side *)
(* collector forwards, correlated by the gateway's source address.  The    *)
(* recording operators are the bodies of transactions; each is retried by  *)
(* its sender with the same event ID until it is acknowledged.             *)
(***************************************************************************)
EXTENDS Naturals, FiniteSets

CONSTANT MaxAge          \* how long after its start a connection is still matched

VARIABLES connections,   \* gateway_connection_events
          trail,         \* trail[<<c, kind>>]: session and audit events written for it
          operations,    \* operation_audit_events with source session_proxy
          collected      \* operation_audit_events with source asset_collector

evidence == <<connections, trail, operations, collected>>

\* An event has the connection c it is about, its kind and the time at which it
\* occurred; its ID is generated once by the agent.
ConnectionKind == {"connected", "disconnected"}
OperationKind == {"started", "completed"}

EvidenceInit(Conn) ==
    /\ connections = {}
    /\ trail = [k \in Conn \X ConnectionKind |-> 0]
    /\ operations = {}
    /\ collected = {}

AppendConnectionEvent(e) == connections' = connections \cup {e}

\* A sent-again event taken for a new one.
RecordAgain(e) ==
    /\ connections' = connections \cup {e}
    /\ trail' = [trail EXCEPT ![<<e.c, e.kind>>] = @ + 1]
    /\ UNCHANGED <<operations, collected>>

\* One transaction per event: the row, the session event and the audit event,
\* or nothing when the row is already there (ON CONFLICT DO NOTHING).
RecordGatewayEvent(e) ==
    /\ AppendConnectionEvent(e)
    /\ trail' = IF e \in connections THEN trail
                ELSE [trail EXCEPT ![<<e.c, e.kind>>] = @ + 1]
    /\ UNCHANGED <<operations, collected>>

\* The connection evidence has to be there, and a completion needs its start.
OperationAccepted(e) ==
    /\ \E r \in connections : r.c = e.c /\ r.kind = "connected" /\ r.at <= e.at
    /\ e.kind = "completed" => \E r \in operations : r.c = e.c /\ r.kind = "started"

AppendOperationEvent(e) == operations' = operations \cup {e}

RecordSessionOperations(e) ==
    /\ OperationAccepted(e)
    /\ AppendOperationEvent(e)
    /\ UNCHANGED <<connections, trail, collected>>

\* The connections open now, whatever the time of the operation.
OpenConnections(t) ==
    {r.c : r \in {r \in connections :
        /\ r.kind = "connected"
        /\ ~ \E f \in connections : f.c = r.c /\ f.kind = "disconnected"}}

\* The connections that may have held the backend source address at time t: all
\* connections of this model use the same address, one after the other.
CorrelateOperation(t) ==
    {r.c : r \in {r \in connections :
        /\ r.kind = "connected"
        /\ r.at <= t /\ t <= r.at + MaxAge
        /\ ~ \E f \in connections : f.c = r.c /\ f.kind = "disconnected" /\ f.at < t}}

\* An operation x of the asset's own log, stored once under its stable ID with
\* the connection it matches, if exactly one does.
RecordOperationAuditBatch(x) ==
    /\ ~ \E y \in collected : y.x = x
    /\ LET candidates == CorrelateOperation(x.at)
           match == IF Cardinality(candidates) = 1 THEN candidates ELSE {}
       IN collected' = collected \cup {[x |-> x, match |-> match]}
    /\ UNCHANGED <<connections, trail, operations>>

\* The rows a record, a trace or the operation list shows: a start is hidden by
\* its completion.  Operations are commands here; the probes of a client and the
\* frames of a terminal, which are not shown either, are left out.
visibleOperation ==
    {o \in operations :
        o.kind = "started" => ~ \E d \in operations : d.c = o.c /\ d.kind = "completed"}
=============================================================================
