----------------------------- MODULE AuditTrail -----------------------------
(***************************************************************************)
(* From a connection of a session agent to the evidence of the control     *)
(* plane: the connection event spool (gatewayagent/audit_spool.go) with    *)
(* its reporter, the operation spool (operation_sink.go), the connection   *)
(* workers that must not go on before their event is acknowledged, and the *)
(* drain of both spools by the agent that stops or by the host controller  *)
(* after the agent died.  Requests may fail, be answered too late or be    *)
(* executed after their sender gave up; writes may fail at every step.     *)
(***************************************************************************)
EXTENDS Evidence, Sequences

CONSTANTS Conn,
          BatchSize,     \* AuditReporterOptions.BatchSize
          MaxAhead,      \* how far in the future an operation may have occurred
          Drift,         \* bound: how far the clock of the target may be off
          MaxFaults      \* bound: crashes, failed writes and failed requests

ASSUME BatchSizeAssumption == BatchSize \in Nat \ {0}
ASSUME ClockAssumption == MaxAge \in Nat /\ MaxAhead \in Nat /\ Drift \in Nat
ASSUME ConnAssumption == {"drain", "none"} \cap Conn = {}

VARIABLES proc,          \* the process that owns the spools
          worker,        \* worker[c]: the step of handleConnection, when it dialled, and
                         \* the time of the event it is about to report; of its end
          failed,        \* runtime.auditFailed
          mem,           \* FileEventSpool.events
          file,          \* the events of events.jsonl
          torn,          \* the file has a line that does not decode
          sink,          \* the holder of sessionAuditSink.mu and its step
          directory,     \* the files of operations/
          opsink,        \* the holder of operationSink.mu and its step
          late,          \* what is left of a request its sender has given up, and
                         \* the endpoint that still executes it
          forwarded,     \* the connections whose command reached the target
          log,           \* the target's own record of the commands it executed, with
                         \* the time of its own clock
          now,           \* the clock of the gateway
          faults

spool == <<mem, file, torn>>
agent == <<proc, worker, failed>>
target == <<forwarded, log>>
vars == <<evidence, proc, worker, failed, mem, file, torn, sink, directory, opsink,
          late, forwarded, log, now, faults>>

NoRequest == [to |-> "nobody", rest |-> <<>>]

Request(to, rest) == IF rest = <<>> THEN NoRequest ELSE [to |-> to, rest |-> rest]

Idle == [pc |-> "idle", c |-> "none", batch |-> <<>>, accepted |-> <<>>]

Init ==
    /\ EvidenceInit(Conn)
    /\ proc = "agent"
    /\ worker = [c \in Conn |-> [pc |-> "idle", at |-> 0, from |-> 0]]
    /\ failed = FALSE
    /\ mem = <<>>
    /\ file = <<>>
    /\ torn = FALSE
    /\ sink = Idle
    /\ directory = {}
    /\ opsink = Idle
    /\ late = NoRequest
    /\ forwarded = {}
    /\ log = {}
    /\ now = 0
    /\ faults = 0

Fault == faults < MaxFaults /\ faults' = faults + 1

Step(c, from, to) ==
    /\ proc = "agent"
    /\ worker[c].pc = from
    /\ worker' = [worker EXCEPT ![c].pc = to]

\* The worker takes the time of the event it reports next.
StepAt(c, from, to) ==
    /\ proc = "agent"
    /\ worker[c].pc = from
    /\ worker' = [worker EXCEPT ![c].pc = to, ![c].at = now + 1,
                                ![c].from = IF from = "idle" THEN now + 1 ELSE @]
    /\ now' = now + 1

\* The socket is closed; the end may still have to be reported.
Over(c) == worker[c].pc \in {"closing", "done"}

Event(c, kind) == [c |-> c, kind |-> kind, at |-> worker[c].at]

-----------------------------------------------------------------------------
\* The results of the two sinks for the worker or the drain that called them.

After == [connecting |-> "open", closing |-> "done", starting |-> "forwarding",
          finishing |-> "open"]

Returned(c) ==
    IF c = "drain" THEN UNCHANGED <<worker, failed>>
    ELSE /\ worker' = [worker EXCEPT ![c].pc = After[@]]
         /\ UNCHANGED failed

\* An event that cannot be recorded fails the session (auditFailure): this
\* worker goes on to report its disconnection, if it was connected.
Refused(c) ==
    IF c = "drain" THEN UNCHANGED <<worker, failed>>
    ELSE /\ worker' = [worker EXCEPT
                ![c].pc = IF @ \in {"starting", "finishing"} THEN "closing" ELSE "done",
                ![c].at = IF worker[c].pc = "closing" THEN @ ELSE now]
         /\ failed' = TRUE

\* A drain that cannot go on ends its process, or waits for the next Reconcile.
DrainOutcome(c, next) == proc' = IF c = "drain" THEN next ELSE proc

SinkError ==
    /\ Refused(sink.c)
    /\ DrainOutcome(sink.c, "down")
    /\ sink' = Idle

OpError ==
    /\ Refused(opsink.c)
    /\ DrainOutcome(opsink.c, "down")
    /\ opsink' = Idle

-----------------------------------------------------------------------------
\* sessionAuditSink.Append: the spool, then the control plane.

\* FileEventSpool.Append up to the write.  A write that fails half-way leaves a
\* line that does not decode.
AppendWrite(c) ==
    /\ sink.pc = "idle"
    /\ proc = "agent"
    /\ worker[c].pc \in {"connecting", "closing"}
    /\ LET e == Event(c, IF worker[c].pc = "connecting" THEN "connected" ELSE "disconnected")
       IN \/ /\ file' = Append(file, e)
             /\ sink' = [Idle EXCEPT !.pc = "sync", !.c = c, !.batch = <<e>>]
             /\ UNCHANGED <<torn, agent, faults>>
          \/ /\ Fault
             /\ torn' = TRUE
             /\ Refused(c)
             /\ UNCHANGED <<file, sink, proc>>
    /\ UNCHANGED <<evidence, mem, directory, opsink, late, target, now>>

\* The event is remembered once it is on stable storage.
AppendSync ==
    /\ sink.pc = "sync"
    /\ \/ /\ mem' = mem \o sink.batch
          /\ sink' = [sink EXCEPT !.pc = "flush", !.batch = <<>>]
          /\ UNCHANGED <<agent, faults>>
       \/ Fault /\ SinkError /\ UNCHANGED mem
    /\ UNCHANGED <<evidence, file, torn, directory, opsink, late, target, now>>

\* flushLocked: batches of Pending(BatchSize) until the spool is empty.
Pending == SubSeq(mem, 1, IF Len(mem) < BatchSize THEN Len(mem) ELSE BatchSize)

Flush ==
    /\ sink.pc = "flush"
    /\ \/ /\ mem # <<>>
          /\ sink' = [sink EXCEPT !.pc = "posted", !.batch = Pending]
          /\ UNCHANGED <<agent, opsink>>
       \/ /\ mem = <<>>
          /\ Returned(sink.c)
          /\ sink' = Idle
          /\ opsink' = IF sink.c = "drain" THEN [Idle EXCEPT !.pc = "flush", !.c = "drain"]
                       ELSE opsink
          /\ UNCHANGED proc
    /\ UNCHANGED <<evidence, spool, directory, late, target, now, faults>>

\* gatewayEventBatch records the events one after the other and stops at the
\* first failure; a client that times out leaves the rest of the request behind.
gatewayEventBatch ==
    /\ sink.pc = "posted"
    /\ LET rest == SubSeq(sink.batch, Len(sink.accepted) + 1, Len(sink.batch))
       IN \/ /\ rest # <<>>
             /\ RecordGatewayEvent(Head(rest))
             /\ sink' = [sink EXCEPT !.accepted = Append(@, Head(rest))]
             /\ UNCHANGED <<agent, late, faults>>
          \/ /\ Fault
             /\ late' \in {late, IF late = NoRequest THEN Request("events", rest) ELSE late}
             /\ SinkError
             /\ UNCHANGED evidence
    /\ UNCHANGED <<spool, directory, opsink, target, now>>

validateAuditAcknowledgement(accepted, events) == accepted = events

\* A temporary file is renamed over the spool; the failure may come after that.
replace(events) == file' = events /\ torn' = FALSE

replaceFails(events) ==
    /\ Fault
    /\ replace(events) \/ UNCHANGED <<file, torn>>

\* The whole spool is dropped for one acknowledged batch.
AckAll ==
    /\ sink.pc = "posted"
    /\ validateAuditAcknowledgement(sink.accepted, sink.batch)
    /\ replace(<<>>)
    /\ mem' = <<>>
    /\ sink' = [sink EXCEPT !.pc = "flush", !.batch = <<>>, !.accepted = <<>>]
    /\ UNCHANGED <<evidence, agent, directory, opsink, late, target, now, faults>>

\* What the control plane has acknowledged leaves the file, then memory: the batch
\* was taken from the front, and no event was appended since.
Ack ==
    /\ sink.pc = "posted"
    /\ validateAuditAcknowledgement(sink.accepted, sink.batch)
    /\ LET remaining == SubSeq(mem, Len(sink.batch) + 1, Len(mem))
       IN \/ /\ replace(remaining)
             /\ mem' = remaining
             /\ sink' = [sink EXCEPT !.pc = "flush", !.batch = <<>>, !.accepted = <<>>]
             /\ UNCHANGED <<agent, faults>>
          \/ replaceFails(remaining) /\ SinkError /\ UNCHANGED mem
    /\ UNCHANGED <<evidence, directory, opsink, late, target, now>>

-----------------------------------------------------------------------------
\* operationSink.AppendOperation: one file per event, then every file is
\* delivered in the order of the events and removed.

\* The event is stored and delivered some time later.
StoreOnly(c) ==
    /\ opsink.pc = "idle"
    /\ proc = "agent"
    /\ worker[c].pc \in {"starting", "finishing"}
    /\ directory' = directory \cup
           {Event(c, IF worker[c].pc = "starting" THEN "started" ELSE "completed")}
    /\ Returned(c)
    /\ UNCHANGED <<evidence, proc, spool, sink, opsink, late, target, now, faults>>

Store(c) ==
    /\ opsink.pc = "idle"
    /\ proc = "agent"
    /\ worker[c].pc \in {"starting", "finishing"}
    /\ LET e == Event(c, IF worker[c].pc = "starting" THEN "started" ELSE "completed")
       IN \/ /\ directory' = directory \cup {e}
             /\ opsink' = [Idle EXCEPT !.pc = "flush", !.c = c]
             /\ UNCHANGED <<agent, faults>>
          \/ /\ Fault
             /\ Refused(c)
             /\ directory' \in {directory, directory \cup {e}}
             /\ UNCHANGED <<opsink, proc>>
    /\ UNCHANGED <<evidence, spool, sink, late, target, now>>

FlushOperations ==
    /\ opsink.pc = "flush"
    /\ \/ \E e \in directory :
             /\ \A d \in directory : e.at <= d.at
             /\ opsink' = [opsink EXCEPT !.pc = "posted", !.batch = <<e>>]
             /\ UNCHANGED agent
       \/ /\ directory = {}
          /\ Returned(opsink.c)
          /\ DrainOutcome(opsink.c, "drained")
          /\ opsink' = Idle
    /\ UNCHANGED <<evidence, spool, sink, directory, late, target, now, faults>>

sessionOperationBatch ==
    /\ opsink.pc = "posted"
    /\ \/ /\ RecordSessionOperations(Head(opsink.batch))
          /\ opsink' = [opsink EXCEPT !.pc = "remove"]
          /\ UNCHANGED <<agent, late, faults>>
       \/ /\ ~ OperationAccepted(Head(opsink.batch))
          /\ OpError
          /\ UNCHANGED <<evidence, late, faults>>
       \/ /\ Fault
          /\ late' \in {late, IF late = NoRequest THEN Request("operations", opsink.batch)
                             ELSE late}
          /\ OpError
          /\ UNCHANGED evidence
    /\ UNCHANGED <<spool, sink, directory, target, now>>

\* The acknowledgement is lost, or the file cannot be removed.
RemoveOperation ==
    /\ opsink.pc = "remove"
    /\ \/ /\ directory' = directory \ {Head(opsink.batch)}
          /\ opsink' = [opsink EXCEPT !.pc = "flush", !.batch = <<>>]
          /\ UNCHANGED <<agent, faults>>
       \/ Fault /\ OpError /\ UNCHANGED directory
    /\ UNCHANGED <<evidence, spool, sink, late, target, now>>

-----------------------------------------------------------------------------
\* A connection: its events are reported in order, and the worker waits for the
\* control plane before it goes on.

\* All connections reach the target from one source address, so a new one is
\* opened after the socket of the last one was closed.
Dial(c) ==
    /\ ~ failed
    /\ \A d \in Conn \ {c} : worker[d].pc \in {"idle", "closing", "done"}
    /\ StepAt(c, "idle", "connecting")
    /\ UNCHANGED <<evidence, proc, failed, spool, sink, directory, opsink, late, target, faults>>

begin(c) ==
    /\ ~ failed
    /\ c \notin forwarded
    /\ StepAt(c, "open", "starting")
    /\ UNCHANGED <<evidence, proc, failed, spool, sink, directory, opsink, late, target, faults>>

\* What the clock of the target may show at time t of the gateway.
Stamp(t) == {at \in 0 .. (t + Drift) : t <= at + Drift}

\* The command goes to the target, which keeps a record of its own.
Forward(c) ==
    /\ StepAt(c, "forwarding", "running")
    /\ forwarded' = forwarded \cup {c}
    /\ \E at \in Stamp(now + 1) : log' = log \cup {[c |-> c, at |-> at]}
    /\ UNCHANGED <<evidence, proc, failed, spool, sink, directory, opsink, late, faults>>

end(c) ==
    /\ StepAt(c, "running", "finishing")
    /\ UNCHANGED <<evidence, proc, failed, spool, sink, directory, opsink, late, target, faults>>

\* The client or the target closes, or auditFailure closes every connection.
Close(c) ==
    /\ \/ StepAt(c, "open", "closing")
       \/ failed /\ \E pc \in {"forwarding", "running"} : StepAt(c, pc, "closing")
    /\ UNCHANGED <<evidence, proc, failed, spool, sink, directory, opsink, late, target, faults>>

-----------------------------------------------------------------------------
\* The end of the agent and the drain of its spools.

\* sessionAgent.close: Stop has waited for the connections, then both spools are
\* flushed; the process exits whether that works or not.
StopAgent ==
    /\ proc = "agent"
    /\ sink.pc = "idle" /\ opsink.pc = "idle"
    /\ \A c \in Conn : worker[c].pc \in {"idle", "done"}
    /\ proc' = "draining"
    /\ sink' = [Idle EXCEPT !.pc = "flush", !.c = "drain"]
    /\ UNCHANGED <<evidence, worker, failed, spool, directory, opsink, late, target, now, faults>>

\* load refuses a file with a line that does not decode.
load == ~ torn /\ mem' = file

\* The host controller, under the lock of the dead process.
FlushSessionAudit ==
    /\ proc = "down"
    /\ load
    /\ proc' = "draining"
    /\ sink' = [Idle EXCEPT !.pc = "flush", !.c = "drain"]
    /\ UNCHANGED <<evidence, worker, failed, file, torn, directory, opsink, late, target, now, faults>>

\* The agent, or the machine, dies: a line that was not synced may be lost or torn.
Crash ==
    /\ proc \in {"agent", "draining"}
    /\ Fault
    /\ proc' = "down"
    /\ worker' = [c \in Conn |-> [worker[c] EXCEPT
                     !.pc = "done", !.at = IF Over(c) THEN @ ELSE now]]
    /\ mem' = <<>>
    /\ sink' = Idle
    /\ opsink' = Idle
    /\ \/ UNCHANGED <<file, torn>>
       \/ sink.pc = "sync" /\ file' = SubSeq(file, 1, Len(file) - 1) /\ torn' \in {torn, TRUE}
    /\ UNCHANGED <<evidence, failed, directory, late, target, now>>

\* The control plane executes what is left of a request nobody waits for.
ExecuteLate ==
    /\ late # NoRequest
    /\ late' = Request(late.to, Tail(late.rest))
    /\ IF late.to = "events" THEN RecordGatewayEvent(Head(late.rest))
       ELSE \/ RecordSessionOperations(Head(late.rest))
            \/ ~ OperationAccepted(Head(late.rest)) /\ UNCHANGED evidence
    /\ UNCHANGED <<agent, spool, sink, directory, opsink, target, now, faults>>

\* An operation may not have occurred in the future, give or take.
validateOperationAuditInput(x) == x.at <= now + MaxAhead

\* Collector.Forward: any order, any delay, as often as it likes.
Collect ==
    /\ \E x \in log : validateOperationAuditInput(x) /\ RecordOperationAuditBatch(x)
    /\ UNCHANGED <<agent, spool, sink, directory, opsink, late, target, now, faults>>

Progress ==
    \/ \E c \in Conn : AppendWrite(c) \/ Store(c) \/ Forward(c) \/ end(c) \/ Close(c)
    \/ AppendSync \/ Flush \/ gatewayEventBatch \/ Ack
    \/ FlushOperations \/ sessionOperationBatch \/ RemoveOperation
    \/ StopAgent \/ FlushSessionAudit

Next ==
    \/ Progress
    \/ \E c \in Conn : Dial(c) \/ begin(c)
    \/ Crash
    \/ ExecuteLate
    \/ Collect

\* Workers, requests and the expiry of the session go on, and Reconcile of the
\* host controller repeats the drain.
Spec == Init /\ [][Next]_vars /\ WF_vars(Progress)

-----------------------------------------------------------------------------
\* session_agent.go: "Require the collector to acknowledge connection events
\* before forwarding."  A command that reached the target is shown exactly once
\* by the records of the control plane, whatever crashed or was sent again.
ForwardedIsShown ==
    \A c \in forwarded : Cardinality({o \in visibleOperation : o.c = c}) = 1

\* The connection held the source address at time t of the gateway's clock.
HeldAddress(c, t) == worker[c].from <= t /\ (Over(c) => t <= worker[c].at)

\* An operation the collector reports is never attributed to a connection that did
\* not send it, as long as the time its asset gave it lies between the start and the
\* end of the connection that did: although connections reuse one source address,
\* the end of an earlier one may be unreported, and the report may come at any time.
\* (An asset whose clock is further off may have it attributed to the connection that
\* held the address at that time: CorrelateOperation compares the two clocks as they
\* are.)
MatchIsRight ==
    \A y \in collected : HeldAddress(y.x.c, y.x.at) => y.match \subseteq {y.x.c}

\* A connection event that is sent again, or executed after its sender gave up,
\* is told once by the session's history.
ToldOnce ==
    \A c \in Conn, kind \in ConnectionKind :
        trail[<<c, kind>>] = Cardinality({r \in connections : r.c = c /\ r.kind = kind})

Spooled(c, kind) == \E e \in {mem[n] : n \in DOMAIN mem} \cup directory : e.c = c /\ e.kind = kind

Recorded(c, kind) == \E e \in connections \cup operations : e.c = c /\ e.kind = kind

\* What a spool has taken over reaches the control plane in the end, and is not
\* refused there: "Recovery forwards evidence" (operation_sink.go).  A write
\* that failed half-way is the exception: load refuses the whole file.
SpooledIsDelivered ==
    \A c \in Conn, kind \in ConnectionKind \cup OperationKind :
        Spooled(c, kind) ~> (Recorded(c, kind) \/ torn)
=============================================================================
