---------------------------- MODULE HostRuntime ----------------------------
(***************************************************************************)
(* The local and Docker session runtime, internal/sessionruntime/host.go   *)
(* with its store and its two drivers.  The controller keeps a lifecycle   *)
(* record of every session in memory and in a file; calls for one session  *)
(* are serialised by its operation mutex, except the readiness polling of  *)
(* CreateApprovedSession and the observations of Reconcile.  The           *)
(* controller may stop, crash and start again on the same files; agents    *)
(* survive it.  A failed write leaves the file old or new.                 *)
(***************************************************************************)
EXTENDS Naturals

CONSTANTS Session,
          MaxFaults      \* bound: crashes and failed writes or engine requests

VARIABLES driver,        \* options.Mode
          controller,    \* "up", "closed" (Close was called) or "down"
          record,        \* record[s]: c.records, in memory
          disk,          \* disk[s]: records/<s>.json
          grant,         \* grant[s]: grants/<s>.json exists
          marker,        \* marker[s]: agents/<s>/stop exists
          spool,         \* spool[s]: audit events not yet acknowledged
          workload,      \* workload[s]: the process or container
          launched,      \* launched[s]: a workload of s was started at some time
          expired,       \* expired[s]: ExpiresAt has passed
          late,          \* late[s]: StartupTimeout has passed since StartedAt
          aged,          \* aged[s]: terminalRetention has passed since ClosedAt
          creator,       \* creator[s]: the step of CreateApprovedSession
          closer,        \* closer[s]: the step of CloseSession, cleanup, Reconcile
          reported,      \* reported[s]: Reconcile returned s as ended
          pruned,        \* pruned[s]: the record was deleted
          faults

files == <<disk, grant, marker, spool>>
clocks == <<expired, late, aged>>
calls == <<creator, closer, reported>>
vars == <<driver, controller, record, disk, grant, marker, spool, workload,
          launched, expired, late, aged, creator, closer, reported, pruned, faults>>

NoRecord == [state |-> "none", acked |-> FALSE]

RecordState == {"none", "starting", "running", "stopping", "closed"}

Live == {"starting", "running"}

\* closer[s].acked: the record Reconcile read was acknowledged.
NoCall == [pc |-> "idle", acked |-> FALSE]

Init ==
    /\ controller = "up"
    /\ record = [s \in Session |-> NoRecord]
    /\ disk = [s \in Session |-> NoRecord]
    /\ grant = [s \in Session |-> FALSE]
    /\ marker = [s \in Session |-> FALSE]
    /\ spool = [s \in Session |-> FALSE]
    /\ workload = [s \in Session |-> "none"]
    /\ launched = [s \in Session |-> FALSE]
    /\ expired = [s \in Session |-> FALSE]
    /\ late = [s \in Session |-> FALSE]
    /\ aged = [s \in Session |-> FALSE]
    /\ creator = [s \in Session |-> "idle"]
    /\ closer = [s \in Session |-> NoCall]
    /\ reported = [s \in Session |-> FALSE]
    /\ pruned = [s \in Session |-> FALSE]
    /\ faults = 0

-----------------------------------------------------------------------------
\* The store and the shared state of the controller.

Fault == faults < MaxFaults /\ faults' = faults + 1

\* save: memory first, then the file.
save(s, r) ==
    /\ record' = [record EXCEPT ![s] = r]
    /\ disk' = [disk EXCEPT ![s] = r]
    /\ UNCHANGED faults

\* The write fails before or after the rename; memory keeps the new record.
saveFails(s, r) ==
    /\ Fault
    /\ record' = [record EXCEPT ![s] = r]
    /\ \/ disk' = [disk EXCEPT ![s] = r]
       \/ UNCHANGED disk

\* operation(s) is held by a launch or by a closure.
Locked(s) ==
    \/ creator[s] \in {"ready", "launch"}
    \/ closer[s].pc \in {"cleanup", "waiting", "drain", "finish"}

Running(s) == workload[s] = "running"

ToCreator(s, pc) == creator' = [creator EXCEPT ![s] = pc]

ToCloser(s, pc) ==
    closer' = [closer EXCEPT ![s] = [pc |-> pc, acked |-> pc # "idle" /\ closer[s].acked]]

-----------------------------------------------------------------------------
\* CreateApprovedSession.

\* ensureStarted up to the readiness check: an earlier grant is polled, never
\* launched again.  The service has closed the row of a pruned session.
ensureStarted(s) ==
    /\ controller = "up"
    /\ creator[s] = "idle"
    /\ ~ Locked(s)
    /\ ~ pruned[s]
    /\ ~ expired[s]
    /\ \/ record[s].state = "none" /\ ToCreator(s, "ready")
       \/ record[s].state \in Live /\ ToCreator(s, "poll")
    /\ UNCHANGED <<driver, controller, record, files, workload, launched, clocks,
                   closer, reported, pruned, faults>>

\* The launch intent is saved before the grant and before any workload.  A grant
\* that cannot be written leaves the saved intent behind, as a failed save may.
PersistIntent(s) ==
    /\ creator[s] = "ready"
    /\ controller = "up"
    /\ LET r == [state |-> "starting", acked |-> FALSE]
       IN \/ save(s, r) /\ grant' = [grant EXCEPT ![s] = TRUE] /\ ToCreator(s, "launch")
          \/ saveFails(s, r) /\ UNCHANGED grant /\ ToCreator(s, "idle")
    /\ UNCHANGED <<driver, controller, marker, spool, workload, launched, clocks,
                   closer, reported, pruned>>

\* The driver is not ready, MaxSessions records are open, no port of the range
\* is free, or the controller is closing.
RefuseLaunch(s) ==
    /\ creator[s] = "ready"
    /\ ToCreator(s, "idle")
    /\ UNCHANGED <<driver, controller, record, files, workload, launched, clocks,
                   closer, reported, pruned, faults>>

Launched(s) ==
    /\ workload' = [workload EXCEPT ![s] = "running"]
    /\ launched' = [launched EXCEPT ![s] = TRUE]

\* processDriver.Start: the child inherits the lock before it runs, so a started
\* process is never taken for an exited one.  ResourceID is saved after it.
StartProcess(s) ==
    /\ driver = "local"
    /\ \/ Launched(s) /\ ToCreator(s, "poll") /\ UNCHANGED faults
       \/ Launched(s) /\ ToCreator(s, "idle") /\ Fault
       \/ UNCHANGED <<workload, launched>> /\ ToCreator(s, "idle") /\ Fault

\* dockerDriver.Start: a failed request may leave a created container, or a
\* running one whose answer was lost.  An existing name is never started.
StartContainer(s) ==
    /\ driver = "docker"
    /\ \/ Launched(s) /\ ToCreator(s, "poll") /\ UNCHANGED faults
       \/ Launched(s) /\ ToCreator(s, "idle") /\ Fault
       \/ /\ \E w \in {"none", "created"} : workload' = [workload EXCEPT ![s] = w]
          /\ UNCHANGED launched
          /\ ToCreator(s, "idle")
          /\ Fault

Start(s) ==
    /\ creator[s] = "launch"
    /\ workload[s] = "none"
    /\ StartProcess(s) \/ StartContainer(s)
    /\ UNCHANGED <<driver, controller, record, files, clocks, closer, reported, pruned>>

\* One poll up to the agent's answer to /status.
PollAgent(s) ==
    /\ creator[s] = "poll"
    /\ IF controller = "up" /\ record[s].state \in Live /\ ~ expired[s] /\ Running(s)
       THEN grant[s] /\ ToCreator(s, "answered")
       ELSE ToCreator(s, "idle")
    /\ UNCHANGED <<driver, controller, record, files, workload, launched, clocks,
                   closer, reported, pruned, faults>>

\* The rest of the poll, under c.mu: the record is checked again and saved.
ConfirmRunning(s) ==
    /\ creator[s] = "answered"
    /\ ToCreator(s, "idle")
    /\ IF controller = "up" /\ record[s].state \in Live /\ ~ expired[s]
       THEN LET r == [record[s] EXCEPT !.state = "running"]
            IN save(s, r) \/ saveFails(s, r)
       ELSE UNCHANGED <<record, disk, faults>>
    /\ UNCHANGED <<driver, controller, grant, marker, spool, workload, launched, clocks,
                   closer, reported, pruned>>

\* pollHost's context ends.
PollTimeout(s) ==
    /\ creator[s] \in {"poll", "answered"}
    /\ ToCreator(s, "idle")
    /\ UNCHANGED <<driver, controller, record, files, workload, launched, clocks,
                   closer, reported, pruned, faults>>

-----------------------------------------------------------------------------
\* CloseSession and Reconcile.

Stopped(s) ==
    [record[s] EXCEPT !.state = IF record[s].state = "closed" THEN "closed" ELSE "stopping"]

\* The revocation is saved, as a tombstone if there is no record, before the
\* cleanup starts.  Called by the service at any time and by Reconcile.
CloseSession(s) ==
    /\ closer[s].pc \in {"idle", "observed"}
    /\ ~ Locked(s)
    /\ ~ pruned[s]
    /\ controller = "up"
    /\ \/ save(s, Stopped(s)) /\ ToCloser(s, "cleanup")
       \/ saveFails(s, Stopped(s)) /\ ToCloser(s, "idle")
    /\ UNCHANGED <<driver, controller, grant, marker, spool, workload, launched, clocks,
                   creator, reported, pruned>>

\* cleanup: the durable stop marker, then /stop and the driver's Stop.
RequestStop(s) ==
    /\ closer[s].pc = "cleanup"
    /\ marker' = [marker EXCEPT ![s] = TRUE]
    /\ ToCloser(s, IF Running(s) THEN "waiting" ELSE "drain")
    /\ UNCHANGED <<driver, controller, record, disk, grant, spool, workload, launched,
                   clocks, creator, reported, pruned, faults>>

\* driver.Stop polls until the workload is gone.
AwaitExit(s) ==
    /\ closer[s].pc = "waiting"
    /\ ~ Running(s)
    /\ ToCloser(s, "drain")
    /\ UNCHANGED <<driver, controller, record, files, workload, launched, clocks,
                   creator, reported, pruned, faults>>

\* A stopped container is deleted; a process leaves nothing behind.
Remove(s) ==
    workload' = [workload EXCEPT ![s] = IF driver = "docker" THEN "none" ELSE @]

\* Mutant of DrainAudit: the grant is removed before the spool is delivered.
RemoveGrantFirst(s) ==
    /\ closer[s].pc = "drain"
    /\ ~ Running(s)
    /\ Remove(s)
    /\ grant' = [grant EXCEPT ![s] = FALSE]
    /\ ToCloser(s, "finish")
    /\ UNCHANGED <<driver, controller, record, disk, spool, marker, launched, clocks, creator,
                   reported, pruned, faults>>

\* The rest of cleanup: the container is removed, the process lock is free, the
\* spool is delivered with a renewed token and the grant is deleted after it.
DrainAudit(s) ==
    /\ closer[s].pc = "drain"
    /\ ~ Running(s)
    /\ Remove(s)
    /\ \/ grant[s]
       \/ ~ spool[s]
    /\ spool' = [spool EXCEPT ![s] = FALSE]
    /\ grant' = [grant EXCEPT ![s] = FALSE]
    /\ ToCloser(s, "finish")
    /\ UNCHANGED <<driver, controller, record, disk, marker, launched, clocks, creator,
                   reported, pruned, faults>>

FinishClose(s) ==
    /\ closer[s].pc = "finish"
    /\ LET r == [record[s] EXCEPT !.state = "closed"]
       IN \/ save(s, r) /\ ToCloser(s, IF closer[s].acked /\ aged[s] THEN "prune" ELSE "idle")
          \/ saveFails(s, r) /\ ToCloser(s, "idle")
    /\ UNCHANGED <<driver, controller, grant, marker, spool, workload, launched, clocks,
                   creator, reported, pruned>>

\* The 45 s context ends, the engine refuses or the audit cannot be delivered.
CloseFails(s) ==
    /\ closer[s].pc \in {"waiting", "drain"}
    /\ Fault
    /\ ToCloser(s, "idle")
    /\ UNCHANGED <<driver, controller, record, files, workload, launched, clocks,
                   creator, reported, pruned>>

\* GetSession: what the record, the driver and the agent say together.
GetSession(s) ==
    LET state == record[s].state
    IN IF state \in {"none", "closed"} THEN state
       ELSE IF state = "stopping" \/ expired[s] THEN "stopping"
       ELSE IF Running(s) /\ grant[s] THEN "running" ELSE "starting"

\* Mutant of Ended: a record that says closed in memory is not closed again.
EndedOnce(s) ==
    \/ record[s].state = "stopping"
    \/ record[s].state \in Live /\ expired[s]

Ended(s) ==
    \/ record[s].state \in {"stopping", "closed"}
    \/ record[s].state # "none" /\ expired[s]

\* Reconcile's decision on one record, as it was when the records were copied.
\* A /status call that fails or times out counts as stopped.
Reconcile(s) ==
    /\ controller = "up"
    /\ closer[s].pc = "idle"
    /\ \/ Ended(s) /\ UNCHANGED faults
       \/ /\ ~ Ended(s)
          /\ record[s].state \in IF late[s] THEN Live ELSE {"running"}
          /\ IF GetSession(s) = "running" THEN Fault ELSE UNCHANGED faults
    /\ reported' = [reported EXCEPT ![s] = reported[s] \/ ~ record[s].acked]
    /\ closer' = [closer EXCEPT ![s] = [pc |-> "observed", acked |-> record[s].acked]]
    /\ UNCHANGED <<driver, controller, record, files, workload, launched, clocks,
                   creator, pruned>>

\* The service has closed its row of a session Reconcile returned.
AcknowledgeClosure(s) ==
    /\ controller = "up"
    /\ reported[s]
    /\ record[s].state = "closed"
    /\ ~ record[s].acked
    /\ LET r == [record[s] EXCEPT !.acked = TRUE] IN save(s, r) \/ saveFails(s, r)
    /\ UNCHANGED <<driver, controller, grant, marker, spool, workload, launched, clocks,
                   calls, pruned>>

prune(s) ==
    /\ closer[s].pc = "prune"
    /\ ~ Locked(s)
    /\ IF record[s].state = "closed" /\ record[s].acked /\ aged[s]
       THEN /\ record' = [record EXCEPT ![s] = NoRecord]
            /\ disk' = [disk EXCEPT ![s] = NoRecord]
            /\ marker' = [marker EXCEPT ![s] = FALSE]
            /\ spool' = [spool EXCEPT ![s] = FALSE]
            /\ pruned' = [pruned EXCEPT ![s] = TRUE]
       ELSE UNCHANGED <<record, disk, marker, spool, pruned>>
    /\ ToCloser(s, "idle")
    /\ UNCHANGED <<driver, controller, grant, workload, launched, clocks, creator,
                   reported, faults>>

-----------------------------------------------------------------------------
\* The agent, the clock and the controller process.

\* A running agent appends audit events and delivers them itself.
AgentAudits(s) ==
    /\ Running(s)
    /\ \E pending \in BOOLEAN : spool' = [spool EXCEPT ![s] = pending]
    /\ UNCHANGED <<driver, controller, record, disk, grant, marker, workload, launched,
                   clocks, calls, pruned, faults>>

\* It exits by itself at any time, and must once it is told or has expired.
AgentExits(s) ==
    /\ Running(s)
    /\ workload' = [workload EXCEPT ![s] = "exited"]
    /\ UNCHANGED <<driver, controller, record, files, launched, clocks, calls, pruned, faults>>

Expire(s) ==
    /\ record[s].state # "none"
    /\ ~ expired[s]
    /\ expired' = [expired EXCEPT ![s] = TRUE]
    /\ UNCHANGED <<driver, controller, record, files, workload, launched, late, aged,
                   calls, pruned, faults>>

\* The context of the creating call ends no later than the startup timeout.
StartupTimeoutPasses(s) ==
    /\ record[s].state \in Live
    /\ creator[s] = "idle"
    /\ ~ late[s]
    /\ late' = [late EXCEPT ![s] = TRUE]
    /\ UNCHANGED <<driver, controller, record, files, workload, launched, expired, aged,
                   calls, pruned, faults>>

\* Seven days outlast every call in progress.
RetentionPasses(s) ==
    /\ record[s].acked
    /\ creator[s] = "idle"
    /\ closer[s].pc = "idle"
    /\ ~ aged[s]
    /\ aged' = [aged EXCEPT ![s] = TRUE]
    /\ UNCHANGED <<driver, controller, record, files, workload, launched, expired, late,
                   calls, pruned, faults>>

Close ==
    /\ controller = "up"
    /\ Fault
    /\ controller' = "closed"
    /\ UNCHANGED <<driver, record, files, workload, launched, clocks, calls, pruned>>

\* The process ends: after Close once no launch or closure is left, or by a crash.
ControllerEnds ==
    /\ \/ /\ controller = "closed"
          /\ \A s \in Session : creator[s] # "launch" /\ closer[s].pc \in {"idle", "observed", "prune"}
          /\ UNCHANGED faults
       \/ controller = "up" /\ Fault
    /\ controller' = "down"
    /\ record' = [s \in Session |-> NoRecord]
    /\ creator' = [s \in Session |-> "idle"]
    /\ closer' = [s \in Session |-> NoCall]
    /\ UNCHANGED <<driver, files, workload, launched, clocks, reported, pruned>>

\* NewHostClient and load.
load ==
    /\ controller = "down"
    /\ controller' = "up"
    /\ record' = disk
    /\ UNCHANGED <<driver, files, workload, launched, clocks, calls, pruned, faults>>

-----------------------------------------------------------------------------
Create(s) ==
    \/ ensureStarted(s) \/ PersistIntent(s) \/ RefuseLaunch(s) \/ Start(s)
    \/ PollAgent(s) \/ ConfirmRunning(s) \/ PollTimeout(s)

Clean(s) ==
    \/ CloseSession(s) \/ RequestStop(s) \/ AwaitExit(s) \/ DrainAudit(s)
    \/ FinishClose(s) \/ CloseFails(s) \/ Reconcile(s) \/ AcknowledgeClosure(s) \/ prune(s)

Environment(s) ==
    \/ AgentAudits(s) \/ AgentExits(s)
    \/ Expire(s) \/ StartupTimeoutPasses(s) \/ RetentionPasses(s)

Next ==
    /\ driver \in {"local", "docker"}
    /\ \/ \E s \in Session : Create(s) \/ Clean(s) \/ Environment(s)
       \/ Close \/ ControllerEnds \/ load

On == driver \in {"local", "docker"}

\* Calls in progress continue, the worker reconciles for ever, the controller is
\* restarted, and an agent that was told to stop or has expired does stop.
Fairness ==
    /\ WF_vars(On /\ load)
    /\ WF_vars(On /\ controller = "closed" /\ ControllerEnds)
    /\ \A s \in Session :
        /\ WF_vars(On /\ (RefuseLaunch(s) \/ PersistIntent(s) \/ Start(s)))
        /\ WF_vars(On /\ (RequestStop(s) \/ AwaitExit(s) \/ DrainAudit(s) \/ FinishClose(s)
                          \/ prune(s)))
        /\ SF_vars(On /\ closer[s].pc = "observed" /\ CloseSession(s))
        /\ SF_vars(On /\ Ended(s) /\ Reconcile(s))
        /\ WF_vars(On /\ AgentExits(s) /\ (marker[s] \/ expired[s]))
=============================================================================
