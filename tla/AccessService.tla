--------------------------- MODULE AccessService ---------------------------
(***************************************************************************)
(* The session lifecycle of internal/service/access.go: approval commits a *)
(* session with a durable command, workers provision and revoke it through *)
(* the runtime, users, administrators and reapers end it at any moment,    *)
(* and workers may crash between any two steps.                            *)
(*                                                                         *)
(* A worker is one execution of ProvisionSession or RevokeSession, for a   *)
(* claimed outbox command or called by the resource reconciler.  A step of *)
(* a worker is one database transaction or one call of the runtime, which  *)
(* is where other workers, handlers and replicas interleave.               *)
(***************************************************************************)
EXTENDS Outbox, Sessions

CONSTANTS Worker,      \* concurrent executions, over all replicas
          NoEvent,     \* the command of a job started by the reconciler
          MaxClaims,   \* bound: claims of one session's provisioning lease
          MaxFaults    \* bound: crashes and failed transactions of workers

ASSUME NoEventAssumption == NoEvent \notin EventId
ASSUME BoundsAssumption == MaxClaims \in Nat /\ MaxFaults \in Nat

VARIABLES cancelled,   \* cancelled[s]: the access request was cancelled
          catalog,     \* catalog[s]: the applicant and resource rows behind the session
          expired,     \* expired[s]: the approved expiry has passed
          job,         \* job[w]: what worker w executes and its local variables
          faults       \* crashes and failed transactions so far

rows == <<status, version>>
authority == <<cancelled, catalog, expired>>
vars == <<outbox, status, version, agent, cancelled, catalog, expired, job, faults>>

\* The applicant, asset, region and gateway of a session.  "enabled": all four
\* are; "disabling": one was disabled or deleted and revocations are being
\* enqueued; "disabled": the same, and the enqueueing has finished.
CatalogState == {"enabled", "disabling", "disabled"}

Label == {"idle",
          "load", "claim", "launch", "wait", "final", "lease", "compensate",
          "fail", "fail_revoke",
          "revoke", "close", "settle", "recheck", "persist", "persist_err",
          "ok", "unresolved", "err", "give_up", "intervene"}

IdleJob == [pc |-> "idle", ev |-> NoEvent, type |-> "revoke", s |-> NoSession,
            ver |-> 0, tries |-> 0]

Job == [pc : Label, ev : EventId \cup {NoEvent}, type : CommandType,
        s : Session \cup {NoSession}, ver : 0 .. MaxClaims, tries : 0 .. MaxRetry]

Init ==
    /\ OutboxInit
    /\ SessionsInit
    /\ cancelled = [s \in Session |-> FALSE]
    /\ catalog = [s \in Session |-> "enabled"]
    /\ expired = [s \in Session |-> FALSE]
    /\ job = [w \in Worker |-> IdleJob]
    /\ faults = 0

-----------------------------------------------------------------------------
\* Steps shared by several handlers.

At(w, label) == job[w].pc = label

Goto(w, label) == job' = [job EXCEPT ![w].pc = label]

\* ProvisionSession or RevokeSession returns; its local variables are gone.
Return(w, outcome) == job' = [job EXCEPT ![w] = [job[w] EXCEPT !.pc = outcome, !.ver = 0]]

Finish(w) == job' = [job EXCEPT ![w] = IdleJob]

CountFault == faults < MaxFaults /\ faults' = faults + 1

\* The reply of a committed transaction may be lost; the caller sees an error.
Reply(w, lost) ==
    \/ Return(w, "ok") /\ UNCHANGED faults
    \/ Goto(w, lost) /\ CountFault

\* Commands that some worker still works on.
Held == {job[w].ev : w \in Worker}

QueueRevoke(s) == CreateIfNoActive(Held, s, "revoke")

\* The transition that cancellation, force-close and RevokeSession make under
\* the session's row lock, for every status that is not resolved.
RevokeLocally(s) ==
    \/ /\ status[s] = "provisioning" /\ version[s] = 0
       /\ MarkProvisionFailed(s, 0)
       /\ UNCHANGED outbox
    \/ /\ status[s] = "provisioning" /\ version[s] > 0
       /\ MarkProvisionRevokeFailed(s, version[s])
       /\ QueueRevoke(s)
    \/ BeginRevoke(s) /\ QueueRevoke(s)
    \/ status[s] = "revoking" /\ UNCHANGED rows /\ QueueRevoke(s)

-----------------------------------------------------------------------------
\* Handlers of users, administrators and the recovery loop.

FinalApproval(s) ==
    /\ InsertProvisioning(s)
    /\ Create(Held, s, "provision")
    /\ UNCHANGED <<agent, authority, job, faults>>

\* Mutant of CancelAccessRequest: a session that is being started is left alone.
CancelLeavesClaimed(s) ==
    /\ cancelled' = [cancelled EXCEPT ![s] = TRUE]
    /\ IF status[s] = "provisioning" /\ version[s] > 0
       THEN UNCHANGED <<rows, outbox>>
       ELSE RevokeLocally(s)
    /\ UNCHANGED <<agent, catalog, expired, job, faults>>

\* Cancelling the request of a resolved session changes nothing here.
CancelAccessRequest(s) ==
    /\ cancelled' = [cancelled EXCEPT ![s] = TRUE]
    /\ RevokeLocally(s)
    /\ UNCHANGED <<agent, catalog, expired, job, faults>>

ForceCloseSession(s) ==
    /\ RevokeLocally(s)
    /\ UNCHANGED <<agent, authority, job, faults>>

\* The owner's close leaves a session awaiting an operator alone.
CloseSession(s) ==
    /\ \/ status[s] \in {"running", "revoke_failed"} /\ BeginRevoke(s)
       \/ status[s] = "revoking" /\ UNCHANGED rows
    /\ QueueRevoke(s)
    /\ UNCHANGED <<agent, authority, job, faults>>

\* Mutant of ReapExpired: the revoke command is forgotten.
ReapExpiredWithoutCommand(s) ==
    /\ status[s] = "running" /\ expired[s]
    /\ BeginRevoke(s)
    /\ UNCHANGED <<outbox, agent, authority, job, faults>>

ReapExpired(s) ==
    /\ status[s] = "running" /\ expired[s]
    /\ BeginRevoke(s) /\ QueueRevoke(s)
    /\ UNCHANGED <<agent, authority, job, faults>>

\* Mutant of ReapProvisioning: only sessions that were never claimed are listed.
ReapUnclaimed(s) ==
    /\ status[s] # "none" /\ version[s] = 0
    /\ CreateIfNoActive(Held, s, "provision")
    /\ UNCHANGED <<rows, agent, authority, job, faults>>

\* The insert follows an unlocked listing of provisioning rows, so it may
\* come after the session has left that status.
ReapProvisioning(s) ==
    /\ status[s] # "none"
    /\ CreateIfNoActive(Held, s, "provision")
    /\ UNCHANGED <<rows, agent, authority, job, faults>>

\* An administrator, a directory sync or a CMDB sync disables the applicant, the
\* asset, its region or its gateway, or deletes the asset.  Revocations are
\* enqueued afterwards, outside that transaction: the process may stop before
\* they are, and the disable may be repeated.
Disable(s) ==
    /\ status[s] \notin Resolved
    /\ catalog' = [catalog EXCEPT ![s] = "disabling"]
    /\ UNCHANGED <<outbox, rows, agent, cancelled, expired, job, faults>>

Enable(s) ==
    /\ status[s] \notin Resolved /\ catalog[s] # "enabled"
    /\ catalog' = [catalog EXCEPT ![s] = "enabled"]
    /\ UNCHANGED <<outbox, rows, agent, cancelled, expired, job, faults>>

\* The query of enqueueRevocationBatches, which repeats until it is empty.
ListedForRevocation(s) ==
    /\ status[s] \in {"running", "revoking", "revoke_failed", "manual_intervention"}
    /\ ActiveCommands(s, "revoke") = {}

\* The transaction for one listed session; the row may have changed since the
\* listing, and a resolved one is skipped.
EnqueueRevocation(s) ==
    /\ catalog[s] = "disabling"
    /\ \/ BeginRevoke(s)
       \/ status[s] = "revoking" /\ UNCHANGED rows
    /\ QueueRevoke(s)
    /\ UNCHANGED <<agent, authority, job, faults>>

EnqueueingEnds(s) ==
    /\ catalog[s] = "disabling" /\ ~ListedForRevocation(s)
    /\ catalog' = [catalog EXCEPT ![s] = "disabled"]
    /\ UNCHANGED <<outbox, rows, agent, cancelled, expired, job, faults>>

Expire(s) ==
    /\ status[s] # "none" /\ ~expired[s]
    /\ expired' = [expired EXCEPT ![s] = TRUE]
    /\ UNCHANGED <<outbox, rows, agent, cancelled, catalog, job, faults>>

\* The agent exits by itself: its grant expired, it crashed, or auditing failed.
AgentEnds(s) ==
    /\ agent[s] = "running"
    /\ agent' = [agent EXCEPT ![s] = "ended"]
    /\ UNCHANGED <<outbox, rows, authority, job, faults>>

-----------------------------------------------------------------------------
\* ProcessOutbox: claiming a command.

ClaimCommand(w, e) ==
    /\ At(w, "idle")
    /\ ClaimPending(e)
    /\ job' = [job EXCEPT ![w] =
          [pc |-> IF outbox[e].type = "provision" THEN "load" ELSE "revoke",
           ev |-> e, type |-> outbox[e].type, s |-> outbox[e].session,
           ver |-> 0, tries |-> outbox[e].retry]]
    /\ UNCHANGED <<rows, agent, authority, faults>>

-----------------------------------------------------------------------------
\* ProvisionSession.

\* Loading the session and the preliminary checks.  They read the request, the
\* applicant and the asset, not the region and the gateway, so a disabled row
\* may go unnoticed here.  The asset's port and binding and a tester's
\* permission are not tracked: the checks may find them withdrawn at any time.
LoadProvision(w) ==
    LET s == job[w].s
        Loaded(label) == job' = [job EXCEPT ![w] = [job[w] EXCEPT !.pc = label, !.ver = version[s]]] IN
    /\ At(w, "load")
    /\ \/ status[s] # "provisioning" /\ Return(w, "ok")
       \/ status[s] = "provisioning" /\ Loaded("fail")
       \/ /\ status[s] = "provisioning"
          /\ ~cancelled[s] /\ ~expired[s]
          /\ Loaded("claim")
    /\ UNCHANGED <<outbox, rows, agent, authority, faults>>

\* The lease heartbeat runs for as long as the runtime's create call does.
LeaseRenewed(s) ==
    \E w \in Worker : /\ job[w].pc \in {"launch", "wait"}
                      /\ job[w].s = s /\ job[w].ver = version[s]

ClaimProvisioning(w) ==
    LET s == job[w].s
        v == job[w].ver IN
    /\ At(w, "claim")
    /\ v < MaxClaims
    /\ ClaimProvisioningOnGateway(s, v, ~LeaseRenewed(s))
    /\ job' = [job EXCEPT ![w] = [job[w] EXCEPT !.pc = "launch", !.ver = v + 1]]
    /\ UNCHANGED <<outbox, agent, authority, faults>>

\* No claim: the row changed, or no candidate gateway has capacity, or the
\* lease of the earlier attempt is not stale.
ClaimMissed(w) ==
    /\ At(w, "claim")
    /\ \/ ~Owns(job[w].s, job[w].ver) /\ Return(w, "ok")
       \/ Return(w, "err")
    /\ UNCHANGED <<outbox, rows, agent, authority, faults>>

CreateStarts(w) ==
    /\ At(w, "launch")
    /\ ~expired[job[w].s]
    /\ AgentLaunch(job[w].s)
    /\ Goto(w, "wait")
    /\ UNCHANGED <<outbox, rows, authority, faults>>

\* The response passed validGatewayCreateResponse and the expiry checks.
CreateReturns(w) ==
    /\ At(w, "wait")
    /\ agent[job[w].s] = "running" /\ ~expired[job[w].s]
    /\ Goto(w, "final")
    /\ UNCHANGED <<outbox, rows, agent, authority, faults>>

\* Refused, timed out, response lost or invalid; the agent may be running.
CreateFails(w) ==
    /\ job[w].pc \in {"launch", "wait"}
    /\ Goto(w, "lease")
    /\ UNCHANGED <<outbox, rows, agent, authority, faults>>

\* The final transaction, under the locks of the request, the session, the
\* applicant and the catalogue rows (the port and the binding included, which
\* may be found withdrawn).
CompleteProvision(w) ==
    LET s == job[w].s IN
    /\ At(w, "final")
    /\ Owns(s, job[w].ver)
    /\ \/ MarkProvisionRevokeFailed(s, job[w].ver) /\ QueueRevoke(s)
       \/ /\ ~cancelled[s] /\ catalog[s] = "enabled"
          /\ MarkDirectRunning(s, job[w].ver)
          /\ UNCHANGED outbox
    /\ Reply(w, "lease")
    /\ UNCHANGED <<agent, authority>>

\* The final transaction finds that the attempt was resolved by somebody else,
\* or rolls back because the asset was deleted.
CompleteTooLate(w) ==
    LET s == job[w].s IN
    /\ At(w, "final")
    /\ \/ /\ ~Owns(s, job[w].ver)
          /\ status[s] \in Terminal \cup {"revoke_failed", "revoking"}
          /\ Return(w, "ok")
       \/ /\ ~Owns(s, job[w].ver)
          /\ status[s] \in {"provisioning", "running"}
          /\ Goto(w, "lease")
       \/ /\ Owns(s, job[w].ver) /\ catalog[s] # "enabled"
          /\ Goto(w, "lease")
    /\ UNCHANGED <<outbox, rows, agent, authority, faults>>

\* provisioningLeaseState: after an error, who owns the attempt?
CheckLease(w) ==
    LET s == job[w].s IN
    /\ At(w, "lease")
    /\ CASE status[s] \in Terminal \cup {"running"} -> Return(w, "ok")
         [] Owns(s, job[w].ver) -> Goto(w, "compensate")
         [] OTHER -> Return(w, "err")
    /\ UNCHANGED <<outbox, rows, agent, authority, faults>>

\* compensateGatewaySession, skipped when the status probe says that no agent
\* is left.
Compensate(w) ==
    LET s == job[w].s IN
    /\ At(w, "compensate")
    /\ \/ agent[s] \in {"none", "closed", "acked"} /\ UNCHANGED agent /\ Goto(w, "fail")
       \/ AgentClosed(s) /\ Goto(w, "fail")
       \/ AgentCloseFailed(s) /\ Goto(w, "fail_revoke")
    /\ UNCHANGED <<outbox, rows, authority, faults>>

FailProvision(w) ==
    LET s == job[w].s IN
    /\ At(w, "fail")
    /\ IF Owns(s, job[w].ver)
       THEN MarkProvisionFailed(s, job[w].ver)
       ELSE UNCHANGED rows
    /\ Return(w, "err")
    /\ UNCHANGED <<outbox, agent, authority, faults>>

\* The command is appended without looking for an active one.
FailProvisionRevokeFailed(w) ==
    LET s == job[w].s IN
    /\ At(w, "fail_revoke")
    /\ IF Owns(s, job[w].ver)
       THEN MarkProvisionRevokeFailed(s, job[w].ver) /\ Create(Held, s, "revoke")
       ELSE UNCHANGED <<rows, outbox>>
    /\ Return(w, "err")
    /\ UNCHANGED <<agent, authority, faults>>

-----------------------------------------------------------------------------
\* RevokeSession and the reconciler that calls it.

\* The runtime's Reconcile finds an agent that ended, a close that is not
\* finished or not acknowledged, or a running agent whose status probe fails;
\* it closes the agent, and ReconcileSessionResources then revokes the session.
Reconcile(w, s) ==
    /\ At(w, "idle")
    /\ agent[s] \in {"running", "ended", "stopping", "closed"}
    /\ AgentClosed(s) \/ AgentCloseFailed(s)
    /\ job' = [job EXCEPT ![w] = [IdleJob EXCEPT !.pc = "revoke", !.s = s]]
    /\ UNCHANGED <<outbox, rows, authority, faults>>

BeginRevokeSession(w) ==
    LET s == job[w].s IN
    /\ At(w, "revoke")
    /\ \/ status[s] \in Resolved /\ UNCHANGED <<rows, outbox>>
       \/ RevokeLocally(s)
    /\ Goto(w, CASE status'[s] = "revoking" -> "close"
                 [] status'[s] \in Resolved -> "ok"
                 [] OTHER -> "unresolved")
    /\ UNCHANGED <<agent, authority, faults>>

CloseGatewaySession(w) ==
    /\ At(w, "close")
    /\ \/ AgentClosed(job[w].s) /\ Goto(w, "settle")
       \/ AgentCloseFailed(job[w].s) /\ Goto(w, "persist")
    /\ UNCHANGED <<outbox, rows, authority, faults>>

\* The closing transaction.  Which of the two statuses is written depends on
\* the reason of the command and on the clock.
SettleRevoke(w) ==
    LET s == job[w].s IN
    /\ At(w, "settle")
    /\ \/ /\ \E to \in {"closed", "expired"} : MarkClosed(s, to)
          /\ Reply(w, "recheck")
       \/ /\ status[s] # "revoking"
          /\ Goto(w, IF status[s] \in Resolved THEN "ok" ELSE "recheck")
          /\ UNCHANGED <<rows, faults>>
    /\ UNCHANGED <<outbox, agent, authority>>

\* Mutant of RecheckRevoke: a failed closing transaction is not persisted.
RecheckReturns(w) ==
    /\ At(w, "recheck")
    /\ Goto(w, IF status[job[w].s] \in Resolved THEN "ok" ELSE "unresolved")
    /\ UNCHANGED <<outbox, rows, agent, authority, faults>>

RecheckRevoke(w) ==
    LET s == job[w].s IN
    /\ At(w, "recheck")
    /\ Goto(w, CASE status[s] \in Resolved -> "ok"
                 [] status[s] = "manual_intervention" -> "unresolved"
                 [] OTHER -> "persist_err")
    /\ UNCHANGED <<outbox, rows, agent, authority, faults>>

\* One transaction: back to revoking if need be, then revoke_failed, and a
\* durable command.
PersistRevokeFailure(w) ==
    LET s == job[w].s IN
    /\ job[w].pc \in {"persist", "persist_err"}
    /\ \/ /\ status[s] \in Resolved
          /\ Goto(w, IF At(w, "persist") THEN "ok" ELSE "err")
          /\ UNCHANGED <<rows, outbox>>
       \/ /\ Move(s, {"running", "revoking", "revoke_failed", "manual_intervention"}, "revoke_failed")
          /\ QueueRevoke(s)
          /\ Return(w, "err")
    /\ UNCHANGED <<agent, authority, faults>>

-----------------------------------------------------------------------------
\* ProcessOutbox: settling the command after the dispatch.

IsCommand(w) == job[w].ev # NoEvent

AcknowledgeCommand(w) ==
    /\ job[w].pc \in {"ok", "unresolved"} /\ IsCommand(w)
    /\ MarkProcessed(job[w].ev)
    /\ Finish(w)
    /\ UNCHANGED <<rows, agent, authority, faults>>

\* AcknowledgeClosure after the reconciler's revoke; it refuses an agent whose
\* closure has not completed.
ReconcileReturns(w) ==
    LET s == job[w].s IN
    /\ job[w].pc \in {"ok", "unresolved", "err"} /\ ~IsCommand(w)
    /\ agent' = IF At(w, "ok") /\ agent[s] = "closed"
                THEN [agent EXCEPT ![s] = "acked"] ELSE agent
    /\ Finish(w)
    /\ UNCHANGED <<outbox, rows, authority, faults>>

RetryCommand(w) ==
    LET retriesExhausted == job[w].tries >= MaxRetry IN
    /\ At(w, "err") /\ IsCommand(w)
    /\ ~(retriesExhausted /\ job[w].type = "revoke")
    /\ Reschedule(job[w].ev, retriesExhausted)
    /\ Finish(w)
    /\ UNCHANGED <<rows, agent, authority, faults>>

\* Mutant of RetriesExhausted: the command is left to its lease.
RetriesGoOn(w) ==
    /\ At(w, "err") /\ IsCommand(w)
    /\ job[w].tries >= MaxRetry /\ job[w].type = "revoke"
    /\ Finish(w)
    /\ UNCHANGED <<outbox, rows, agent, authority, faults>>

\* markRevokeManualIntervention reads the session without a lock ...
RetriesExhausted(w) ==
    LET s == job[w].s IN
    /\ At(w, "err") /\ IsCommand(w)
    /\ job[w].tries >= MaxRetry /\ job[w].type = "revoke"
    /\ CASE status[s] \in Terminal -> Goto(w, "give_up")
         [] status[s] \in {"revoking", "revoke_failed"} -> Goto(w, "intervene")
         [] OTHER -> Finish(w)
    /\ UNCHANGED <<outbox, rows, agent, authority, faults>>

GiveUpCommand(w) ==
    /\ At(w, "give_up")
    /\ Reschedule(job[w].ev, TRUE)
    /\ Finish(w)
    /\ UNCHANGED <<rows, agent, authority, faults>>

\* ... and then updates it conditionally, together with the command: if either
\* update affects no row, the transaction rolls back.
ManualIntervention(w) ==
    LET s == job[w].s
        e == job[w].ev IN
    /\ At(w, "intervene")
    /\ IF status[s] \in {"revoking", "revoke_failed"} /\ outbox[e].status = "processing"
       THEN MarkManualIntervention(s) /\ Reschedule(e, TRUE)
       ELSE UNCHANGED <<rows, outbox>>
    /\ Finish(w)
    /\ UNCHANGED <<agent, authority, faults>>

-----------------------------------------------------------------------------
\* Failures of a worker.

\* A statement or transaction fails and is rolled back.
DatabaseFails(w) ==
    /\ job[w].pc \in {"load", "claim", "final", "lease", "fail", "fail_revoke",
                      "revoke", "settle", "recheck", "persist", "persist_err"}
    /\ CountFault
    /\ CASE At(w, "final") -> Goto(w, "lease")
         [] At(w, "settle") -> Goto(w, "recheck")
         [] At(w, "recheck") -> Goto(w, "persist_err")
         [] OTHER -> Return(w, "err")
    /\ UNCHANGED <<outbox, rows, agent, authority>>

\* The process stops, or settling the command fails: the command stays leased
\* and is claimed again when the lease runs out.
WorkerCrash(w) ==
    /\ ~At(w, "idle")
    /\ CountFault
    /\ Finish(w)
    /\ UNCHANGED <<outbox, rows, agent, authority>>

-----------------------------------------------------------------------------
ProvisionStep(w) ==
    \/ LoadProvision(w) \/ ClaimProvisioning(w) \/ ClaimMissed(w)
    \/ CreateStarts(w) \/ CreateReturns(w) \/ CreateFails(w)
    \/ CompleteProvision(w) \/ CompleteTooLate(w)
    \/ CheckLease(w) \/ Compensate(w)
    \/ FailProvision(w) \/ FailProvisionRevokeFailed(w)

RevokeStep(w) ==
    \/ BeginRevokeSession(w) \/ CloseGatewaySession(w)
    \/ SettleRevoke(w) \/ RecheckRevoke(w) \/ PersistRevokeFailure(w)

SettleStep(w) ==
    \/ AcknowledgeCommand(w) \/ ReconcileReturns(w) \/ RetryCommand(w)
    \/ RetriesExhausted(w) \/ GiveUpCommand(w) \/ ManualIntervention(w)

WorkerStep(w) == ProvisionStep(w) \/ RevokeStep(w) \/ SettleStep(w)

HandlerStep(s) ==
    \/ FinalApproval(s) \/ CancelAccessRequest(s) \/ ForceCloseSession(s) \/ CloseSession(s)
    \/ ReapExpired(s) \/ ReapProvisioning(s)
    \/ Disable(s) \/ Enable(s) \/ EnqueueRevocation(s) \/ EnqueueingEnds(s)
    \/ Expire(s) \/ AgentEnds(s)

Next ==
    \/ \E s \in Session : HandlerStep(s)
    \/ \E w \in Worker, e \in EventId : ClaimCommand(w, e)
    \/ \E w \in Worker, s \in Session : Reconcile(w, s)
    \/ \E w \in Worker : WorkerStep(w) \/ DatabaseFails(w) \/ WorkerCrash(w)

Spec == Init /\ [][Next]_vars

\* Workers poll every second and a live worker finishes its steps; an outbox
\* claim takes all due commands of every session, and leases and approvals run
\* out; the recovery loop lists all expired and all provisioning sessions.
Fairness ==
    /\ \A w \in Worker : WF_vars(WorkerStep(w))
    /\ \A e \in EventId : SF_vars(\E w \in Worker : ClaimCommand(w, e))
    /\ \A s \in Session : /\ WF_vars(Expire(s))
                          /\ WF_vars(ReapExpired(s))
                          /\ WF_vars(status[s] = "provisioning" /\ ReapProvisioning(s))

FairSpec == Spec /\ Fairness

-----------------------------------------------------------------------------
\* The types of the variables.
TypeOK ==
    /\ outbox \in [EventId -> OutboxRow]
    /\ status \in [Session -> SessionStatus \cup {"none"}]
    /\ version \in [Session -> 0 .. MaxClaims]
    /\ agent \in [Session -> AgentState]
    /\ cancelled \in [Session -> BOOLEAN]
    /\ catalog \in [Session -> CatalogState]
    /\ expired \in [Session -> BOOLEAN]
    /\ job \in [Worker -> Job]
    /\ faults \in 0 .. MaxFaults
    /\ \A e \in EventId : IsActive(e) => outbox[e].session \in Session
    /\ \A w \in Worker : /\ job[w].pc # "idle" => job[w].s \in Session
                         /\ job[w].pc \in {"give_up", "intervene"} => IsCommand(w)

\* A session that is being revoked always has a durable revoke command that is
\* still to be executed: no crash, duplicate execution, exhausted retry or late
\* acknowledgement in ProcessOutbox leaves it in revoking or revoke_failed with
\* nobody left to finish it.
RevokeNeverLost ==
    \A s \in Session :
        status[s] \in {"revoking", "revoke_failed"} => ActiveCommands(s, "revoke") # {}

\* However cancellation, force-close, expiry, disabling, the reconciler and
\* failProvisionRevokeFailed (which does not look for an active command)
\* interleave, a session never has two revoke commands at a time.
AtMostOneRevoke ==
    \A s \in Session : \A e, f \in ActiveCommands(s, "revoke") : e = f

\* A session handed to an operator by markRevokeManualIntervention is left
\* alone: no revoke command is waiting to move it again.
InterventionIsQuiet ==
    \A s \in Session :
        status[s] = "manual_intervention" => ActiveCommands(s, "revoke") = {}

\* RevokeSession reports a session closed or expired only when its agent is
\* gone for good, even if a provisioning attempt is still in flight.
ClosedMeansAgentGone ==
    \A s \in Session : status[s] \in {"closed", "expired"} => agent[s] \in {"closed", "acked"}

\* The reconciler acknowledges a closure, after which it never looks at the
\* session again, only when the session is resolved.
AcknowledgedIsResolved ==
    \A s \in Session : agent[s] = "acked" => status[s] \in Resolved

\* A cancelled request never has a session that is starting or running, in
\* whatever order CancelAccessRequest and the final provisioning transaction
\* commit.
CancelledNeverRuns ==
    \A s \in Session : cancelled[s] => status[s] \notin {"provisioning", "running"}

\* Once a disable has enqueued its revocations, no session that depends on the
\* disabled row is running, also not one that was starting meanwhile.
DisabledNeverRuns ==
    \A s \in Session : catalog[s] = "disabled" => status[s] # "running"

\* Workers that believe they own the provisioning attempt of a session.
Attempting(w) == job[w].pc \in {"launch", "wait", "final", "lease", "compensate", "fail_revoke"}

\* The version makes the provisioning lease exclusive: two workers never own
\* the attempt of one session at the same time.
LeaseIsExclusive ==
    \A w, x \in Worker :
        /\ Attempting(w) /\ Owns(job[w].s, job[w].ver)
        /\ Attempting(x) /\ Owns(job[x].s, job[x].ver)
        /\ job[w].s = job[x].s
        => w = x

\* The revoke commands fit the session: exactly one while it is being revoked,
\* none for an operator's session, never two.
RevokeCommandsFit == RevokeNeverLost /\ AtMostOneRevoke /\ InterventionIsQuiet

\* The session row and its agent agree about the end, in both directions: what
\* RevokeSession closed has no agent, what the reconciler acknowledged is resolved.
ClosureIsTrue == ClosedMeansAgentGone /\ AcknowledgedIsResolved

\* Access that was withdrawn, by cancelling the request or by disabling what it
\* depends on, does not run.
WithdrawnNeverRuns == CancelledNeverRuns /\ DisabledNeverRuns

\* A revocation is never undone: once a session has left running, or was
\* resolved, no late worker takes it back to provisioning or running, and a
\* resolved session keeps its status.
NeverRevived ==
    [][\A s \in Session :
          /\ status[s] \notin {"none", "provisioning", "running"}
                => status'[s] \notin {"none", "provisioning", "running"}
          /\ status[s] \in Resolved => status'[s] = status[s]]_vars

\* An approved session does not stay in provisioning: it starts, fails or is
\* revoked, whatever commands were lost to crashes, because ReapProvisioning
\* renews the command and the approval runs out.
ProvisioningEnds ==
    \A s \in Session : status[s] = "provisioning" ~> status[s] # "provisioning"

\* A revocation comes to an end: the session is resolved or, when the retries
\* are exhausted, handed to an operator.
RevocationEnds ==
    \A s \in Session : status[s] \in {"revoking", "revoke_failed"} ~> status[s] \in Terminal

\* A session does not outlive its approval: after the expiry, ReapExpired or
\* the checks of ProvisionSession end it.
ExpiryEnds ==
    \A s \in Session : (expired[s] /\ status[s] # "none") ~> status[s] \in Terminal

-----------------------------------------------------------------------------
\* What makes the invariants inductive.

BeforeRevoke == {"none", "provisioning", "running"}

ProvisionLabel == {"load", "claim", "launch", "wait", "final", "lease", "compensate",
                   "fail", "fail_revoke"}

RevokeLabel == {"revoke", "close", "settle", "recheck", "persist", "persist_err", "unresolved",
                "give_up", "intervene"}

\* A job refers to an existing session, and while its command is active it is
\* the command the worker claimed: a slot is not reused under a worker.
JobsMatchCommands ==
    \A w \in Worker :
        /\ job[w].pc = "idle" => job[w] = IdleJob
        /\ job[w].pc # "idle" => status[job[w].s] # "none"
        /\ job[w].pc \in ProvisionLabel => job[w].type = "provision"
        /\ job[w].pc \in RevokeLabel \/ ~IsCommand(w) => job[w].type = "revoke"
        /\ IsCommand(w) /\ IsActive(job[w].ev) =>
             /\ outbox[job[w].ev].session = job[w].s
             /\ outbox[job[w].ev].type = job[w].type

\* A revoke command is written only when its session leaves running or
\* provisioning, to which it never returns.
CommandsMatchSessions ==
    \A e \in EventId : IsActive(e) =>
        /\ status[outbox[e].session] # "none"
        /\ outbox[e].type = "revoke" => status[outbox[e].session] \notin BeforeRevoke

\* A worker is about to settle its revoke command only if the session is
\* resolved or the command was already settled by another worker.
RevokeJobsSettleLast ==
    \A w \in Worker : job[w].type = "revoke" =>
        /\ IsCommand(w) => status[job[w].s] \notin BeforeRevoke
        /\ job[w].pc = "ok" => status[job[w].s] \in Resolved
        /\ job[w].pc \in {"unresolved", "give_up"} /\ IsCommand(w) =>
             status[job[w].s] \in Resolved \/ ~IsActive(job[w].ev)

\* Attempts of the provisioning lease that have not been overtaken have
\* different versions, none newer than the row's.
AttemptsAreNumbered ==
    \A w \in Worker : Attempting(w) /\ status[job[w].s] = "provisioning" =>
        /\ job[w].ver <= version[job[w].s]
        /\ \A x \in Worker : Attempting(x) /\ job[x].s = job[w].s /\ job[x].ver = job[w].ver
               => x = w

\* The runtime knows only sessions that were approved.
AgentsHaveSessions == \A s \in Session : status[s] = "none" => agent[s] = "none"

-----------------------------------------------------------------------------
\* What comments of the code say and the code does not keep.

\* access.go:909 "A claimed provisioning session may already have a remote
\* process. It must remain retryable instead of being marked as an ordinary
\* provisioning failure."
FailedHasNoAgent ==
    \A s \in Session : status[s] = "failed" => agent[s] # "running"

\* access.go:1629 "if it changed, this worker no longer owns the remote attempt
\* and must not close a session created by the newer owner."
CompensationSparesRunning ==
    [][\A w \in Worker :
          /\ Compensate(w)
          /\ agent'[job[w].s] # agent[job[w].s]
          => status[job[w].s] # "running"]_vars
=============================================================================
