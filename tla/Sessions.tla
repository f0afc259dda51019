------------------------------ MODULE Sessions ------------------------------
(***************************************************************************)
(* The session rows of internal/repository/sessions.go and the runtime     *)
(* that carries each session, as the control plane sees it.                *)
(*                                                                         *)
(* Each operator on status and version is one conditional UPDATE.  The     *)
(* version is compared only while a row is provisioning, so it is kept as  *)
(* a value only there: it counts the claims of the provisioning lease.     *)
(***************************************************************************)
EXTENDS Domain

VARIABLES status,     \* status[s]: the row's status, "none" before it exists
          version,    \* version[s]: claims of the provisioning lease
          agent       \* agent[s]: the session agent in the runtime

\* "ended": the workload stopped by itself (grant expiry, crash, audit
\* failure) but its record is open; "stopping": a close has been recorded and
\* cleanup is not confirmed; "closed": a tombstone that blocks a relaunch;
\* "acked": the control plane has acknowledged the closure.
AgentState == {"none", "running", "ended", "stopping", "closed", "acked"}

SessionsInit ==
    /\ status = [s \in Session |-> "none"]
    /\ version = [s \in Session |-> 0]
    /\ agent = [s \in Session |-> "none"]

\* Mutant of Owns: the version is not compared.
OwnsAnyVersion(s, v) == status[s] = "provisioning"

\* The optimistic lease: the attempt that read version v still owns the row.
Owns(s, v) == status[s] = "provisioning" /\ version[s] = v

InsertProvisioning(s) ==
    /\ status[s] = "none"
    /\ status' = [status EXCEPT ![s] = "provisioning"]
    /\ UNCHANGED version

ClaimProvisioningOnGateway(s, v, stale) ==
    /\ Owns(s, v)
    /\ v = 0 \/ stale
    /\ version' = [version EXCEPT ![s] = v + 1]
    /\ UNCHANGED status

LeaveProvisioning(s, v, to) ==
    /\ Owns(s, v)
    /\ status' = [status EXCEPT ![s] = to]
    /\ version' = [version EXCEPT ![s] = 0]

MarkDirectRunning(s, v) == LeaveProvisioning(s, v, "running")

MarkProvisionFailed(s, v) == LeaveProvisioning(s, v, "failed")

MarkProvisionRevokeFailed(s, v) == LeaveProvisioning(s, v, "revoke_failed")

Move(s, from, to) ==
    /\ status[s] \in from
    /\ status' = [status EXCEPT ![s] = to]
    /\ UNCHANGED version

\* Mutant of BeginRevoke: the UPDATE has no condition on the status.
BeginRevokeAnyStatus(s) == Move(s, SessionStatus, "revoking")

BeginRevoke(s) == Move(s, {"running", "revoke_failed", "manual_intervention"}, "revoking")

MarkClosed(s, to) == Move(s, {"revoking"}, to)

MarkManualIntervention(s) == Move(s, {"revoking", "revoke_failed"}, "manual_intervention")

\* Mutant of AgentLaunch: a tombstone does not block a launch.
AgentRelaunch(s) == agent' = [agent EXCEPT ![s] = "running"]

\* HostClient.CreateApprovedSession: the record written before the launch makes
\* a repeated create idempotent; any other record refuses it.
AgentLaunch(s) ==
    /\ agent[s] \in {"none", "running"}
    /\ agent' = [agent EXCEPT ![s] = "running"]

\* HostClient.CloseSession.  A close of an unknown session leaves a tombstone.
AgentClosed(s) ==
    agent' = [agent EXCEPT ![s] = IF agent[s] = "acked" THEN "acked" ELSE "closed"]

\* The close was recorded, but cleanup was not confirmed.
AgentCloseFailed(s) ==
    \/ UNCHANGED agent
    \/ /\ agent[s] \notin {"closed", "acked"}
       /\ agent' = [agent EXCEPT ![s] = "stopping"]
=============================================================================
