-------------------------- MODULE SessionRuntimes --------------------------
(***************************************************************************)
(* The runtime of one installation: GATEWAY_RUNTIME selects the host       *)
(* controller (local or docker) or the Kubernetes client; the gateway      *)
(* agent of internal/gatewayagent is the third implementation of the same  *)
(* calls.  The access service relies on one promise of all, SessionAgent.  *)
(***************************************************************************)
EXTENDS Naturals

CONSTANTS Session, MaxFaults, PodSession, Creator, Closer, WebOnly, MaxAborts, Drivers, Call

VARIABLES driver, controller, record, disk, grant, marker, spool, workload, launched,
          expired, late, aged, creator, closer, reported, pruned, faults,
          configMap, secret, pod, service, started, podExpired, podLate, drainable,
          podAged, create, clean, podReported, podPruned, aborts,
          manager, memory, file, listener, call, overdue, forgotten, todo, managerFaults

Host == INSTANCE HostRuntime

Kube == INSTANCE KubernetesRuntime
        WITH Session <- PodSession, runtime <- driver, expired <- podExpired, late <- podLate,
             aged <- podAged, reported <- podReported, pruned <- podPruned

Manager == INSTANCE GatewayManager WITH faults <- managerFaults

hostVars == <<driver, controller, record, disk, grant, marker, spool, workload, launched,
              expired, late, aged, creator, closer, reported, pruned, faults>>

podVars == <<configMap, secret, pod, service, started, podExpired, podLate, drainable,
             podAged, create, clean, podReported, podPruned, aborts>>

managerVars == <<manager, memory, file, listener, call, overdue, forgotten, todo, managerFaults>>

vars == <<hostVars, podVars, managerVars>>

\* main selects one client for the life of the process.
Init ==
    /\ driver \in Drivers
    /\ Host!Init
    /\ Kube!Init
    /\ Manager!Init

Next ==
    \/ Host!Next /\ UNCHANGED <<podVars, managerVars>>
    \/ Kube!Next /\ UNCHANGED <<hostVars, managerVars>>
    \/ Manager!Next /\ UNCHANGED <<hostVars, podVars>>

Spec == Init /\ [][Next]_vars /\ Host!Fairness /\ Kube!Fairness /\ Manager!Fairness

-----------------------------------------------------------------------------
\* The grant and the agent a client presents to the service.

HostPhase(s) ==
    IF pruned[s] THEN "settled"
    ELSE CASE disk[s].state = "none" -> "new"
           [] disk[s].state \in {"starting", "running"} -> "granted"
           [] disk[s].state = "stopping" -> "revoked"
           [] disk[s].state = "closed" -> "settled"

HostAgent(s) ==
    IF workload[s] = "running" THEN "up" ELSE IF launched[s] THEN "down" ELSE "none"

PodPhase(s) ==
    IF podPruned[s] \/ Kube!Settled(s) THEN "settled"
    ELSE CASE configMap[s].state = "none" -> "new"
           [] configMap[s].state = "active" -> "granted"
           [] configMap[s].state = "closed" -> "revoked"

PodAgent(s) ==
    IF pod[s] \in {"ready", "terminating"} THEN "up"
    ELSE IF started[s] THEN "down" ELSE "none"

\* What a restart would find decides with what the process knows.
ManagerPhase(s) ==
    CASE forgotten[s] \/ (memory[s] = "ended" /\ file[s] = "ended") -> "settled"
      [] ~ forgotten[s] /\ memory[s] = "none" -> "new"
      [] /\ ~ forgotten[s] /\ memory[s] \in {"stopping", "revoke_failed"}
         /\ file[s] \in {"stopping", "revoke_failed", "ended"} -> "revoked"
      [] OTHER -> "granted"

ManagerAgent(s) ==
    CASE listener[s] = "none" -> "none"
      [] listener[s] = "up" -> "up"
      [] OTHER -> "down"

HostPromise ==
    INSTANCE SessionAgent WITH LateLaunch <- FALSE, Shared <- FALSE,
        phase <- [s \in Session |-> HostPhase(s)], agent <- [s \in Session |-> HostAgent(s)]

PodPromise ==
    INSTANCE SessionAgent WITH LateLaunch <- TRUE, Shared <- FALSE, Session <- PodSession,
        phase <- [s \in PodSession |-> PodPhase(s)], agent <- [s \in PodSession |-> PodAgent(s)]

ManagerPromise ==
    INSTANCE SessionAgent WITH LateLaunch <- FALSE, Shared <- TRUE,
        phase <- [s \in Session |-> ManagerPhase(s)],
        agent <- [s \in Session |-> ManagerAgent(s)]

\* The host client implements the promise of SessionAgent with no late launch,
\* the Kubernetes client with one, the gateway manager as a shared process: an
\* approved grant starts one agent (host.go: "an uncertain launch is inspected
\* and closed, never replayed"), across crashes, failed writes and concurrent
\* calls, and none once it is revoked on record or settled.
ImplementsSessionAgent == HostPromise!Spec /\ PodPromise!Spec /\ ManagerPromise!Spec

\* A record that says closed on disk has no workload, no grant and no audit left
\* to deliver, whatever failed or crashed before (host.go cleanup).
ClosedIsDrained ==
    \A s \in Session : disk[s].state = "closed" =>
        workload[s] # "running" /\ ~ grant[s] /\ ~ spool[s]

HostDue(s) ==
    \/ disk[s].state = "stopping"
    \/ disk[s].state # "none" /\ expired[s]

PodDue(s) ==
    \/ configMap[s].state = "closed"
    \/ configMap[s].state = "active" /\ podExpired[s]

ManagerDue(s) ==
    \/ ManagerPhase(s) = "revoked"
    \/ ManagerPhase(s) = "granted" /\ overdue[s]

\* Every session that was revoked or has expired is cleaned up in the end: the
\* worker's Reconcile, and in the manager Recover and ReapExpired, repeat what a
\* crash or a failed request left undone.
EndedSettles ==
    /\ \A s \in Session : HostDue(s) ~> (HostPhase(s) = "settled")
    /\ \A s \in PodSession : PodDue(s) ~> (PodPhase(s) = "settled")
    /\ \A s \in Session : ManagerDue(s) ~> (ManagerPhase(s) = "settled")

\* docs/01: access through the site is the default and gets no NodePort.  A
\* session whose agent serves and whose grant has not expired is not ended by
\* Reconcile of client.go.
ReconcileSparesServing ==
    \A x \in Closer, s \in PodSession :
        clean[x].pc = "close" /\ clean[x].s = s /\ configMap[s].state = "active" =>
            ~ (Kube!GetSession(s) = "running" /\ s \in WebOnly)
=============================================================================
