------------------------- MODULE KubernetesRuntime -------------------------
(***************************************************************************)
(* The Kubernetes session runtime, internal/sessionruntime/client.go and   *)
(* resources.go.  There is no lock: replicas create and close a session at *)
(* the same time, each step is one request to the API server, and the only *)
(* shared state is what the API server holds.  A creating call whose       *)
(* record check is stale may still create a Pod after the revocation; the  *)
(* record is cleaned up again until no such call can be left.              *)
(***************************************************************************)
EXTENDS Naturals

CONSTANTS Session,
          Creator,      \* concurrent calls of CreateApprovedSession, over all replicas
          Closer,       \* concurrent calls of CloseSession or Reconcile
          WebOnly,      \* the sessions without a client listener
          MaxAborts     \* bound: closing calls that fail or crash half-way

VARIABLES runtime,      \* GATEWAY_RUNTIME
          configMap,    \* configMap[s]: the lifecycle record
          secret,       \* secret[s]: the grant exists
          pod,          \* pod[s]: the session Pod
          service,      \* service[s]: the NodePort Service exists
          started,      \* started[s]: an agent of s ran at some time
          expired,      \* expired[s]: expires_at has passed
          late,         \* late[s]: StartupTimeout + 30 s have passed since started_at
          drainable,    \* drainable[s]: the same time has passed since closed_at
          aged,         \* aged[s]: terminalRetention has passed since closed_at
          create,       \* create[c]: the step of a creating call
          clean,        \* clean[x]: the step of a closing call
          reported,     \* reported[s]: Reconcile returned s as ended
          pruned,       \* pruned[s]: the record was deleted
          aborts

fixed == <<runtime, aborts>>
objects == <<configMap, secret, pod, service, started>>
clocks == <<expired, late, drainable, aged>>
vars == <<runtime, configMap, secret, pod, service, started, expired, late, drainable, aged,
          create, clean, reported, pruned, aborts>>

NoRecord == [state |-> "none", bound |-> FALSE, acked |-> FALSE, drained |-> FALSE]

PodPhase == {"absent", "pending", "ready", "terminating", "done"}

Init ==
    /\ configMap = [s \in Session |-> NoRecord]
    /\ secret = [s \in Session |-> FALSE]
    /\ pod = [s \in Session |-> "absent"]
    /\ service = [s \in Session |-> FALSE]
    /\ started = [s \in Session |-> FALSE]
    /\ expired = [s \in Session |-> FALSE]
    /\ late = [s \in Session |-> FALSE]
    /\ drainable = [s \in Session |-> FALSE]
    /\ aged = [s \in Session |-> FALSE]
    /\ create \in [Creator -> [pc : {"idle"}, s : Session]]
    /\ clean \in [Closer -> [pc : {"idle"}, s : Session, acked : {FALSE}]]
    /\ reported = [s \in Session |-> FALSE]
    /\ pruned = [s \in Session |-> FALSE]
    /\ aborts = 0

ToCreate(c, pc) == create' = [create EXCEPT ![c].pc = pc]

ToClean(x, pc) == clean' = [clean EXCEPT ![x].pc = pc]

PodReady(s) == pod[s] = "ready"

-----------------------------------------------------------------------------
\* CreateApprovedSession: every step is one request of the API server.

requireActive(s) == configMap[s].state = "active" /\ ~ expired[s]

\* The service has closed the row of a pruned session.
ensureRecord(c, s) ==
    /\ create[c].pc = "idle"
    /\ ~ pruned[s]
    /\ ~ expired[s]
    /\ configMap[s].state \in {"none", "active"}
    /\ configMap' = [configMap EXCEPT ![s].state = "active"]
    /\ create' = [create EXCEPT ![c] = [pc |-> "secret", s |-> s]]
    /\ UNCHANGED <<fixed, secret, pod, service, started, clocks, clean, reported, pruned>>

ensureSecret(c, s) ==
    /\ create[c] = [pc |-> "secret", s |-> s]
    /\ secret' = [secret EXCEPT ![s] = TRUE]
    /\ ToCreate(c, "pod")
    /\ UNCHANGED <<fixed, configMap, pod, service, started, clocks, clean, reported, pruned>>

\* ensurePod up to the Create: a Pod that was bound once is never replaced.
CheckPod(c, s) ==
    /\ create[c] = [pc |-> "pod", s |-> s]
    /\ requireActive(s)
    /\ \/ pod[s] # "absent" /\ ToCreate(c, "bind")
       \/ pod[s] = "absent" /\ ~ configMap[s].bound /\ ToCreate(c, "createPod")
    /\ UNCHANGED <<fixed, objects, clocks, clean, reported, pruned>>

CreatePod(c, s) ==
    /\ create[c] = [pc |-> "createPod", s |-> s]
    /\ pod' = [pod EXCEPT ![s] = IF pod[s] = "absent" THEN "pending" ELSE pod[s]]
    /\ ToCreate(c, "bind")
    /\ UNCHANGED <<fixed, configMap, secret, service, started, clocks, clean, reported, pruned>>

bindPodIdentity(c, s) ==
    /\ create[c] = [pc |-> "bind", s |-> s]
    /\ configMap[s].state = "active"
    /\ configMap' = [configMap EXCEPT ![s].bound = TRUE]
    /\ ToCreate(c, "ready")
    /\ UNCHANGED <<fixed, secret, pod, service, started, clocks, clean, reported, pruned>>

\* The Pod is ready and its agent answers; a web session needs no Service.
AwaitReady(c, s) ==
    /\ create[c] = [pc |-> "ready", s |-> s]
    /\ requireActive(s)
    /\ PodReady(s)
    /\ ToCreate(c, IF s \in WebOnly THEN "idle" ELSE "service")
    /\ UNCHANGED <<fixed, objects, clocks, clean, reported, pruned>>

ensureService(c, s) ==
    /\ create[c] = [pc |-> "service", s |-> s]
    /\ requireActive(s)
    /\ ToCreate(c, "createService")
    /\ UNCHANGED <<fixed, objects, clocks, clean, reported, pruned>>

CreateService(c, s) ==
    /\ create[c] = [pc |-> "createService", s |-> s]
    /\ service' = [service EXCEPT ![s] = TRUE]
    /\ ToCreate(c, "endpoints")
    /\ UNCHANGED <<fixed, configMap, secret, pod, started, clocks, clean, reported, pruned>>

endpointsReady(c, s) ==
    /\ create[c] = [pc |-> "endpoints", s |-> s]
    /\ requireActive(s)
    /\ service[s] /\ PodReady(s)
    /\ ToCreate(c, "idle")
    /\ UNCHANGED <<fixed, objects, clocks, clean, reported, pruned>>

\* A check fails, a request fails, the startup timeout ends or the replica crashes.
CreateEnds(c) ==
    /\ create[c].pc # "idle"
    /\ ToCreate(c, "idle")
    /\ UNCHANGED <<fixed, objects, clocks, clean, reported, pruned>>

-----------------------------------------------------------------------------
\* CloseSession.

\* closeRecord: an optimistic update retried on conflict, or a tombstone.  The
\* service calls it at any time; its later calls are the same as Reconcile's.
closeRecord(x, s) ==
    /\ \/ clean[x].pc = "idle" /\ configMap[s].state # "closed"
       \/ clean[x].pc = "close" /\ clean[x].s = s
    /\ ~ pruned[s]
    /\ configMap' = [configMap EXCEPT ![s].state = "closed"]
    /\ clean' = [clean EXCEPT ![x].pc = "service", ![x].s = s]
    /\ UNCHANGED <<fixed, secret, pod, service, started, clocks, create, reported, pruned>>

DeleteService(x, s) ==
    /\ clean[x].pc = "service" /\ clean[x].s = s
    /\ service' = [service EXCEPT ![s] = FALSE]
    /\ ToClean(x, "pod")
    /\ UNCHANGED <<fixed, configMap, secret, pod, started, clocks, create, reported, pruned>>

\* The Pod is read; a running agent is stopped through its management identity
\* first, and flushes its audit.  Without the Secret the call fails.
StopAgent(x, s) ==
    /\ clean[x].pc = "pod" /\ clean[x].s = s
    /\ \/ pod[s] = "absent" /\ ToClean(x, "secret") /\ UNCHANGED pod
       \/ pod[s] \in {"pending", "terminating", "done"} /\ ToClean(x, "delete") /\ UNCHANGED pod
       \/ /\ pod[s] = "ready"
          /\ secret[s]
          /\ pod' = [pod EXCEPT ![s] = "done"]
          /\ ToClean(x, "delete")
    /\ UNCHANGED <<fixed, configMap, secret, service, started, clocks, create, reported, pruned>>

DeletePod(x, s) ==
    /\ clean[x].pc = "delete" /\ clean[x].s = s
    /\ pod' = [pod EXCEPT ![s] = IF pod[s] \in {"ready", "terminating"}
                                 THEN "terminating" ELSE "absent"]
    /\ ToClean(x, "gone")
    /\ UNCHANGED <<fixed, configMap, secret, service, started, clocks, create, reported, pruned>>

AwaitPodGone(x, s) ==
    /\ clean[x].pc = "gone" /\ clean[x].s = s
    /\ pod[s] = "absent"
    /\ ToClean(x, "secret")
    /\ UNCHANGED <<fixed, objects, clocks, create, reported, pruned>>

DeleteSecret(x, s) ==
    /\ clean[x].pc = "secret" /\ clean[x].s = s
    /\ secret' = [secret EXCEPT ![s] = FALSE]
    /\ ToClean(x, IF clean[x].acked THEN "acknowledge" ELSE "idle")
    /\ UNCHANGED <<fixed, configMap, pod, service, started, clocks, create, reported, pruned>>

ToIdle(x) == clean' = [clean EXCEPT ![x].pc = "idle", ![x].acked = FALSE]

\* A request or /stop fails, the 45 s end or the replica crashes.
CleanEnds(x) ==
    /\ clean[x].pc # "idle"
    /\ aborts < MaxAborts
    /\ aborts' = aborts + 1
    /\ ToIdle(x)
    /\ UNCHANGED <<runtime, objects, clocks, create, reported, pruned>>

\* A running Pod without its Secret cannot be told to stop, a Pod of that name
\* is still there after 45 s, or objects that are left cannot be acknowledged:
\* the call gives up until Reconcile.
CleanRefused(x, s) ==
    /\ clean[x].s = s
    /\ \/ clean[x].pc = "pod" /\ pod[s] = "ready" /\ ~ secret[s]
       \/ clean[x].pc = "gone" /\ pod[s] # "absent"
       \/ clean[x].pc = "acknowledge" /\ (pod[s] # "absent" \/ service[s] \/ secret[s])
    /\ ToIdle(x)
    /\ UNCHANGED <<fixed, objects, clocks, create, reported, pruned>>

-----------------------------------------------------------------------------
\* Reconcile, on every replica, and AcknowledgeClosure.

\* GetSession: what the record and the objects say together.
GetSession(s) ==
    LET state == configMap[s].state
    IN IF state = "none" THEN "not_found"
       ELSE IF state = "closed"
       THEN IF pod[s] = "absent" /\ ~ service[s] THEN "closed" ELSE "stopping"
       ELSE IF PodReady(s) /\ ~ expired[s] THEN "running" ELSE "starting"

Settled(s) ==
    configMap[s].state = "closed" /\ configMap[s].acked /\ configMap[s].drained

\* Without a Service the exposure of an old Pod counts as incomplete.
Broken(s) ==
    \/ pod[s] \in {"terminating", "done"}
    \/ late[s] /\ (~ PodReady(s) \/ ~ service[s])

Reconcile(x, s) ==
    /\ clean[x].pc = "idle"
    /\ configMap[s].state # "none"
    /\ ~ Settled(s)
    /\ configMap[s].state = "closed" \/ expired[s] \/ Broken(s)
    /\ reported' = [reported EXCEPT ![s] = reported[s] \/ ~ configMap[s].acked]
    /\ clean' = [clean EXCEPT ![x] = [pc |-> "close", s |-> s, acked |-> configMap[s].acked]]
    /\ UNCHANGED <<fixed, objects, clocks, create, pruned>>

\* Mutant of AcknowledgeClosure: a first acknowledgement is final.
AcknowledgeDrained(x, s) ==
    /\ \/ clean[x].pc = "idle" /\ reported[s] /\ ~ configMap[s].acked
       \/ clean[x].pc = "acknowledge" /\ clean[x].s = s
    /\ pod[s] = "absent" /\ ~ service[s] /\ ~ secret[s]
    /\ configMap[s].state = "closed"
    /\ configMap' = [configMap EXCEPT ![s].acked = TRUE, ![s].drained = TRUE]
    /\ ToIdle(x)
    /\ UNCHANGED <<fixed, secret, pod, service, started, clocks, create, reported, pruned>>

\* The objects are confirmed gone and the record is marked.  Called by the
\* service once its row is closed, and by Reconcile until the record is drained.
AcknowledgeClosure(x, s) ==
    /\ \/ clean[x].pc = "idle" /\ reported[s] /\ ~ configMap[s].acked
       \/ clean[x].pc = "acknowledge" /\ clean[x].s = s
    /\ pod[s] = "absent" /\ ~ service[s] /\ ~ secret[s]
    /\ configMap[s].state = "closed"
    /\ configMap' = [configMap EXCEPT ![s].acked = TRUE,
                                      ![s].drained = @ \/ drainable[s]]
    /\ ToIdle(x)
    /\ UNCHANGED <<fixed, secret, pod, service, started, clocks, create, reported, pruned>>

PruneRecord(s) ==
    /\ Settled(s)
    /\ aged[s]
    /\ configMap' = [configMap EXCEPT ![s] = NoRecord]
    /\ pruned' = [pruned EXCEPT ![s] = TRUE]
    /\ UNCHANGED <<fixed, secret, pod, service, started, clocks, create, clean, reported>>

-----------------------------------------------------------------------------
\* The kubelet, the agent and the clock.

\* A Pod starts once its grant can be mounted.
PodStarts(s) ==
    /\ pod[s] = "pending"
    /\ secret[s]
    /\ pod' = [pod EXCEPT ![s] = "ready"]
    /\ started' = [started EXCEPT ![s] = TRUE]
    /\ UNCHANGED <<fixed, configMap, secret, service, clocks, create, clean, reported, pruned>>

\* RestartPolicyNever: an agent that exits is not started again.
PodExits(s) ==
    /\ pod[s] = "ready"
    /\ pod' = [pod EXCEPT ![s] = "done"]
    /\ UNCHANGED <<fixed, configMap, secret, service, started, clocks, create, clean, reported, pruned>>

PodTerminates(s) ==
    /\ pod[s] = "terminating"
    /\ pod' = [pod EXCEPT ![s] = "absent"]
    /\ UNCHANGED <<fixed, configMap, secret, service, started, clocks, create, clean, reported, pruned>>

Expire(s) ==
    /\ configMap[s].state # "none"
    /\ ~ expired[s]
    /\ expired' = [expired EXCEPT ![s] = TRUE]
    /\ UNCHANGED <<fixed, objects, late, drainable, aged, create, clean, reported, pruned>>

BecomeLate(s) ==
    /\ configMap[s].state = "active"
    /\ ~ late[s]
    /\ late' = [late EXCEPT ![s] = TRUE]
    /\ UNCHANGED <<fixed, objects, expired, drainable, aged, create, clean, reported, pruned>>

\* A creating call that passed ensureRecord before the closure has reached its
\* startup timeout.  An acknowledgement takes less than the further 30 s, so its
\* reads and its write are on the same side of this step.
BecomeDrainable(s) ==
    /\ configMap[s].state = "closed"
    /\ ~ drainable[s]
    /\ \A c \in Creator : create[c].s = s => create[c].pc = "idle"
    /\ drainable' = [drainable EXCEPT ![s] = TRUE]
    /\ UNCHANGED <<fixed, objects, expired, late, aged, create, clean, reported, pruned>>

\* Seven days outlast every call in progress.
RetentionPasses(s) ==
    /\ Settled(s)
    /\ ~ aged[s]
    /\ \A x \in Closer : clean[x].s = s => clean[x].pc = "idle"
    /\ aged' = [aged EXCEPT ![s] = TRUE]
    /\ UNCHANGED <<fixed, objects, expired, late, drainable, create, clean, reported, pruned>>

-----------------------------------------------------------------------------
Create(c, s) ==
    \/ ensureRecord(c, s) \/ ensureSecret(c, s) \/ CheckPod(c, s) \/ CreatePod(c, s)
    \/ bindPodIdentity(c, s) \/ AwaitReady(c, s) \/ ensureService(c, s)
    \/ CreateService(c, s) \/ endpointsReady(c, s)

\* The steps of a closing call that has started.
Continue(x, s) ==
    \/ clean[x].pc = "close" /\ closeRecord(x, s)
    \/ DeleteService(x, s) \/ StopAgent(x, s) \/ DeletePod(x, s) \/ AwaitPodGone(x, s)
    \/ DeleteSecret(x, s) \/ CleanRefused(x, s)
    \/ clean[x].pc = "acknowledge" /\ AcknowledgeClosure(x, s)

Clean(x, s) ==
    \/ clean[x].pc = "idle" /\ closeRecord(x, s)
    \/ clean[x].pc = "idle" /\ AcknowledgeClosure(x, s)
    \/ Reconcile(x, s)
    \/ Continue(x, s)

Environment(s) ==
    \/ PodStarts(s) \/ PodExits(s) \/ PodTerminates(s) \/ PruneRecord(s)
    \/ Expire(s) \/ BecomeLate(s) \/ BecomeDrainable(s) \/ RetentionPasses(s)

Next ==
    /\ runtime = "kubernetes"
    /\ \/ \E s \in Session, c \in Creator : Create(c, s)
       \/ \E s \in Session, x \in Closer : Clean(x, s)
       \/ \E s \in Session : Environment(s)
       \/ \E c \in Creator : CreateEnds(c)
       \/ \E x \in Closer : CleanEnds(x)

On == runtime = "kubernetes"

\* Contexts end, calls in progress continue, the worker reconciles and
\* acknowledges for ever, Pods that are deleted terminate and agents exit when
\* they expire.
Fairness ==
    /\ \A c \in Creator : WF_vars(On /\ CreateEnds(c))
    /\ \A s \in Session, x \in Closer :
        /\ WF_vars(On /\ Continue(x, s))
        /\ WF_vars(On /\ Reconcile(x, s))
        /\ SF_vars(On /\ clean[x].pc = "idle" /\ AcknowledgeClosure(x, s))
    /\ \A s \in Session :
        /\ WF_vars(On /\ BecomeDrainable(s))
        /\ WF_vars(On /\ PodTerminates(s))
        /\ WF_vars(On /\ expired[s] /\ PodExits(s))
        /\ WF_vars(On /\ Expire(s))
=============================================================================
