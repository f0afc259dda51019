# Access gateway: specifications, model checking and proofs

The platform grants time-limited access to internal assets. A user asks for
access to a port of an asset, approvers decide, and an approved request becomes
a *session*: a dedicated agent process, started through a runtime, that carries
the user's connections until the session is closed, cancelled, revoked or
expires. The control plane runs in several replicas over one PostgreSQL
database; everything that must survive a crash goes through a transactional
outbox.

This directory models the platform in TLA+: the lifecycle of a session, the
requests and approvals before it, the runtimes that start its agent, the traffic
and the evidence inside it, and the control plane around it (settings, sign-in,
roles, catalogue, routing, realtime updates). TLC checks the models on small
instances. TLAPS proves the safety properties of every component but one
(ResultIsRight) for every instance, and that the three runtimes implement one
abstract specification; liveness is model-checked. Line numbers refer to the
source beside it.

## 1. The system: inventory

| Component | State | What makes it correct | Module |
|---|---|---|---|
| Session lifecycle, `service/access.go` | rows of `sessions`, `access_requests`, `outbox_events` | a revocation is never lost or undone; withdrawn access never runs; closed means the agent is gone | AccessService, Sessions, Outbox |
| Worker, `worker/worker.go` | tickers, task channel | every loop keeps running | the fairness of AccessService |
| Requests and approvals, `access.go`, `workflows.go`, `approvalflow` | requests, votes, workflow snapshots | no session without a complete chain; one unresolved session per port | AccessRequests |
| Host and Docker runtime, `sessionruntime/host.go` | one record file per session, processes | a grant is launched once, a close is final | HostRuntime |
| Kubernetes runtime, `sessionruntime/client.go` | objects of the API server | the same, with late creations | KubernetesRuntime |
| Gateway manager, `gatewayagent/manager.go` | records in memory and in a state file, listeners | the same, with a process that serves again after a restart | GatewayManager |
| Session agent, `gatewayagent/direct_controller.go` | listener, connections, timers | nothing is left after a stop, everyone returns | DirectController |
| Encryption guard, `gatewayagent/native_encryption.go` | negotiation per connection | nothing crosses in the clear | NativeGuard |
| Audit proxies, `sessionproxy` | per connection, pending operations | recorded before executed, results attributed correctly | Recorder, six proxies |
| Browser terminal, `httpapi/web_terminal.go`, `terminalclient` | relay, PTY, process group | no subprocess survives the browser | WebTerminal |
| Audit spool and delivery, `gatewayagent/audit_*.go`, `operation_sink.go`, `operationaudit` | append-only file, evidence rows | nothing acknowledged is lost, each event is told once | AuditTrail, Evidence |
| Settings, `service/settings.go`, `settings` | one row with a revision, caches | saves are merged, snapshots are fresh | Settings |
| Sign-in, MFA, invitations, `service/mfa.go`, `authentication.go`, `invitations.go` | accounts, challenges, cookies, states | single use; a session reflects the present factors | SignIn, ExternalSignIn, Invitations, Accounts |
| Identity and roles, `service/iam.go` | users, roles, bindings, assignments | a recovery administrator remains, nobody raises themselves | Directory |
| Realtime hub, `realtime`, `httpapi/realtime.go` | subscribers with buffers | no silent loss | Realtime |
| Catalogue, cloud accounts, CMDB, `service/asset_*.go`, `cloud.go`, `cmdb.go` | assets, ports, audit forms, jobs | a stale edit or answer is refused, deletions hold | Catalogue |
| Gateways, `service/admin.go`, `repository/gateways.go` | gateways, bindings, heartbeats | capacity is kept under concurrent claims | Routing |
| Labels, HTTP routing, configuration, metrics, console | configuration | pure functions and adapters | not modelled (section 6) |

What makes this code hard is the same everywhere: remote calls sit between
transactions, every command may run twice at once, any process may stop between
two steps, replies may be lost after their effect, and a value that was read
before a lock, an exchange with a provider or an answer of a cloud is used after
it. `PROJECT.json` lists these hazards with the lines where they bite and the
properties that cover them.

## 2. Modules

### 2.1 Map of the modules

```
Domain                       statuses and command types
  Outbox, Sessions           the rows and their statements
    AccessService            the lifecycle, the workers, faults
      MCAccessService, AccessServiceProofs
AccessRequests               creating, deciding, cancelling, expiring
  MCAccessRequests, AccessRequestsProofs
SessionAgent                 what a runtime promises
HostRuntime, KubernetesRuntime, GatewayManager
  SessionRuntimes            the three of them, each refining SessionAgent
    MCSessionRuntimes, SessionRuntimesProofs
Evidence                     the records of the control plane
  AuditTrail                 connections, spools, requests, collector
    AuditTrailProofs
NativeGuard, DirectController, WebTerminal
Recorder                     what the proxies share
  MySQLProxy, PostgresProxy, RedisProxy, MongoProxy, SSHProxy, HTTPProxy
  Connections                the traffic of a session, one part at a time
    MCConnections, ConnectionsProofs
Accounts                     the rows of a person
  Settings                   SettingsProofs
    SignIn
      ExternalSignIn, Invitations
        IdentityProofs       the three sign-in machines interleaved
Directory, Realtime, Catalogue, Routing
  ComponentProofs            these four and SessionAgent
  ControlPlane               all parts of the control plane, one at a time
    MCControlPlane
```

Where several machines are checked in one run (SessionRuntimes, Connections,
ControlPlane), a variable chosen in Init says which one runs, and every other
machine stutters: the run is the sum of the machines, not their product. Machines
that do share state (sign-in, providers and invitations over Accounts; spools,
agent and evidence in AuditTrail; the proxies over Recorder) are one machine.

### 2.2 The lifecycle

**Domain** holds the session statuses of `domain/models.go`. `Terminal` is
`isTerminalSession`, which counts `manual_intervention`; `Resolved` excludes it,
as the callers that must not treat a session awaiting an operator as finished do.

**Outbox** has one operator per SQL statement. A command occupies a slot of
`EventId`. Settled rows are never read again, so settling empties the slot, and
a slot is reused only when no worker still works on its old command. The
provisioning and revoke commands are modelled; notification commands touch no
session. `CreateIfNoActive` is atomic here: for revoke commands the caller holds
the session's row lock. For provisioning commands two replicas may, in the
database, both insert; that is the same as the double execution that an expired
lease already allows, which is modelled.

**Sessions** has one operator per conditional UPDATE. `version` is compared only
while the row is provisioning, so it is kept only there. `agent` abstracts the
runtime: `running`, `ended` (the agent exited by itself), `stopping` (a close was
recorded, its cleanup is not confirmed), `closed` (a tombstone), `acked`. A
record of any kind but a running one refuses a launch, as
`HostClient.ensureStarted` does.

**AccessService** has one action per transaction or remote call. `job[w]` is one
execution of ProvisionSession or RevokeSession, for a claimed command or called
by the reconciler; `pc` names the point between two steps.

| Action | Code |
|---|---|
| FinalApproval | the last transaction of DecideApproval, 1103-1163 |
| CancelAccessRequest, ForceCloseSession, CloseSession | 838-994, 1825-1975, 1732-1819 |
| ReapExpired, ReapProvisioning | 2204-2272, 2316-2352 |
| Disable, Enable, EnqueueRevocation, EnqueueingEnds | admin.go, iam.go, cmdb.go, asset_delete.go; 3207-3304 |
| ClaimCommand | ProcessOutbox, 3034-3046 |
| LoadProvision, ClaimProvisioning, ClaimMissed | ProvisionSession, 1200-1300 |
| CreateStarts, CreateReturns, CreateFails | the create call and the checks of its response, 1302-1425 |
| CompleteProvision, CompleteTooLate | the final transaction, 1426-1626 |
| CheckLease, Compensate, FailProvision, FailProvisionRevokeFailed | 1328-1423 and 1627-1650 with 3306-3370, 3499-3521 |
| BeginRevokeSession, CloseGatewaySession, SettleRevoke, RecheckRevoke, PersistRevokeFailure | RevokeSession, 1977-2202 and 3372-3443 |
| Reconcile, ReconcileReturns | HostClient.Reconcile and ReconcileSessionResources |
| AcknowledgeCommand, RetryCommand, RetriesExhausted, GiveUpCommand, ManualIntervention | ProcessOutbox, 3046-3068, and markRevokeManualIntervention, 3078-3115 |
| DatabaseFails, WorkerCrash | a rolled-back transaction; a stopped process or a failed settlement |

What the model abstracts:

- Time. A lease may run out at any moment, except that the provisioning lease is
  renewed while the create call runs; the expiry of a session may come at any
  moment. Properties that hold for every timing hold for the real one; a
  counterexample has to be judged against the real durations (section 5).
- Checks on data that no property tells apart (port, binding, a tester's
  permission, the gateway's response) are choices: they may fail at any time.
- `catalog[s]` stands for the applicant, asset, region and gateway behind a
  session; `disabling` is the interval between the commit of the disable and the
  end of the enqueueing.
- Audit rows, session events and notifications are written in the same
  transactions and are not read back.
- A session row written by a release that knew another connection mode (line
  1299) is not an initial state; every session is created in native mode.

### 2.3 Requests and approvals

**AccessRequests.** A request is named by its idempotency key. A call is a
variable `call[c]` whose steps are the reads before the transaction and the
transaction itself: CreateAccessRequest, LookupKey, CheckRequest, CommitRequest
and, for the loser of two creations with one key, ConflictLookup; DecideApproval
and CommitDecision. CancelAccessRequest, ReapApprovalExpired and an edit of
labels, workflow or asset are one transaction each. A selector is the set of
users it matches at the moment. The work list of the console
(`ListPendingByApprover`, one SQL statement) and the stages it shows are operators
that ConsoleAgrees compares with the service: the list is exactly the votes that
`nextApprovalLevel` leaves open, and of those the transaction of a decision accepts
exactly the ones whose voter the level's selector still matches, which the SQL does
not look at.
The session side of a cancellation is AccessService, whose FinalApproval is the
commit of the last vote.

### 2.4 Runtimes

**SessionAgent** is the abstract specification: per session a phase (`new`,
`granted`, `revoked`, `settled`) and an agent. An approved grant starts at most
one agent; a revoked one is never granted again; a settled one has no agent and
will have none. Two constants tell the implementations apart: with `LateLaunch`
a create request that was already checked may still produce a workload after the
revocation (Kubernetes), with `Shared` the same process opens a listener again
after its restart, and a stop that failed may be repeated for a settled session.

**HostRuntime** (`host.go`, `host_store.go`, `process.go`, `docker.go`) keeps the
controller's records in memory and on disk, the operation mutex of each session,
the stop marker the agent polls, the engine's processes and the audit still to be
drained. Writes may fail with the old or the new content left, engine answers may
be lost, the controller may crash and load its files again.

**KubernetesRuntime** (`client.go`, `resources.go`) has no lock: each step of a
creating or closing call is one request to the API server. `BecomeDrainable`
stands for the time after which no creating call with an old check can be left.

**GatewayManager** (`manager.go`, `store.go`) is the shared process with one state
file for all sessions: starts that save before and after the listener opens,
stops, expiry, failed saves, crash, recovery of the file. Two assumptions:
sessions have a source address (see 5.2), and a session that was pruned from the
file is not started again, because retention outlasts the retries of the control
plane.

**SessionRuntimes** instantiates the three, maps the state of each to SessionAgent
(for the host: granted from the first intent on disk until a close is on record,
settled when the record says closed or is gone), and states the refinement as the
property ImplementsSessionAgent.

### 2.5 The traffic of a session

**NativeGuard** relays the public part of a negotiation. A unit is a packet or
record of one of the kinds the guard tells apart; either side may send any unit
at any time, and the two operations of `nativeBoth` run concurrently.

**DirectController** has the goroutines of one agent: the listener, the expiry
timer, one worker per connection (native, browser terminal, extra connection of a
terminal client), Stop called by the agent and by the audit failure, Shutdown.
Appends to the audit may fail, Stop may time out. The removal of an exposure cannot
fail here: `DirectExposureProvider.Remove` returns nil.

**Recorder** and the proxies. `proxy` is the state of the proxy's goroutines,
`target` the server's, `journal` what was recorded, `effects` what the target did.
Each proxy has the authentication it performs with the managed account, the
commands whose results differ in shape (several statements, transactions,
pipelines, copies, streams, exhaust replies, SFTP requests) and the attribution of
results. The target is external and modelled from how the proxy reads it. Of the
SSH channels, up to eight at once, one is followed: each has goroutines and records
of its own. An HTTP answer 101 is recorded and refused, and ends the connection to the
target.

**WebTerminal** has the relay of the control plane, the SSH shell and the native
client behind a PTY with its process group, its broker and its bridges. A program
that does not read blocks the copy of what was typed (`inputBlocks`); the copy goes
on when the program reads, and ends when the terminal is hung up.

**Evidence** and **AuditTrail** follow an event from the connection that may not
go on before the event is acknowledged, through `events.jsonl` (write, sync,
compaction, reload) or the operation directory, through batches that may be lost,
answered late or executed after their sender gave up, to the records of the
control plane. There a collector's reports of what the asset itself logged are
correlated by source address (`CorrelateOperation`). The asset dates an operation
with its own clock, which is up to `Drift` off the gateway's (`Stamp`); the
connections are dated by the gateway; the correlation compares the two as they are,
within a window (`MaxAge`, 25 hours in the code), and a report dated too far ahead
(`MaxAhead`) is refused. Probes and terminal frames, which the operations shown
leave out as well, are not modelled. The spool is drained by the agent that stops
or, after its death, by the host.

### 2.6 The control plane

**Accounts** is the rows of a person; **Settings** the settings row with its
revision, the forms administrators load, the merge of secrets they left out and
the snapshot each replica caches. **SignIn** splits every request of password,
TOTP, recovery code, enrolment, removal, change of password and policy at its
transactions; a browser may present any cookie it ever got. A cookie carries, as
a ghost, the factors it was obtained with. **ExternalSignIn** adds OIDC and Feishu
with their redirects and the exchange with the provider in the middle,
**Invitations** the links.

**Directory** has the roles, label bindings and assignments, the administrators
whose requests are authorised when they arrive and committed later under the
exclusive IAM lock, and the life of an account: created by an administrator, by a
first sign-in through OIDC or Feishu, or invited. An invited account is inactive,
may be granted roles, labels and a new link meanwhile, and becomes active when its
holder uses the link, with whatever it was given by then. Feishu binds a row, may
report another union ID for it (`Renamed`), and deactivates it when the profile is
inactive.

**Realtime** has the committed changes, the notifications on their way, the hub's
buffers and the stages of a stream. **Catalogue** has one asset: forms with their
revision, reads before the transaction, the transaction; the CMDB import; the
jobs of a cloud account with lease and account revision (the rollback of a failed
sync and the FinishJob after it are one step: nothing the rollback undoes is read
in between). **Routing** has the gateways and bindings, sessions that stand on a
primary gateway until one is claimed, the probes of the worker and the claim of a
place in its steps: list, probe, count under the gateway's capacity lock, commit.

## 3. Runs

| Run | Distinct states | Checks | Result |
|---|---|---|---|
| `interleaving` | 569,693 | RevokeCommandsFit, ClosureIsTrue, WithdrawnNeverRuns, LeaseIsExclusive, NeverRevived | hold |
| `retries` | 181,729 | RevokeCommandsFit with two retries and three faults | holds |
| `liveness` | 167,829 | ProvisioningEnds, RevocationEnds, ExpiryEnds | hold |
| `requests` | 284,917 | SessionNeedsEveryLevel, OneActivePerTarget, AnswerIsOwnRequest, ConsoleAgrees, PendingEnds | hold |
| `runtimes` | 110,076 | ClosedIsDrained, EndedSettles, ImplementsSessionAgent | hold |
| `audit` | 208,192 | ForwardedIsShown, MatchIsRight, ToldOnce, SpooledIsDelivered | hold |
| `connections` | 251,864 | OnlyEncryptedCrosses, StoppedIsQuiet, ConnectedIsEnded, RecordedFirst, ResultIsRight, EndedReturns, TerminalEnds | hold |
| `control_plane` | 458,504 | SnapshotIsFresh, SavesAreMerged, SessionIsCurrent, HonouredOnce, ShownIsStored, TenantAgrees, NothingMissed, DiscoveryIsCurrent, RecoveryRemains, GainsNeedManager, CapacityIsKept, DeletionsHold | hold |
| `failed_agent`, `compensation`, `web_sessions`, `sync_error` | stop at the counterexample | one property each | violated (section 5.1) |

Deadlock is checked in the runs of the lifecycle. The others reach states where
everything is over (a session ended, all bounds used) and may stop there.

### 3.1 Bounds

*Lifecycle.* One session: no transition reads the row of another session except
the gateway's capacity, which is Routing. Two workers are what a duplicated
execution needs. `MaxClaims = 2` lets an attempt be taken over once, `MaxRetry = 0`
makes the first failure exhaust the retries, so that operators are involved early;
the runs with one worker use more retries and faults. The slots never block a
command: a session has at most one active revoke and one active provisioning
command, and a settled slot is withheld only while a worker holds it, so workers
+ 2 slots suffice.

*Requests.* Three users, one of them an administrator, one port and two concurrent
calls: enough for an applicant who is also a candidate, a threshold of two and a
candidate who loses the label. Three sets of submissions are separate initial
states: one request through one or two levels with one edit of the configuration,
one key used by two users, two requests for one port.

*Runtimes.* One session, two concurrent creating calls and one closing one, two
faults (a crash, a failed write, a lost answer) and one aborted creation.

*Audit.* Two connections that reuse one source address, batches of one event, two
faults. The asset's clock is off by at most one step (`Drift = 1`), the window is
two steps (`MaxAge = 2`) and nothing may be dated in the future (`MaxAhead = 0`): so
an operation may be dated before or after the connection that sent it, fall out of
the window, or be refused as too early and reported again.

*Connections.* One connection of each kind against a limit of two, so that the
third is refused; one failing audit write; per protocol as many operations as its
longest pattern needs (`MaxOps`: five for Redis, where MULTI, two commands, EXEC
and one more are five).

*Control plane.* Two replicas and two calls for the settings; two concurrent
requests for the sign-in parts with two attempts per challenge; three people for
the roles, with two requests in flight: one is an administrator by configuration,
one holds a role with user:manage, and one has no account at first, so that it is
created, invited, granted and activated within the run; two streams with a buffer
of one; one port, two administrators and two workers for the catalogue; two
sessions, two workers and three gateways, one of them still to be created.
`Touched` names the gateways administrators change, so that the others stay
available. Requests, administrators and workers are interchangeable and share one
symmetry set (the run checks no liveness). The view leaves out cookies,
challenges and flows of an older version, which no step can use again, the last
actor, which only the step itself refers to, links that were accepted, the forms
of requests that can only be refused, and the gateway of a session that nobody
has claimed yet, which no count includes.

### 3.2 Fairness and timing

*Lifecycle.* A live worker takes its next step (weak fairness of `WorkerStep`);
the outbox loop claims every due command each second and an expired lease makes a
command due again, so a command that is claimable again and again is claimed
(strong fairness of `ClaimCommand`); time passes (`Expire`); the recovery loop
lists all expired and all provisioning sessions. Users, administrators, the
reconciler, failures and the outcome of a remote call have no fairness.

*Requests.* Deadlines pass, and the worker's loop calls ReapApprovalExpired.

*Runtimes.* A restarted process loads its files, a call that has begun goes on,
marked or expired agents exit, and the worker repeats Reconcile. The mutex of a
session is taken again and again by other calls, so closing and reconciling need
strong fairness, as does ReapExpired of the manager; AcknowledgeClosure of
Kubernetes too. `BecomeDrainable` assumes that a creating call does not outlive
its context's deadline by more than the margin in `client.go`. No fairness is
assumed of crashes and failures, whose number is bounded.

*Audit and connections.* Goroutines that can go on do (weak fairness of
`Progress`): a cancelled connection ends, a timer fires, a worker retries its
batch. Nothing is assumed of users, browsers or targets.

*Control plane.* Safety only.

## 4. Properties and proofs

### 4.1 What is proved

| Property | What it says | Theorem |
|---|---|---|
| **AccessServiceProofs** | | |
| (types) | busy workers and active commands name a session | TypeCorrect |
| NeverRevived | a revocation is never undone, a resolved session keeps its status | NeverRevivedHolds |
| RevokeCommandsFit | one unfinished revoke command while a session is being revoked, none for an operator's session, never two | RevokeCommandsFitHolds |
| WithdrawnNeverRuns | a cancelled request, and what depends on a disabled row, does not run | WithdrawnNeverRunsHolds |
| ClosureIsTrue | closed or expired implies that the agent was closed; what is acknowledged is resolved | ClosureIsTrueHolds |
| LeaseIsExclusive | one owner of a provisioning attempt | LeaseIsExclusiveHolds |
| **AccessRequestsProofs** | | |
| SessionNeedsEveryLevel | each level of the snapshot reached its threshold with votes of its own candidates | SessionsAreApproved |
| OneActivePerTarget | one unresolved session per applicant and port, although it is checked before the lock | ActiveSessionsAreUnique |
| AnswerIsOwnRequest | the loser of two creations with one key gets its own request or an error | RetriesAreIdempotent |
| ConsoleAgrees | the work list is what the service leaves open; of it the service accepts what the voter's labels and roles still allow; the stages agree with the status | ConsoleIsRight |
| **SessionRuntimesProofs** | | |
| ImplementsSessionAgent | one launch per grant, none after a revocation on record, across crashes and concurrent calls, in each of the three runtimes | RuntimesImplementSessionAgent |
| ClosedIsDrained | a record closed on disk has no workload, no grant and no audit left | ClosedRecordsAreDrained |
| **AuditTrailProofs** | | |
| ForwardedIsShown | a command that reached the target is shown exactly once | ForwardedIsShownHolds |
| MatchIsRight | a collector's report is attributed to the connection that sent it or to none, whenever the asset dates it within that connection's hold of the address | MatchIsRightHolds |
| ToldOnce | an event that is sent again is told once | ToldOnceHolds |
| **ConnectionsProofs** | | |
| OnlyEncryptedCrosses | no login and no clear data crosses the guard | GuardPassesOnlyEncrypted |
| StoppedIsQuiet | a Stop that reported an end leaves no goroutine, place or listener | StopIsComplete |
| ConnectedIsEnded | every connection on record has its end on record, unless the audit failed | ConnectionsAreEnded |
| RecordedFirst | recorded, under the account it runs as, before executed; shown only once recorded | OperationsAreRecordedFirst |
| **IdentityProofs** | | |
| SessionIsCurrent | an accepted cookie was obtained with the present factors | SessionIsCurrentHolds |
| HonouredOnce | challenges, codes, steps, states and links are honoured once, within the attempts | HonouredOnceHolds |
| ShownIsStored | the TOTP secret shown is the one bound | ShownIsStoredHolds |
| TenantAgrees | no account is bound to an identity of another tenant | TenantAgreesHolds |
| **SettingsProofs** | | |
| SnapshotIsFresh | a snapshot is a committed revision, no older than the call | SnapshotIsFreshHolds |
| SavesAreMerged | a save is the revision before it and one edit, with the secrets it left out | SavesAreMergedHolds |
| **ComponentProofs** | | |
| RecoveryRemains | administrators never take the last recovery administrator away | RecoveryRemainsHolds |
| GainsNeedManager | the permissions of an account grow only through someone who may manage roles; an invitation activates no more than was granted | GainsNeedManagerHolds |
| CapacityIsKept | a committed claim never exceeds the capacity it read | CapacityIsKeptHolds |
| DiscoveryIsCurrent | a late cloud answer is refused | DiscoveryIsCurrentHolds |
| DeletionsHold | deleted stays deleted | DeletionsHoldAlways |
| NothingMissed | an open stream shows what was committed, or the repair is on its way | NothingMissedHolds |
| SettledIsQuiet, RevocationIsFinal | a settled session has no agent; a revoked grant does not come back | PromiseIsEnough |

Each theorem holds for every value of the constants: any number of sessions,
workers, users, requests, connections and faults. The bounds of section 3 are
constants too. The theorems about parts of ControlPlane are stated for the part's own
specification (DirectorySpec, RoutingSpec, CatalogueSpec, RealtimeSpec,
SettingsSpec); IdentitySpec interleaves SignIn, ExternalSignIn and Invitations over
the same accounts, which the run checks one at a time.

Assumptions, all evaluated by TLC in the runs that extend the module:

- `NoSession \notin Session`, `NoEvent \notin EventId`, `NoIdentity \notin OpenID`,
  the names of the drain are no connections (`ConnAssumption`); bounds, windows and
  drifts are natural numbers, batches and attempts positive;
- users and requests are finite sets, administrators and managers are users; a
  workflow has one to ten steps, as `Definition.Validate` demands; policies are among
  the four modes, and a settings form names no empty mode and only known profiles
  (`EditAssumption`);
- an administrator exists at installation, only accounts are assigned there, and
  forms have the shape their routes decode (`DirectoryAssumption`);
- there is a gateway to be primary, capacities are positive and the placed sessions
  finite (`RoutingAssumption`); ports in forms are ports (`CatalogueAssumption`).

The inductive invariants, and why the properties need them:

*Lifecycle.* A lost revocation is excluded only by a strengthening: a worker that
settles a revoke command might leave the session behind. `RevokeJobsSettleLast`
says that a worker is about to settle its revoke command only when the session is
resolved, or when somebody else settled the command first; `JobsMatchCommands`
that a slot is not reused under a worker; `CommandsMatchSessions` that a revoke
command exists only for a session that has left provisioning and running, which
NeverRevived keeps true. That there are never two needs CommandsMatchSessions for
`failProvisionRevokeFailed`, which appends without looking: it acts only on a
provisioning session, which has no revoke command. The one command there is, is
settled in the transaction that hands the session to an operator. ClosureIsTrue
needs that a worker about to write `closed` has seen the agent closed and that a
tombstone refuses a late launch. LeaseIsExclusive needs `AttemptsAreNumbered`:
attempts that were not overtaken have different versions, none above the row's.

*Requests.* `RequestIsSound` ties a row to its votes and its session: the applicant
is in no snapshot, no threshold is met by nobody, votes are cast by candidates of
their level, a rejection leaves no session, and a chain is complete exactly when
there is one. Two lemmas say what `nextApprovalLevel` returns (the lowest open
level, or 0), from which the agreement of the SQL work list follows.

*Runtimes.* Per runtime one invariant of a session's records, calls and workload.
For the host: memory is ahead of the file by failed writes only, a launching call
still has the mutex and an intent on disk, and whoever is about to write `closed`
sees no workload, grant or spool. Under it every step is a step of SessionAgent or
a stutter; a step touches one session, and only the end of a process touches all.

*SessionAgent.* What the three runtimes implement gives the service two facts:
nothing runs once a session is settled, and no grant follows a revocation. They are
weaker than what AccessService assumes of its variable `agent`, because it writes
`closed` when CloseSession returns, not when the runtime has settled. For the host
the two coincide: CloseSession returns after the record says closed. On Kubernetes a
creation that was checked before may still bring a Pod up in between (LateLaunch);
AccessService has no such step, and that the Pod is removed is EndedSettles.

*Audit.* `TrueEvent`: an event anywhere (memory, file, batch, late request, record)
tells the time at which its worker dialled or closed. `Apart`: of two workers that
dialled, one had closed before the other did, so at most one held the address at any
time. With them a correlation at a time of the sender's hold finds the sender or
nothing, whichever ends are unreported. ForwardedIsShown needs that there is one
event per command and kind, wherever it is stored, and that the phase of a worker
tells which exist (`PhaseFits`).

*Connections.* Guard: a reader that takes its input for encrypted is right about
the sender. Controller: a runtime that is not registered is quiet, and no Stop
reports an end while it is registered. Proxies: one invariant per protocol of what is
in flight between record and execution (`MySQLInv`, `PgInv`, `RedisInv`, `MongoInv`,
`SSHInv`, `HTTPInv`); for the terminal, what is shown is recorded.

*Sign-in.* The factors of an account change only together with its version; what a
handler, challenge or cookie knows of an account is therefore true, or known by its
version to be old (`KnownInv`). What is honoured once is tied to the row its use
changes (`SpentInv`), and numbers drawn for secrets and codes belong to one row at a
time (`ApartInv`). The limit of attempts counts the requests between counting and
comparing (`AttemptsInv`). A request that waits for the provider knows the tenant in
force, or that the settings were saved since (`TenantInv`).

*Settings.* Whatever a replica caches, a form shows or a call carries is a committed
revision (`Genuine`), and a stored row decodes to the configuration it was made of.

*Directory.* The invariant is the types, that the admin role stays enabled with
role:manage (`validateRoleChange`), and that a user without an account has no label,
binding, link or assignment. Every mutation counts the explicit administrators under
the lock, and an explicit administrator holds a role that works; hence the count is a
recovery account. GainsNeedManager follows action by action, for what the roles of
an account allow and for what it may use: what a holder of user:manage may edit alone
(`MayEdit`) keeps the label and concerns a user whose roles give no more than the
baseline, also after reactivation; a new account has nothing beyond the baseline; and
the one step by which an account comes to use more without a role manager is its own
invitation, which leaves the roles as they are.

*Routing.* CapacityIsKept is not inductive: between the count and the commit the
load might grow. `ClaimsApart` says that two workers between count and commit hold
different gateways and different sessions (the capacity lock and the row lock);
`RoomIsKept` that the load of the gateway, without the worker's own session, stays
below the limit that was read. The proof splits every step by whether it changes
the assignment or the status of a placed session.

*Catalogue and realtime.* A job, a busy worker and a snapshot belong to the source of
the asset, a form is as old as its revision and shows it, a saved profile has the row
of its port. A stream that is loaded or open misses nothing that is not in a queue
before it, and while the listener is not connected the hub has no clients.

### 4.2 What is model-checked only

Liveness needs fairness and ENABLED, which the prover does not handle:

| Property | What it says |
|---|---|
| ProvisioningEnds, RevocationEnds, ExpiryEnds | provisioning, revocation and expired access come to an end |
| PendingEnds | no request waits for approvals for ever |
| EndedSettles | every revoked or expired session is cleaned up |
| SpooledIsDelivered | what a spool took over arrives; the exception is in 5.2 |
| EndedReturns | every goroutine of an agent that ended returns |
| TerminalEnds | client, children and goroutines of a browser terminal end when the user leaves or the access is revoked, unless the program has stopped reading its input; when the agent stops they end in any case |

Of the safety properties, ResultIsRight (a completed record says what the target did
with that operation and no other) is checked by TLC alone: its invariant would
relate every protocol's queue of pending operations to the answers under way.

## 5. Findings

### 5.1 Violated properties

**A claimed session may be marked failed while its agent runs** (`failed_agent`).
A worker claims a session, starts the agent and stops. The command is delivered
again; a preliminary check fails (lines 1216-1249: the approval has expired, the
asset was disabled, the port was withdrawn) and `failProvision` writes `failed`.
No close is issued and no revoke command exists; the agent runs until its own
expiry. The cancellation path handles the same situation differently and says
why (lines 909-911).

**A delayed compensation closes the newer owner's session** (`compensation`). The
ownership check after a failed final transaction and the compensating close are
two steps, and the heartbeat has been stopped (1320). A worker delayed between
them until the one-minute lease is stale closes the agent that another worker
has taken over and made running, against the comment at 1628-1631. The delay has
to be 40 to 60 seconds; the close call itself waits for a per-session lock of the
runtime. The session is not lost for good: the reconciler revokes it afterwards,
but the user's access ends early.

**Kubernetes ends site sessions that serve** (`web_sessions`). Reconcile of
`client.go` (515) ends every session older than the startup timeout and 30 s that
has no Service, and a web-only grant gets none (181), as the documentation
requires.

**PostgreSQL operations after a failed Sync are recorded as skipped**
(`sync_error`). The reader sets `recovering` on every error whose pending head is
not a simple query, a Sync included (`postgres.go` 349). A Sync whose implicit
commit fails skips nothing; operations pipelined after it, or the next query, are
recorded as skipped although the server ran them. The run `connections` excludes
this case with `SyncFails = FALSE`.

### 5.2 Observations

Behaviour that the models contain, or that an assumption sets apart, and that no
statement of the repository contradicts:

- A torn line in `events.jsonl` followed by a crash makes the spool refuse the
  whole file at every later load; SpooledIsDelivered excepts it (`torn`).
- A Feishu profile that is reported inactive, or with another union ID than the
  configured one, takes even the last explicit administrator away; RecoveryRemains
  names it as the only way.
- A holder of user:manage may send the invitation of an inactive account again after
  a role manager granted it roles; whoever uses the link activates them
  (GainsNeedManager names that step).
- CorrelateOperation compares the asset's clock with the gateway's: an operation
  dated outside the connection that sent it may be attributed to the connection that
  held the address at that time.
- A copy of typed input that blocks on a program which does not read keeps the
  terminal after the browser has left, until the program reads or the agent stops.
- SyncFeishuUser skips the comparison of tenants when none is configured, but a
  sign-in never gets there: NewOAuthClient refuses to start without one.
- UnbindFeishuUser checks the remaining login methods against the request's
  snapshot of the settings; SyncExternalUser does not compare the settings'
  revision after the exchange with the provider, as the Feishu path does.
- A pending invitation survives that an administrator activates and deactivates
  the account.
- UpdateAssetGatewayBinding, UpdateGatewayStatus and UpdateAssetStatus read what
  they check outside their transaction; two of them together may leave an enabled
  asset without a binding. A change of capacity does not take the capacity lock,
  so CapacityIsKept speaks of the capacity the claim read.
- An audit form of revision 0 (from the old global settings) can create a port
  again that was deleted meanwhile, and a CMDB import may disable a port whose
  profile stays saved, or change the type of an asset under its configuration.
- In the gateway manager, a live record without a source address makes Recover
  refuse the state file, and a start whose last save failed, racing with a stop,
  can turn an ended record back into `revoke_failed` (`Repeat` of SessionAgent).
- A Feishu approval callback is answered `already_processed` while its first
  delivery is still processing, and is marked processed on ErrStateConflict, which
  a disabled asset causes too (not modelled).

## 6. Not modelled

- Notifications, mail and message formatting; deduplication of approval callbacks.
- Label selectors: a pure evaluation with unit tests. Its result, a set of users,
  is an input of AccessRequests and Directory.
- The gateway HTTP client and envelope encryption: encoding and cryptography. The
  outcomes of a call (reply, refusal, lost reply) are branches of the callers.
- The HTTP server, process lock and target catalogue of the gateway manager, which
  no command of this release starts.
- Wire formats, SQL redaction and the parsing of packets in the proxies; mounts
  and namespaces that isolate a terminal client.
- HTTP routing, decoding and rendering, and handlers that make one service call.
- Certificates of targets, connection tests of a profile, the default gateway.
- Startup, configuration, catalogue release, metrics, row scanning, the commands
  and the web console. They keep no protocol state, or their state is data that
  no property of the platform distinguishes.
- The duplicate row that two replicas may insert with CreateIfNoActive for a
  provisioning command; its effect, a double execution, is modelled through the
  expired lease.
