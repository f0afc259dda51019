----------------------------- MODULE Catalogue -----------------------------
(***************************************************************************)
(* One asset of the catalogue: its ports, its audit configuration, its     *)
(* deletion, and the two synchronizers that write it beside the            *)
(* administrators.  An administrator's edit has three steps, the form it   *)
(* was opened with, the reads before the transaction and the transaction;  *)
(* everything in between belongs to the others.                            *)
(***************************************************************************)
EXTENDS FiniteSets, Naturals

CONSTANTS
    Clerk,              \* concurrent requests of administrators
    Requested,          \* the sources whose assets these requests edit
    Port,
    Draft,              \* what a form submits: a type and an audit configuration
    Listing,            \* what a CMDB snapshot says of the asset
    Legacy,             \* ports that a profile of the old global settings matches
    SyncWorker,         \* workers that process cloud synchronization jobs
    MaxAuditRevision,   \* bound on saves of the audit configuration
    MaxAccountRevision  \* bound on saves of the cloud account

Source == {"admin", "cmdb", "cloud"}

ASSUME CatalogueAssumption ==
    /\ Legacy \subseteq Port /\ Requested \subseteq Source
    /\ \A draft \in Draft : draft.audit.ports \subseteq Port

VARIABLES
    source,     \* who owns the asset: an administrator, the CMDB, a cloud account
    asset,      \* assets row: existence, status, asset_type
    ports,      \* asset_ports rows: none, enabled, disabled
    audit,      \* asset_audit_configs row: revision, protocol and ports of its profiles
    edit,       \* per request, what it has read and is about to write
    snapshot,   \* the CMDB snapshot being applied
    account,    \* cloud_accounts row
    job,        \* the latest cloud_sync_jobs row of the account
    worker,     \* per worker, how far it is
    routed      \* region and gateway are enabled and the approver is active

catalogueVars == <<source, asset, ports, audit, edit, snapshot, account, job, worker, routed>>
adminVars == <<source, snapshot, account, job, worker, routed>>
cloudVars == <<account, job, worker, routed>>

Protocol == {"ssh", "mysql"}
NoEdit == [op |-> "none"]
NoSnapshot == [phase |-> "none"]
Waiting == [phase |-> "idle"]
Open(rows) == {p \in Port : rows[p] = "enabled"}

\* UpsertPort of the wanted ports, then DisablePortsExcept of the unwanted.
Upsert(rows, wanted, unwanted) ==
    [p \in Port |-> CASE p \in wanted -> "enabled"
                      [] p \in unwanted /\ rows[p] = "enabled" -> "disabled"
                      [] OTHER -> rows[p]]

-----------------------------------------------------------------------------
(* The audit configuration of an asset.                                    *)

\* Without a row of its own an asset shows the global profiles that match one
\* of its enabled ports; they have revision 0.
loadAssetAudit ==
    IF audit.revision > 0 THEN audit
    ELSE [revision |-> 0, protocol |-> asset.type, ports |-> Legacy \cap Open(ports)]

\* Every profile must speak the asset's protocol, if its type is one.
buildAssetAudit(type, input) == type \in Protocol => input.protocol = type

\* Identities are generated and validated before the transaction opens.
prepareAssetAudit(type, input) == buildAssetAudit(type, input)

\* The row still has the revision that the writer expects.
Expected(revision) == audit.revision = revision

Save(revision, input) ==
    /\ Expected(revision)
    /\ audit' = [revision |-> audit.revision + 1, protocol |-> input.protocol, ports |-> input.ports]

\* The ports of the new profiles open, those of the removed ones close.
saveAssetAudit(revision, input, previous) ==
    /\ Save(revision, input)
    /\ ports' = Upsert(ports, input.ports, previous \ input.ports)

\* A mutant of removeAssetPortAudit: the profile of a deleted port stays.
KeepProfile(port) == UNCHANGED audit

removeAssetPortAudit(port) ==
    IF audit.revision = 0 \/ port \notin audit.ports THEN UNCHANGED audit
    ELSE /\ audit.revision < MaxAuditRevision
         /\ prepareAssetAudit(asset.type, audit)
         /\ Save(audit.revision, [audit EXCEPT !.ports = @ \ {port}])

-----------------------------------------------------------------------------
(* Administrators.                                                         *)

NoChange == "keep"
NoAudit == [protocol |-> "none", ports |-> {}]

Put(c, value) == edit' = [edit EXCEPT ![c] = value]

Ready(c) == source \in Requested /\ edit[c] = NoEdit /\ asset.state = "live"

\* An error ends the request and rolls its transaction back.
Reject(c) == Put(c, NoEdit) /\ UNCHANGED <<asset, ports, audit>>

CreateAsset(type, input) ==
    /\ source = "admin" /\ asset.state = "none" /\ type # NoChange
    /\ input # NoAudit => prepareAssetAudit(type, input)
    /\ asset' = [state |-> "live", status |-> "enabled", type |-> type]
    /\ IF input = NoAudit THEN UNCHANGED <<ports, audit>> ELSE saveAssetAudit(0, input, {})
    /\ UNCHANGED <<edit, adminVars>>

GetAssetAudit(c) ==
    /\ Ready(c)
    /\ Put(c, [op |-> "form", form |-> [revision |-> loadAssetAudit.revision, ports |-> loadAssetAudit.ports]])
    /\ UNCHANGED <<asset, ports, audit, adminVars>>

\* The reads of UpdateAsset: a form of another revision is refused, and so is a
\* new type for an asset that has a configuration and gets none.
UpdateAsset(c, type, input) ==
    /\ edit[c].op = "form"
    /\ type # NoChange \/ input # NoAudit
    /\ LET wanted == IF type = NoChange THEN asset.type ELSE type
           current == loadAssetAudit IN
       IF \/ asset.state # "live"
          \/ /\ input # NoAudit
             /\ \/ edit[c].form.revision # current.revision
                \/ ~ prepareAssetAudit(wanted, input)
          \/ input = NoAudit /\ current.revision > 0 /\ wanted # asset.type
       THEN Reject(c)
       ELSE /\ Put(c, [op |-> "update", type |-> wanted, input |-> input, form |-> edit[c].form,
                       seenType |-> asset.type, previous |-> current.ports])
            /\ UNCHANGED <<asset, ports, audit>>
    /\ UNCHANGED adminVars

\* The transaction of UpdateAsset, under the lock of the asset row.
UpdateConfiguration(c) ==
    /\ edit[c].op = "update"
    /\ LET e == edit[c] IN
       \/ /\ \/ asset.state # "live"
             \/ asset.type # e.seenType
             \/ e.input # NoAudit /\ ~ Expected(e.form.revision)
          /\ Reject(c)
       \/ /\ asset.state = "live" /\ asset.type = e.seenType
          /\ asset' = [asset EXCEPT !.type = e.type]
          /\ IF e.input = NoAudit THEN UNCHANGED <<ports, audit>>
             ELSE /\ audit.revision < MaxAuditRevision
                  /\ saveAssetAudit(e.form.revision, e.input, e.previous)
          /\ Put(c, NoEdit)
    /\ UNCHANGED adminVars

\* UpdateAssetStatus checks before its transaction that an asset to be enabled
\* has a port (and a region and a binding, which are not followed here).
UpdateAssetStatus(c, status) ==
    /\ Ready(c)
    /\ status = "enabled" => Open(ports) # {}
    /\ Put(c, [op |-> "status", status |-> status])
    /\ UNCHANGED <<asset, ports, audit, adminVars>>

UpdateStatus(c) ==
    /\ edit[c].op = "status"
    /\ IF asset.state # "live" THEN Reject(c)
       ELSE /\ asset' = [asset EXCEPT !.status = edit[c].status]
            /\ Put(c, NoEdit)
            /\ UNCHANGED <<ports, audit>>
    /\ UNCHANGED adminVars

CreateAssetPort(c, port) ==
    /\ Ready(c)
    /\ Put(c, [op |-> "port", port |-> port])
    /\ UNCHANGED <<asset, ports, audit, adminVars>>

\* A row of that port, enabled or not, is a conflict.
CreatePort(c) ==
    /\ edit[c].op = "port"
    /\ IF ports[edit[c].port] # "none" THEN Reject(c)
       ELSE /\ ports' = [ports EXCEPT ![edit[c].port] = "enabled"]
            /\ Put(c, NoEdit)
            /\ UNCHANGED <<asset, audit>>
    /\ UNCHANGED adminVars

\* The row goes and the saved profile with it.
DeleteAssetPort(port) ==
    /\ asset.state = "live" /\ ports[port] # "none"
    /\ ports' = [ports EXCEPT ![port] = "none"]
    /\ removeAssetPortAudit(port)
    /\ UNCHANGED <<asset, edit, adminVars>>

DeleteAsset ==
    /\ asset.state = "live"
    /\ asset' = [asset EXCEPT !.state = "deleted", !.status = "disabled"]
    /\ UNCHANGED <<ports, audit, edit, adminVars>>

-----------------------------------------------------------------------------
(* CMDB: SyncCMDB applies one snapshot in a transaction.  It looks the     *)
(* asset up first and writes it later; only its write locks the row.       *)

\* UpsertExternal inserts, or updates a row that is not deleted.
Upsertable == asset.state # "deleted"

\* A deleted asset is skipped; the lock of the source admits one snapshot.
SyncCMDB(external) ==
    /\ source = "cmdb" /\ snapshot = NoSnapshot
    /\ asset.state # "deleted"
    /\ snapshot' = [phase |-> "resolved", external |-> external]
    /\ UNCHANGED <<source, asset, ports, audit, edit, cloudVars>>

\* An asset of no snapshot entry is disabled.
UpsertExternal ==
    /\ snapshot # NoSnapshot
    /\ LET external == snapshot.external IN
       IF ~ external.listed
       THEN /\ asset' = IF asset.state = "live" THEN [asset EXCEPT !.status = "disabled"] ELSE asset
            /\ UNCHANGED ports
       ELSE IF Upsertable
       THEN /\ asset' = [state |-> "live", status |-> external.status, type |-> external.type]
            /\ ports' = Upsert(ports, external.ports, Port \ external.ports)
       ELSE UNCHANGED <<asset, ports>>
    /\ snapshot' = NoSnapshot
    /\ UNCHANGED <<source, audit, edit, cloudVars>>

-----------------------------------------------------------------------------
(* Cloud: jobs that an administrator queues and any worker claims.         *)

Step(w, value) == worker' = [worker EXCEPT ![w] = value]

\* runCloudSync holds the locks of the account and of the job.
Locked == \E w \in SyncWorker : worker[w].phase = "locked"

SaveCloudAccount(enabled) ==
    /\ source = "cloud" /\ ~ Locked /\ account.revision < MaxAccountRevision
    /\ account' = [enabled |-> enabled, revision |-> account.revision + 1]
    /\ UNCHANGED <<source, asset, ports, audit, edit, snapshot, job, worker, routed>>

\* One active job per account.
QueueCloudSync ==
    /\ source = "cloud" /\ ~ Locked /\ account.enabled /\ routed
    /\ job.status \notin {"queued", "running"}
    /\ job' = [status |-> "queued", revision |-> account.revision, token |-> "none", leased |-> FALSE]
    /\ UNCHANGED <<source, asset, ports, audit, edit, snapshot, account, worker, routed>>

ClaimJob(w) ==
    /\ worker[w] = Waiting /\ ~ Locked
    /\ job.status = "queued" \/ (job.status = "running" /\ ~ job.leased)
    /\ job' = [job EXCEPT !.status = "running", !.token = w, !.leased = TRUE]
    /\ Step(w, [phase |-> "claimed", revision |-> job.revision])
    /\ UNCHANGED <<source, asset, ports, audit, edit, snapshot, account, routed>>

LeaseExpires ==
    /\ job.status = "running" /\ job.leased
    /\ job' = [job EXCEPT !.leased = FALSE]
    /\ UNCHANGED <<source, asset, ports, audit, edit, snapshot, account, worker, routed>>

\* The account must be the one of the job before the cloud is asked; the answer
\* takes up to two minutes.
Discover(w) ==
    /\ worker[w].phase = "claimed"
    /\ account.enabled /\ account.revision = worker[w].revision /\ routed
    /\ Step(w, [worker[w] EXCEPT !.phase = "discovered"])
    /\ UNCHANGED <<source, asset, ports, audit, edit, snapshot, account, job, routed>>

\* A mutant of StillCurrent: what was checked before the call is trusted.
CheckedBefore(w) == TRUE

\* The account is read again under its lock.
StillCurrent(w) == account.enabled /\ account.revision = worker[w].revision

\* LockJob: the lease is this worker's and has not run out.
LockJob(w) == job.status = "running" /\ job.token = w /\ job.leased

applyCloudSync(w) ==
    /\ worker[w].phase = "discovered" /\ ~ Locked
    /\ StillCurrent(w) /\ LockJob(w) /\ routed
    /\ Step(w, [phase |-> "locked", revision |-> worker[w].revision, seen |-> asset.state])
    /\ UNCHANGED <<source, asset, ports, audit, edit, snapshot, account, job, routed>>

\* FinishJob ends the job of the worker's own lease and of no other.
FinishJob(w, status) ==
    job' = IF job.status = "running" /\ job.token = w
           THEN [job EXCEPT !.status = status, !.token = "none", !.leased = FALSE] ELSE job

\* A new instance becomes an asset, a known one keeps its policy, a deleted one
\* is skipped; an asset deleted after the lookup fails the transaction.
runCloudSync(w) ==
    /\ worker[w].phase = "locked"
    /\ worker[w].seen = "live" => asset.state = "live"
    /\ IF worker[w].seen = "none"
       THEN /\ asset' = [state |-> "live", status |-> "enabled", type |-> "ecs"]
            /\ ports' = [p \in Port |-> "enabled"]
       ELSE UNCHANGED <<asset, ports>>
    /\ FinishJob(w, "success")
    /\ Step(w, Waiting)
    /\ UNCHANGED <<source, audit, edit, snapshot, account, routed>>

\* Any error, and the two minutes, end the job as failed.  The rollback that may
\* come before undoes nothing that another step could have read.
ProcessCloudSync(w) ==
    /\ worker[w] # Waiting
    /\ FinishJob(w, "failed")
    /\ Step(w, Waiting)
    /\ UNCHANGED <<source, asset, ports, audit, edit, snapshot, account, routed>>

\* A worker that stops leaves its job to the next one.
WorkerStops(w) ==
    /\ worker[w] # Waiting
    /\ Step(w, Waiting)
    /\ UNCHANGED <<source, asset, ports, audit, edit, snapshot, account, job, routed>>

\* validateCloudDestinations: region, gateway and approver come and go.
validateCloudDestinations ==
    /\ source = "cloud"
    /\ routed' = ~ routed
    /\ UNCHANGED <<source, asset, ports, audit, edit, snapshot, account, job, worker>>

-----------------------------------------------------------------------------
CatalogueInit ==
    /\ source \in Source
    /\ asset = [state |-> "none", status |-> "disabled", type |-> "none"]
    /\ ports = [p \in Port |-> "none"]
    /\ audit = [revision |-> 0, protocol |-> "none", ports |-> {}]
    /\ edit = [c \in Clerk |-> NoEdit]
    /\ snapshot = NoSnapshot
    /\ account = [enabled |-> TRUE, revision |-> 1]
    /\ job = [status |-> "none", revision |-> 0, token |-> "none", leased |-> FALSE]
    /\ worker = [w \in SyncWorker |-> Waiting]
    /\ routed = TRUE

CatalogueNext ==
    \/ \E draft \in Draft : CreateAsset(draft.type, draft.audit)
    \/ \E c \in Clerk : GetAssetAudit(c) \/ UpdateConfiguration(c) \/ UpdateStatus(c) \/ CreatePort(c)
    \/ \E c \in Clerk, draft \in Draft : UpdateAsset(c, draft.type, draft.audit)
    \/ \E c \in Clerk, status \in {"enabled", "disabled"} : UpdateAssetStatus(c, status)
    \/ \E c \in Clerk, port \in Port : CreateAssetPort(c, port)
    \/ \E port \in Port : DeleteAssetPort(port)
    \/ DeleteAsset
    \/ \E external \in Listing : SyncCMDB(external)
    \/ UpsertExternal
    \/ \E enabled \in BOOLEAN : SaveCloudAccount(enabled)
    \/ QueueCloudSync
    \/ LeaseExpires
    \/ \E w \in SyncWorker : \/ ClaimJob(w) \/ Discover(w) \/ applyCloudSync(w) \/ runCloudSync(w)
                             \/ ProcessCloudSync(w) \/ WorkerStops(w)
    \/ validateCloudDestinations

-----------------------------------------------------------------------------
\* repository/assets.go: a deleted asset stays in the table for the evidence.
\* Neither an administrator's request that was on its way, nor a CMDB snapshot
\* that had looked the asset up, nor a cloud job brings it back into service.
DeletedIsFinal ==
    [][asset.state = "deleted" => asset'.state = "deleted" /\ asset'.status = "disabled"]_catalogueVars

\* service/asset_audit.go: "Remove the matching saved profile so later asset
\* edits cannot restore a deleted port".  An edit whose form was opened with a
\* saved profile does not bring back the port of that profile when the port was
\* deleted in the meantime, before the edit's reads or after them.
DeletedPortStaysDeleted ==
    [][\A c \in Clerk :
          /\ edit[c].op = "update" /\ edit'[c] = NoEdit
          /\ audit' # audit /\ edit[c].form.revision > 0
          => \A p \in edit[c].form.ports \cap edit[c].input.ports : ports[p] # "none"]_catalogueVars

\* What was deleted stays deleted: the asset, and the ports of its saved profiles.
DeletionsHold == DeletedIsFinal /\ DeletedPortStaysDeleted

\* runCloudSync: what a cloud account answered is written only while the account
\* is enabled and still the one that was asked, by the worker whose lease the
\* job has: a save of the account, a second claim or the end of the lease while
\* the cloud was answering keeps the answer out.
DiscoveryIsCurrent ==
    \A w \in SyncWorker : worker[w].phase = "locked" =>
        /\ account = [enabled |-> TRUE, revision |-> worker[w].revision]
        /\ job.status = "running" /\ job.token = w
=============================================================================
