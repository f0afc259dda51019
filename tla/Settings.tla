------------------------------ MODULE Settings ------------------------------
(***************************************************************************)
(* The system settings: one row with a revision, saved by administrators   *)
(* from forms they loaded earlier, and the snapshot each replica of the    *)
(* control plane builds from it and caches.  The model keeps of the        *)
(* configuration the MFA policy, the login providers ("oidc" stands for    *)
(* every provider that is not Feishu), the Feishu tenant and the audit     *)
(* profiles with their certificates; a secret or a key pair is a number, 0 *)
(* when it is missing.                                                     *)
(***************************************************************************)
EXTENDS Accounts

CONSTANTS
    Replica,       \* the processes of the control plane
    Call,          \* the requests in flight
    Profile,       \* the names an audit profile may have
    Edit,          \* what an administrator changes in a form
    MaxRevision    \* bound: how often the settings are saved

VARIABLES
    cached,        \* per replica, the snapshot it holds
    call,          \* per request, what it has read and what it will do
    history,       \* every committed configuration, oldest first
    edits          \* the edit that made each of them

settingsVars == <<cached, call, history, edits>>

Nothing == 0       \* an empty secret, certificate or key
Keep == 98         \* a secret the form leaves out
NoProfiles == [p \in {} |-> Nothing]

\* What a form sends: a policy is named (only an older console leaves it out), and
\* a profile has one of the names and comes with its key.
ASSUME EditAssumption ==
    \A e \in Edit :
        /\ e.field = "mode" => e.value # ""
        /\ e.field = "profile" => e.name \in Profile /\ e.value # Keep

Secrets(oidc, feishu, keys) == [oidc |-> oidc, feishu |-> feishu, keys |-> keys]

Defaults == [mode |-> "off", enabled |-> {}, tenant |-> "", profiles |-> NoProfiles]

\* The row before anything was saved: revision 0, the defaults.
Unsaved == [revision |-> 0, config |-> Defaults, secrets |-> Secrets(Nothing, Nothing, NoProfiles)]

-----------------------------------------------------------------------------
\* settings/audit.go: the certificates live in the encrypted envelope.
StoreAuditCertificates(config, secrets) ==
    [config |-> [config EXCEPT !.profiles = [p \in DOMAIN @ |-> Nothing]],
     secrets |-> [secrets EXCEPT !.keys =
        [p \in DOMAIN config.profiles |-> [@[p] EXCEPT !.certificate = config.profiles[p]]]]]

RestoreAuditCertificates(config, secrets) ==
    [config EXCEPT !.profiles =
        [p \in DOMAIN @ |-> IF @[p] = Nothing THEN secrets.keys[p].certificate ELSE @[p]]]

\* "Preserve omitted secrets, prune removed profiles."
ApplyAudit(profiles, keys, changes) ==
    [p \in DOMAIN profiles |->
        [private |-> IF changes[p] # Keep THEN changes[p]
                     ELSE IF p \in DOMAIN keys THEN keys[p].private ELSE Nothing,
         certificate |-> Nothing]]

\* A key change must name a profile of the form.
AuditChangesNamed(profiles, changes) ==
    \A p \in Profile : changes[p] # Keep => p \in DOMAIN profiles

\* A certificate is checked against its private key.
AuditRegistry(config, secrets) ==
    \A p \in DOMAIN config.profiles : config.profiles[p] = secrets.keys[p].private

-----------------------------------------------------------------------------
\* settings/config.go.
Apply(secrets, changes) ==
    [secrets EXCEPT !.oidc = IF changes.oidc = Keep THEN @ ELSE changes.oidc,
                    !.feishu = IF changes.feishu = Keep THEN @ ELSE changes.feishu]

Normalize(config) == [config EXCEPT !.mode = IF @ = "" THEN Defaults.mode ELSE @]

Validate(config, secrets) ==
    /\ "feishu" \in config.enabled => config.tenant # "" /\ secrets.feishu # Nothing
    /\ "oidc" \in config.enabled => secrets.oidc # Nothing

Build(config, secrets) == Validate(config, secrets) /\ AuditRegistry(config, secrets)

\* settings.go: the stored row and what the rest of the program sees of it.
decode(row) ==
    [row EXCEPT !.config = RestoreAuditCertificates(Normalize(row.config), row.secrets)]

\* "Preserve newly added sections when an older console sends its complete
\* configuration": it knows nothing of the MFA policy.
PreserveSections(config, previous) ==
    [config EXCEPT !.mode = IF @ = "" THEN previous.mode ELSE @]

HasFeishuBindings == \E u \in User : users[u].feishu # NoIdentity

FeishuChanged(previous, config) ==
    previous.tenant # "" /\ previous.tenant # config.tenant

\* Local accounts are always enabled.
ensureLogin(actor, config) ==
    /\ users[actor].status = "active"
    /\ \/ users[actor].password # NoLocal
       \/ "feishu" \in config.enabled /\ users[actor].feishu # NoIdentity
       \/ "oidc" \in config.enabled /\ users[actor].identities # {}

\* The checks of the transaction of Save, and the row it writes.
SaveAllowed(actor, previous, config) ==
    /\ ~ (FeishuChanged(previous, config) /\ HasFeishuBindings)
    /\ ensureLogin(actor, config)

SaveRow(row) == settings' = [row EXCEPT !.revision = settings.revision + 1]

-----------------------------------------------------------------------------
(***************************************************************************)
(* Requests.  A call is idle, or in Current or Save between two of its     *)
(* steps; `began` is the revision committed when it started.               *)
(***************************************************************************)
Idle == [at |-> "idle"]

SettingsInit ==
    /\ cached = [p \in Replica |-> Unsaved]
    /\ call = [c \in Call |-> Idle]
    /\ history = <<>>
    /\ edits = <<>>

\* What an administrator makes of the form they loaded.
Edited(config, e) ==
    CASE e.field = "mode" -> [config EXCEPT !.mode = e.value]
      [] e.field = "enabled" -> [config EXCEPT !.enabled = e.value]
      [] e.field = "tenant" -> [config EXCEPT !.tenant = e.value]
      [] e.field = "profile" -> [config EXCEPT !.profiles =
            [p \in DOMAIN @ \cup {e.name} |-> IF p = e.name THEN e.value ELSE @[p]]]
      [] e.field = "remove" -> [config EXCEPT !.profiles = [p \in DOMAIN @ \ {e.name} |-> @[p]]]
      [] OTHER -> config

SecretChanges(e) ==
    Secrets(IF e.field = "oidc" THEN e.value ELSE Keep,
            IF e.field = "feishu" THEN e.value ELSE Keep,
            [p \in Profile |-> IF e.field = "profile" /\ e.name = p THEN e.value ELSE Keep])

\* getSettings: the form shows one committed revision.
getSettings(c, p) ==
    /\ call[c].at = "idle"
    /\ call' = [call EXCEPT ![c] = [at |-> "form", replica |-> p, form |-> decode(settings)]]
    /\ UNCHANGED <<users, settings, fresh, cached, history, edits>>

Refuse(c) ==
    /\ call' = [call EXCEPT ![c] = Idle]
    /\ UNCHANGED <<users, settings, fresh, cached, history, edits>>

\* Save up to its transaction: the row is read again, and the update is laid
\* over it.
saveSettings(c, actor, e, older) ==
    /\ call[c].at = "form" /\ (older => e.field # "mode")
    /\ LET sent == [Edited(call[c].form.config, e) EXCEPT !.mode = IF older THEN "" ELSE @]
           row == decode(settings)
           config == Normalize(PreserveSections(sent, row.config))
           changes == SecretChanges(e)
           secrets == [Apply(row.secrets, changes) EXCEPT
                          !.keys = ApplyAudit(config.profiles, @, changes.keys)]
       IN IF /\ settings.revision = call[c].form.revision
             /\ AuditChangesNamed(config.profiles, changes.keys)
             /\ Build(config, secrets)
          THEN /\ call' = [call EXCEPT ![c] =
                     [at |-> "save", replica |-> @.replica, actor |-> actor, edit |-> e,
                      row |-> row, config |-> config, secrets |-> secrets]]
               /\ UNCHANGED <<users, settings, fresh, cached, history, edits>>
          ELSE Refuse(c)

\* A mutant of SaveCommit: the revision is not read again under the lock.
CommitUnchecked(c) ==
    LET it == call[c]
        stored == StoreAuditCertificates(it.config, it.secrets)
        row == [revision |-> settings.revision, config |-> stored.config, secrets |-> stored.secrets]
    IN /\ it.at = "save"
       /\ SaveRow(row)
       /\ history' = Append(history, decode(settings'))
       /\ edits' = Append(edits, it.edit)
       /\ call' = [call EXCEPT ![c] = [at |-> "cache", replica |-> it.replica,
             snapshot |-> [revision |-> it.row.revision + 1, config |-> it.config,
                           secrets |-> stored.secrets]]]
       /\ UNCHANGED <<users, fresh, cached>>

\* The transaction of Save, under the settings lock.
SaveCommit(c) ==
    LET it == call[c]
        stored == StoreAuditCertificates(it.config, it.secrets)
        row == [revision |-> settings.revision, config |-> stored.config, secrets |-> stored.secrets]
    IN /\ it.at = "save"
       /\ IF settings.revision = it.row.revision /\ SaveAllowed(it.actor, it.row.config, it.config)
          THEN /\ SaveRow(row)
               /\ history' = Append(history, decode(settings'))
               /\ edits' = Append(edits, it.edit)
               /\ call' = [call EXCEPT ![c] = [at |-> "cache", replica |-> it.replica,
                     snapshot |-> [revision |-> it.row.revision + 1, config |-> it.config,
                                   secrets |-> stored.secrets]]]
               /\ UNCHANGED <<users, fresh, cached>>
          ELSE Refuse(c)

\* The snapshot built before the commit is cached unless a newer one is there.
SaveCache(c) ==
    LET it == call[c] IN
    /\ it.at = "cache"
    /\ cached' = [cached EXCEPT ![it.replica] =
          IF @.revision < it.snapshot.revision THEN it.snapshot ELSE @]
    /\ call' = [call EXCEPT ![c] = Idle]
    /\ UNCHANGED <<users, settings, fresh, history, edits>>

\* Current: the row is read, then the cache is used or filled under the mutex.
Current(c, p) ==
    /\ call[c].at = "idle"
    /\ call' = [call EXCEPT ![c] = [at |-> "current", replica |-> p, began |-> settings.revision,
                                    row |-> decode(settings)]]
    /\ UNCHANGED <<users, settings, fresh, cached, history, edits>>

\* A mutant of CurrentBuild: what is cached is good enough.
UseCached(c) ==
    LET it == call[c]
        hit == cached[it.replica].revision > 0
        snapshot == IF hit THEN cached[it.replica] ELSE it.row
    IN /\ it.at = "current"
       /\ cached' = [cached EXCEPT ![it.replica] = snapshot]
       /\ call' = [call EXCEPT ![c] = [at |-> "answered", began |-> it.began, snapshot |-> snapshot]]
       /\ UNCHANGED <<users, settings, fresh, history, edits>>

CurrentBuild(c) ==
    LET it == call[c]
        hit == cached[it.replica].revision >= it.row.revision
        snapshot == IF hit THEN cached[it.replica] ELSE it.row
    IN /\ it.at = "current"
       /\ cached' = [cached EXCEPT ![it.replica] = snapshot]
       /\ call' = [call EXCEPT ![c] = [at |-> "answered", began |-> it.began, snapshot |-> snapshot]]
       /\ UNCHANGED <<users, settings, fresh, history, edits>>

\* The caller of Current is done with its snapshot.
Answer(c) == call[c].at = "answered" /\ Refuse(c)

SettingsNext ==
    \/ \E c \in Call, p \in Replica : getSettings(c, p)
    \/ settings.revision < MaxRevision
       /\ \E c \in Call, actor \in Managers, e \in Edit, older \in BOOLEAN : saveSettings(c, actor, e, older)
    \/ \E c \in Call : SaveCommit(c)
    \/ \E c \in Call : SaveCache(c)
    \/ \E c \in Call, p \in Replica : Current(c, p)
    \/ \E c \in Call : CurrentBuild(c)
    \/ \E c \in Call : Answer(c)

-----------------------------------------------------------------------------
\* service/settings.go: "Read the revision on every use, so another replica's
\* committed changes are observed immediately."  What Current returns is a
\* configuration that was committed under its revision, at least as new as the
\* one in force when it was called, whichever replica saved or cached meanwhile.
SnapshotIsFresh ==
    \A c \in Call : call[c].at = "answered" =>
        LET snapshot == call[c].snapshot IN
        /\ snapshot.revision >= call[c].began
        /\ snapshot.revision = 0 \/ snapshot = history[snapshot.revision]

\* Two administrators who save from forms they loaded earlier do not undo each
\* other: every committed configuration is the one before it with one edit, and
\* the secrets, keys and certificates the edit left out are still there.
SavesAreMerged ==
    \A n \in DOMAIN history :
        LET before == IF n = 1 THEN decode(Unsaved) ELSE history[n - 1]
            changes == SecretChanges(edits[n])
        IN /\ history[n].config = Edited(before.config, edits[n])
           /\ \A k \in {"oidc", "feishu"} :
                 history[n].secrets[k] = IF changes[k] = Keep THEN before.secrets[k] ELSE changes[k]
           /\ \A p \in DOMAIN history[n].config.profiles :
                 changes.keys[p] = Keep => history[n].secrets.keys[p] = before.secrets.keys[p]
=============================================================================
