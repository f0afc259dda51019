----------------------------- MODULE Directory -----------------------------
(***************************************************************************)
(* Who may do what: users with a status and a label, flat roles, a binding *)
(* that gives a role to the users with a label, direct assignments, and    *)
(* the administrators that change all of it at the same time.  A request   *)
(* passes authorizationFilter with the permissions of that moment and the  *)
(* form it was filled in from; its mutation commits later under the        *)
(* exclusive IAM lock.  Of a form's revision the model keeps whether the   *)
(* object was changed since the form was loaded.  Accounts appear when an  *)
(* administrator creates or invites them and at the first sign-in through  *)
(* a provider; an invited account is inactive until its link is used, and  *)
(* may be granted roles meanwhile.                                         *)
(***************************************************************************)
EXTENDS FiniteSets, Naturals

CONSTANTS
    Person,        \* the users, of whom some have no account yet
    Present,       \* the users with an account at installation
    Operation,     \* what administrators try to do
    Member,        \* the users who have a Feishu identity
    Bootstrap,     \* the members whose identity the configuration makes admin
    Renamed,       \* the members whose union ID Feishu may report differently
    Seed,          \* the assignments made at installation
    MaxInFlight    \* bound on the requests in flight

Permission == {"role:manage", "user:manage", "directory:read"}
RoleName == {"admin", "user", "ops"}
Status == {"absent", "active", "inactive"}
Label == {"none", "ops"}

\* What the row says of Feishu: nothing, an identity, the one that is configured.
Binding == {"none", "other", "named"}

\* The latest invitation of an account; it has a password once one is accepted.
Link == {"none", "live", "dead", "accepted"}

\* There is an administrator at installation, where only accounts are assigned;
\* forms carry what their route decodes.
ASSUME DirectoryAssumption ==
    /\ Bootstrap \subseteq Member /\ Present \subseteq Person /\ Seed \subseteq Present \X RoleName
    /\ \E u \in Present : <<u, "admin">> \in Seed \/ u \in Bootstrap
    /\ Operation \subseteq
         [op : {"grant", "revoke"}, user : Person, role : RoleName]
         \cup [op : {"role"}, role : RoleName, enabled : BOOLEAN, permissions : SUBSET Permission]
         \cup [op : {"binding"}, enabled : BOOLEAN, role : RoleName]
         \cup [op : {"user"}, user : Person, status : {"active", "inactive"}, label : Label]
         \cup [op : {"unbind", "create", "invite", "resend", "uninvite"}, user : Person]

VARIABLES
    people,        \* status, label, Feishu binding and invitation of each user
    roles,         \* the role definitions
    binding,       \* the label binding
    assignments,   \* the direct assignments that are not revoked
    doing,         \* per user, the request in flight
    stale,         \* users whose request was made from a form that is out of date
    actor          \* who made the last committed change

directoryVars == <<people, roles, binding, assignments, doing, stale, actor>>

NoOperation == [op |-> "none"]

DirectoryInit ==
    /\ people = [u \in Person |->
          [status |-> IF u \in Present THEN "active" ELSE "absent", label |-> "none",
           feishu |-> IF u \in Present \cap Bootstrap THEN "named" ELSE "none", link |-> "none"]]
    /\ roles = [r \in RoleName |->
          [enabled |-> TRUE,
           permissions |-> CASE r = "admin" -> Permission
                             [] r = "user" -> {"directory:read"}
                             [] OTHER -> {"directory:read", "user:manage"}]]
    /\ binding = [enabled |-> FALSE, role |-> "ops"]
    /\ assignments = Seed
    /\ doing = [u \in Person |-> NoOperation]
    /\ stale = {}
    /\ actor \in Person

-----------------------------------------------------------------------------
\* repository/iam.go and repository/roles.go.
ListSubjects == {u \in Person : people[u].status = "active"}
ListAssignments(role) == {u \in Person : <<u, role>> \in assignments}
SaveRole(it) == roles' = [roles EXCEPT ![it.role] = [enabled |-> it.enabled, permissions |-> it.permissions]]
SaveBinding(it) == binding' = [enabled |-> it.enabled, role |-> it.role]
CreateAssignment(u, role) == assignments' = assignments \cup {<<u, role>>}
RevokeAssignment(u, role) == assignments' = assignments \ {<<u, role>>}

-----------------------------------------------------------------------------
\* iam.go and resolve.go.
\* The configuration names a Feishu identity or, which no step changes, a user ID.
configuredAdmin(u) == people[u].feishu = "named"

\* NewResolver leaves disabled roles and bindings out.
Enabled(r) == roles[r].enabled

visit(u) ==
    {"user"} \cup {r \in DOMAIN roles : u \in ListAssignments(r)}
             \cup (IF configuredAdmin(u) THEN {"admin"} ELSE {})
             \cup (IF binding.enabled /\ people[u].label = "ops" THEN {binding.role} ELSE {})

resolvedRoles(u) == {r \in visit(u) : Enabled(r)}

allowedRoles(names) == UNION {roles[r].permissions : r \in names}

\* rolePermissions: what the roles of an account allow, active or not.
rolePermissions(u) == allowedRoles(resolvedRoles(u))

EffectivePermissions(u) == IF people[u].status = "active" THEN rolePermissions(u) ELSE {}

authorizeIn(u, permission) == permission \in EffectivePermissions(u)

explicitAdmins ==
    {u \in ListSubjects : u \in ListAssignments("admin") \/ configuredAdmin(u)}

\* Two mutants of mutateIAM: the actor is not authorised again under the lock; the
\* administrators are not counted.
MutateUnchecked(a, permission) == explicitAdmins # {} => explicitAdmins' # {}
MutateUncounted(a, permission) == authorizeIn(a, permission)

\* mutateIAM "serializes authorization changes and forbids removing the last
\* explicit active administrator."
mutateIAM(a, permission) ==
    /\ authorizeIn(a, permission)
    /\ explicitAdmins # {} => explicitAdmins' # {}

-----------------------------------------------------------------------------
\* server.go, routePermission, for the routes of these operations.
routePermission(op) ==
    CASE op \in {"grant", "revoke", "role", "binding"} -> "role:manage"
      [] op \in {"user", "create", "invite", "resend", "uninvite"} -> "user:manage"
      [] OTHER -> ""

\* What a form shows; a change of it makes the forms of others out of date.
Object(it) == CASE it.op = "role" -> <<"role", it.role>>
                [] it.op = "binding" -> <<"binding">>
                [] it.op = "user" -> <<"user", it.user>>
                [] it.op = "unbind" -> <<"user", it.user>>
                [] OTHER -> <<"none">>

\* authorizationFilter lets the request through, on a route without a permission
\* for every active user; RevokeRole looks at the assignment before its transaction.
authorizationFilter(a, it) ==
    /\ doing[a] = NoOperation
    /\ Cardinality({b \in Person : doing[b] # NoOperation}) < MaxInFlight
    /\ IF routePermission(it.op) = "" THEN people[a].status = "active"
       ELSE authorizeIn(a, routePermission(it.op))
    /\ it.op = "revoke" => <<it.user, it.role>> \in assignments /\ ~ (it.user = a /\ it.role = "admin")
    /\ doing' = [doing EXCEPT ![a] = it]
    /\ stale' = stale \ {a}
    /\ UNCHANGED <<people, roles, binding, assignments, actor>>

Finish(a) ==
    /\ doing' = [doing EXCEPT ![a] = NoOperation]
    /\ actor' = a
    /\ stale' = stale \cup {b \in Person \ {a} :
          Object(doing[b]) = Object(doing[a]) /\ Object(doing[b]) # <<"none">>}

\* Any refusal or failure: nothing is committed.
Refused(a) ==
    /\ doing[a] # NoOperation
    /\ doing' = [doing EXCEPT ![a] = NoOperation]
    /\ UNCHANGED <<people, roles, binding, assignments, stale, actor>>

GrantRole(a) ==
    LET it == doing[a] IN
    /\ it.op = "grant" /\ people[it.user].status # "absent" /\ Enabled(it.role)
    /\ CreateAssignment(it.user, it.role)
    /\ Finish(a)
    /\ UNCHANGED <<people, roles, binding>>
    /\ mutateIAM(a, "role:manage")

RevokeRole(a) ==
    LET it == doing[a] IN
    /\ it.op = "revoke" /\ <<it.user, it.role>> \in assignments
    /\ RevokeAssignment(it.user, it.role)
    /\ Finish(a)
    /\ UNCHANGED <<people, roles, binding>>
    /\ mutateIAM(a, "role:manage")

\* The built-in roles stay enabled, and admin keeps role:manage.
validateRoleChange(it) ==
    /\ it.permissions # {}
    /\ it.role \in {"admin", "user"} => it.enabled
    /\ it.role = "admin" => "role:manage" \in it.permissions

SaveIAMRole(a) ==
    LET it == doing[a] IN
    /\ it.op = "role" /\ a \notin stale
    /\ validateRoleChange(it)
    /\ SaveRole(it)
    /\ Finish(a)
    /\ UNCHANGED <<people, binding, assignments>>
    /\ mutateIAM(a, "role:manage")

\* An enabled binding must match an enabled role.
SaveIAMBinding(a) ==
    LET it == doing[a] IN
    /\ it.op = "binding" /\ a \notin stale
    /\ it.enabled => Enabled(it.role)
    /\ SaveBinding(it)
    /\ Finish(a)
    /\ UNCHANGED <<people, roles, assignments>>
    /\ mutateIAM(a, "role:manage")

\* Labels, and anything about a privileged user, need role:manage as well.  (The
\* sessions of a deactivated user are the session service's business afterwards.)
MayEdit(a, it) ==
    \/ it.label = people[it.user].label /\ resolvedRoles(it.user) \subseteq {"user"}
    \/ authorizeIn(a, "role:manage")

UpdateManagedUser(a) ==
    LET it == doing[a] IN
    /\ it.op = "user" /\ people[it.user].status # "absent" /\ a \notin stale
    /\ MayEdit(a, it)
    /\ it.status = "inactive" => it.user # a
    /\ people' = [people EXCEPT ![it.user].status = it.status, ![it.user].label = it.label]
    /\ Finish(a)
    /\ UNCHANGED <<roles, binding, assignments>>
    /\ mutateIAM(a, "user:manage")

\* UnbindFeishuUser: anyone for themselves, with the same count of administrators.
UnbindFeishuIdentity(a) ==
    /\ doing[a].op = "unbind" /\ doing[a].user = a
    /\ people[a].status = "active"
    /\ people' = [people EXCEPT ![a].feishu = "none"]
    /\ Finish(a)
    /\ UNCHANGED <<roles, binding, assignments>>
    /\ explicitAdmins # {} => explicitAdmins' # {}

\* The operations on accounts that look at no form: each under mutateIAM.
ManageAccount(a, u, row) ==
    /\ people' = [people EXCEPT ![u] = row]
    /\ Finish(a)
    /\ UNCHANGED <<roles, binding, assignments>>
    /\ mutateIAM(a, "user:manage")

CreateLocalUser(a) ==
    LET u == doing[a].user IN
    /\ doing[a].op = "create" /\ people[u].status = "absent"
    /\ ManageAccount(a, u, [people[u] EXCEPT !.status = "active"])

\* CreateInvitation: the account exists from now on; it stays inactive until its
\* link is used.
InviteUser(a) ==
    LET u == doing[a].user IN
    /\ doing[a].op = "invite" /\ people[u].status = "absent"
    /\ ManageAccount(a, u, [people[u] EXCEPT !.status = "inactive", !.link = "live"])

\* ResendInvitation: a new link for an account that has not accepted one; the
\* earlier link is revoked.
InviteAgain(a) ==
    LET u == doing[a].user IN
    /\ doing[a].op = "resend"
    /\ people[u].status = "inactive" /\ people[u].link \in {"live", "dead"}
    /\ ManageAccount(a, u, [people[u] EXCEPT !.link = "live"])

\* RevokeInvitation.
WithdrawInvitation(a) ==
    LET u == doing[a].user IN
    /\ doing[a].op = "uninvite" /\ people[u].link = "live"
    /\ ManageAccount(a, u, [people[u] EXCEPT !.link = "dead"])

-----------------------------------------------------------------------------
\* Users change their own row under the same lock, but nobody is counted: forms
\* that show the row are out of date.
EditOwnRow(u, row) ==
    /\ people' = [people EXCEPT ![u] = row]
    /\ stale' = stale \cup {b \in Person : Object(doing[b]) = <<"user", u>>}
    /\ actor' = u
    /\ UNCHANGED <<roles, binding, assignments, doing>>

\* AcceptInvitation, ActivateInvitedUser: the account becomes active with whatever it
\* was granted meanwhile.
InvitationActivates(u) ==
    /\ people[u].link = "live" /\ people[u].status = "inactive"
    /\ EditOwnRow(u, [people[u] EXCEPT !.status = "active", !.link = "accepted"])

InvitationLapses(u) ==
    /\ people[u].link = "live"
    /\ people' = [people EXCEPT ![u].link = "dead"]
    /\ UNCHANGED <<roles, binding, assignments, doing, stale, actor>>

\* SyncExternalUser, the first time.
ExternalSignsUp(u) ==
    /\ people[u].status = "absent"
    /\ EditOwnRow(u, [people[u] EXCEPT !.status = "active"])

\* The identity Feishu gives a member: the configured one, unless it renamed them.
Identity(u) ==
    {id \in {"other", "named"} :
        IF u \in Bootstrap THEN u \in Renamed \/ id = "named" ELSE id = "other"}

\* BindFeishuUser.
FeishuBinds(u) ==
    /\ u \in Member /\ people[u].status = "active" /\ people[u].feishu = "none"
    /\ \E id \in Identity(u) : EditOwnRow(u, [people[u] EXCEPT !.feishu = id])

\* SyncFeishuUser: a profile creates its account or rewrites the row, union ID
\* included; an inactive user never becomes active this way.
FeishuSyncs(u) ==
    /\ u \in Member
    /\ people[u].status = "absent" \/ people[u].feishu # "none"
    /\ \E id \in Identity(u), reported \in {"active", "inactive"} :
          EditOwnRow(u, [people[u] EXCEPT !.feishu = id,
                            !.status = IF @ = "inactive" THEN @ ELSE reported])

DirectoryNext ==
    \/ \E a \in Person, it \in Operation : authorizationFilter(a, it)
    \/ \E a \in Person : GrantRole(a)
    \/ \E a \in Person : RevokeRole(a)
    \/ \E a \in Person : SaveIAMRole(a)
    \/ \E a \in Person : SaveIAMBinding(a)
    \/ \E a \in Person : UpdateManagedUser(a)
    \/ \E a \in Person : UnbindFeishuIdentity(a)
    \/ \E a \in Person : Refused(a)
    \/ \E a \in Person : CreateLocalUser(a)
    \/ \E a \in Person : InviteUser(a)
    \/ \E a \in Person : InviteAgain(a)
    \/ \E a \in Person : WithdrawInvitation(a)
    \/ \E u \in Person : InvitationActivates(u)
    \/ \E u \in Person : InvitationLapses(u)
    \/ \E u \in Person : ExternalSignsUp(u)
    \/ \E u \in Person : FeishuBinds(u)
    \/ \E u \in Person : FeishuSyncs(u)

-----------------------------------------------------------------------------
\* Someone with a direct or configured admin grant can manage roles.
RecoveryAccount == \E u \in explicitAdmins : authorizeIn(u, "role:manage")

\* iam.go: mutateIAM "forbids removing the last explicit active administrator.
\* Selector grants are never the recovery account."  However administrators demote,
\* deactivate and unbind each other and edit roles at the same time, none of them
\* takes the last recovery account away: only Feishu can, by reporting that its
\* owner has left or has another identity, which SyncFeishuUser does not count.
RecoveryRemains ==
    [][RecoveryAccount => RecoveryAccount' \/ \E u \in Person : FeishuSyncs(u)]_directoryVars

\* What the roles of an account allow beyond the baseline grows only by a change
\* made by someone who could manage roles when it was committed, or when the
\* identity that the configuration names is put on its row.  Nor does an account
\* come to use more than before, except that the holder of its invitation, which
\* a holder of user:manage may issue again, activates what role managers gave it
\* while it was inactive.  Neither a label edited or a user reactivated by a holder
\* of user:manage, nor a request that was let through before its sender was
\* demoted, raises anyone's permissions.
GainsNeedManager ==
    [][\A u \in Person :
          \/ authorizeIn(actor', "role:manage")
          \/ configuredAdmin(u)' /\ ~ configuredAdmin(u)
          \/ /\ rolePermissions(u)' \subseteq rolePermissions(u) \cup roles["user"].permissions
             /\ \/ EffectivePermissions(u)' \subseteq EffectivePermissions(u) \cup roles["user"].permissions
                \/ InvitationActivates(u)]_directoryVars
=============================================================================
