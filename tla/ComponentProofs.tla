--------------------------- MODULE ComponentProofs ---------------------------
(***************************************************************************)
(* Proofs about components that stand for themselves: the directory of     *)
(* users and roles, for any number of users and requests in flight; the    *)
(* placing of sessions on gateways, for any number of gateways, sessions   *)
(* and workers; the promise of a session's agent, for any number of        *)
(* sessions and whichever runtime implements it; the catalogue of assets,  *)
(* for any number of clerks and discovery workers; and the streams of the  *)
(* console, for any number of viewers and any size of their buffers.       *)
(***************************************************************************)
EXTENDS Directory, Routing, Catalogue, Realtime, SessionAgent, FiniteSetTheorems, TLAPS

USE ZenonT(5), SMTT(10), SMTT(30)

-----------------------------------------------------------------------------
\* The directory.

DirectorySpec == DirectoryInit /\ [][DirectoryNext]_directoryVars

\* The built-in admin role keeps what recovery needs.
AdminRoleWorks == roles["admin"].enabled /\ "role:manage" \in roles["admin"].permissions

Row == [status : Status, label : Label, feishu : Binding, link : Link]

\* A user without an account has nothing that an account could have.
NothingBefore(p, given) ==
    \A u \in Person : p[u].status = "absent" =>
        /\ p[u].label = "none" /\ p[u].feishu = "none" /\ p[u].link = "none"
        /\ \A r \in RoleName : <<u, r>> \notin given

DirectoryInv ==
    /\ people \in [Person -> Row]
    /\ roles \in [RoleName -> [enabled : BOOLEAN, permissions : SUBSET Permission]]
    /\ binding \in [enabled : BOOLEAN, role : RoleName]
    /\ doing \in [Person -> Operation \cup {NoOperation}]
    /\ AdminRoleWorks
    /\ NothingBefore(people, assignments)

HasAdmin == explicitAdmins # {}

\* What a form carries, by the kind of the operation.
LEMMA FormFacts ==
    ASSUME DirectoryInv, NEW a \in Person
    PROVE  /\ doing[a].op \in {"grant", "revoke"} => doing[a].user \in Person /\ doing[a].role \in RoleName
           /\ doing[a].op = "role" =>
                /\ doing[a].role \in RoleName /\ doing[a].enabled \in BOOLEAN
                /\ doing[a].permissions \in SUBSET Permission
           /\ doing[a].op = "binding" => doing[a].enabled \in BOOLEAN /\ doing[a].role \in RoleName
           /\ doing[a].op = "user" =>
                /\ doing[a].user \in Person /\ doing[a].label \in Label
                /\ doing[a].status \in {"active", "inactive"}
           /\ doing[a].op \in {"create", "invite", "resend", "uninvite"} => doing[a].user \in Person
<1>1. doing[a] \in Operation \cup {NoOperation}
  BY DEF DirectoryInv
<1> QED
  BY <1>1, DirectoryAssumption DEF NoOperation

LEMMA DirectoryInitInv == DirectoryInit => DirectoryInv /\ HasAdmin
<1> SUFFICES ASSUME DirectoryInit PROVE DirectoryInv /\ HasAdmin
  OBVIOUS
<1>1. roles \in [RoleName -> [enabled : BOOLEAN, permissions : SUBSET Permission]] /\ AdminRoleWorks
  BY DEF DirectoryInit, AdminRoleWorks, RoleName, Permission
<1>2. people \in [Person -> Row]
  BY DEF DirectoryInit, Status, Label, Binding, Link, Row
<1>3. PICK u \in Present : <<u, "admin">> \in Seed \/ u \in Bootstrap
  BY DirectoryAssumption
<1>4. u \in Person /\ people[u].status = "active" /\ (u \in Bootstrap => people[u].feishu = "named")
  BY <1>3, DirectoryAssumption DEF DirectoryInit
<1>5. u \in explicitAdmins
  BY <1>3, <1>4, Zenon DEF DirectoryInit, explicitAdmins, ListSubjects, ListAssignments, configuredAdmin
<1>6. NothingBefore(people, assignments)
  <2> SUFFICES ASSUME NEW v \in Person, people[v].status = "absent"
               PROVE  people[v].label = "none" /\ people[v].feishu = "none" /\ people[v].link = "none"
                      /\ \A r \in RoleName : <<v, r>> \notin assignments
    BY DEF NothingBefore
  <2>1. v \notin Present /\ people[v].label = "none" /\ people[v].feishu = "none" /\ people[v].link = "none"
    BY DEF DirectoryInit
  <2> QED
    BY <2>1, DirectoryAssumption DEF DirectoryInit
<1> QED
  BY <1>1, <1>2, <1>5, <1>6 DEF DirectoryInit, DirectoryInv, HasAdmin, RoleName

\* Steps that rewrite one row keep the types, and say nothing of absent users.
LEMMA RowKept ==
    ASSUME DirectoryInv, NEW u \in Person, NEW row \in Row, row.status # "absent",
           people' = [people EXCEPT ![u] = row], UNCHANGED assignments
    PROVE  people' \in [Person -> Row] /\ NothingBefore(people', assignments')
<1>1. people' \in [Person -> Row]
  BY DEF DirectoryInv
<1>2. ASSUME NEW v \in Person, people'[v].status = "absent"
      PROVE  people'[v].label = "none" /\ people'[v].feishu = "none" /\ people'[v].link = "none"
             /\ \A r \in RoleName : <<v, r>> \notin assignments'
  <2>1. people'[v] = people[v]
    BY <1>2 DEF DirectoryInv
  <2> QED
    BY <1>2, <2>1 DEF DirectoryInv, NothingBefore
<1> QED
  BY <1>1, <1>2 DEF NothingBefore

\* The row that each operation writes.
LEMMA AccountRows ==
    ASSUME DirectoryInv, NEW a \in Person,
           CreateLocalUser(a) \/ InviteUser(a) \/ InviteAgain(a) \/ WithdrawInvitation(a)
    PROVE  \E row \in Row :
              /\ doing[a].user \in Person /\ ManageAccount(a, doing[a].user, row)
              /\ row.label = people[doing[a].user].label /\ row.feishu = people[doing[a].user].feishu
              /\ row.status # "absent"
              /\ \/ people[doing[a].user].status = "absent"
                 \/ row.status = people[doing[a].user].status
<1> DEFINE u == doing[a].user
<1>1. u \in Person
  BY FormFacts DEF CreateLocalUser, InviteUser, InviteAgain, WithdrawInvitation
<1>2. people[u] \in Row
  BY <1>1 DEF DirectoryInv
<1>3. ASSUME CreateLocalUser(a)
      PROVE  /\ people[u].status = "absent" /\ [people[u] EXCEPT !.status = "active"] \in Row
             /\ ManageAccount(a, u, [people[u] EXCEPT !.status = "active"])
  BY <1>2, <1>3 DEF CreateLocalUser, Row, Status
<1>4. ASSUME InviteUser(a)
      PROVE  /\ people[u].status = "absent"
             /\ [people[u] EXCEPT !.status = "inactive", !.link = "live"] \in Row
             /\ ManageAccount(a, u, [people[u] EXCEPT !.status = "inactive", !.link = "live"])
  BY <1>2, <1>4 DEF InviteUser, Row, Status, Link
<1>5. ASSUME InviteAgain(a)
      PROVE  /\ people[u].status = "inactive" /\ [people[u] EXCEPT !.link = "live"] \in Row
             /\ ManageAccount(a, u, [people[u] EXCEPT !.link = "live"])
  BY <1>2, <1>5 DEF InviteAgain, Row, Link
<1>6. ASSUME WithdrawInvitation(a)
      PROVE  /\ people[u].status # "absent" /\ [people[u] EXCEPT !.link = "dead"] \in Row
             /\ ManageAccount(a, u, [people[u] EXCEPT !.link = "dead"])
  BY <1>1, <1>2, <1>6 DEF WithdrawInvitation, Row, Link, DirectoryInv, NothingBefore
<1>7. CASE CreateLocalUser(a)
  BY <1>1, <1>2, <1>3, <1>7 DEF Row
<1>8. CASE InviteUser(a)
  BY <1>1, <1>2, <1>4, <1>8 DEF Row
<1>9. CASE InviteAgain(a)
  BY <1>1, <1>2, <1>5, <1>9 DEF Row
<1>10. CASE WithdrawInvitation(a)
  BY <1>1, <1>2, <1>6, <1>10 DEF Row
<1> QED
  BY <1>7, <1>8, <1>9, <1>10

LEMMA OwnRows ==
    ASSUME DirectoryInv, NEW u \in Person,
           InvitationActivates(u) \/ ExternalSignsUp(u) \/ FeishuBinds(u) \/ FeishuSyncs(u)
    PROVE  \E row \in Row :
              /\ EditOwnRow(u, row)
              /\ row.label = people[u].label /\ row.status # "absent"
              /\ \/ InvitationActivates(u) /\ row.feishu = people[u].feishu
                 \/ people[u].status = "absent"
                 \/ row.status \in {people[u].status, "inactive"}
              /\ \/ people[u].feishu # "named" \/ row.feishu = "named"
                 \/ FeishuSyncs(u)
              /\ row.status = people[u].status \/ ~ FeishuBinds(u)
<1>1. people[u] \in Row
  BY DEF DirectoryInv
<1>2. CASE InvitationActivates(u)
  <2>1. [people[u] EXCEPT !.status = "active", !.link = "accepted"] \in Row
    BY <1>1 DEF Row, Status, Link
  <2>2. EditOwnRow(u, [people[u] EXCEPT !.status = "active", !.link = "accepted"])
    BY <1>2 DEF InvitationActivates
  <2>3. ~ FeishuBinds(u)
    BY <1>2 DEF InvitationActivates, FeishuBinds
  <2> QED
    BY <1>1, <1>2, <2>1, <2>2, <2>3 DEF Row
<1>3. CASE ExternalSignsUp(u)
  <2>1. [people[u] EXCEPT !.status = "active"] \in Row
    BY <1>1 DEF Row, Status
  <2>2. people[u].status = "absent" /\ EditOwnRow(u, [people[u] EXCEPT !.status = "active"])
    BY <1>3 DEF ExternalSignsUp
  <2>3. ~ FeishuBinds(u)
    BY <2>2 DEF FeishuBinds
  <2> QED
    BY <1>1, <1>3, <2>1, <2>2, <2>3 DEF Row
<1>4. CASE FeishuBinds(u)
  <2>1. PICK id \in Identity(u) : EditOwnRow(u, [people[u] EXCEPT !.feishu = id])
    BY <1>4 DEF FeishuBinds
  <2>2. people[u].feishu = "none" /\ people[u].status = "active"
    BY <1>4 DEF FeishuBinds
  <2>3. [people[u] EXCEPT !.feishu = id] \in Row
    BY <1>1 DEF Row, Identity, Binding
  <2> QED
    BY <1>1, <2>1, <2>2, <2>3 DEF Row
<1>5. CASE FeishuSyncs(u) /\ ~ FeishuBinds(u)
  <2>1. PICK id \in Identity(u), reported \in {"active", "inactive"} :
            EditOwnRow(u, [people[u] EXCEPT !.feishu = id,
                              !.status = IF @ = "inactive" THEN @ ELSE reported])
    BY <1>5 DEF FeishuSyncs
  <2> DEFINE row == [people[u] EXCEPT !.feishu = id,
                                      !.status = IF @ = "inactive" THEN @ ELSE reported]
  <2>2. row \in Row /\ row.label = people[u].label /\ row.status \in {"active", "inactive"}
    BY <1>1 DEF Row, Identity, Binding, Status
  <2>3. people[u].status \in {"absent", "active", "inactive"}
    BY <1>1 DEF Row, Status
  <2>4. people[u].status = "inactive" => row.status = "inactive"
    BY <1>1 DEF Row
  <2> HIDE DEF row
  <2>5. EditOwnRow(u, row)
    BY <2>1 DEF row
  <2> QED
    BY <1>5, <2>2, <2>3, <2>4, <2>5
<1> QED
  BY <1>2, <1>3, <1>4, <1>5

\* Every step keeps the types and the admin role.
LEMMA DirectoryStep == DirectoryInv /\ [DirectoryNext]_directoryVars => DirectoryInv'
<1> SUFFICES ASSUME DirectoryInv, [DirectoryNext]_directoryVars PROVE DirectoryInv'
  OBVIOUS
<1> DEFINE Typed(p, r, b, d, given) ==
      /\ p \in [Person -> Row]
      /\ r \in [RoleName -> [enabled : BOOLEAN, permissions : SUBSET Permission]]
      /\ b \in [enabled : BOOLEAN, role : RoleName]
      /\ d \in [Person -> Operation \cup {NoOperation}]
      /\ r["admin"].enabled /\ "role:manage" \in r["admin"].permissions
      /\ NothingBefore(p, given)
<1>0. Typed(people, roles, binding, doing, assignments)
  BY DEF DirectoryInv, AdminRoleWorks
<1>00. ASSUME Typed(people', roles', binding', doing', assignments') PROVE DirectoryInv'
  BY <1>00 DEF DirectoryInv, AdminRoleWorks
<1>1. ASSUME NEW a \in Person, NEW it \in Operation, authorizationFilter(a, it) PROVE DirectoryInv'
  BY <1>0, <1>00, <1>1, Zenon DEF authorizationFilter
<1>2. ASSUME NEW a \in Person, GrantRole(a) PROVE DirectoryInv'
  <2>1. doing[a].user \in Person
    BY <1>2, FormFacts DEF GrantRole
  <2>2. NothingBefore(people, assignments \cup {<<doing[a].user, doing[a].role>>})
    BY <1>0, <1>2, <2>1 DEF GrantRole, NothingBefore
  <2> QED
    BY <1>0, <1>00, <1>2, <2>2 DEF GrantRole, Finish, CreateAssignment
<1>3. ASSUME NEW a \in Person, RevokeRole(a) PROVE DirectoryInv'
  <2>1. NothingBefore(people, assignments \ {<<doing[a].user, doing[a].role>>})
    BY <1>0 DEF NothingBefore
  <2> QED
    BY <1>0, <1>00, <1>3, <2>1 DEF RevokeRole, Finish, RevokeAssignment
<1>4. ASSUME NEW a \in Person, SaveIAMRole(a) PROVE DirectoryInv'
  <2>1. /\ doing[a].role \in RoleName /\ doing[a].enabled \in BOOLEAN
        /\ doing[a].permissions \in SUBSET Permission
    BY <1>4, FormFacts DEF SaveIAMRole
  <2>2. roles' = [roles EXCEPT ![doing[a].role] =
                    [enabled |-> doing[a].enabled, permissions |-> doing[a].permissions]]
    BY <1>4 DEF SaveIAMRole, SaveRole
  <2>3. doing[a].role = "admin" => doing[a].enabled /\ "role:manage" \in doing[a].permissions
    BY <1>4 DEF SaveIAMRole, validateRoleChange
  <2>4. "admin" \in RoleName
    BY DEF RoleName
  <2>5. /\ roles' \in [RoleName -> [enabled : BOOLEAN, permissions : SUBSET Permission]]
        /\ roles'["admin"].enabled /\ "role:manage" \in roles'["admin"].permissions
    BY <1>0, <2>1, <2>2, <2>3, <2>4
  <2>6. /\ people' = people /\ binding' = binding /\ assignments' = assignments
        /\ doing' = [doing EXCEPT ![a] = NoOperation]
    BY <1>4 DEF SaveIAMRole, Finish
  <2> QED
    BY <1>0, <1>00, <2>5, <2>6
<1>5. ASSUME NEW a \in Person, SaveIAMBinding(a) PROVE DirectoryInv'
  <2>1. doing[a].enabled \in BOOLEAN /\ doing[a].role \in RoleName
    BY <1>5, FormFacts DEF SaveIAMBinding
  <2> QED
    BY <1>0, <1>00, <1>5, <2>1 DEF SaveIAMBinding, SaveBinding, Finish
\* The other steps write one row.
<1>6. ASSUME NEW u \in Person, NEW row \in Row, row.status # "absent",
             people' = [people EXCEPT ![u] = row], UNCHANGED <<roles, binding, assignments>>,
             doing' \in [Person -> Operation \cup {NoOperation}]
      PROVE  DirectoryInv'
  <2>1. people' \in [Person -> Row] /\ NothingBefore(people', assignments')
    BY <1>6, RowKept
  <2> QED
    BY <1>0, <1>00, <1>6, <2>1
<1>7. ASSUME NEW a \in Person, UpdateManagedUser(a) PROVE DirectoryInv'
  <2>1. /\ doing[a].user \in Person /\ doing[a].status \in {"active", "inactive"}
        /\ doing[a].label \in Label
    BY <1>7, FormFacts DEF UpdateManagedUser
  <2>2. PICK row \in Row : row.status # "absent" /\ people' = [people EXCEPT ![doing[a].user] = row]
    <3> DEFINE row == [people[doing[a].user] EXCEPT !.status = doing[a].status, !.label = doing[a].label]
    <3>0. people[doing[a].user] \in Row
      BY <1>0, <2>1
    <3>1. row \in Row /\ row.status # "absent"
      BY <2>1, <3>0 DEF Row, Status
    <3>2. people' = [people EXCEPT ![doing[a].user] = row]
      BY <1>0, <1>7, <2>1 DEF UpdateManagedUser
    <3> QED
      BY <3>1, <3>2
  <2>3. /\ UNCHANGED <<roles, binding, assignments>>
        /\ doing' \in [Person -> Operation \cup {NoOperation}]
    BY <1>0, <1>7 DEF UpdateManagedUser, Finish
  <2> QED
    BY <1>6, <2>1, <2>2, <2>3
<1>8. ASSUME NEW a \in Person, UnbindFeishuIdentity(a) PROVE DirectoryInv'
  <2>1. [people[a] EXCEPT !.feishu = "none"] \in Row /\ people[a].status = "active"
    BY <1>0, <1>8 DEF UnbindFeishuIdentity, Row, Binding
  <2>2. people' = [people EXCEPT ![a] = [people[a] EXCEPT !.feishu = "none"]]
    BY <1>8 DEF UnbindFeishuIdentity
  <2>3. [people[a] EXCEPT !.feishu = "none"].status = "active"
    BY <1>0, <2>1 DEF Row
  <2> QED
    BY <1>0, <1>6, <1>8, <2>1, <2>2, <2>3 DEF UnbindFeishuIdentity, Finish
<1>9. ASSUME NEW a \in Person, Refused(a) PROVE DirectoryInv'
  BY <1>0, <1>00, <1>9 DEF Refused
<1>10. ASSUME NEW a \in Person,
              CreateLocalUser(a) \/ InviteUser(a) \/ InviteAgain(a) \/ WithdrawInvitation(a)
       PROVE  DirectoryInv'
  <2>1. PICK row \in Row :
            doing[a].user \in Person /\ ManageAccount(a, doing[a].user, row) /\ row.status # "absent"
    BY <1>10, AccountRows
  <2> QED
    BY <1>0, <1>6, <2>1 DEF ManageAccount, Finish
<1>11. ASSUME NEW u \in Person,
              InvitationActivates(u) \/ ExternalSignsUp(u) \/ FeishuBinds(u) \/ FeishuSyncs(u)
       PROVE  DirectoryInv'
  <2>1. PICK row \in Row : EditOwnRow(u, row) /\ row.status # "absent"
    BY <1>11, OwnRows
  <2> QED
    BY <1>0, <1>6, <2>1 DEF EditOwnRow
<1>12. ASSUME NEW u \in Person, InvitationLapses(u) PROVE DirectoryInv'
  <2>1. [people[u] EXCEPT !.link = "dead"] \in Row /\ people[u].status # "absent"
    BY <1>0, <1>12 DEF InvitationLapses, Row, Link, NothingBefore
  <2>2. people' = [people EXCEPT ![u] = [people[u] EXCEPT !.link = "dead"]]
    BY <1>12 DEF InvitationLapses
  <2>3. [people[u] EXCEPT !.link = "dead"].status # "absent"
    BY <1>0, <2>1 DEF Row
  <2> QED
    BY <1>0, <1>6, <1>12, <2>1, <2>2, <2>3 DEF InvitationLapses
<1>13. ASSUME UNCHANGED directoryVars PROVE DirectoryInv'
  BY <1>0, <1>00, <1>13 DEF directoryVars
<1> QED
  BY <1>1, <1>2, <1>3, <1>4, <1>5, <1>7, <1>8, <1>9, <1>10, <1>11, <1>12, <1>13 DEF DirectoryNext

\* An explicit administrator holds the admin role, and with it role:manage.
LEMMA AdminRecovers == DirectoryInv => (HasAdmin <=> RecoveryAccount)
<1> SUFFICES ASSUME DirectoryInv, HasAdmin PROVE RecoveryAccount
  BY DEF HasAdmin, RecoveryAccount
<1>1. PICK u \in explicitAdmins : TRUE
  BY DEF HasAdmin
<1>2. people[u].status = "active" /\ "admin" \in visit(u)
  BY <1>1 DEF DirectoryInv, explicitAdmins, ListSubjects, visit, RoleName
<1>3. "admin" \in resolvedRoles(u)
  BY <1>2 DEF resolvedRoles, Enabled, DirectoryInv, AdminRoleWorks
<1>4. "role:manage" \in rolePermissions(u)
  BY <1>3 DEF rolePermissions, allowedRoles, DirectoryInv, AdminRoleWorks
<1> QED
  BY <1>1, <1>2, <1>4 DEF RecoveryAccount, authorizeIn, EffectivePermissions

\* The step of RecoveryRemains, in terms of the administrators that are counted.
CountedStep == HasAdmin => HasAdmin' \/ \E u \in Person : FeishuSyncs(u)

LEMMA AdminsAreCounted == DirectoryInv /\ [DirectoryNext]_directoryVars => [CountedStep]_directoryVars
<1> SUFFICES ASSUME DirectoryInv, DirectoryNext, HasAdmin,
                    ~ \E u \in Person : FeishuSyncs(u)
             PROVE  HasAdmin'
  BY DEF CountedStep
<1>1. ASSUME NEW a \in Person,
             \/ GrantRole(a) \/ RevokeRole(a) \/ SaveIAMRole(a) \/ SaveIAMBinding(a)
             \/ UpdateManagedUser(a) \/ UnbindFeishuIdentity(a)
      PROVE  HasAdmin'
  BY <1>1 DEF HasAdmin, GrantRole, RevokeRole, SaveIAMRole, SaveIAMBinding, UpdateManagedUser,
              UnbindFeishuIdentity, mutateIAM
<1>2. ASSUME NEW a \in Person,
             CreateLocalUser(a) \/ InviteUser(a) \/ InviteAgain(a) \/ WithdrawInvitation(a)
      PROVE  HasAdmin'
  BY <1>2, AccountRows DEF ManageAccount, mutateIAM, HasAdmin
<1>3. ASSUME UNCHANGED <<people, assignments>> PROVE HasAdmin'
  BY <1>3, Zenon DEF HasAdmin, explicitAdmins, ListSubjects, ListAssignments, configuredAdmin
<1>4. ASSUME NEW a \in Person, NEW it \in Operation, authorizationFilter(a, it) PROVE HasAdmin'
  BY <1>3, <1>4, Zenon DEF authorizationFilter
<1>5. ASSUME NEW a \in Person, Refused(a) PROVE HasAdmin'
  BY <1>3, <1>5 DEF Refused
<1>6. ASSUME NEW u \in Person, NEW row, UNCHANGED assignments, people' = [people EXCEPT ![u] = row],
             people[u].status = "active" => row.status = "active",
             people[u].feishu = "named" => row.feishu = "named"
      PROVE  HasAdmin'
  <2>1. PICK v \in explicitAdmins : TRUE
    BY DEF HasAdmin
  <2>2. v \in Person /\ people[v].status = "active"
    BY <2>1 DEF explicitAdmins, ListSubjects
  <2>3. people'[v].status = "active" /\ (people[v].feishu = "named" => people'[v].feishu = "named")
    BY <1>6, <2>2 DEF DirectoryInv
  <2>4. v \in explicitAdmins'
    BY <1>6, <2>1, <2>2, <2>3 DEF explicitAdmins, ListSubjects, ListAssignments, configuredAdmin
  <2> QED
    BY <2>4 DEF HasAdmin
<1>7. ASSUME NEW u \in Person, InvitationActivates(u) \/ ExternalSignsUp(u) \/ FeishuBinds(u)
      PROVE  HasAdmin'
  <2>1. PICK row \in Row :
          /\ EditOwnRow(u, row)
          /\ people[u].feishu # "named" \/ row.feishu = "named"
          /\ row.status = people[u].status \/ ~ FeishuBinds(u)
    BY <1>7, OwnRows
  <2>2. people[u].status = "active" => row.status = "active"
    BY <1>7, <2>1 DEF InvitationActivates, ExternalSignsUp
  <2> QED
    BY <1>6, <2>1, <2>2 DEF EditOwnRow
<1>8. ASSUME NEW u \in Person, InvitationLapses(u) PROVE HasAdmin'
  <2>1. people' = [people EXCEPT ![u] = [people[u] EXCEPT !.link = "dead"]] /\ UNCHANGED assignments
    BY <1>8 DEF InvitationLapses
  <2>2. people[u] \in Row
    BY DEF DirectoryInv
  <2>3. /\ [people[u] EXCEPT !.link = "dead"].status = people[u].status
        /\ [people[u] EXCEPT !.link = "dead"].feishu = people[u].feishu
    BY <2>2 DEF Row
  <2> QED
    BY <1>6, <2>1, <2>3
<1> QED
  BY <1>1, <1>2, <1>4, <1>5, <1>7, <1>8 DEF DirectoryNext

\* However many administrators demote, deactivate and unbind each other and edit
\* roles at the same time (service/iam.go mutateIAM), an active explicit
\* administrator who can manage roles remains, unless Feishu reports the last one
\* inactive or under another identity.
THEOREM RecoveryRemainsHolds == DirectorySpec => RecoveryAccount /\ RecoveryRemains
<1>1. DirectorySpec => []DirectoryInv
  BY DirectoryInitInv, DirectoryStep, PTL DEF DirectorySpec
<1>2. DirectorySpec => [][CountedStep]_directoryVars
  BY <1>1, AdminsAreCounted, PTL DEF DirectorySpec
<1> DEFINE Left == \E u \in Person : FeishuSyncs(u)
<1>3. CountedStep <=> (HasAdmin => HasAdmin' \/ Left)
  BY DEF CountedStep
<1> HIDE DEF Left
<1>4. DirectorySpec => [][RecoveryAccount => RecoveryAccount' \/ Left]_directoryVars
  BY <1>1, <1>2, <1>3, AdminRecovers, PTL
<1>5. DirectorySpec => RecoveryAccount
  BY DirectoryInitInv, AdminRecovers DEF DirectorySpec
<1> QED
  BY <1>4, <1>5 DEF RecoveryRemains, Left

\* What the roles of a user allow depends on the user's own row, of it the label and
\* the binding only.
LEMMA RowAllows ==
    ASSUME NEW u \in Person, UNCHANGED <<roles, binding, assignments>>,
           people'[u].label = people[u].label, configuredAdmin(u)' => configuredAdmin(u)
    PROVE  resolvedRoles(u)' \subseteq resolvedRoles(u) /\ rolePermissions(u)' \subseteq rolePermissions(u)
<1>1. visit(u)' \subseteq visit(u)
  BY DEF visit, ListAssignments
<1>2. resolvedRoles(u)' \subseteq resolvedRoles(u)
  BY <1>1 DEF resolvedRoles, Enabled
<1> QED
  BY <1>2 DEF rolePermissions, allowedRoles

\* The step of GainsNeedManager.
GainsStep ==
    \A u \in Person :
        \/ authorizeIn(actor', "role:manage")
        \/ configuredAdmin(u)' /\ ~ configuredAdmin(u)
        \/ /\ rolePermissions(u)' \subseteq rolePermissions(u) \cup roles["user"].permissions
           /\ \/ EffectivePermissions(u)' \subseteq EffectivePermissions(u) \cup roles["user"].permissions
              \/ InvitationActivates(u)

\* A step that rewrites one row, and leaves its label alone, gives nothing to anybody
\* else; to its user only what is configured, or what the account had before, when it
\* was active already, has the baseline role only, or accepts its invitation.
LEMMA RowGains ==
    ASSUME DirectoryInv, NEW u \in Person, NEW row, UNCHANGED <<roles, binding, assignments>>,
           people' = [people EXCEPT ![u] = row], row.label = people[u].label,
           \/ row.status = people[u].status \/ row.status = "inactive"
           \/ resolvedRoles(u) \subseteq {"user"} \/ InvitationActivates(u)
    PROVE  GainsStep
<1> SUFFICES ASSUME NEW v \in Person, ~ (configuredAdmin(v)' /\ ~ configuredAdmin(v))
             PROVE  /\ rolePermissions(v)' \subseteq rolePermissions(v)
                    /\ \/ EffectivePermissions(v)' \subseteq EffectivePermissions(v) \cup roles["user"].permissions
                       \/ InvitationActivates(v)
  BY DEF GainsStep
<1>1. people'[v] = IF v = u THEN row ELSE people[v]
  BY DEF DirectoryInv
<1>2. resolvedRoles(v)' \subseteq resolvedRoles(v) /\ rolePermissions(v)' \subseteq rolePermissions(v)
  BY <1>1, RowAllows
<1>3. CASE people'[v].status = people[v].status \/ people'[v].status = "inactive"
  BY <1>2, <1>3 DEF EffectivePermissions
<1>4. CASE v = u /\ resolvedRoles(u) \subseteq {"user"}
  <2>1. resolvedRoles(v)' \subseteq {"user"}
    BY <1>2, <1>4
  <2>2. rolePermissions(v)' \subseteq roles["user"].permissions
    BY <2>1 DEF rolePermissions, allowedRoles
  <2> QED
    BY <1>2, <2>2 DEF EffectivePermissions
<1> QED
  BY <1>1, <1>2, <1>3, <1>4

\* A user without an account would have the baseline role only.
LEMMA AbsentHasBaseline ==
    ASSUME DirectoryInv, NEW u \in Person, people[u].status = "absent"
    PROVE  resolvedRoles(u) \subseteq {"user"}
<1>1. /\ people[u].label = "none" /\ people[u].feishu = "none"
      /\ \A r \in RoleName : <<u, r>> \notin assignments
  BY DEF DirectoryInv, NothingBefore
<1>2. DOMAIN roles = RoleName
  BY DEF DirectoryInv
<1> QED
  BY <1>1, <1>2 DEF resolvedRoles, visit, ListAssignments, configuredAdmin

LEMMA OnlyManagersGive == DirectoryInv /\ [DirectoryNext]_directoryVars => [GainsStep]_directoryVars
<1> SUFFICES ASSUME DirectoryInv, DirectoryNext PROVE GainsStep
  OBVIOUS
<1>0. ASSUME UNCHANGED <<people, roles, binding, assignments>> PROVE GainsStep
  <2> SUFFICES ASSUME NEW u \in Person
               PROVE  /\ rolePermissions(u)' \subseteq rolePermissions(u)
                      /\ EffectivePermissions(u)' \subseteq EffectivePermissions(u)
    BY DEF GainsStep
  <2>1. rolePermissions(u)' \subseteq rolePermissions(u)
    BY <1>0, RowAllows DEF configuredAdmin
  <2> QED
    BY <1>0, <2>1 DEF EffectivePermissions
<1>1. ASSUME NEW a \in Person, NEW it \in Operation, authorizationFilter(a, it) PROVE GainsStep
  BY <1>0, <1>1, Zenon DEF authorizationFilter
<1>2. ASSUME NEW a \in Person, Refused(a) PROVE GainsStep
  BY <1>0, <1>2 DEF Refused
<1>3. ASSUME NEW a \in Person, GrantRole(a) \/ RevokeRole(a) \/ SaveIAMRole(a) \/ SaveIAMBinding(a)
      PROVE  GainsStep
  <2>1. actor' = a /\ authorizeIn(a, "role:manage")
    BY <1>3 DEF GrantRole, RevokeRole, SaveIAMRole, SaveIAMBinding, Finish, mutateIAM
  <2> QED
    BY <2>1 DEF GainsStep
<1>4. ASSUME NEW a \in Person, UpdateManagedUser(a) PROVE GainsStep
  <2> DEFINE it == doing[a]
  <2>1. /\ actor' = a /\ MayEdit(a, it)
        /\ UNCHANGED <<roles, binding, assignments>>
        /\ people' = [people EXCEPT ![it.user].status = it.status, ![it.user].label = it.label]
    BY <1>4 DEF UpdateManagedUser, Finish
  <2>2. CASE authorizeIn(a, "role:manage")
    BY <2>1, <2>2 DEF GainsStep
  <2>3. CASE it.label = people[it.user].label /\ resolvedRoles(it.user) \subseteq {"user"}
    <3>1. it.user \in Person
      BY <1>4, FormFacts DEF UpdateManagedUser
    <3>2. people[it.user] \in Row
      BY <3>1 DEF DirectoryInv
    <3>3. people' = [people EXCEPT ![it.user] =
                       [people[it.user] EXCEPT !.status = it.status, !.label = it.label]]
      BY <2>1, <3>1 DEF DirectoryInv
    <3>4. [people[it.user] EXCEPT !.status = it.status, !.label = it.label].label = people[it.user].label
      BY <2>3, <3>2 DEF Row
    <3> QED
      BY <2>1, <2>3, <3>1, <3>3, <3>4, RowGains
  <2> QED
    BY <2>1, <2>2, <2>3 DEF MayEdit
<1>5. ASSUME NEW a \in Person, UnbindFeishuIdentity(a) PROVE GainsStep
  <2>1. /\ UNCHANGED <<roles, binding, assignments>>
        /\ people' = [people EXCEPT ![a] = [people[a] EXCEPT !.feishu = "none"]]
    BY <1>5 DEF UnbindFeishuIdentity
  <2>2. people[a] \in Row
    BY DEF DirectoryInv
  <2>3. /\ [people[a] EXCEPT !.feishu = "none"].label = people[a].label
        /\ [people[a] EXCEPT !.feishu = "none"].status = people[a].status
    BY <2>2 DEF Row
  <2> QED
    BY <2>1, <2>3, RowGains
<1>6. ASSUME NEW a \in Person,
             CreateLocalUser(a) \/ InviteUser(a) \/ InviteAgain(a) \/ WithdrawInvitation(a)
      PROVE  GainsStep
  <2>1. PICK row \in Row :
          /\ doing[a].user \in Person /\ ManageAccount(a, doing[a].user, row)
          /\ row.label = people[doing[a].user].label
          /\ people[doing[a].user].status = "absent" \/ row.status = people[doing[a].user].status
    BY <1>6, AccountRows
  <2>2. row.status = people[doing[a].user].status \/ resolvedRoles(doing[a].user) \subseteq {"user"}
    BY <2>1, AbsentHasBaseline
  <2> QED
    BY <2>1, <2>2, RowGains DEF ManageAccount
<1>7. ASSUME NEW u \in Person,
             InvitationActivates(u) \/ ExternalSignsUp(u) \/ FeishuBinds(u) \/ FeishuSyncs(u)
      PROVE  GainsStep
  <2>1. PICK row \in Row :
          /\ EditOwnRow(u, row) /\ row.label = people[u].label
          /\ InvitationActivates(u) \/ people[u].status = "absent" \/ row.status \in {people[u].status, "inactive"}
    BY <1>7, OwnRows
  <2>2. \/ row.status = people[u].status \/ row.status = "inactive"
        \/ resolvedRoles(u) \subseteq {"user"} \/ InvitationActivates(u)
    BY <2>1, AbsentHasBaseline
  <2> QED
    BY <2>1, <2>2, RowGains DEF EditOwnRow
<1>8. ASSUME NEW u \in Person, InvitationLapses(u) PROVE GainsStep
  <2>1. /\ UNCHANGED <<roles, binding, assignments>>
        /\ people' = [people EXCEPT ![u] = [people[u] EXCEPT !.link = "dead"]]
    BY <1>8 DEF InvitationLapses
  <2>2. people[u] \in Row
    BY DEF DirectoryInv
  <2>3. /\ [people[u] EXCEPT !.link = "dead"].label = people[u].label
        /\ [people[u] EXCEPT !.link = "dead"].status = people[u].status
    BY <2>2 DEF Row
  <2> QED
    BY <2>1, <2>3, RowGains
<1> QED
  BY <1>1, <1>2, <1>3, <1>4, <1>5, <1>6, <1>7, <1>8 DEF DirectoryNext

\* What an account's roles allow beyond the baseline grows only with somebody who
\* could manage roles at the moment of the commit (service/iam.go mutateIAM, MayEdit)
\* or the configured identity, and only the acceptance of an invitation lets an
\* account use what it was given earlier: for any number of users, forms and requests
\* in flight.
THEOREM GainsNeedManagerHolds == DirectorySpec => GainsNeedManager
<1>1. DirectorySpec => [][GainsStep]_directoryVars
  BY DirectoryInitInv, DirectoryStep, OnlyManagersGive, PTL DEF DirectorySpec
<1> QED
  BY <1>1 DEF GainsNeedManager, GainsStep

-----------------------------------------------------------------------------
\* The placing of sessions.

RoutingSpec == RoutingInit /\ [][RoutingNext]_routingVars

PlaceRow == [status : {"provisioning", "live", "over"}, gateway : Route, version : Nat]

RouteRow == [status : {"none", "enabled", "disabled"}, fresh : BOOLEAN, max : Nat]

\* What a worker knows, by its phase.
PlacerState ==
    {Unengaged}
    \cup [phase : {"choose"}, session : Placed, version : Nat, left : SUBSET Route]
    \cup [phase : {"probed"}, session : Placed, version : Nat, left : SUBSET Route, gateway : Route]
    \cup [phase : {"claimed"}, session : Placed, gateway : Route, limit : Nat]

RoutingTypes ==
    /\ place \in [Placed -> PlaceRow]
    /\ route \in [Route -> RouteRow]
    /\ placer \in [Placer -> PlacerState]

Claimed(w) == placer[w].phase = "claimed"

\* Two open claims are never of one gateway or of one session.
ClaimsApart ==
    \A v, w \in Placer : Claimed(v) /\ Claimed(w) /\ v # w =>
        placer[v].gateway # placer[w].gateway /\ placer[v].session # placer[w].session

\* While a claim is open, nothing fills the gateway it counted.
RoomIsKept ==
    \A w \in Placer : Claimed(w) => Load(placer[w].gateway, placer[w].session) < placer[w].limit

RoutingInv == RoutingTypes /\ ClaimsApart /\ RoomIsKept

\* The sessions that Load counts.
Occupants(g, s) == {t \in Placed \ {s} : place[t].gateway = g /\ Occupies(t)}

LEMMA LoadFacts ==
    ASSUME NEW g, NEW s
    PROVE  /\ Load(g, s) = Cardinality(Occupants(g, s)) /\ IsFiniteSet(Occupants(g, s))
           /\ Load(g, s)' = Cardinality(Occupants(g, s)') /\ IsFiniteSet(Occupants(g, s)')
           /\ Load(g, s) \in Nat /\ Load(g, s)' \in Nat
<1>1. Occupants(g, s) \in SUBSET Placed /\ Occupants(g, s)' \in SUBSET Placed
  BY DEF Occupants
<1>2. IsFiniteSet(Occupants(g, s)) /\ IsFiniteSet(Occupants(g, s)')
  BY <1>1, FS_Subset, RoutingAssumption
<1>3. Load(g, s) = Cardinality(Occupants(g, s)) /\ Load(g, s)' = Cardinality(Occupants(g, s)')
  BY DEF Load, Occupants
<1> QED
  BY <1>2, <1>3, FS_CardinalityType

\* Fewer occupants, no larger load.
LEMMA LoadShrinks ==
    ASSUME NEW g, NEW s, Occupants(g, s)' \subseteq Occupants(g, s)
    PROVE  Load(g, s)' <= Load(g, s)
BY LoadFacts, FS_Subset

\* The rows of the sessions are unchanged: so are the loads.
LEMMA LoadSame ==
    ASSUME place' = place, NEW g, NEW s
    PROVE  Load(g, s)' = Load(g, s)
BY DEF Load, Occupies

LEMMA RoutingInitInv == RoutingInit => RoutingInv
<1> SUFFICES ASSUME RoutingInit PROVE RoutingInv
  OBVIOUS
<1>1. (CHOOSE n \in Capacity : TRUE) \in Nat
  BY RoutingAssumption, Zenon
<1>2. RoutingTypes
  <2>1. place \in [Placed -> PlaceRow] /\ placer \in [Placer -> PlacerState]
    BY RoutingAssumption DEF RoutingInit, PlaceRow, PlacerState
  <2>2. PICK n \in Nat : n = CHOOSE m \in Capacity : TRUE
    BY <1>1
  <2>3. \A g \in Route : (g \in Existing) \in BOOLEAN
    OBVIOUS
  <2>4. \A g \in Route : [status |-> IF g \in Existing THEN "enabled" ELSE "none",
                         fresh |-> g \in Existing, max |-> n] \in RouteRow
    BY <2>3 DEF RouteRow
  <2>5. route = [g \in Route |-> [status |-> IF g \in Existing THEN "enabled" ELSE "none",
                                 fresh |-> g \in Existing, max |-> n]]
    BY <2>2, Zenon DEF RoutingInit
  <2> QED
    BY <2>1, <2>4, <2>5, Zenon DEF RoutingTypes
<1>3. \A w \in Placer : ~ Claimed(w)
  BY DEF RoutingInit, Claimed, Unengaged
<1> QED
  BY <1>2, <1>3 DEF RoutingInv, ClaimsApart, RoomIsKept

\* No session moves and no claim is opened: what holds goes on holding.
LEMMA NoNewClaim ==
    ASSUME RoutingInv, RoutingTypes', place' = place,
           \A w \in Placer : Claimed(w)' => placer'[w] = placer[w]
    PROVE  RoutingInv'
<1>1. \A w \in Placer : Claimed(w)' => Claimed(w) /\ placer'[w] = placer[w]
  BY DEF Claimed
<1>2. ClaimsApart'
  BY <1>1 DEF RoutingInv, ClaimsApart
<1>3. RoomIsKept'
  BY <1>1, LoadSame DEF RoutingInv, RoomIsKept
<1> QED
  BY <1>2, <1>3 DEF RoutingInv

\* The same when the workers are not concerned at all.
LEMMA WorkersAside ==
    ASSUME RoutingInv, UNCHANGED <<place, placer>>,
           route' \in [Route -> RouteRow]
    PROVE  RoutingInv'
<1>1. RoutingTypes'
  BY DEF RoutingInv, RoutingTypes
<1> QED
  BY <1>1, NoNewClaim

\* A heartbeat leaves a gateway with a capacity.
LEMMA HealthFacts ==
    ASSUME RoutingInv, NEW g, NEW n \in Capacity, RecordHealth(g, n)
    PROVE  route' \in [Route -> RouteRow]
<1>1. route' = [route EXCEPT ![g].fresh = TRUE, ![g].max = n] /\ n \in Nat
  BY RoutingAssumption DEF RecordHealth
<1>2. route \in [Route -> RouteRow]
  BY DEF RoutingInv, RoutingTypes
<1> QED
  BY <1>1, <1>2, Zenon DEF RouteRow

\* The next candidate is a worker's state without a claim.
LEMMA NextCandidateFacts ==
    ASSUME NEW s \in Placed, NEW version \in Nat, NEW left \in SUBSET Route
    PROVE  NextCandidate(s, version, left) \in PlacerState
           /\ NextCandidate(s, version, left).phase # "claimed"
BY DEF NextCandidate, PlacerState, Unengaged

\* One worker moves to a state that is no claim.
LEMMA WorkerMoves ==
    ASSUME RoutingInv, NEW w \in Placer, NEW state \in PlacerState, state.phase # "claimed",
           placer' = [placer EXCEPT ![w] = state], place' = place,
           route' \in [Route -> RouteRow]
    PROVE  RoutingInv'
<1>1. placer \in [Placer -> PlacerState] /\ place \in [Placed -> PlaceRow]
  BY DEF RoutingInv, RoutingTypes
<1>2. RoutingTypes'
  BY <1>1 DEF RoutingTypes
<1>3. \A v \in Placer : Claimed(v)' => placer'[v] = placer[v]
  BY <1>1 DEF Claimed
<1> QED
  BY <1>2, <1>3, NoNewClaim

\* What a worker's state holds in each phase.
LEMMA PlacerFacts ==
    ASSUME RoutingInv, NEW w \in Placer
    PROVE  /\ placer[w].phase = "choose" => placer[w].session \in Placed
                /\ placer[w].version \in Nat /\ placer[w].left \in SUBSET Route
           /\ placer[w].phase = "probed" => placer[w].session \in Placed
                /\ placer[w].version \in Nat /\ placer[w].left \in SUBSET Route
                /\ placer[w].gateway \in Route
           /\ placer[w].phase = "claimed" => placer[w].session \in Placed
                /\ placer[w].gateway \in Route /\ placer[w].limit \in Nat
<1>1. placer[w] \in PlacerState
  BY DEF RoutingInv, RoutingTypes
<1> QED
  BY <1>1 DEF PlacerState, Unengaged

LEMMA StartStep ==
    ASSUME RoutingInv, NEW w \in Placer, NEW s \in Placed, StartPlacing(w, s)
    PROVE  RoutingInv'
<1>1. place[s].version \in Nat
  BY DEF RoutingInv, RoutingTypes, PlaceRow
<1>2. ListAvailableForAsset(s) \in SUBSET Route
  BY DEF ListAvailableForAsset
<1>3. /\ NextCandidate(s, place[s].version, ListAvailableForAsset(s)) \in PlacerState
      /\ NextCandidate(s, place[s].version, ListAvailableForAsset(s)).phase # "claimed"
  BY <1>1, <1>2, NextCandidateFacts
<1>4. /\ placer' = [placer EXCEPT ![w] = NextCandidate(s, place[s].version, ListAvailableForAsset(s))]
      /\ place' = place /\ route' = route
  BY DEF StartPlacing
<1>5. route' \in [Route -> RouteRow]
  BY <1>4 DEF RoutingInv, RoutingTypes
<1> QED
  BY <1>3, <1>4, <1>5, WorkerMoves, Zenon

LEMMA ProbeStep ==
    ASSUME RoutingInv, NEW w \in Placer, NEW g \in Route, probeGateway(w, g)
    PROVE  RoutingInv'
<1>1. /\ placer[w].session \in Placed /\ placer[w].version \in Nat
      /\ placer[w].left \in SUBSET Route /\ place' = place
      /\ placer \in [Placer -> PlacerState]
  BY PlacerFacts DEF probeGateway, Waits, RoutingInv, RoutingTypes
<1>2. CASE /\ \E n \in Capacity : RecordHealth(g, n)
           /\ placer' = [placer EXCEPT ![w] = [phase |-> "probed", session |-> @.session,
                             version |-> @.version, left |-> @.left \ {g}, gateway |-> g]]
  <2> DEFINE state == [phase |-> "probed", session |-> placer[w].session,
                       version |-> placer[w].version, left |-> placer[w].left \ {g}, gateway |-> g]
  <2>1. state \in PlacerState /\ state.phase # "claimed"
    BY <1>1 DEF PlacerState
  <2>2. placer' = [placer EXCEPT ![w] = state]
    BY <1>1, <1>2
  <2>3. route' \in [Route -> RouteRow]
    BY <1>2, HealthFacts
  <2> HIDE DEF state
  <2> QED
    BY <1>1, <2>1, <2>2, <2>3, WorkerMoves, Zenon
<1>3. CASE /\ placer' = [placer EXCEPT ![w] = NextCandidate(@.session, @.version, @.left \ {g})]
           /\ UNCHANGED <<route, changes>>
  <2> DEFINE state == NextCandidate(placer[w].session, placer[w].version, placer[w].left \ {g})
  <2>1. state \in PlacerState /\ state.phase # "claimed"
    BY <1>1, NextCandidateFacts
  <2>2. placer' = [placer EXCEPT ![w] = state]
    BY <1>1, <1>3
  <2>3. route' \in [Route -> RouteRow]
    BY <1>3 DEF RoutingInv, RoutingTypes
  <2> HIDE DEF state
  <2> QED
    BY <1>1, <2>1, <2>2, <2>3, WorkerMoves, Zenon
<1> QED
  BY <1>2, <1>3 DEF probeGateway

\* The claim counts and locks in one step (ClaimProvisioningOnGateway).
LEMMA ClaimStep ==
    ASSUME RoutingInv, NEW w \in Placer, ClaimProvisioningOnGateway(w)
    PROVE  RoutingInv'
<1> DEFINE p == placer[w]
           claim == [phase |-> "claimed", session |-> p.session, gateway |-> p.gateway,
                     limit |-> route[p.gateway].max]
<1>1. /\ p.phase = "probed" /\ place' = place /\ route' = route
  BY DEF ClaimProvisioningOnGateway, Waits
<1>2. p.session \in Placed /\ p.version \in Nat /\ p.left \in SUBSET Route /\ p.gateway \in Route
  BY <1>1, PlacerFacts
<1>3. route' \in [Route -> RouteRow]
  BY <1>1 DEF RoutingInv, RoutingTypes
<1>4. PICK lapsed \in BOOLEAN :
        /\ LockCapacity(p.gateway) /\ RowFree(p.session)
        /\ placer' = [placer EXCEPT ![w] =
             IF Assignable(p.session, p.version, p.gateway, lapsed) THEN claim
             ELSE IF place[p.session].status = "provisioning"
                     /\ place[p.session].version = p.version
             THEN NextCandidate(p.session, p.version, p.left)
             ELSE Unengaged]
  BY Zenon DEF ClaimProvisioningOnGateway
<1>5. CASE ~ Assignable(p.session, p.version, p.gateway, lapsed)
  <2>1. CASE placer' = [placer EXCEPT ![w] = NextCandidate(p.session, p.version, p.left)]
    <3>1. /\ NextCandidate(p.session, p.version, p.left) \in PlacerState
          /\ NextCandidate(p.session, p.version, p.left).phase # "claimed"
      BY <1>2, NextCandidateFacts
    <3> QED
      BY <1>1, <1>3, <2>1, <3>1, WorkerMoves, Zenon
  <2>2. CASE placer' = [placer EXCEPT ![w] = Unengaged]
    <3>1. Unengaged \in PlacerState /\ Unengaged.phase # "claimed"
      BY DEF PlacerState, Unengaged
    <3> QED
      BY <1>1, <1>3, <2>2, <3>1, WorkerMoves, Zenon
  <2> QED
    BY <1>4, <1>5, <2>1, <2>2, Zenon
<1>6. CASE Assignable(p.session, p.version, p.gateway, lapsed)
  <2>1. placer' = [placer EXCEPT ![w] = claim]
    BY <1>4, <1>6
  <2>2. claim \in PlacerState /\ claim.phase = "claimed" /\ claim.gateway = p.gateway
        /\ claim.session = p.session /\ claim.limit = route[p.gateway].max
    BY <1>1, <1>2, <1>3 DEF PlacerState, RouteRow
  <2> HIDE DEF claim
  <2>3. placer \in [Placer -> PlacerState] /\ place \in [Placed -> PlaceRow]
    BY DEF RoutingInv, RoutingTypes
  <2>4. placer'[w] = claim /\ \A v \in Placer : v # w => placer'[v] = placer[v]
    BY <2>1, <2>3
  <2>5. RoutingTypes'
    BY <1>1, <1>3, <2>1, <2>2, <2>3 DEF RoutingTypes
  <2>6. \A v \in Placer : v # w /\ Claimed(v) =>
            placer[v].gateway # p.gateway /\ placer[v].session # p.session
    BY <1>4 DEF LockCapacity, RowFree, Claimed
  <2>7. ClaimsApart'
    BY <2>2, <2>4, <2>6 DEF ClaimsApart, Claimed, RoutingInv
  <2>8. Load(p.gateway, p.session) < route[p.gateway].max
    BY <1>6 DEF Assignable
  <2>9. ASSUME NEW v \in Placer, Claimed(v)'
        PROVE  (Load(placer[v].gateway, placer[v].session) < placer[v].limit)'
    <3>1. CASE v = w
      <4>1. placer'[v].gateway = p.gateway /\ placer'[v].session = p.session
            /\ placer'[v].limit = route[p.gateway].max
        BY <2>2, <2>4, <3>1
      <4>2. (Load(placer[v].gateway, placer[v].session))' = Load(p.gateway, p.session)
        BY <1>1, <4>1 DEF Load, Occupies
      <4> QED
        BY <2>8, <4>1, <4>2
    <3>2. CASE v # w
      <4>1. placer'[v] = placer[v] /\ Claimed(v)
        BY <2>4, <2>9, <3>2 DEF Claimed
      <4>2. Load(placer[v].gateway, placer[v].session) < placer[v].limit
        BY <4>1 DEF RoutingInv, RoomIsKept
      <4>3. (Load(placer[v].gateway, placer[v].session))' = Load(placer[v].gateway, placer[v].session)
        BY <1>1, <4>1 DEF Load, Occupies
      <4> QED
        BY <4>1, <4>2, <4>3
    <3> QED
      BY <3>1, <3>2
  <2>10. RoomIsKept'
    BY <2>9 DEF RoomIsKept
  <2> QED
    BY <2>5, <2>7, <2>10 DEF RoutingInv
<1> QED
  BY <1>5, <1>6

\* Sessions change, but none comes to occupy the gateway of an open claim.
LEMMA OthersShrink ==
    ASSUME RoutingInv, RoutingTypes',
           \A v \in Placer : Claimed(v)' => /\ placer'[v] = placer[v]
              /\ Occupants(placer[v].gateway, placer[v].session)'
                   \subseteq Occupants(placer[v].gateway, placer[v].session)
    PROVE  RoutingInv'
<1>1. \A v \in Placer : Claimed(v)' => Claimed(v) /\ placer'[v] = placer[v]
  BY DEF Claimed
<1>2. ClaimsApart'
  BY <1>1 DEF RoutingInv, ClaimsApart
<1>3. ASSUME NEW v \in Placer, Claimed(v)'
      PROVE  (Load(placer[v].gateway, placer[v].session) < placer[v].limit)'
  <2>1. PICK g, s : g = placer[v].gateway /\ s = placer[v].session
    OBVIOUS
  <2>2. placer'[v] = placer[v] /\ Claimed(v)
    BY <1>1, <1>3
  <2>3. Occupants(g, s)' \subseteq Occupants(g, s)
    BY <1>3, <2>1, <2>2 DEF Occupants
  <2>4. Load(g, s)' <= Load(g, s) /\ Load(g, s) \in Nat /\ Load(g, s)' \in Nat
    BY <2>3, LoadShrinks, LoadFacts
  <2>5. Load(g, s) < placer[v].limit /\ placer[v].limit \in Nat
    BY <2>1, <2>2, PlacerFacts DEF RoutingInv, RoomIsKept, Claimed
  <2>6. (Load(placer[v].gateway, placer[v].session))' = Load(g, s)'
    BY <2>1, <2>2 DEF Load
  <2> QED
    BY <2>2, <2>4, <2>5, <2>6
<1>4. RoomIsKept'
  BY <1>3 DEF RoomIsKept
<1> QED
  BY <1>2, <1>4 DEF RoutingInv

\* What a commit does to the rows.
LEMMA CommitFacts ==
    ASSUME RoutingInv, NEW w \in Placer, CommitClaim(w)
    PROVE  /\ Claimed(w) /\ placer[w].session \in Placed /\ placer[w].gateway \in Route
           /\ placer' = [placer EXCEPT ![w] = Unengaged] /\ route' = route
           /\ place' \in [Placed -> PlaceRow]
           /\ place'[placer[w].session].gateway = placer[w].gateway
           /\ \A t \in Placed : t # placer[w].session => place'[t] = place[t]
<1>1. Claimed(w) /\ placer[w].session \in Placed /\ placer[w].gateway \in Route
  BY PlacerFacts DEF CommitClaim, Waits, Claimed
<1>2. PICK s \in Placed : s = placer[w].session
  BY <1>1
<1>3. place' = [place EXCEPT ![s].gateway = placer[w].gateway, ![s].version = @ + 1]
  BY <1>2 DEF CommitClaim
<1>4. place \in [Placed -> PlaceRow]
  BY DEF RoutingInv, RoutingTypes
<1>5. place' \in [Placed -> PlaceRow] /\ place'[s].gateway = placer[w].gateway
      /\ \A t \in Placed : t # s => place'[t] = place[t]
  BY <1>1, <1>3, <1>4 DEF PlaceRow
<1> QED
  BY <1>1, <1>2, <1>5 DEF CommitClaim

LEMMA CommitStep ==
    ASSUME RoutingInv, NEW w \in Placer, CommitClaim(w)
    PROVE  RoutingInv'
<1>1. /\ Claimed(w) /\ placer[w].session \in Placed /\ placer[w].gateway \in Route
      /\ placer' = [placer EXCEPT ![w] = Unengaged] /\ route' = route
      /\ place' \in [Placed -> PlaceRow]
      /\ place'[placer[w].session].gateway = placer[w].gateway
      /\ \A t \in Placed : t # placer[w].session => place'[t] = place[t]
  BY CommitFacts
<1>2. placer \in [Placer -> PlacerState] /\ Unengaged \in PlacerState
  BY DEF RoutingInv, RoutingTypes, PlacerState
<1>3. RoutingTypes'
  BY <1>1, <1>2 DEF RoutingInv, RoutingTypes
<1>4. ASSUME NEW v \in Placer, Claimed(v)'
      PROVE  /\ placer'[v] = placer[v]
             /\ Occupants(placer[v].gateway, placer[v].session)'
                  \subseteq Occupants(placer[v].gateway, placer[v].session)
  <2>1. v # w /\ placer'[v] = placer[v] /\ Claimed(v)
    BY <1>1, <1>2, <1>4 DEF Claimed, Unengaged
  <2>2. placer[v].gateway # placer[w].gateway
    BY <1>1, <2>1 DEF RoutingInv, ClaimsApart
  <2>3. ASSUME NEW t \in Placed, place'[t].gateway = placer[v].gateway, Occupies(t)'
        PROVE  place[t].gateway = placer[v].gateway /\ Occupies(t)
    <3>1. t # placer[w].session
      BY <1>1, <2>2, <2>3
    <3> QED
      BY <1>1, <2>3, <3>1 DEF Occupies
  <2> QED
    BY <2>1, <2>3 DEF Occupants
<1> QED
  BY <1>3, <1>4, OthersShrink

\* After a commit the gateway carries what the claim counted and one more.
LEMMA CommitFits ==
    ASSUME RoutingInv, NEW w \in Placer, CommitClaim(w)
    PROVE  \A g \in Route : g = placer[w].gateway => Load(g, NoSession)' <= placer[w].limit
<1> SUFFICES ASSUME NEW g \in Route, g = placer[w].gateway
             PROVE  Load(g, NoSession)' <= placer[w].limit
  OBVIOUS
<1>1. PICK s \in Placed : s = placer[w].session
  BY CommitFacts
<1>2. Occupants(g, NoSession)' \subseteq Occupants(g, s) \cup {s}
  BY <1>1, CommitFacts DEF Occupants, Occupies
<1>3. Load(g, s) < placer[w].limit /\ placer[w].limit \in Nat
  BY <1>1, CommitFacts, PlacerFacts DEF RoutingInv, RoomIsKept, Claimed
<1>4. /\ IsFiniteSet(Occupants(g, s)) /\ Load(g, s) = Cardinality(Occupants(g, s))
      /\ Load(g, s) \in Nat /\ Load(g, NoSession)' \in Nat
      /\ Load(g, NoSession)' = Cardinality(Occupants(g, NoSession)')
  BY LoadFacts
<1>5. /\ IsFiniteSet(Occupants(g, s) \cup {s})
      /\ Cardinality(Occupants(g, s) \cup {s}) <= Load(g, s) + 1
      /\ Cardinality(Occupants(g, s) \cup {s}) \in Nat
  <2>1. /\ IsFiniteSet(Occupants(g, s) \cup {s})
        /\ Cardinality(Occupants(g, s) \cup {s}) =
             IF s \in Occupants(g, s) THEN Cardinality(Occupants(g, s))
             ELSE Cardinality(Occupants(g, s)) + 1
    BY <1>4, FS_AddElement
  <2> QED
    BY <1>4, <2>1
<1>6. Load(g, NoSession)' <= Cardinality(Occupants(g, s) \cup {s})
  BY <1>2, <1>4, <1>5, FS_Subset
<1> QED
  BY <1>3, <1>4, <1>5, <1>6

\* A session that goes live occupied its place before; one that is over leaves it.
LEMMA TransitionStep ==
    ASSUME RoutingInv, NEW s \in Placed, NEW status \in {"live", "over"}, Transition(s, status)
    PROVE  RoutingInv'
<1>1. place \in [Placed -> PlaceRow]
  BY DEF RoutingInv, RoutingTypes
<1>2. place' = [place EXCEPT ![s].status = status] /\ placer' = placer /\ route' = route
  BY DEF Transition
<1>3. place' \in [Placed -> PlaceRow]
  BY <1>1, <1>2 DEF PlaceRow
<1>4. RoutingTypes'
  BY <1>2, <1>3 DEF RoutingInv, RoutingTypes
<1>5. ASSUME NEW t \in Placed, Occupies(t)'
      PROVE  Occupies(t) /\ place'[t].gateway = place[t].gateway
  <2>1. CASE t # s
    BY <1>1, <1>2, <1>5, <2>1 DEF Occupies
  <2>2. CASE t = s
    <3>1. place'[s].status = status /\ place'[s].gateway = place[s].gateway
      BY <1>1, <1>2 DEF PlaceRow
    <3>2. status = "live"
      BY <1>5, <2>2, <3>1 DEF Occupies
    <3> QED
      BY <2>2, <3>1, <3>2 DEF Transition, Occupies
  <2> QED
    BY <2>1, <2>2
<1>6. \A v \in Placer : Occupants(placer[v].gateway, placer[v].session)'
                          \subseteq Occupants(placer[v].gateway, placer[v].session)
  BY <1>2, <1>5 DEF Occupants
<1> QED
  BY <1>2, <1>4, <1>6, OthersShrink

LEMMA StopStep ==
    ASSUME RoutingInv, NEW w \in Placer, PlacerStops(w)
    PROVE  RoutingInv'
<1>1. Unengaged \in PlacerState /\ Unengaged.phase # "claimed"
  BY DEF PlacerState, Unengaged
<1>2. route' \in [Route -> RouteRow]
  BY DEF PlacerStops, RoutingInv, RoutingTypes
<1> QED
  BY <1>1, <1>2, WorkerMoves, Zenon DEF PlacerStops

\* Administrators and time change gateways and bindings only.
LEMMA GatewaySteps ==
    ASSUME RoutingInv, NEW g, NEW status \in {"enabled", "disabled"}, NEW n \in Capacity,
           \/ UpdateGatewayStatus(g, status) \/ UpdateAssetGatewayBinding(g, status)
           \/ CreateGateway(g, status, n) \/ UpdateGatewayCapacity(g, n)
           \/ BindAssetGateway(g) \/ HeartbeatAges(g)
    PROVE  RoutingInv'
<1>1. route \in [Route -> RouteRow] /\ n \in Nat
  BY RoutingAssumption DEF RoutingInv, RoutingTypes
<1>2. UNCHANGED <<place, placer>>
  BY DEF UpdateGatewayStatus, UpdateAssetGatewayBinding, CreateGateway, UpdateGatewayCapacity,
         BindAssetGateway, HeartbeatAges, Change
<1>3. \/ route' = route
      \/ route' = [route EXCEPT ![g].status = status]
      \/ route' = [route EXCEPT ![g].max = n]
      \/ route' = [route EXCEPT ![g].fresh = FALSE]
      \/ route' = [route EXCEPT ![g] = [status |-> status, fresh |-> FALSE, max |-> n]]
  BY DEF UpdateGatewayStatus, UpdateAssetGatewayBinding, CreateGateway, UpdateGatewayCapacity,
         BindAssetGateway, HeartbeatAges
<1>4. route' \in [Route -> RouteRow]
  <2>1. CASE route' = [route EXCEPT ![g].status = status]
    BY <1>1, <2>1, Zenon DEF RouteRow
  <2>2. CASE route' = [route EXCEPT ![g].max = n]
    BY <1>1, <2>2, Zenon DEF RouteRow
  <2>3. CASE route' = [route EXCEPT ![g].fresh = FALSE]
    BY <1>1, <2>3, Zenon DEF RouteRow
  <2>4. CASE route' = [route EXCEPT ![g] = [status |-> status, fresh |-> FALSE, max |-> n]]
    BY <1>1, <2>4, Zenon DEF RouteRow
  <2> QED
    BY <1>1, <1>3, <2>1, <2>2, <2>3, <2>4
<1> QED
  BY <1>2, <1>4, WorkersAside

LEMMA RoutingStep == RoutingInv /\ [RoutingNext]_routingVars => RoutingInv'
<1> SUFFICES ASSUME RoutingInv, [RoutingNext]_routingVars PROVE RoutingInv'
  OBVIOUS
<1>0. route \in [Route -> RouteRow]
  BY DEF RoutingInv, RoutingTypes
<1>00. PICK one \in Capacity : TRUE
  BY RoutingAssumption, Zenon
<1>1. ASSUME NEW g \in Touched, NEW status \in {"enabled", "disabled"},
             \/ UpdateGatewayStatus(g, status) \/ UpdateAssetGatewayBinding(g, status)
             \/ \E n \in Capacity : CreateGateway(g, status, n)
      PROVE  RoutingInv'
  BY <1>00, <1>1, GatewaySteps
<1>2. ASSUME NEW g \in Touched, NEW n \in Capacity, UpdateGatewayCapacity(g, n) PROVE RoutingInv'
  BY <1>2, GatewaySteps
<1>3. ASSUME NEW g \in Touched, BindAssetGateway(g) \/ HeartbeatAges(g) PROVE RoutingInv'
  BY <1>00, <1>3, GatewaySteps
<1>4. CASE ProbeGateways
  BY <1>0, <1>4, WorkersAside DEF ProbeGateways, Change
<1>5. ASSUME NEW g \in probing, Probed(g) PROVE RoutingInv'
  <2>1. UNCHANGED <<place, placer>>
    BY <1>5 DEF Probed
  <2>2. CASE route' = route
    BY <1>0, <2>1, <2>2, WorkersAside
  <2>3. CASE \E n \in Capacity : RecordHealth(g, n)
    BY <2>1, <2>3, HealthFacts, WorkersAside
  <2> QED
    BY <1>5, <2>2, <2>3 DEF Probed
<1>6. ASSUME NEW r \in rebind, UpdateAssetBinding(r) PROVE RoutingInv'
  BY <1>0, <1>6, WorkersAside DEF UpdateAssetBinding
<1>7. ASSUME UNCHANGED routingVars PROVE RoutingInv'
  BY <1>0, <1>7, WorkersAside DEF routingVars
<1> QED
  BY <1>1, <1>2, <1>3, <1>4, <1>5, <1>6, <1>7, StartStep, ProbeStep, ClaimStep, CommitStep,
     StopStep, TransitionStep DEF RoutingNext

\* The step of CapacityIsKept.
CapacityStep ==
    \A w \in Placer, g \in Route :
        placer[w].phase = "claimed" /\ placer[w].gateway = g /\ placer'[w] = Unengaged
        /\ place' # place => Load(g, NoSession)' <= placer[w].limit

LEMMA OnlyCommitsPlace == RoutingInv /\ [RoutingNext]_routingVars => [CapacityStep]_routingVars
<1> SUFFICES ASSUME RoutingInv, RoutingNext, NEW w \in Placer, NEW g \in Route,
                    placer[w].phase = "claimed", placer[w].gateway = g,
                    placer'[w] = Unengaged, place' # place
             PROVE  Load(g, NoSession)' <= placer[w].limit
  BY DEF CapacityStep
<1>1. placer[w] # Unengaged
  BY DEF Unengaged
<1>2. ASSUME NEW v \in Placer, CommitClaim(v) PROVE v = w
  BY <1>1, <1>2, CommitFacts DEF RoutingInv, RoutingTypes
<1>3. \E v \in Placer : CommitClaim(v)
  BY <1>1, Zenon DEF RoutingNext, UpdateGatewayStatus, UpdateAssetGatewayBinding, CreateGateway,
       UpdateGatewayCapacity, BindAssetGateway, HeartbeatAges, Change, ProbeGateways, Probed,
       UpdateAssetBinding, StartPlacing, probeGateway, ClaimProvisioningOnGateway, PlacerStops,
       Transition
<1> QED
  BY <1>2, <1>3, CommitFits

\* However many workers claim places at the same time, and whatever administrators
\* and probes change meanwhile, a claim never fills a gateway beyond the capacity
\* it read (repository/sessions.go ClaimProvisioningOnGateway), for any number of
\* gateways, sessions and workers.
THEOREM CapacityIsKeptHolds == RoutingSpec => CapacityIsKept
<1>1. RoutingSpec => [][CapacityStep]_routingVars
  BY RoutingInitInv, RoutingStep, OnlyCommitsPlace, PTL DEF RoutingSpec
<1> QED
  BY <1>1 DEF CapacityIsKept, CapacityStep

-----------------------------------------------------------------------------
\* What the access service may conclude from SessionAgent.

Phase == {"new", "granted", "revoked", "settled"}

\* A session whose cleanup is settled has no agent (CloseSession may report it).
SettledIsQuiet == \A s \in Session : phase[s] = "settled" => agent[s] # "up"

\* A revocation is final: after it the grant never comes back, and unless a launch
\* was in flight (LateLaunch) no agent comes up for it.
RevocationIsFinal ==
    \A s \in Session : phase[s] \in {"revoked", "settled"} =>
        /\ phase'[s] \in {"revoked", "settled"}
        /\ agent'[s] = "up" /\ agent[s] # "up" => LateLaunch /\ phase[s] = "revoked"

AgentInv ==
    /\ \A s \in Session : phase[s] \in Phase /\ agent[s] \in {"none", "up", "down"}
    /\ SettledIsQuiet

LEMMA AgentInit == Init => AgentInv
BY DEF Init, AgentInv, SettledIsQuiet, Phase

\* What one session may do in a step.
LEMMA OneSession ==
    ASSUME AgentInv, Next, NEW s \in Session
    PROVE  /\ phase'[s] \in Phase /\ agent'[s] \in {"none", "up", "down"}
           /\ phase'[s] = "settled" => agent'[s] # "up"
           /\ phase[s] \in {"revoked", "settled"} =>
                /\ phase'[s] \in {"revoked", "settled"}
                /\ agent'[s] = "up" /\ agent[s] # "up" => LateLaunch /\ phase[s] = "revoked"
<1> USE DEF AgentInv, SettledIsQuiet, Phase
<1>1. CASE Grant(s) \/ Revoke(s) \/ Settle(s) \/ Repeat(s)
  BY <1>1 DEF Grant, Revoke, Settle, Repeat, Advance
<1>2. CASE Launch(s) \/ Exit(s) \/ Stays(s)
  BY <1>2 DEF Launch, Exit, Stays
<1> QED
  BY <1>1, <1>2 DEF Next

LEMMA AgentStep == AgentInv /\ [Next]_vars => AgentInv' /\ [RevocationIsFinal]_vars
<1> SUFFICES ASSUME AgentInv, [Next]_vars PROVE AgentInv' /\ [RevocationIsFinal]_vars
  OBVIOUS
<1>1. CASE Next
  BY <1>1, OneSession DEF AgentInv, SettledIsQuiet, RevocationIsFinal
<1>2. CASE UNCHANGED vars
  BY <1>2 DEF vars, AgentInv, SettledIsQuiet
<1> QED
  BY <1>1, <1>2

\* No agent runs for a settled session, and a revoked grant never comes back, in
\* every runtime that implements the approved session calls
\* (gateway/session_runtime.go).
THEOREM PromiseIsEnough == Spec => []SettledIsQuiet /\ [][RevocationIsFinal]_vars
<1>1. AgentInv => SettledIsQuiet
  BY DEF AgentInv
<1> QED
  BY <1>1, AgentInit, AgentStep, PTL DEF Spec

-----------------------------------------------------------------------------
\* The catalogue.

CatalogueSpec == CatalogueInit /\ [][CatalogueNext]_catalogueVars

\* The cloud's locks: a job, a busy worker and a CMDB snapshot belong to the
\* source of the asset, and an asset that a locked worker did not find is not there.
CloudInv ==
    /\ DOMAIN worker = SyncWorker
    /\ DOMAIN job = {"status", "revision", "token", "leased"}
    /\ account \in [enabled : BOOLEAN, revision : Nat]
    /\ job.status # "none" => source = "cloud"
    /\ snapshot # NoSnapshot => source = "cmdb"
    /\ \A w \in SyncWorker : worker[w] # Waiting => source = "cloud"
    /\ \A w \in SyncWorker :
        worker[w].phase = "locked" /\ worker[w].seen = "none" => asset.state = "none"
    /\ DiscoveryIsCurrent

\* A form is as old as the configuration it was opened with, and shows it.
FormIsTrue(c) ==
    edit[c].op \in {"form", "update"} =>
        /\ edit[c].form.revision \in 0 .. audit.revision
        /\ edit[c].form.revision = audit.revision /\ audit.revision > 0
            => edit[c].form.ports = audit.ports

\* A saved profile has the row of its port; a deleted asset is disabled.
AssetInv ==
    /\ DOMAIN edit = Clerk /\ DOMAIN ports = Port
    /\ DOMAIN asset = {"state", "status", "type"}
    /\ asset.state = "deleted" => asset.status = "disabled"
    /\ audit.revision \in Nat /\ audit.ports \subseteq Port
    /\ audit.revision = 0 => audit.ports = {}
    /\ \A p \in audit.ports : ports[p] # "none"
    /\ \A c \in Clerk : FormIsTrue(c)
    /\ \A c \in Clerk : edit[c].op = "update" => edit[c].input.ports \subseteq Port

CatalogueInv == CloudInv /\ AssetInv

LEMMA CatalogueInitInv == CatalogueInit => CatalogueInv
<1> SUFFICES ASSUME CatalogueInit PROVE CatalogueInv
  OBVIOUS
<1>1. Waiting.phase = "idle" /\ NoEdit.op = "none"
  BY DEF Waiting, NoEdit
<1>2. CloudInv
  BY <1>1 DEF CatalogueInit, CloudInv, DiscoveryIsCurrent
<1>3. AssetInv
  BY <1>1 DEF CatalogueInit, AssetInv, FormIsTrue
<1> QED
  BY <1>2, <1>3 DEF CatalogueInv

-----------------------------------------------------------------------------
\* What the steps leave alone.

CloudStays == account' = account /\ job' = job /\ worker' = worker

\* Only a row that is not there, or is in service, changes its state.
AssetMoves ==
    /\ DOMAIN asset' = {"state", "status", "type"}
    /\ asset'.state = "deleted" => asset'.status = "disabled"
    /\ asset.state = "deleted" => asset'.state = "deleted"
    /\ asset.state = "none" => asset'.state = "none" \/ source # "cloud"

LEMMA CloudKept ==
    ASSUME CloudInv, CloudStays, AssetMoves, source' = source,
           snapshot' = NoSnapshot \/ source = "cmdb"
    PROVE  CloudInv'
BY DEF CloudInv, CloudStays, AssetMoves, DiscoveryIsCurrent, Waiting

\* A new value of one request.
LEMMA PutIs ==
    ASSUME AssetInv, NEW c \in Clerk, NEW value, Put(c, value)
    PROVE  /\ DOMAIN edit' = Clerk /\ edit'[c] = value
           /\ \A d \in Clerk \ {c} : edit'[d] = edit[d]
BY DEF AssetInv, Put

\* A request that ends, or is about something else than the configuration.
LEMMA PutKeeps ==
    ASSUME AssetInv, NEW c \in Clerk, NEW value, Put(c, value),
           value.op \notin {"form", "update"}, audit' = audit
    PROVE  /\ DOMAIN edit' = Clerk
           /\ \A d \in Clerk : FormIsTrue(d)'
           /\ \A d \in Clerk : edit'[d].op = "update" => edit'[d].input.ports \subseteq Port
<1>1. \A d \in Clerk : edit'[d].op \in {"form", "update"} => edit'[d] = edit[d]
  BY PutIs
<1> QED
  BY <1>1, PutIs DEF AssetInv, FormIsTrue

\* A save makes every open form stale.
LEMMA SaveKeeps ==
    ASSUME AssetInv, edit' = edit, audit'.revision = audit.revision + 1
    PROVE  \A d \in Clerk : FormIsTrue(d)'
BY DEF AssetInv, FormIsTrue

-----------------------------------------------------------------------------
\* Administrators.

AdminStays == source' = source /\ snapshot' = snapshot /\ CloudStays

LEMMA AdminIs ==
    ASSUME UNCHANGED adminVars
    PROVE  AdminStays
BY DEF adminVars, AdminStays, CloudStays

\* An upsert leaves no row out.
LEMMA UpsertKeeps ==
    ASSUME NEW rows, NEW wanted, NEW unwanted, DOMAIN rows = Port
    PROVE  /\ DOMAIN Upsert(rows, wanted, unwanted) = Port
           /\ \A p \in Port : p \in wanted \/ rows[p] # "none" => Upsert(rows, wanted, unwanted)[p] # "none"
BY DEF Upsert

LEMMA CreateAssetStep ==
    ASSUME AssetInv, NEW draft \in Draft, CreateAsset(draft.type, draft.audit)
    PROVE  AssetInv' /\ AdminStays /\ AssetMoves
<1>1. /\ source = "admin" /\ asset.state = "none" /\ edit' = edit
      /\ asset' = [state |-> "live", status |-> "enabled", type |-> draft.type]
  BY DEF CreateAsset
<1>2. AdminStays /\ AssetMoves
  BY <1>1, AdminIs DEF CreateAsset, AssetMoves
<1>3. CASE UNCHANGED <<ports, audit>>
  BY <1>1, <1>2, <1>3 DEF AssetInv, FormIsTrue
<1>4. CASE saveAssetAudit(0, draft.audit, {})
  <2>1. /\ audit' = [revision |-> audit.revision + 1, protocol |-> draft.audit.protocol,
                     ports |-> draft.audit.ports]
        /\ ports' = Upsert(ports, draft.audit.ports, {} \ draft.audit.ports)
    BY <1>4 DEF saveAssetAudit, Save
  <2>2. audit'.revision = audit.revision + 1 /\ audit'.ports = draft.audit.ports
    BY <2>1
  <2>3. draft.audit.ports \subseteq Port
    BY CatalogueAssumption
  <2>4. DOMAIN ports' = Port /\ \A p \in audit'.ports : ports'[p] # "none"
    BY <2>1, <2>2, <2>3, UpsertKeeps DEF AssetInv
  <2>5. \A d \in Clerk : FormIsTrue(d)'
    BY <1>1, <2>2, SaveKeeps
  <2> QED
    BY <1>1, <1>2, <2>2, <2>3, <2>4, <2>5 DEF AssetInv
<1> QED
  BY <1>2, <1>3, <1>4 DEF CreateAsset

LEMMA GetAssetAuditStep ==
    ASSUME AssetInv, NEW c \in Clerk, GetAssetAudit(c)
    PROVE  AssetInv' /\ AdminStays /\ AssetMoves
<1>1. PICK form : /\ form = [revision |-> loadAssetAudit.revision, ports |-> loadAssetAudit.ports]
                  /\ Put(c, [op |-> "form", form |-> form])
  BY DEF GetAssetAudit
<1>2. asset' = asset /\ ports' = ports /\ audit' = audit /\ AdminStays
  BY AdminIs DEF GetAssetAudit
<1>3. /\ form.revision = audit.revision
      /\ audit.revision > 0 => form.ports = audit.ports
  BY <1>1 DEF loadAssetAudit, AssetInv
<1>4. /\ DOMAIN edit' = Clerk /\ edit'[c] = [op |-> "form", form |-> form]
      /\ \A d \in Clerk \ {c} : edit'[d] = edit[d]
  BY <1>1, PutIs
<1>5. FormIsTrue(c)' /\ edit'[c].op # "update"
  BY <1>2, <1>3, <1>4 DEF FormIsTrue, AssetInv
<1> QED
  BY <1>2, <1>4, <1>5 DEF AssetInv, AssetMoves, FormIsTrue

LEMMA RejectStep ==
    ASSUME AssetInv, NEW c \in Clerk, Reject(c), AdminStays
    PROVE  AssetInv' /\ AssetMoves
<1>1. Put(c, NoEdit) /\ NoEdit.op = "none" /\ UNCHANGED <<asset, ports, audit>>
  BY DEF Reject, NoEdit
<1> QED
  BY <1>1, PutKeeps DEF AssetInv, AssetMoves

LEMMA UpdateAssetStep ==
    ASSUME AssetInv, NEW c \in Clerk, NEW draft \in Draft, UpdateAsset(c, draft.type, draft.audit)
    PROVE  AssetInv' /\ AdminStays /\ AssetMoves
<1>1. edit[c].op = "form" /\ AdminStays
  BY AdminIs DEF UpdateAsset
<1>2. CASE Reject(c)
  BY <1>1, <1>2, RejectStep
<1>3. CASE ~ Reject(c)
  <2>1. PICK value :
            /\ value.op = "update" /\ value.form = edit[c].form /\ value.input = draft.audit
            /\ Put(c, value) /\ UNCHANGED <<asset, ports, audit>>
    BY <1>3 DEF UpdateAsset
  <2>2. draft.audit.ports \subseteq Port
    BY CatalogueAssumption
  <2>3. /\ DOMAIN edit' = Clerk /\ edit'[c] = value
        /\ \A d \in Clerk \ {c} : edit'[d] = edit[d]
    BY <2>1, PutIs
  <2>4. FormIsTrue(c)'
    BY <1>1, <2>1, <2>3 DEF FormIsTrue, AssetInv
  <2> QED
    BY <1>1, <2>1, <2>2, <2>3, <2>4 DEF AssetInv, AssetMoves, FormIsTrue
<1> QED
  BY <1>2, <1>3

\* The transaction of an update saves the form it was read with, or nothing.
LEMMA UpdateConfigurationStep ==
    ASSUME AssetInv, NEW c \in Clerk, UpdateConfiguration(c)
    PROVE  AssetInv' /\ AdminStays /\ AssetMoves
<1>1. edit[c].op = "update" /\ AdminStays
  BY AdminIs DEF UpdateConfiguration
<1>2. CASE Reject(c)
  BY <1>1, <1>2, RejectStep
<1>3. CASE ~ Reject(c)
  <2>1. /\ asset.state = "live" /\ asset' = [asset EXCEPT !.type = edit[c].type] /\ Put(c, NoEdit)
        /\ \/ UNCHANGED <<ports, audit>>
           \/ saveAssetAudit(edit[c].form.revision, edit[c].input, edit[c].previous)
    BY <1>3 DEF UpdateConfiguration
  <2>2. AssetMoves /\ asset'.state = "live"
    BY <2>1 DEF AssetInv, AssetMoves
  <2>3. CASE UNCHANGED <<ports, audit>>
    <3>1. NoEdit.op = "none"
      BY DEF NoEdit
    <3> QED
      BY <1>1, <2>1, <2>2, <2>3, <3>1, PutKeeps DEF AssetInv, AssetMoves
  <2>4. CASE saveAssetAudit(edit[c].form.revision, edit[c].input, edit[c].previous)
    <3> DEFINE input == edit[c].input
    <3>1. /\ audit' = [revision |-> audit.revision + 1, protocol |-> input.protocol, ports |-> input.ports]
          /\ ports' = Upsert(ports, input.ports, edit[c].previous \ input.ports)
      BY <2>4 DEF saveAssetAudit, Save
    <3>2. audit'.revision = audit.revision + 1 /\ audit'.ports = input.ports /\ input.ports \subseteq Port
      BY <1>1, <3>1 DEF AssetInv
    <3>3. DOMAIN ports' = Port /\ \A p \in audit'.ports : ports'[p] # "none"
      BY <3>1, <3>2, UpsertKeeps DEF AssetInv
    <3>4. /\ DOMAIN edit' = Clerk /\ edit'[c].op = "none"
          /\ \A d \in Clerk \ {c} : edit'[d] = edit[d]
      BY <2>1, PutIs DEF NoEdit
    <3>5. \A d \in Clerk : FormIsTrue(d)'
      BY <3>2, <3>4 DEF AssetInv, FormIsTrue
    <3>6. \A d \in Clerk : edit'[d].op = "update" => edit'[d].input.ports \subseteq Port
      BY <3>4 DEF AssetInv
    <3> QED
      BY <1>1, <2>2, <3>2, <3>3, <3>4, <3>5, <3>6 DEF AssetInv, AssetMoves
  <2> QED
    BY <2>1, <2>3, <2>4
<1> QED
  BY <1>2, <1>3

\* The requests about the status and about one port.
LEMMA RequestStep ==
    ASSUME AssetInv, NEW c \in Clerk,
           \/ \E status \in {"enabled", "disabled"} : UpdateAssetStatus(c, status)
           \/ \E port \in Port : CreateAssetPort(c, port)
           \/ UpdateStatus(c) \/ CreatePort(c)
    PROVE  AssetInv' /\ AdminStays /\ AssetMoves
<1>1. AdminStays
  BY AdminIs DEF UpdateAssetStatus, CreateAssetPort, UpdateStatus, CreatePort
<1>2. CASE Reject(c)
  BY <1>1, <1>2, RejectStep
<1>3. CASE ~ Reject(c)
  <2>1. PICK value : Put(c, value) /\ value.op \notin {"form", "update"}
    <3>1. \/ \E status \in {"enabled", "disabled"} : Put(c, [op |-> "status", status |-> status])
          \/ \E port \in Port : Put(c, [op |-> "port", port |-> port])
          \/ Put(c, NoEdit)
      BY <1>3 DEF UpdateAssetStatus, CreateAssetPort, UpdateStatus, CreatePort
    <3>2. CASE Put(c, NoEdit)
      BY <3>2 DEF NoEdit
    <3>3. ASSUME NEW status, Put(c, [op |-> "status", status |-> status])
          PROVE  \E value : Put(c, value) /\ value.op \notin {"form", "update"}
      <4> WITNESS [op |-> "status", status |-> status]
      <4> QED BY <3>3
    <3>4. ASSUME NEW port, Put(c, [op |-> "port", port |-> port])
          PROVE  \E value : Put(c, value) /\ value.op \notin {"form", "update"}
      <4> WITNESS [op |-> "port", port |-> port]
      <4> QED BY <3>4
    <3> QED
      BY <3>1, <3>2, <3>3, <3>4, Zenon
  <2>2. audit' = audit
    BY <1>3 DEF UpdateAssetStatus, CreateAssetPort, UpdateStatus, CreatePort
  <2>3. AssetMoves
    BY <1>3 DEF UpdateAssetStatus, CreateAssetPort, UpdateStatus, CreatePort, AssetInv, AssetMoves
  <2>4. DOMAIN ports' = Port /\ \A p \in Port : ports[p] # "none" => ports'[p] # "none"
    BY <1>3 DEF UpdateAssetStatus, CreateAssetPort, UpdateStatus, CreatePort, AssetInv
  <2> QED
    BY <1>1, <2>1, <2>2, <2>3, <2>4, PutKeeps DEF AssetInv, AssetMoves
<1> QED
  BY <1>2, <1>3

\* A deleted port takes its profile with it.
LEMMA DeleteStep ==
    ASSUME AssetInv, (\E port \in Port : DeleteAssetPort(port)) \/ DeleteAsset
    PROVE  AssetInv' /\ AdminStays /\ AssetMoves
<1>1. AdminStays /\ edit' = edit
  BY AdminIs DEF DeleteAssetPort, DeleteAsset
<1>2. CASE DeleteAsset
  BY <1>1, <1>2 DEF DeleteAsset, AssetInv, AssetMoves, FormIsTrue
<1>3. ASSUME NEW port \in Port, DeleteAssetPort(port)
      PROVE  AssetInv' /\ AdminStays /\ AssetMoves
  <2>1. /\ asset' = asset /\ DOMAIN ports' = Port
        /\ \A p \in Port \ {port} : ports'[p] = ports[p]
    BY <1>3 DEF DeleteAssetPort, AssetInv
  <2>2. AssetMoves
    BY <2>1 DEF AssetInv, AssetMoves
  <2>3. CASE audit.revision = 0 \/ port \notin audit.ports
    <3>1. audit' = audit
      BY <1>3, <2>3 DEF DeleteAssetPort, removeAssetPortAudit
    <3>2. port \notin audit.ports
      BY <2>3 DEF AssetInv
    <3> QED
      BY <1>1, <2>1, <2>2, <3>1, <3>2 DEF AssetInv, FormIsTrue
  <2>4. CASE ~ (audit.revision = 0 \/ port \notin audit.ports)
    <3>1. Save(audit.revision, [audit EXCEPT !.ports = @ \ {port}])
      BY <1>3, <2>4 DEF DeleteAssetPort, removeAssetPortAudit
    <3>2. audit'.revision = audit.revision + 1 /\ audit'.ports = audit.ports \ {port}
      BY <3>1 DEF Save, AssetInv
    <3>3. \A d \in Clerk : FormIsTrue(d)'
      BY <1>1, <3>2, SaveKeeps
    <3> QED
      BY <1>1, <2>1, <2>2, <3>2, <3>3 DEF AssetInv
  <2> QED
    BY <2>3, <2>4
<1> QED
  BY <1>2, <1>3

-----------------------------------------------------------------------------
\* The CMDB.

LEMMA CMDBStep ==
    ASSUME CatalogueInv, (\E external \in Listing : SyncCMDB(external)) \/ UpsertExternal
    PROVE  CatalogueInv' /\ AssetMoves
<1>1. CloudInv /\ AssetInv /\ source' = source /\ CloudStays /\ edit' = edit /\ audit' = audit
  BY DEF CatalogueInv, SyncCMDB, UpsertExternal, cloudVars, CloudStays
<1>2. source = "cmdb"
  BY <1>1 DEF SyncCMDB, UpsertExternal, CloudInv
<1>3. AssetMoves
  BY <1>1, <1>2 DEF SyncCMDB, UpsertExternal, Upsertable, AssetInv, AssetMoves
<1>4. DOMAIN ports' = Port /\ \A p \in Port : ports[p] # "none" => ports'[p] # "none"
  <2>1. \/ ports' = ports
        \/ ports' = Upsert(ports, snapshot.external.ports, Port \ snapshot.external.ports)
    BY DEF SyncCMDB, UpsertExternal
  <2> QED
    BY <1>1, <2>1, UpsertKeeps DEF AssetInv
<1>5. CloudInv'
  BY <1>1, <1>2, <1>3, CloudKept
<1>6. AssetInv'
  BY <1>1, <1>3, <1>4 DEF AssetInv, AssetMoves, FormIsTrue
<1> QED
  BY <1>3, <1>5, <1>6 DEF CatalogueInv

-----------------------------------------------------------------------------
\* The cloud.

\* The account and its jobs: neither is written while a worker holds their locks.
LEMMA AccountStep ==
    ASSUME CloudInv,
           \/ \E enabled \in BOOLEAN : SaveCloudAccount(enabled)
           \/ QueueCloudSync \/ LeaseExpires \/ validateCloudDestinations
    PROVE  CloudInv' /\ UNCHANGED <<asset, ports, audit, edit>>
<1>1. UNCHANGED <<source, asset, ports, audit, edit, snapshot, worker>>
  BY DEF SaveCloudAccount, QueueCloudSync, LeaseExpires, validateCloudDestinations
<1>2. account' \in [enabled : BOOLEAN, revision : Nat]
  BY DEF SaveCloudAccount, QueueCloudSync, LeaseExpires, validateCloudDestinations, CloudInv
<1>3. /\ DOMAIN job' = {"status", "revision", "token", "leased"}
      /\ job'.status # "none" => source = "cloud"
  BY DEF SaveCloudAccount, QueueCloudSync, LeaseExpires, validateCloudDestinations, CloudInv
<1>4. Locked => account' = account /\ job'.status = job.status /\ job'.token = job.token
  BY DEF SaveCloudAccount, QueueCloudSync, LeaseExpires, validateCloudDestinations, CloudInv
<1>5. DiscoveryIsCurrent'
  BY <1>1, <1>4 DEF Locked, CloudInv, DiscoveryIsCurrent
<1> QED
  BY <1>1, <1>2, <1>3, <1>5 DEF CloudInv, Waiting

\* A new phase of one worker.
LEMMA StepIs ==
    ASSUME CloudInv, NEW w \in SyncWorker, NEW value, Step(w, value)
    PROVE  /\ DOMAIN worker' = SyncWorker /\ worker'[w] = value
           /\ \A x \in SyncWorker \ {w} : worker'[x] = worker[x]
BY DEF CloudInv, Step

\* Before a worker locks the account and the job.
LEMMA ClaimJobStep ==
    ASSUME CloudInv, NEW w \in SyncWorker, ClaimJob(w)
    PROVE  CloudInv' /\ UNCHANGED <<asset, ports, audit, edit>>
<1>1. /\ UNCHANGED <<source, asset, ports, audit, edit, snapshot, account>>
      /\ ~ Locked /\ job.status \in {"queued", "running"}
      /\ job' = [job EXCEPT !.status = "running", !.token = w, !.leased = TRUE]
      /\ Step(w, [phase |-> "claimed", revision |-> job.revision])
  BY DEF ClaimJob
<1>2. source = "cloud" /\ DOMAIN job' = {"status", "revision", "token", "leased"}
  BY <1>1 DEF CloudInv
<1>3. /\ DOMAIN worker' = SyncWorker /\ worker'[w].phase = "claimed"
      /\ \A x \in SyncWorker \ {w} : worker'[x] = worker[x]
  BY <1>1, StepIs
<1>4. \A x \in SyncWorker : worker'[x].phase # "locked"
  BY <1>1, <1>3 DEF Locked
<1> QED
  BY <1>1, <1>2, <1>3, <1>4 DEF CloudInv, DiscoveryIsCurrent, Waiting

LEMMA DiscoverStep ==
    ASSUME CloudInv, NEW w \in SyncWorker, Discover(w)
    PROVE  CloudInv' /\ UNCHANGED <<asset, ports, audit, edit>>
<1>1. /\ UNCHANGED <<source, asset, ports, audit, edit, snapshot, account, job>>
      /\ worker[w].phase = "claimed" /\ Step(w, [worker[w] EXCEPT !.phase = "discovered"])
  BY DEF Discover
<1>2. source = "cloud"
  BY <1>1 DEF CloudInv, Waiting
<1>3. /\ DOMAIN worker' = SyncWorker
      /\ worker'[w] = [worker[w] EXCEPT !.phase = "discovered"]
      /\ \A x \in SyncWorker \ {w} : worker'[x] = worker[x]
  BY <1>1, StepIs
<1>4. /\ worker'[w].phase # "locked" /\ DOMAIN worker' = SyncWorker
      /\ \A x \in SyncWorker \ {w} : worker'[x] = worker[x]
  BY <1>1, <1>3
<1> QED
  BY <1>1, <1>2, <1>4 DEF CloudInv, DiscoveryIsCurrent

\* What the lock makes sure of.
LEMMA ApplyStep ==
    ASSUME CloudInv, NEW w \in SyncWorker, applyCloudSync(w)
    PROVE  CloudInv' /\ UNCHANGED <<asset, ports, audit, edit>>
<1>1. /\ UNCHANGED <<source, asset, ports, audit, edit, snapshot, account, job>>
      /\ worker[w].phase = "discovered" /\ ~ Locked /\ StillCurrent(w) /\ LockJob(w)
      /\ Step(w, [phase |-> "locked", revision |-> worker[w].revision, seen |-> asset.state])
  BY DEF applyCloudSync
<1>2. source = "cloud"
  BY <1>1 DEF CloudInv, Waiting
<1>3. /\ DOMAIN worker' = SyncWorker
      /\ worker'[w].revision = worker[w].revision /\ worker'[w].seen = asset.state
      /\ \A x \in SyncWorker \ {w} : worker'[x] = worker[x]
  BY <1>1, StepIs
<1>4. account = [enabled |-> TRUE, revision |-> worker[w].revision]
  BY <1>1 DEF CloudInv, StillCurrent
<1>5. DiscoveryIsCurrent'
  BY <1>1, <1>3, <1>4 DEF Locked, LockJob, DiscoveryIsCurrent
<1> QED
  BY <1>1, <1>2, <1>3, <1>5 DEF CloudInv, Locked

\* A worker that is done: the job it ends is its own.
LEMMA DoneStep ==
    ASSUME CloudInv, NEW w \in SyncWorker, Step(w, Waiting),
           UNCHANGED <<source, snapshot, account>>,
           job' = job \/ \E status \in {"success", "failed"} : FinishJob(w, status),
           asset' = asset \/ (worker[w].phase = "locked")
    PROVE  CloudInv'
<1>1. /\ DOMAIN worker' = SyncWorker /\ worker'[w] = Waiting /\ Waiting.phase = "idle"
      /\ \A x \in SyncWorker \ {w} : worker'[x] = worker[x]
  BY StepIs DEF Waiting
<1>2. /\ DOMAIN job' = {"status", "revision", "token", "leased"}
      /\ job.status = "none" => job'.status = "none"
      /\ job.token # w => job' = job
  BY DEF FinishJob, CloudInv
<1>3. \A x \in SyncWorker : worker'[x].phase = "locked" =>
          worker'[x] = worker[x] /\ job.token = x /\ x # w /\ job' = job /\ asset' = asset
  BY <1>1, <1>2 DEF CloudInv, DiscoveryIsCurrent
<1>4. DiscoveryIsCurrent'
  BY <1>3 DEF CloudInv, DiscoveryIsCurrent
<1> QED
  BY <1>1, <1>2, <1>3, <1>4 DEF CloudInv

\* Nobody but a worker that found nothing brings the asset of the cloud in.
LEMMA WorkerStep ==
    ASSUME CatalogueInv, NEW w \in SyncWorker,
           runCloudSync(w) \/ ProcessCloudSync(w) \/ WorkerStops(w)
    PROVE  CatalogueInv' /\ (asset.state = "deleted" => asset' = asset)
<1>1. CloudInv /\ AssetInv
  BY DEF CatalogueInv
<1>2. CloudInv'
  <2>1. /\ Step(w, Waiting) /\ UNCHANGED <<source, snapshot, account>>
        /\ job' = job \/ \E status \in {"success", "failed"} : FinishJob(w, status)
        /\ asset' = asset \/ worker[w].phase = "locked"
    BY DEF runCloudSync, ProcessCloudSync, WorkerStops
  <2> QED
    BY <1>1, <2>1, DoneStep
<1>3. audit' = audit /\ edit' = edit
  BY DEF runCloudSync, ProcessCloudSync, WorkerStops
<1>4. CASE UNCHANGED <<asset, ports>>
  BY <1>1, <1>2, <1>3, <1>4 DEF CatalogueInv, AssetInv, FormIsTrue
<1>5. CASE /\ worker[w].phase = "locked" /\ worker[w].seen = "none"
           /\ asset' = [state |-> "live", status |-> "enabled", type |-> "ecs"]
           /\ ports' = [p \in Port |-> "enabled"]
  <2>1. asset.state = "none"
    BY <1>1, <1>5 DEF CloudInv
  <2>2. AssetInv'
    BY <1>1, <1>3, <1>5 DEF AssetInv, FormIsTrue
  <2> QED
    BY <1>2, <2>1, <2>2 DEF CatalogueInv
<1> QED
  BY <1>4, <1>5 DEF runCloudSync, ProcessCloudSync, WorkerStops

-----------------------------------------------------------------------------
\* An administrator's step.
LEMMA AdminStep ==
    ASSUME AssetInv,
           \/ \E draft \in Draft : CreateAsset(draft.type, draft.audit)
           \/ \E c \in Clerk : GetAssetAudit(c) \/ UpdateConfiguration(c) \/ UpdateStatus(c) \/ CreatePort(c)
           \/ \E c \in Clerk, draft \in Draft : UpdateAsset(c, draft.type, draft.audit)
           \/ \E c \in Clerk, status \in {"enabled", "disabled"} : UpdateAssetStatus(c, status)
           \/ \E c \in Clerk, port \in Port : CreateAssetPort(c, port)
           \/ \E port \in Port : DeleteAssetPort(port)
           \/ DeleteAsset
    PROVE  AssetInv' /\ AdminStays /\ AssetMoves
BY CreateAssetStep, GetAssetAuditStep, UpdateAssetStep, UpdateConfigurationStep, RequestStep,
   DeleteStep, Zenon

LEMMA CatalogueStep ==
    ASSUME CatalogueInv, [CatalogueNext]_catalogueVars
    PROVE  CatalogueInv' /\ (asset.state = "deleted" => asset'.state = "deleted")
<1>1. CloudInv /\ AssetInv
  BY DEF CatalogueInv
<1>2. CASE AssetInv' /\ AdminStays /\ AssetMoves
  <2>1. CloudInv'
    BY <1>1, <1>2, CloudKept DEF AdminStays, CloudInv
  <2> QED
    BY <1>2, <2>1 DEF CatalogueInv, AssetMoves
<1>3. CASE CloudInv' /\ UNCHANGED <<asset, ports, audit, edit>>
  BY <1>1, <1>3 DEF CatalogueInv, AssetInv, FormIsTrue
<1>4. CASE UNCHANGED catalogueVars
  BY <1>1, <1>4 DEF CatalogueInv, CloudInv, AssetInv, FormIsTrue, DiscoveryIsCurrent, catalogueVars
<1>5. CASE (\E external \in Listing : SyncCMDB(external)) \/ UpsertExternal
  BY <1>5, CMDBStep DEF AssetMoves
<1>6. ASSUME NEW w \in SyncWorker, runCloudSync(w) \/ ProcessCloudSync(w) \/ WorkerStops(w)
      PROVE  CatalogueInv' /\ (asset.state = "deleted" => asset'.state = "deleted")
  BY <1>6, WorkerStep
<1>7. ASSUME NEW w \in SyncWorker, ClaimJob(w) \/ Discover(w) \/ applyCloudSync(w)
      PROVE  CloudInv' /\ UNCHANGED <<asset, ports, audit, edit>>
  BY <1>1, <1>7, ClaimJobStep, DiscoverStep, ApplyStep, Zenon
<1>8. CASE CatalogueNext
  BY <1>1, <1>2, <1>3, <1>5, <1>6, <1>7, <1>8, AdminStep, AccountStep, Zenon DEF CatalogueNext
<1> QED
  BY <1>4, <1>8

LEMMA CatalogueInvariant == CatalogueSpec => []CatalogueInv
<1>1. CatalogueInv /\ [CatalogueNext]_catalogueVars => CatalogueInv'
  BY CatalogueStep
<1> QED
  BY <1>1, CatalogueInitInv, PTL DEF CatalogueSpec

\* What a cloud account answered is written only while the account is enabled and
\* the one that was asked, by the worker whose lease the job has (runCloudSync),
\* for any number of workers, saves of the account, claims and lost leases.
THEOREM DiscoveryIsCurrentHolds == CatalogueSpec => []DiscoveryIsCurrent
<1>1. CatalogueInv => DiscoveryIsCurrent
  BY DEF CatalogueInv, CloudInv
<1> QED
  BY <1>1, CatalogueInvariant, PTL

\* The transaction of UpdateAsset writes a saved profile only of a port that is there.
LEMMA PortStays ==
    ASSUME CatalogueInv, [CatalogueNext]_catalogueVars, NEW c \in Clerk,
           edit[c].op = "update", edit'[c] = NoEdit, audit' # audit, edit[c].form.revision > 0,
           NEW p \in edit[c].form.ports \cap edit[c].input.ports
    PROVE  ports[p] # "none"
<1>1. AssetInv /\ edit'[c] # edit[c]
  BY DEF CatalogueInv, NoEdit
<1>2. edit' # edit
  BY <1>1
<1>3. \E d \in Clerk : UpdateConfiguration(d)
  BY <1>2 DEF CatalogueNext, catalogueVars, CreateAsset, GetAssetAudit, UpdateAsset,
     Reject, UpdateAssetStatus, UpdateStatus, CreateAssetPort, CreatePort, DeleteAssetPort, DeleteAsset,
     SyncCMDB, UpsertExternal, SaveCloudAccount, QueueCloudSync, ClaimJob, LeaseExpires, Discover,
     applyCloudSync, runCloudSync, ProcessCloudSync, WorkerStops, validateCloudDestinations
<1>4. PICK d \in Clerk : UpdateConfiguration(d)
  BY <1>3
<1>5. \E value : Put(d, value)
  BY <1>4 DEF UpdateConfiguration, Reject
<1>6. d = c
  BY <1>1, <1>5, PutIs
<1>7. Save(edit[c].form.revision, edit[c].input)
  BY <1>4, <1>6 DEF UpdateConfiguration, Reject, saveAssetAudit
<1>8. edit[c].form.revision = audit.revision
  BY <1>7 DEF Save, Expected
<1> QED
  BY <1>1, <1>8 DEF AssetInv, FormIsTrue

\* Neither a request that was on its way, nor a CMDB snapshot, nor a cloud job
\* brings a deleted asset back, and no edit brings back the deleted port of a
\* profile that its form was opened with (service/assets.go, asset_audit.go,
\* cmdb.go, cloud_sync.go), for any number of requests, workers and ports.
THEOREM DeletionsHoldAlways == CatalogueSpec => DeletionsHold
<1>1. CatalogueInv /\ [CatalogueNext]_catalogueVars =>
        [asset.state = "deleted" => asset'.state = "deleted" /\ asset'.status = "disabled"]_catalogueVars
  BY CatalogueStep DEF CatalogueInv, AssetInv
<1>2. CatalogueInv /\ [CatalogueNext]_catalogueVars =>
        [\A c \in Clerk :
            /\ edit[c].op = "update" /\ edit'[c] = NoEdit
            /\ audit' # audit /\ edit[c].form.revision > 0
            => \A p \in edit[c].form.ports \cap edit[c].input.ports : ports[p] # "none"]_catalogueVars
  BY PortStays, Zenon
<1> QED
  BY <1>1, <1>2, CatalogueInvariant, PTL DEF CatalogueSpec, DeletionsHold, DeletedIsFinal,
     DeletedPortStaysDeleted

-----------------------------------------------------------------------------
\* The console's streams.

RealtimeSpec == RealtimeInit /\ [][RealtimeNext]_realtimeVars

Notification == [topic : {"audit", "identity"}, user : Viewer \cup {""}, permission : {"", "audit:read"}]

\* A queue has a change of this topic for the viewer.
Sends(queue, v, topic) ==
    \E n \in 1 .. Len(queue) : queue[n].topic = topic /\ queue[n].user \in {"", v}

\* While the listener is not connected the hub has no clients and takes none.
HubInv ==
    /\ wire \in Seq(Notification) /\ events \in [Viewer -> Seq(Notification)]
    /\ DOMAIN access = Viewer /\ DOMAIN stream = Viewer
    /\ \A v \in Viewer : DOMAIN access[v] = {"active", "audit"} /\ DOMAIN stream[v] = {"at", "audit", "seen"}
    /\ written \in Nat
    /\ listener \in {"listening", "lost", "down", "connected"}
    /\ listener \in {"down", "connected"} => ~ available /\ clients = {}
    /\ clients \subseteq Viewer

\* The viewer was active when the stream looked, or something tells it otherwise.
CheckedIsActive(v) ==
    stream[v].at = "checked" => CutOff(v) \/ OnItsWay(v, "identity") \/ access[v].active

MissesNothing(v) ==
    stream[v].at \in {"loaded", "open"} =>
        \/ CutOff(v) \/ OnItsWay(v, "identity")
        \/ /\ access[v].active /\ stream[v].audit = access[v].audit
           /\ stream[v].at = "open" /\ stream[v].audit /\ stream[v].seen < written
                => OnItsWay(v, "audit")

ViewersInv == \A v \in Viewer : CheckedIsActive(v) /\ MissesNothing(v)

RealtimeInv == HubInv /\ ViewersInv

\* What a step may take from a stream that it does not concern.
Steady(v) ==
    /\ stream'[v] = stream[v]
    /\ CutOff(v) => CutOff(v)'
    /\ OnItsWay(v, "identity") => OnItsWay(v, "identity")' \/ CutOff(v)'
    /\ OnItsWay(v, "audit") => OnItsWay(v, "audit")' \/ CutOff(v)'

-----------------------------------------------------------------------------
\* Queues.

LEMMA OnItsWayIs ==
    ASSUME NEW v \in Viewer, NEW topic
    PROVE  OnItsWay(v, topic) <=> Sends(wire, v, topic) \/ Sends(events[v], v, topic)
BY Zenon DEF OnItsWay, Sends

LEMMA OnItsWayThen ==
    ASSUME NEW v \in Viewer, NEW topic
    PROVE  OnItsWay(v, topic)' <=> Sends(wire', v, topic) \/ Sends(events'[v], v, topic)
BY Zenon DEF OnItsWay, Sends

LEMMA SendsAppend ==
    ASSUME NEW queue \in Seq(Notification), NEW change \in Notification, NEW v, NEW topic,
           Sends(queue, v, topic) \/ (change.topic = topic /\ change.user \in {"", v})
    PROVE  Sends(Append(queue, change), v, topic)
<1> DEFINE longer == Append(queue, change)
<1>3. /\ Len(queue) + 1 \in 1 .. Len(longer)
      /\ longer[Len(queue) + 1] = change
      /\ \A n \in 1 .. Len(queue) : n \in 1 .. Len(longer) /\ longer[n] = queue[n]
  BY ONLY queue \in Seq(Notification), change \in Notification, SMT
<1> HIDE DEF longer
<1>1. CASE Sends(queue, v, topic)
  <2>1. PICK n \in 1 .. Len(queue) : queue[n].topic = topic /\ queue[n].user \in {"", v}
    BY <1>1, Zenon DEF Sends
  <2>2. n \in 1 .. Len(longer) /\ longer[n] = queue[n]
    BY <1>3, <2>1, Zenon
  <2>3. Sends(longer, v, topic)
    BY <2>1, <2>2, Zenon DEF Sends
  <2> QED
    BY <2>3, Zenon DEF longer
<1>2. CASE change.topic = topic /\ change.user \in {"", v}
  <2>1. Sends(longer, v, topic)
    BY <1>2, <1>3, Zenon DEF Sends
  <2> QED
    BY <2>1, Zenon DEF longer
<1> QED
  BY <1>1, <1>2

LEMMA SendsTail ==
    ASSUME NEW queue \in Seq(Notification), queue # <<>>, NEW v, NEW topic, Sends(queue, v, topic)
    PROVE  \/ Head(queue).topic = topic /\ Head(queue).user \in {"", v}
           \/ Sends(Tail(queue), v, topic)
<1>1. PICK n \in 1 .. Len(queue) : queue[n].topic = topic /\ queue[n].user \in {"", v}
  BY DEF Sends
<1>2. CASE n = 1
  <2>1. Head(queue) = queue[1]
    OBVIOUS
  <2> QED
    BY <1>1, <1>2, <2>1, Zenon
<1>3. CASE n # 1
  <2>1. n - 1 \in 1 .. Len(Tail(queue)) /\ Tail(queue)[n - 1] = queue[n]
    BY <1>3
  <2> QED
    BY <1>1, <2>1, Zenon DEF Sends
<1> QED
  BY <1>2, <1>3

LEMMA QueueTypes ==
    ASSUME NEW queue \in Seq(Notification)
    PROVE  /\ \A change \in Notification : Append(queue, change) \in Seq(Notification)
           /\ queue # <<>> => Head(queue) \in Notification /\ Tail(queue) \in Seq(Notification)
OBVIOUS

\* A stream that a step does not concern misses nothing.
LEMMA SteadyKeeps ==
    ASSUME ViewersInv, NEW v \in Viewer, Steady(v), access'[v] = access[v], written' = written
    PROVE  CheckedIsActive(v)' /\ MissesNothing(v)'
<1>1. CheckedIsActive(v)'
  BY Zenon DEF ViewersInv, Steady, CheckedIsActive
<1>2. MissesNothing(v)'
  BY Zenon DEF ViewersInv, Steady, MissesNothing
<1> QED
  BY <1>1, <1>2

-----------------------------------------------------------------------------
\* Commits.

LEMMA EmitStep ==
    ASSUME HubInv, NEW change \in Notification, access_gateway_emit(change)
    PROVE  /\ wire' \in Seq(Notification)
           /\ \A v \in Viewer : Steady(v)
           /\ \A v \in Viewer : change.user \in {"", v} => OnItsWay(v, change.topic)' \/ CutOff(v)'
<1>1. /\ UNCHANGED <<listener, available, clients, events, stream>>
      /\ wire' = IF listener \in {"listening", "connected"} THEN Append(wire, change) ELSE wire
  BY DEF access_gateway_emit
<1>2. wire \in Seq(Notification)
  BY DEF HubInv
<1>3. wire' \in Seq(Notification)
  BY <1>1, <1>2, QueueTypes, Zenon
<1>4. ASSUME NEW v \in Viewer, NEW topic, OnItsWay(v, topic)
      PROVE  OnItsWay(v, topic)'
  BY <1>1, <1>2, <1>4, OnItsWayIs, OnItsWayThen, SendsAppend, Zenon
<1>5. ASSUME NEW v \in Viewer PROVE Steady(v)
  BY <1>1, <1>4, Zenon DEF Steady, CutOff
<1>6. ASSUME NEW v \in Viewer, change.user \in {"", v}
      PROVE  OnItsWay(v, change.topic)' \/ CutOff(v)'
  <2>1. CASE listener \in {"listening", "connected"}
    BY <1>1, <1>2, <1>6, <2>1, OnItsWayThen, SendsAppend, Zenon
  <2>2. CASE listener \notin {"listening", "connected"}
    <3>1. listener = "lost" \/ clients = {}
      BY <2>2 DEF HubInv
    <3> QED
      BY <1>1, <3>1 DEF CutOff
  <2> QED
    BY <2>1, <2>2
<1> QED
  BY <1>3, <1>5, <1>6

LEMMA AuditCommitStep ==
    ASSUME RealtimeInv, commitAudit
    PROVE  RealtimeInv'
<1> DEFINE change == [topic |-> "audit", user |-> "", permission |-> "audit:read"]
<1>1. /\ change \in Notification /\ change.topic = "audit" /\ change.user = ""
  BY DEF Notification
<1>2. /\ access_gateway_emit(change) /\ written' = written + 1 /\ access' = access
      /\ UNCHANGED <<listener, available, clients, events, stream>>
  BY DEF commitAudit, access_gateway_emit
<1> HIDE DEF change
<1>3. HubInv /\ ViewersInv
  BY DEF RealtimeInv
<1>4. /\ wire' \in Seq(Notification)
      /\ \A v \in Viewer : Steady(v)
      /\ \A v \in Viewer : OnItsWay(v, "audit")' \/ CutOff(v)'
  BY <1>1, <1>2, <1>3, EmitStep, Zenon
<1>5. HubInv'
  BY <1>2, <1>3, <1>4 DEF HubInv
<1>6. ASSUME NEW v \in Viewer
      PROVE  CheckedIsActive(v)' /\ MissesNothing(v)'
  <2>1. CheckedIsActive(v)'
    BY <1>2, <1>3, <1>4, Zenon DEF ViewersInv, Steady, CheckedIsActive
  <2>2. MissesNothing(v)'
    BY <1>2, <1>3, <1>4, Zenon DEF ViewersInv, Steady, MissesNothing
  <2> QED
    BY <2>1, <2>2
<1> QED
  BY <1>5, <1>6 DEF RealtimeInv, ViewersInv

\* Whoever may be concerned by a change of identities is told of it.
LEMMA IdentityCommitStep ==
    ASSUME RealtimeInv, NEW u \in Viewer, commitUser(u) \/ commitRole(u)
    PROVE  RealtimeInv'
<1>1. PICK user \in {"", u} :
          access_gateway_emit([topic |-> "identity", user |-> user, permission |-> ""])
  BY DEF commitUser, commitRole
<1> DEFINE change == [topic |-> "identity", user |-> user, permission |-> ""]
<1>2. /\ change \in Notification /\ change.topic = "identity" /\ change.user = user
  BY <1>1 DEF Notification
<1>3. /\ access_gateway_emit(change) /\ written' = written
      /\ UNCHANGED <<listener, available, clients, events, stream>>
  BY <1>1 DEF commitUser, commitRole, access_gateway_emit
<1> HIDE DEF change
<1>4. HubInv /\ ViewersInv
  BY DEF RealtimeInv
<1>5. /\ wire' \in Seq(Notification)
      /\ \A v \in Viewer : Steady(v)
      /\ OnItsWay(u, "identity")' \/ CutOff(u)'
  BY <1>1, <1>2, <1>3, <1>4, EmitStep, Zenon
<1>6. /\ DOMAIN access' = Viewer /\ \A v \in Viewer : DOMAIN access'[v] = {"active", "audit"}
      /\ \A v \in Viewer \ {u} : access'[v] = access[v]
  BY <1>4 DEF HubInv, commitUser, commitRole
<1>7. HubInv'
  BY <1>3, <1>4, <1>5, <1>6 DEF HubInv
<1>8. CheckedIsActive(u)' /\ MissesNothing(u)'
  BY <1>5, Zenon DEF CheckedIsActive, MissesNothing
<1>9. \A v \in Viewer : CheckedIsActive(v)' /\ MissesNothing(v)'
  BY <1>3, <1>4, <1>5, <1>6, <1>8, SteadyKeeps, Zenon
<1> QED
  BY <1>7, <1>9 DEF RealtimeInv, ViewersInv

-----------------------------------------------------------------------------
\* Streams.

\* A stream's step concerns no other stream.
LEMMA OneStream ==
    ASSUME ViewersInv, NEW v \in Viewer,
           UNCHANGED <<access, written, wire, listener>>,
           \A u \in Viewer \ {v} : /\ stream'[u] = stream[u] /\ events'[u] = events[u]
                                   /\ u \in clients' <=> u \in clients,
           CheckedIsActive(v)', MissesNothing(v)'
    PROVE  ViewersInv'
<1>1. ASSUME NEW u \in Viewer \ {v} PROVE Steady(u)
  <2>1. stream'[u] = stream[u] /\ events'[u] = events[u] /\ (u \in clients' <=> u \in clients)
    BY <1>1
  <2>2. \A topic : OnItsWay(u, topic) => OnItsWay(u, topic)'
    BY <2>1, OnItsWayIs, OnItsWayThen, Zenon
  <2>3. CutOff(u) => CutOff(u)'
    BY <2>1, Zenon DEF CutOff
  <2> QED
    BY <2>1, <2>2, <2>3, Zenon DEF Steady
<1>2. ASSUME NEW u \in Viewer \ {v} PROVE CheckedIsActive(u)' /\ MissesNothing(u)'
  BY <1>1, <1>2, SteadyKeeps, Zenon
<1> QED
  BY <1>2, Zenon DEF ViewersInv

\* A stream that ends.
LEMMA UnsubscribeStep ==
    ASSUME RealtimeInv, NEW v \in Viewer, unsubscribe(v),
           UNCHANGED <<access, written, commits, wire, listener, available>>
    PROVE  RealtimeInv'
<1>1. HubInv /\ ViewersInv
  BY DEF RealtimeInv
<1>2. /\ clients' = clients \ {v} /\ stream' = [stream EXCEPT ![v] = NoStream]
      /\ events' = [events EXCEPT ![v] = <<>>]
  BY DEF unsubscribe
<1>3. events' \in [Viewer -> Seq(Notification)]
  <2>1. <<>> \in Seq(Notification)
    OBVIOUS
  <2> QED
    BY <1>1, <1>2, <2>1 DEF HubInv
<1>4. /\ DOMAIN stream' = Viewer /\ stream'[v].at = "none"
      /\ \A u \in Viewer : DOMAIN stream'[u] = {"at", "audit", "seen"}
      /\ \A u \in Viewer \ {v} : /\ stream'[u] = stream[u] /\ events'[u] = events[u]
                                 /\ u \in clients' <=> u \in clients
  BY <1>1, <1>2 DEF HubInv, NoStream
<1>5. HubInv'
  BY <1>1, <1>2, <1>3, <1>4 DEF HubInv
<1>6. CheckedIsActive(v)' /\ MissesNothing(v)'
  BY <1>4 DEF CheckedIsActive, MissesNothing
<1>7. ViewersInv'
  BY <1>1, <1>4, <1>6, OneStream
<1> QED
  BY <1>5, <1>7 DEF RealtimeInv

\* A stream that is being set up: what it reads is what the database says now.
LEMMA SetUpStep ==
    ASSUME RealtimeInv, NEW v \in Viewer,
           UNCHANGED <<access, written, wire, listener, available, events>>,
           DOMAIN stream' = Viewer, \A u \in Viewer \ {v} : stream'[u] = stream[u],
           DOMAIN stream'[v] = {"at", "audit", "seen"},
           clients' = clients \/ (clients' = clients \cup {v} /\ available),
           CheckedIsActive(v)', MissesNothing(v)'
    PROVE  RealtimeInv'
<1>1. HubInv /\ ViewersInv
  BY DEF RealtimeInv
<1>2. \A u \in Viewer \ {v} : u \in clients' <=> u \in clients
  OBVIOUS
<1>3. HubInv'
  BY <1>1 DEF HubInv
<1>4. ViewersInv'
  BY <1>1, <1>2, OneStream
<1> QED
  BY <1>3, <1>4 DEF RealtimeInv

LEMMA OpeningStep ==
    ASSUME RealtimeInv, NEW v \in Viewer, streamEvents(v) \/ Subscribe(v)
    PROVE  RealtimeInv'
<1>1. HubInv
  BY DEF RealtimeInv
<1>2. /\ UNCHANGED <<access, written, wire, listener, available, events>>
      /\ clients' = clients \/ (clients' = clients \cup {v} /\ available)
  BY DEF streamEvents, Subscribe
<1>3. /\ DOMAIN stream' = Viewer /\ \A u \in Viewer \ {v} : stream'[u] = stream[u]
      /\ DOMAIN stream'[v] = {"at", "audit", "seen"}
      /\ stream'[v].at \in {"none", "filtered", "subscribed"}
  BY <1>1 DEF HubInv, streamEvents, Subscribe, NoStream
<1>4. CheckedIsActive(v)' /\ MissesNothing(v)'
  BY <1>3 DEF CheckedIsActive, MissesNothing
<1> QED
  BY <1>2, <1>3, <1>4, SetUpStep

LEMMA CheckStep ==
    ASSUME RealtimeInv, NEW v \in Viewer, requireActive(v)
    PROVE  RealtimeInv'
<1>1. HubInv /\ UNCHANGED <<access, written, commits, wire, listener, available>>
  BY DEF RealtimeInv, requireActive
<1>2. CASE ~ access[v].active
  BY <1>1, <1>2, UnsubscribeStep DEF requireActive
<1>3. CASE access[v].active
  <2>1. stream' = [stream EXCEPT ![v].at = "checked"] /\ clients' = clients /\ events' = events
    BY <1>3 DEF requireActive
  <2>2. /\ DOMAIN stream' = Viewer /\ \A u \in Viewer \ {v} : stream'[u] = stream[u]
        /\ DOMAIN stream'[v] = {"at", "audit", "seen"} /\ stream'[v].at = "checked"
    BY <1>1, <2>1 DEF HubInv
  <2>3. CheckedIsActive(v)'
    BY <1>1, <1>3, Zenon DEF CheckedIsActive
  <2>4. MissesNothing(v)'
    BY <2>2 DEF MissesNothing
  <2> QED
    BY <1>1, <2>1, <2>2, <2>3, <2>4, SetUpStep
<1> QED
  BY <1>2, <1>3

LEMMA LoadStep ==
    ASSUME RealtimeInv, NEW v \in Viewer, loadPermissions(v) \/ writeReady(v)
    PROVE  RealtimeInv'
<1>1. HubInv /\ ViewersInv
  BY DEF RealtimeInv
<1>2. UNCHANGED <<access, written, wire, listener, available, events, clients>>
  BY DEF loadPermissions, writeReady
<1>3. /\ DOMAIN stream' = Viewer /\ \A u \in Viewer \ {v} : stream'[u] = stream[u]
      /\ DOMAIN stream'[v] = {"at", "audit", "seen"}
      /\ stream'[v].at \in {"loaded", "open"}
  BY <1>1 DEF HubInv, loadPermissions, writeReady
<1>4. \/ stream[v].at = "checked" /\ stream'[v].at = "loaded" /\ stream'[v].audit = access[v].audit
      \/ /\ stream[v].at = "loaded" /\ stream'[v].audit = stream[v].audit
         /\ stream'[v].seen = written
  BY <1>1 DEF HubInv, loadPermissions, writeReady
<1>5. /\ CutOff(v)' <=> CutOff(v)
      /\ OnItsWay(v, "identity")' <=> OnItsWay(v, "identity")
  BY <1>2, Zenon DEF CutOff, OnItsWay
<1>6. CutOff(v) \/ OnItsWay(v, "identity") \/ access[v].active
  BY <1>1, <1>4, Zenon DEF ViewersInv, CheckedIsActive, MissesNothing
<1>7. ~ (written < written)
  BY <1>1 DEF HubInv
<1>8. MissesNothing(v)'
  <2>1. CASE stream[v].at = "checked" /\ stream'[v].at = "loaded" /\ stream'[v].audit = access[v].audit
    BY <1>2, <1>5, <1>6, <2>1, Zenon DEF MissesNothing
  <2>2. CASE /\ stream[v].at = "loaded" /\ stream'[v].audit = stream[v].audit
             /\ stream'[v].seen = written
    BY <1>1, <1>2, <1>5, <1>6, <1>7, <2>2, Zenon DEF ViewersInv, MissesNothing
  <2> QED
    BY <1>4, <2>1, <2>2
<1>9. CheckedIsActive(v)'
  BY <1>3 DEF CheckedIsActive
<1> QED
  BY <1>2, <1>3, <1>8, <1>9, SetUpStep

\* The stream takes a change from its channel: a change of identities ends it, and
\* a browser that shows the audit log loads it again.
LEMMA ChangeStep ==
    ASSUME RealtimeInv, NEW v \in Viewer, writeChange(v)
    PROVE  RealtimeInv'
<1>1. HubInv /\ ViewersInv /\ UNCHANGED <<access, written, commits, wire, listener, available>>
  BY DEF RealtimeInv, writeChange
<1>2. CASE Head(events[v]).topic = "identity"
  BY <1>1, <1>2, UnsubscribeStep DEF writeChange
<1>3. CASE Head(events[v]).topic # "identity"
  <2>1. /\ events[v] # <<>> /\ events' = [events EXCEPT ![v] = Tail(@)] /\ clients' = clients
        /\ stream[v].at = "open"
        /\ \/ stream' = stream /\ ~ stream[v].audit
           \/ stream' = [stream EXCEPT ![v].seen = written]
    BY <1>3 DEF writeChange
  <2>2. events[v] \in Seq(Notification)
    BY <1>1 DEF HubInv
  <2>3. Tail(events[v]) \in Seq(Notification)
    BY <2>1, <2>2, QueueTypes
  <2>4. events' \in [Viewer -> Seq(Notification)] /\ events'[v] = Tail(events[v])
    BY <1>1, <2>1, <2>3 DEF HubInv
  <2>5. \A u \in Viewer \ {v} : /\ stream'[u] = stream[u] /\ events'[u] = events[u]
                                /\ u \in clients' <=> u \in clients
    BY <1>1, <2>1 DEF HubInv
  <2>6. /\ DOMAIN stream' = Viewer
        /\ \A u \in Viewer : DOMAIN stream'[u] = {"at", "audit", "seen"}
        /\ stream'[v].at = "open" /\ stream'[v].audit = stream[v].audit
        /\ ~ stream[v].audit \/ stream'[v].seen = written
    <3>1. DOMAIN stream = Viewer /\ \A u \in Viewer : DOMAIN stream[u] = {"at", "audit", "seen"}
      BY <1>1 DEF HubInv
    <3>2. CASE stream' = stream /\ ~ stream[v].audit
      BY <2>1, <3>1, <3>2, Zenon
    <3>3. CASE stream' = [stream EXCEPT ![v].seen = written]
      BY <2>1, <3>1, <3>3, Zenon
    <3> QED
      BY <2>1, <3>2, <3>3
  <2>7. HubInv'
    BY <1>1, <2>1, <2>4, <2>6 DEF HubInv
  <2>8. CutOff(v) \/ OnItsWay(v, "identity") => CutOff(v)' \/ OnItsWay(v, "identity")'
    BY <1>1, <1>3, <2>1, <2>2, <2>4, OnItsWayIs, OnItsWayThen, SendsTail, Zenon DEF CutOff
  <2>9. ~ (written < written)
    BY <1>1 DEF HubInv
  <2>10. MissesNothing(v)'
    BY <1>1, <2>1, <2>6, <2>8, <2>9, Zenon DEF ViewersInv, MissesNothing
  <2>11. CheckedIsActive(v)'
    BY <2>6 DEF CheckedIsActive
  <2>12. ViewersInv'
    BY <1>1, <2>5, <2>10, <2>11, OneStream
  <2> QED
    BY <2>7, <2>12 DEF RealtimeInv
<1> QED
  BY <1>2, <1>3

-----------------------------------------------------------------------------
\* The hub.

\* A change goes from the connection into the channel of everyone it is for, or
\* ends the subscription that has no room for it.
LEMMA PublishStep ==
    ASSUME RealtimeInv, WaitForNotification
    PROVE  RealtimeInv'
<1>1. HubInv /\ ViewersInv
  BY DEF RealtimeInv
<1>2. /\ wire # <<>> /\ wire' = Tail(wire) /\ Publish(Head(wire))
      /\ UNCHANGED <<access, written, listener, available, stream>>
  BY DEF WaitForNotification
<1>3. wire \in Seq(Notification)
  BY <1>1 DEF HubInv
<1>4. PICK change \in Notification : change = Head(wire)
  BY <1>2, <1>3, QueueTypes
<1>5. wire' \in Seq(Notification)
  BY <1>2, <1>3, QueueTypes
<1>6. /\ clients' = clients \ Full(change)
      /\ events' = [v \in Viewer |-> IF v \in Addressed(change) \ Full(change)
                                     THEN Append(events[v], change) ELSE events[v]]
  BY <1>2, <1>4 DEF Publish, Deliver
<1>7. \A v \in Viewer : events[v] \in Seq(Notification)
  BY <1>1 DEF HubInv
<1>8. \A v \in Viewer : Append(events[v], change) \in Seq(Notification)
  BY <1>4, <1>7, QueueTypes
<1>9. events' \in [Viewer -> Seq(Notification)]
  BY <1>6, <1>7, <1>8
<1>10. HubInv'
  BY <1>1, <1>2, <1>5, <1>6, <1>9 DEF HubInv
<1>11. ASSUME NEW v \in Viewer PROVE Steady(v)
  <2>1. CutOff(v) => CutOff(v)'
    BY <1>2, <1>6 DEF CutOff
  <2>2. \/ v \in Addressed(change) \ Full(change) /\ events'[v] = Append(events[v], change)
        \/ v \notin Addressed(change) \ Full(change) /\ events'[v] = events[v]
    BY <1>6
  <2>3. events[v] \in Seq(Notification)
    BY <1>7
  <2>4. ASSUME NEW topic, Sends(events[v], v, topic)
        PROVE  Sends(events'[v], v, topic)
    BY <2>2, <2>3, <2>4, SendsAppend, Zenon
  <2>5. ASSUME NEW topic, Sends(wire, v, topic)
        PROVE  Sends(wire', v, topic) \/ Sends(events'[v], v, topic) \/ CutOff(v)'
    <3>1. CASE Sends(Tail(wire), v, topic)
      BY <1>2, <3>1, Zenon
    <3>2. CASE change.topic = topic /\ change.user \in {"", v}
      <4>1. CASE v \in clients /\ v \notin Full(change)
        <5>1. v \in Addressed(change) \ Full(change)
          BY <3>2, <4>1 DEF Addressed
        <5> QED
          BY <2>2, <2>3, <3>2, <5>1, SendsAppend, Zenon
      <4>2. CASE v \notin clients \/ v \in Full(change)
        BY <1>6, <4>2 DEF CutOff
      <4> QED
        BY <4>1, <4>2
    <3> QED
      BY <1>2, <1>3, <1>4, <2>5, <3>1, <3>2, SendsTail, Zenon
  <2>6. ASSUME NEW topic, OnItsWay(v, topic)
        PROVE  OnItsWay(v, topic)' \/ CutOff(v)'
    BY <2>4, <2>5, <2>6, OnItsWayIs, OnItsWayThen, Zenon
  <2> QED
    BY <1>2, <2>1, <2>6, Zenon DEF Steady
<1>12. ASSUME NEW v \in Viewer PROVE CheckedIsActive(v)' /\ MissesNothing(v)'
  BY <1>1, <1>2, <1>11, SteadyKeeps, Zenon
<1> QED
  BY <1>10, <1>12 DEF RealtimeInv, ViewersInv

\* Around a lost connection everyone is cut off.
LEMMA ConnectionStep ==
    ASSUME RealtimeInv, connectionLost \/ disconnected \/ connect \/ reconnected
    PROVE  RealtimeInv'
<1>1. HubInv /\ ViewersInv
  BY DEF RealtimeInv
<1>2. wire' \in Seq(Notification)
  <2>1. <<>> \in Seq(Notification)
    OBVIOUS
  <2> QED
    BY <1>1, <2>1 DEF HubInv, connectionLost, disconnected, connect, reconnected
<1>3. UNCHANGED <<access, written, events, stream>>
  BY DEF connectionLost, disconnected, connect, reconnected
<1>4. /\ listener' \in {"listening", "lost", "down", "connected"}
      /\ listener' \in {"down", "connected"} => ~ available' /\ clients' = {}
      /\ clients' \subseteq Viewer
      /\ listener' = "lost" \/ clients' = {}
  BY <1>1 DEF HubInv, connectionLost, disconnected, connect, reconnected, setAvailable
<1>5. HubInv'
  BY <1>1, <1>2, <1>3, <1>4 DEF HubInv
<1>6. \A v \in Viewer : CutOff(v)'
  BY <1>4 DEF CutOff
<1>7. ViewersInv'
  BY <1>6, Zenon DEF ViewersInv, CheckedIsActive, MissesNothing
<1> QED
  BY <1>5, <1>7 DEF RealtimeInv

-----------------------------------------------------------------------------
LEMMA RealtimeInitInv == RealtimeInit => RealtimeInv
<1> SUFFICES ASSUME RealtimeInit PROVE RealtimeInv
  OBVIOUS
<1>1. <<>> \in Seq(Notification)
  OBVIOUS
<1>2. \A v \in Viewer : stream[v].at = "none" /\ DOMAIN stream[v] = {"at", "audit", "seen"}
  BY DEF RealtimeInit, NoStream
<1>3. HubInv
  BY <1>1, <1>2 DEF RealtimeInit, HubInv
<1>4. ViewersInv
  BY <1>2 DEF ViewersInv, CheckedIsActive, MissesNothing
<1> QED
  BY <1>3, <1>4 DEF RealtimeInv

LEMMA RealtimeStep == RealtimeInv /\ [RealtimeNext]_realtimeVars => RealtimeInv'
<1> SUFFICES ASSUME RealtimeInv, [RealtimeNext]_realtimeVars PROVE RealtimeInv'
  OBVIOUS
<1>1. CASE UNCHANGED realtimeVars
  BY <1>1, Zenon DEF realtimeVars, RealtimeInv, HubInv, ViewersInv, CheckedIsActive, MissesNothing,
     CutOff, OnItsWay
<1>2. ASSUME NEW v \in Viewer, streamClosed(v) \/ streamEnds(v)
      PROVE  RealtimeInv'
  BY <1>2, UnsubscribeStep DEF streamClosed, streamEnds
<1>3. CASE RealtimeNext
  BY <1>2, <1>3, AuditCommitStep, IdentityCommitStep, OpeningStep, CheckStep, LoadStep, ChangeStep,
     PublishStep, ConnectionStep, Zenon DEF RealtimeNext
<1> QED
  BY <1>1, <1>3

\* Nothing is missed: an open stream that belongs to a deactivated user, filters by
\* permissions that changed or shows less than what was committed has the change
\* that repairs it on its way, or is cut off (hub.go, postgres.go, streamEvents),
\* for any number of viewers, commits and lost connections and buffers of any size.
THEOREM NothingMissedHolds == RealtimeSpec => []NothingMissed
<1>1. RealtimeInv => NothingMissed
  BY Zenon DEF RealtimeInv, ViewersInv, MissesNothing, NothingMissed
<1> QED
  BY <1>1, RealtimeInitInv, RealtimeStep, PTL DEF RealtimeSpec
=============================================================================
