------------------------------ MODULE Accounts ------------------------------
(***************************************************************************)
(* The rows behind a person's account, as the repositories change them: a  *)
(* user with its local credential, external identities, second factor and  *)
(* recovery codes, and the committed system settings.  A password, a TOTP  *)
(* secret or a set of recovery codes is a number drawn from a counter, so  *)
(* that two different ones are told apart; 0 is the empty hash and "no     *)
(* secret".  Each operator is one statement on a row.                      *)
(***************************************************************************)
EXTENDS Integers, Sequences, FiniteSets

CONSTANTS
    User,          \* the ids a row of users may have
    Managers       \* the users that hold role:manage

ASSUME AccountsAssumption == Managers \subseteq User

VARIABLES
    users,         \* the rows of users and of the tables that belong to a user
    settings,      \* the committed system settings
    fresh          \* the last number drawn for a password, secret or code set

accountVars == <<users, settings, fresh>>

NoLocal == -1      \* no row in local_accounts
NoIdentity == "none"

Absent ==
    [status |-> "absent", version |-> 0, password |-> NoLocal, feishu |-> NoIdentity,
     identities |-> {}, secret |-> 0, lastStep |-> 0, codes |-> {}]

Draw == fresh' = fresh + 1

-----------------------------------------------------------------------------
\* users.go, user_directory.go, authentication.go of the repository.
Create(status) == [Absent EXCEPT !.status = status]

CreateLocalCredential(row, hash) == [row EXCEPT !.password = hash]

UpdateLocalPassword(row, hash) == [row EXCEPT !.password = hash, !.version = @ + 1]

BumpAuthVersion(row) == [row EXCEPT !.version = @ + 1]

\* A change of status ends every browser session.
UpdateProfile(row, status) ==
    [row EXCEPT !.status = status, !.version = IF row.status # status THEN @ + 1 ELSE @]

ActivateInvitedUser(row) == [row EXCEPT !.status = "active"]

CreateIdentity(row, subject) == [row EXCEPT !.identities = @ \cup {subject}]

GetByIdentity(subject) == {u \in User : subject \in users[u].identities}

\* An inactive account stays inactive whatever the Feishu profile says.
updateFeishuProfile(row, status) ==
    [row EXCEPT !.status = IF row.status = "inactive" THEN @ ELSE status,
                !.version = IF row.status # status /\ status = "inactive" THEN @ + 1 ELSE @]

UpsertByFeishu(openID) == {u \in User : users[u].feishu = openID}

BindFeishuAllowed(u, openID) ==
    /\ users[u].feishu \in {NoIdentity, openID}
    /\ \A v \in User \ {u} : users[v].feishu # openID

BindFeishu(row, openID) == [row EXCEPT !.feishu = openID]

UnbindFeishu(row) == [row EXCEPT !.feishu = NoIdentity, !.version = @ + 1]

-----------------------------------------------------------------------------
\* identity_security.go of the repository.
MFA(u) == users[u].secret # 0

\* A mutant of BindMFA: the code that confirmed the enrolment stays usable.
BindUnused(row, secret, step) == [row EXCEPT !.secret = secret, !.lastStep = 0]

BindMFA(row, secret, step) == [row EXCEPT !.secret = secret, !.lastStep = step]

AdvanceMFAStep(row, step) == [row EXCEPT !.lastStep = step]

\* The recovery codes reference user_mfa and go with it.
DeleteMFA(row) == [row EXCEPT !.secret = 0, !.lastStep = 0, !.codes = {}]

ReplaceRecoveryCodes(row, batch) == [row EXCEPT !.codes = {batch}]

ConsumeRecoveryCode(row, code) == [row EXCEPT !.codes = @ \ {code}]

-----------------------------------------------------------------------------
\* settings/identity.go: when a second factor is asked for.
Required(mode, bound, admin) == bound \/ mode = "all" \/ (mode = "admin" /\ admin)

\* mfaPolicy asks for role:manage only when the policy is about administrators.
Admin(u) == u \in Managers

\* ValidateBrowserSession: the cookie was signed for the version in force.
ValidateBrowserSession(u, version) ==
    users[u].status = "active" /\ users[u].version = version

ValidateMFASession(u, mode, verified) == Required(mode, MFA(u), Admin(u)) => verified
=============================================================================
