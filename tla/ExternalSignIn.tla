--------------------------- MODULE ExternalSignIn ---------------------------
(***************************************************************************)
(* Signing in through an external provider, and binding a Feishu identity  *)
(* to an account.  "oidc" stands for OIDC, OAuth2 and GitHub, which share  *)
(* one flow, and for LDAP, which enters it at SyncExternalUser.  A flow is *)
(* the signed cookie of a redirect; its state is a row of oauth_states.    *)
(***************************************************************************)
EXTENDS SignIn

CONSTANTS
    OpenID,        \* the Feishu identities
    TenantOf,      \* the tenant each of them belongs to
    Subject,       \* the subjects at the other providers
    MaxFlows       \* bound: redirects begun

\* A profile without an open id is refused before it reaches a row.
ASSUME ExternalAssumption == NoIdentity \notin OpenID

VARIABLES
    flows,         \* every login cookie issued, in order
    states         \* the states of oauth_states that are still there

externalVars == <<flows, states>>

NoUser == "nobody"

ExternalInit == flows = <<>> /\ states = {}

-----------------------------------------------------------------------------
redirectEnabled(provider) == provider \in settings.config.enabled

\* SignLoginState: what the login cookie says of the redirect.
beginLogin(provider, u, version) ==
    /\ Len(flows) < MaxFlows
    /\ flows' = Append(flows, [provider |-> provider, user |-> u, version |-> version,
                               revision |-> settings.revision])
    /\ states' = states \cup {Len(flows')}

externalLogin(provider) ==
    /\ redirectEnabled(provider)
    /\ beginLogin(provider, NoUser, 0)
    /\ UNCHANGED <<accountVars, signInVars>>

bindFeishu(r) ==
    LET it == request[r] IN
    /\ At(r, "authorised")
    /\ redirectEnabled("feishu")
    /\ beginLogin("feishu", it.user, it.version)
    /\ Done(r)
    /\ UNCHANGED <<accountVars, cookies, challenges, clock, spent, twice>>

\* ephemeral.go, Consume: one statement deletes the state and says whether it was
\* there.
Consume(n) == n \in states /\ states' = states \ {n}

\* externalCallback up to the exchange of the code at the provider.
externalCallback(r, n) ==
    LET flow == flows[n] IN
    /\ At(r, "idle")
    /\ flow.revision = settings.revision
    /\ redirectEnabled(flow.provider)
    /\ Consume(n)
    /\ Honour({<<"state", n>>})
    /\ Goto(r, [at |-> flow.provider, user |-> flow.user, version |-> flow.version,
                revision |-> settings.revision, tenant |-> settings.config.tenant,
                mode |-> settings.config.mode])
    /\ UNCHANGED <<accountVars, cookies, challenges, clock, flows>>

\* A state that is not used within ten minutes is gone.
StateExpires(n) ==
    /\ n \in states
    /\ states' = states \ {n}
    /\ UNCHANGED <<accountVars, signInVars, flows>>

Primary(r, u, version, proof) ==
    Goto(r, [at |-> "primary", user |-> u, version |-> version, mode |-> request[r].mode, proof |-> proof])

Unused == {u \in User : users[u].status = "absent"}

\* SyncExternalUser, under the IAM lock: the account of the identity, or a new one.
SyncExternalUser(r, subject) ==
    LET owner == GetByIdentity(subject)
        proof == <<"oidc", subject>>
    IN /\ At(r, "oidc")
       /\ \/ \E u \in owner :
                IF users[u].status # "active" THEN Fail(r)
                ELSE Primary(r, u, users[u].version, proof)
                     /\ UNCHANGED <<accountVars, cookies, challenges, clock, spent, twice>>
          \/ /\ owner = {} /\ Unused # {}
             /\ LET u == CHOOSE v \in Unused : TRUE IN
                /\ users' = [users EXCEPT ![u] = CreateIdentity(Create("active"), subject)]
                /\ Primary(r, u, 0, proof)
             /\ UNCHANGED <<settings, fresh, cookies, challenges, clock, spent, twice>>
       /\ UNCHANGED externalVars

\* A mutant of validateFeishuSettings: the settings of the request are trusted.
TrustSnapshot(r) == TRUE

\* validateFeishuSettings, under the settings lock: nobody saved since the request
\* took its snapshot.
validateFeishuSettings(r) == settings.revision = request[r].revision

\* SyncFeishuUser: the profile is of the tenant, and UpsertByFeishu updates the
\* account that is bound to it or creates one; an inactive profile deactivates it.
\* The comparison is skipped without a tenant, but NewOAuthClient refuses to sign
\* anybody in then.
SyncFeishuUser(r, openID, active) ==
    LET it == request[r]
        status == IF active THEN "active" ELSE "inactive"
        owner == UpsertByFeishu(openID)
        proof == <<"feishu", openID>>
        Signed(u) == IF users'[u].status = "active" THEN Primary(r, u, users'[u].version, proof)
                     ELSE Done(r)
    IN /\ At(r, "feishu") /\ it.user = NoUser
       /\ IF TenantOf[openID] # it.tenant \/ ~ validateFeishuSettings(r) THEN Fail(r)
          ELSE /\ \/ \E u \in owner :
                        /\ users' = [users EXCEPT ![u] = updateFeishuProfile(@, status)]
                        /\ Signed(u)
                  \/ /\ owner = {} /\ Unused # {}
                     /\ LET u == CHOOSE v \in Unused : TRUE IN
                        /\ users' = [users EXCEPT ![u] = BindFeishu(Create(status), openID)]
                        /\ Signed(u)
               /\ UNCHANGED <<settings, fresh, cookies, challenges, clock, spent, twice>>
       /\ UNCHANGED externalVars

\* The callback of a binding: the browser still has a session of the user that
\* began it, and BindFeishuUser checks everything again under its locks.
BindFeishuUser(r, c, openID) ==
    LET it == request[r]
        u == it.user
    IN /\ At(r, "feishu") /\ u # NoUser /\ c.user = u
       /\ ValidateBrowserSession(u, c.version)
       /\ ValidateMFASession(u, it.mode, MFAVerified(c))
       /\ IF /\ TenantOf[openID] = it.tenant
             /\ validateFeishuSettings(r)
             /\ ValidateBrowserSession(u, it.version)
             /\ BindFeishuAllowed(u, openID)
          THEN /\ users' = [users EXCEPT ![u] = BindFeishu(@, openID)]
               /\ Done(r)
               /\ UNCHANGED <<settings, fresh, cookies, challenges, clock, spent, twice>>
          ELSE Fail(r)
       /\ UNCHANGED externalVars

\* unbindFeishu: another login method of the request's snapshot must remain.
UnbindFeishuUser(r) ==
    LET it == request[r]
        u == it.user
    IN /\ At(r, "authorised")
       /\ IF /\ users[u].status = "active"
             /\ \/ users[u].password # NoLocal
                \/ "oidc" \in it.enabled /\ users[u].identities # {}
          THEN /\ users' = [users EXCEPT ![u] = UnbindFeishu(@)]
               /\ Done(r)
               /\ UNCHANGED <<settings, fresh, cookies, challenges, clock, spent, twice>>
          ELSE Fail(r)
       /\ UNCHANGED externalVars

\* An administrator changes the providers or the Feishu tenant: the transaction of
\* Save.
saveProviders(actor, enabled, tenant) ==
    LET config == [settings.config EXCEPT !.enabled = enabled, !.tenant = tenant] IN
    /\ Admin(actor) /\ settings.revision < MaxRevision
    /\ config # settings.config
    /\ Validate(config, settings.secrets)
    /\ SaveAllowed(actor, settings.config, config)
    /\ SaveRow([settings EXCEPT !.config = config])
    /\ UNCHANGED <<users, fresh, signInVars, externalVars>>

ExternalNext ==
    \/ \E provider \in {"feishu", "oidc"} : externalLogin(provider)
    \/ \E r \in Request : bindFeishu(r)
    \/ \E r \in Request, n \in DOMAIN flows : externalCallback(r, n)
    \/ \E n \in states : StateExpires(n)
    \/ \E r \in Request, subject \in Subject : SyncExternalUser(r, subject)
    \/ \E r \in Request, openID \in OpenID, active \in BOOLEAN : SyncFeishuUser(r, openID, active) /\ Bounded
    \/ \E r \in Request, c \in cookies, openID \in OpenID : BindFeishuUser(r, c, openID)
    \/ \E r \in Request : UnbindFeishuUser(r) /\ Bounded
    \/ \E actor \in User, enabled \in {{"oidc"}, {"feishu", "oidc"}}, tenant \in {TenantOf[f] : f \in OpenID} :
          saveProviders(actor, enabled, tenant)
    \/ /\ \/ \E r \in Request, u \in User : passwordLogin(r, u)
          \/ \E r \in Request : AuthenticateLocal(r)
          \/ \E r \in Request : finishPrimaryLogin(r)
          \/ \E r \in Request, c \in cookies : currentUser(r, c)
          \/ \E r \in Request : Abandon(r)
       /\ UNCHANGED externalVars

-----------------------------------------------------------------------------
\* service/settings.go refuses to change the Feishu tenant while accounts are
\* bound, and a binding or a first Feishu sign-in that waits for the provider
\* meanwhile is refused: no account is ever bound to an identity of another tenant
\* than the configured one.
TenantAgrees ==
    \A u \in User : users[u].feishu # NoIdentity => TenantOf[users[u].feishu] = settings.config.tenant
=============================================================================
