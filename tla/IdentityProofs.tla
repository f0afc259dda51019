--------------------------- MODULE IdentityProofs ---------------------------
(***************************************************************************)
(* Signing in: passwords, second factors, providers and invitations, with  *)
(* all their handlers interleaved over the same accounts, for every number *)
(* of accounts and requests and every bound.                               *)
(*                                                                         *)
(* The factors of an account change only together with its version         *)
(* (FactorsHold).  What a handler, a challenge or a cookie knows of an     *)
(* account is therefore still true, or known by its version to be old.     *)
(* What may be used once is tied to the row that its use changes; numbers  *)
(* drawn for secrets and codes belong to one row at a time.                *)
(***************************************************************************)
EXTENDS ExternalSignIn, Invitations, TLAPS

USE ZenonT(5), SMTT(10), SMTT(30)

-----------------------------------------------------------------------------
\* The three sign-in machines at once.  Accounts begin with or without a password
\* and identities, without a second factor and without a Feishu binding, the
\* settings with any policy and any providers that Validate accepts.
identityVars == <<accountVars, signInVars, externalVars, invitations>>

IdentityNext ==
    \/ SignInNext /\ UNCHANGED <<externalVars, invitations>>
    \/ ExternalNext /\ UNCHANGED invitations
    \/ InvitationsNext /\ UNCHANGED externalVars

Account == [status : {"active", "inactive"}, version : {0}, password : {0, 1, NoLocal},
            feishu : {NoIdentity}, identities : SUBSET Subject, secret : {0}, lastStep : {0},
            codes : {{}}]

IdentityInit ==
    /\ users \in [User -> Account \cup {Absent}]
    /\ fresh = 1
    /\ \E revision \in Nat, mode \in Mode, enabled \in SUBSET {"feishu", "oidc"} : \E tenant, oidc, feishu :
          settings = [revision |-> revision,
                      config |-> [Defaults EXCEPT !.mode = mode, !.enabled = enabled, !.tenant = tenant],
                      secrets |-> Secrets(oidc, feishu, NoProfiles)]
    /\ Validate(settings.config, settings.secrets)
    /\ SignInInit /\ ExternalInit /\ InvitationsInit

IdentitySpec == IdentityInit /\ [][IdentityNext]_identityVars

-----------------------------------------------------------------------------
\* What a first factor was.
Proof == ({"password"} \X Nat) \cup ({"feishu"} \X OpenID) \cup ({"oidc"} \X Subject)

Row == [status : {"absent", "active", "inactive"}, version : Nat, password : Nat \cup {NoLocal},
        feishu : OpenID \cup {NoIdentity}, identities : SUBSET Subject,
        secret : Nat, lastStep : Nat, codes : SUBSET Nat]

Cookie == [user : User, version : Nat, secret : Nat, proof : Proof]

Challenge == [user : User, version : Nat, kind : {"enroll", "verify"}, secret : Nat,
              attempts : Nat, proof : Proof, guesses : Nat, shown : SUBSET Nat]

Flow == [provider : {"feishu", "oidc"}, user : User \cup {NoUser}, version : Nat, revision : Nat]

Link == [user : User, state : {"live", "expired", "revoked", "accepted"},
         delivery : {"sending", "sent", "failed", "not_configured"}]

Identified == {"credential", "primary", "authorised"}

Credential == {"at", "user", "version", "mode", "proof"}

\* The types, request by request, and an absent account is blank.
ShapeInv ==
    /\ users \in [User -> Row]
    /\ \A u \in User : users[u].status = "absent" => users[u] = Absent
    /\ fresh \in Nat /\ clock \in Nat \ {0}
    /\ cookies \subseteq Cookie
    /\ challenges \in Seq(Challenge \cup {Gone})
    /\ DOMAIN request = Request /\ request = [r \in Request |-> request[r]]
    /\ \A r \in Request :
          /\ request[r].at \in Identified \cup {"idle", "enroll", "complete", "oidc", "feishu"}
          /\ request[r].at \in {"enroll", "complete"} => request[r].id \in DOMAIN challenges
          /\ request[r].at = "credential" => DOMAIN request[r] = Credential
    /\ flows \in Seq(Flow) /\ states \subseteq DOMAIN flows
    /\ invitations \in Seq(Link)

\* The first factor that was proved is still in force, or the version tells that
\* something changed since.
Known(u, version, proof) ==
    /\ u \in User /\ version \in Nat /\ proof \in Proof
    /\ users[u].status # "absent"
    /\ version <= users[u].version
    /\ users[u].version = version => Holds(u, proof)

KnownInv ==
    /\ \A c \in cookies :
          /\ Known(c.user, c.version, c.proof)
          /\ users[c.user].version = c.version => users[c.user].secret = c.secret
    /\ \A n \in DOMAIN challenges : Live(n) =>
          Known(challenges[n].user, challenges[n].version, challenges[n].proof)
    /\ \A r \in Request : request[r].at \in Identified =>
          Known(request[r].user, request[r].version, request[r].proof)

\* A secret or a set of recovery codes is in one place: with one account, or, before
\* it is bound, with one challenge.
ApartInv ==
    /\ \A u \in User : users[u].secret <= fresh /\ \A b \in users[u].codes : b <= fresh
    /\ \A n \in DOMAIN challenges : Live(n) => challenges[n].secret <= fresh
    /\ \A u, v \in User : u # v =>
          /\ users[u].secret # 0 => users[u].secret # users[v].secret
          /\ users[u].codes \cap users[v].codes = {}
    /\ \A n \in DOMAIN challenges, u \in User :
          Live(n) /\ challenges[n].secret # 0 => users[u].secret # challenges[n].secret
    /\ \A m, n \in DOMAIN challenges :
          Live(m) /\ Live(n) /\ m # n /\ challenges[m].secret # 0 => challenges[m].secret # challenges[n].secret

\* What was honoured can no longer be honoured.
Used(x) ==
    CASE x[1] = "challenge" -> x[2] \in DOMAIN challenges /\ challenges[x[2]] = Gone
      [] x[1] = "state" -> x[2] \in DOMAIN flows /\ x[2] \notin states
      [] x[1] = "invitation" -> x[2] \in DOMAIN invitations /\ invitations[x[2]].state = "accepted"
      [] x[1] = "code" -> x[2] \in Nat /\ x[2] <= fresh /\ \A u \in User : x[2] \notin users[u].codes
      [] x[1] = "totp" ->
            /\ x[2] \in Nat /\ x[2] # 0 /\ x[2] <= fresh /\ x[3] \in Nat
            /\ \A u \in User : users[u].secret = x[2] => x[3] <= users[u].lastStep
            /\ \A n \in DOMAIN challenges : Live(n) => challenges[n].secret # x[2]
      [] OTHER -> FALSE

SpentInv == twice = {} /\ \A x \in spent : Used(x)

\* The secret that was shown is the one that is stored.
ShownInv ==
    \A n \in DOMAIN challenges : Live(n) =>
        challenges[n].shown \subseteq {challenges[n].secret} \ {0}

\* A request that waits for the provider knows the tenant in force, or that the
\* settings were saved since.
TenantInv ==
    /\ DOMAIN settings = {"revision", "config", "secrets"} /\ settings.revision \in Nat
    /\ DOMAIN settings.config = {"mode", "enabled", "tenant", "profiles"}
    /\ "feishu" \in settings.config.enabled => settings.config.tenant # ""
    /\ \A r \in Request : request[r].at = "feishu" =>
          /\ request[r].revision \in Nat /\ request[r].revision <= settings.revision
          /\ request[r].revision = settings.revision =>
                request[r].tenant = settings.config.tenant /\ settings.config.tenant # ""
    /\ \A u \in User : users[u].feishu # NoIdentity =>
          TenantOf[users[u].feishu] = settings.config.tenant /\ settings.config.tenant # ""

IdentityInv ==
    ShapeInv /\ KnownInv /\ ApartInv /\ SpentInv /\ ShownInv /\ TenantInv

-----------------------------------------------------------------------------
\* Sequences and records, as the statements change them.
LEMMA LiveIsChallenge ==
    ASSUME challenges \in Seq(Challenge \cup {Gone}), NEW n \in DOMAIN challenges
    PROVE  /\ Live(n) <=> challenges[n] \in Challenge
           /\ ~ Live(n) <=> challenges[n] = Gone
           /\ challenges[n] \in Challenge =>
                 /\ challenges[n].user \in User /\ challenges[n].version \in Nat
                 /\ challenges[n].secret \in Nat /\ challenges[n].attempts \in Nat
                 /\ challenges[n].guesses \in Nat /\ challenges[n].proof \in Proof
                 /\ challenges[n].shown \subseteq Nat
<1>1. challenges[n] \in Challenge \cup {Gone}
  OBVIOUS
<1>2. Gone \notin Challenge
  BY DEF Gone, Challenge
<1> QED
  BY <1>1, <1>2 DEF Live, Challenge

LEMMA Numbers ==
    ASSUME ShapeInv
    PROVE  /\ fresh \in Nat /\ fresh + 1 \in Nat /\ clock \in Nat \ {0}
           /\ \A u \in User :
                /\ users[u].version \in Nat /\ users[u].version <= users[u].version
                /\ users[u].version + 1 \in Nat /\ users[u].version <= users[u].version + 1
                /\ users[u].version + 1 # users[u].version
                /\ users[u].lastStep \in Nat /\ users[u].lastStep <= users[u].lastStep
                /\ users[u].secret \in Nat /\ users[u].codes \subseteq Nat
BY DEF ShapeInv, Row

LEMMA Reflexive == \A k \in Nat : k <= k
OBVIOUS

LEMMA Successor ==
    \A n, k \in Nat : n + 1 \in Nat /\ n <= n + 1 /\ n + 1 # n /\ (k <= n => k <= n + 1 /\ k # n + 1)
OBVIOUS

LEMMA SequenceOf ==
    ASSUME NEW S, NEW n \in Nat, NEW q, q = [m \in 1 .. n |-> q[m]], \A m \in 1 .. n : q[m] \in S
    PROVE  q \in Seq(S)
<1>1. q \in [1 .. n -> S]
  OBVIOUS
<1> QED
  BY <1>1

LEMMA Appended ==
    ASSUME NEW S, NEW q \in Seq(S), NEW e \in S
    PROVE  /\ Append(q, e) \in Seq(S)
           /\ DOMAIN Append(q, e) = DOMAIN q \cup {Len(q) + 1}
           /\ Len(q) + 1 \notin DOMAIN q
           /\ Append(q, e)[Len(q) + 1] = e
           /\ \A n \in DOMAIN q : Append(q, e)[n] = q[n]
           /\ Len(Append(q, e)) = Len(q) + 1
OBVIOUS

LEMMA Replaced ==
    ASSUME NEW S, NEW q \in Seq(S), NEW n \in DOMAIN q, NEW e \in S
    PROVE  /\ [q EXCEPT ![n] = e] \in Seq(S)
           /\ DOMAIN [q EXCEPT ![n] = e] = DOMAIN q
           /\ [q EXCEPT ![n] = e][n] = e
           /\ \A m \in DOMAIN q \ {n} : [q EXCEPT ![n] = e][m] = q[m]
OBVIOUS

-----------------------------------------------------------------------------
(***************************************************************************)
(* What every step does to the accounts and to what may be used once.      *)
(***************************************************************************)
\* A row keeps its password, secret, identities and binding as long as it keeps
\* its version.
FactorsHold ==
    \A u \in User : users[u].status # "absent" =>
        /\ users'[u].status # "absent"
        /\ users[u].version <= users'[u].version
        /\ users'[u].version = users[u].version =>
              /\ users'[u].password = users[u].password
              /\ users'[u].secret = users[u].secret
              /\ users[u].identities \subseteq users'[u].identities
              /\ users[u].feishu # NoIdentity => users'[u].feishu = users[u].feishu

\* A secret reaches an account from a challenge, a set of codes or the secret of a
\* challenge is newly drawn, and what is gone does not come back.
Orderly ==
    /\ fresh' \in {fresh, fresh + 1}
    /\ \A u \in User :
          /\ \/ users'[u].secret = 0
             \/ users'[u].secret = users[u].secret /\ users[u].lastStep <= users'[u].lastStep
             \/ \E n \in DOMAIN challenges : Live(n) /\ users'[u].secret = challenges[n].secret
          /\ users'[u].codes \subseteq users[u].codes \/ users'[u].codes \subseteq {fresh + 1}
    /\ \A n \in DOMAIN challenges : n \in DOMAIN challenges' /\ (challenges[n] = Gone => challenges'[n] = Gone)
    /\ \A n \in DOMAIN challenges' : Live(n)' =>
          \/ challenges'[n].secret \in {0, fresh + 1}
          \/ n \in DOMAIN challenges /\ Live(n) /\ challenges'[n].secret = challenges[n].secret
    /\ \A n \in DOMAIN flows : n \in DOMAIN flows' /\ (n \notin states => n \notin states')
    /\ \A n \in DOMAIN invitations :
          n \in DOMAIN invitations' /\ (invitations[n].state = "accepted" => invitations'[n].state = "accepted")

\* A first factor that was proved holds until the version of the account changes.
LEMMA HoldsStable ==
    ASSUME NEW u \in User, NEW proof \in Proof, Holds(u, proof), FactorsHold,
           users[u].status # "absent", users'[u].version = users[u].version
    PROVE  Holds(u, proof)'
<1>1. CASE proof \in {"password"} \X Nat
  BY <1>1 DEF Holds, FactorsHold
<1>2. CASE proof \in {"feishu"} \X OpenID
  <2>1. proof[1] = "feishu" /\ proof[2] # NoIdentity
    BY <1>2, ExternalAssumption
  <2> QED
    BY <2>1 DEF Holds, FactorsHold
<1>3. CASE proof \in {"oidc"} \X Subject
  <2>1. proof[1] = "oidc"
    BY <1>3
  <2>2. proof[2] \in users[u].identities
    BY <2>1 DEF Holds
  <2> QED
    BY <2>1, <2>2 DEF Holds, FactorsHold
<1> QED
  BY <1>1, <1>2, <1>3 DEF Proof

LEMMA KnownStable ==
    ASSUME NEW u, NEW version, NEW proof, Known(u, version, proof), FactorsHold,
           users \in [User -> Row], users' \in [User -> Row]
    PROVE  Known(u, version, proof)'
<1>1. /\ u \in User /\ version \in Nat /\ proof \in Proof
      /\ users[u].status # "absent" /\ version <= users[u].version
  BY DEF Known
<1>2. users[u].version \in Nat /\ users'[u].version \in Nat
  BY <1>1 DEF Row
<1>3. users'[u].status # "absent" /\ users[u].version <= users'[u].version
  BY <1>1 DEF FactorsHold
<1>4. version <= users'[u].version
  BY <1>1, <1>2, <1>3
<1>5. ASSUME users'[u].version = version
      PROVE  Holds(u, proof)'
  <2>1. users[u].version = version
    BY <1>1, <1>2, <1>3, <1>5
  <2>2. Holds(u, proof)
    BY <2>1 DEF Known
  <2> QED
    BY <1>1, <1>5, <2>1, <2>2, HoldsStable
<1> QED
  BY <1>1, <1>3, <1>4, <1>5 DEF Known

\* Cookies, challenges and requests that were there know what they knew.
LEMMA KnownKept ==
    ASSUME ShapeInv, KnownInv, FactorsHold, users' \in [User -> Row],
           \A c \in cookies' \ cookies :
              /\ Known(c.user, c.version, c.proof)'
              /\ users'[c.user].version = c.version => users'[c.user].secret = c.secret,
           \A n \in DOMAIN challenges' : Live(n)' =>
              \/ /\ n \in DOMAIN challenges /\ Live(n)
                 /\ challenges'[n].user = challenges[n].user
                 /\ challenges'[n].version = challenges[n].version
                 /\ challenges'[n].proof = challenges[n].proof
              \/ Known(challenges[n].user, challenges[n].version, challenges[n].proof)',
           \A r \in Request : request'[r].at \in Identified =>
              \/ request'[r] = request[r]
              \/ Known(request[r].user, request[r].version, request[r].proof)'
    PROVE  KnownInv'
<1>1. users \in [User -> Row]
  BY DEF ShapeInv
<1>2. ASSUME NEW c \in cookies'
      PROVE  /\ Known(c.user, c.version, c.proof)'
             /\ users'[c.user].version = c.version => users'[c.user].secret = c.secret
  <2>1. CASE c \notin cookies
    BY <2>1, <1>2
  <2>2. CASE c \in cookies
    <3>1. /\ Known(c.user, c.version, c.proof)
          /\ users[c.user].version = c.version => users[c.user].secret = c.secret
      BY <2>2 DEF KnownInv
    <3>2. Known(c.user, c.version, c.proof)'
      BY <1>1, <3>1, KnownStable
    <3>3. c.user \in User /\ c.version \in Nat /\ c.version <= users[c.user].version
          /\ users[c.user].status # "absent"
      BY <3>1 DEF Known
    <3>4. users[c.user].version <= users'[c.user].version
          /\ (users'[c.user].version = users[c.user].version => users'[c.user].secret = users[c.user].secret)
      BY <3>3 DEF FactorsHold
    <3>5. users[c.user].version \in Nat /\ users'[c.user].version \in Nat
      BY <1>1, <3>3 DEF Row
    <3>6. users'[c.user].version = c.version => users[c.user].version = c.version
      BY <3>3, <3>4, <3>5
    <3> QED
      BY <3>1, <3>2, <3>4, <3>6
  <2> QED
    BY <2>1, <2>2
<1>3. ASSUME NEW n \in DOMAIN challenges', Live(n)'
      PROVE  Known(challenges[n].user, challenges[n].version, challenges[n].proof)'
  <2>1. ASSUME n \in DOMAIN challenges, Live(n),
               challenges'[n].user = challenges[n].user,
               challenges'[n].version = challenges[n].version,
               challenges'[n].proof = challenges[n].proof
        PROVE  Known(challenges[n].user, challenges[n].version, challenges[n].proof)'
    <3>1. PICK u, v, p : u = challenges[n].user /\ v = challenges[n].version /\ p = challenges[n].proof
      OBVIOUS
    <3>2. Known(u, v, p)
      BY <2>1, <3>1 DEF KnownInv
    <3>3. Known(u, v, p)'
      BY <1>1, <3>2, KnownStable
    <3> QED
      BY <2>1, <3>1, <3>3
  <2> QED
    BY <1>3, <2>1
<1>4. ASSUME NEW r \in Request, request'[r].at \in Identified
      PROVE  Known(request[r].user, request[r].version, request[r].proof)'
  <2>1. ASSUME request'[r] = request[r]
        PROVE  Known(request[r].user, request[r].version, request[r].proof)'
    <3>1. PICK u, v, p : u = request[r].user /\ v = request[r].version /\ p = request[r].proof
      OBVIOUS
    <3>2. Known(u, v, p)
      BY <1>4, <2>1, <3>1 DEF KnownInv
    <3>3. Known(u, v, p)'
      BY <1>1, <3>2, KnownStable
    <3> QED
      BY <2>1, <3>1, <3>3
  <2> QED
    BY <1>4, <2>1
<1> QED
  BY <1>2, <1>3, <1>4 DEF KnownInv

-----------------------------------------------------------------------------
\* What was honoured stays beyond use.
LEMMA UsedStable ==
    ASSUME ShapeInv, users' \in [User -> Row], Orderly, NEW x, Used(x)
    PROVE  Used(x)'
<1>0. fresh \in Nat /\ fresh' \in Nat /\ fresh <= fresh'
  BY DEF ShapeInv, Orderly
<1>1. CASE x[1] = "challenge"
  <2>1. x[2] \in DOMAIN challenges /\ challenges[x[2]] = Gone
    BY <1>1 DEF Used
  <2>2. x[2] \in DOMAIN challenges' /\ challenges'[x[2]] = Gone
    BY <2>1 DEF Orderly
  <2> QED
    BY <1>1, <2>2 DEF Used
<1>2. CASE x[1] = "state"
  <2>1. x[2] \in DOMAIN flows /\ x[2] \notin states
    BY <1>2 DEF Used
  <2>2. x[2] \in DOMAIN flows' /\ x[2] \notin states'
    BY <2>1 DEF Orderly
  <2> QED
    BY <1>2, <2>2 DEF Used
<1>3. CASE x[1] = "invitation"
  <2>1. x[2] \in DOMAIN invitations /\ invitations[x[2]].state = "accepted"
    BY <1>3 DEF Used
  <2>2. x[2] \in DOMAIN invitations' /\ invitations'[x[2]].state = "accepted"
    BY <2>1 DEF Orderly
  <2> QED
    BY <1>3, <2>2 DEF Used
<1>4. CASE x[1] = "code"
  <2>1. x[2] \in Nat /\ x[2] <= fresh /\ \A u \in User : x[2] \notin users[u].codes
    BY <1>4 DEF Used
  <2>2. x[2] <= fresh' /\ x[2] # fresh + 1
    BY <1>0, <2>1
  <2>3. \A u \in User : x[2] \notin users'[u].codes
    BY <2>1, <2>2 DEF Orderly
  <2> QED
    BY <1>4, <2>1, <2>2, <2>3 DEF Used
<1>5. CASE x[1] = "totp"
  <2>1. /\ x[2] \in Nat /\ x[2] # 0 /\ x[2] <= fresh /\ x[3] \in Nat
        /\ \A u \in User : users[u].secret = x[2] => x[3] <= users[u].lastStep
        /\ \A n \in DOMAIN challenges : Live(n) => challenges[n].secret # x[2]
    BY <1>5 DEF Used
  <2>2. x[2] <= fresh' /\ x[2] # fresh + 1
    BY <1>0, <2>1
  <2>3. ASSUME NEW u \in User, users'[u].secret = x[2]
        PROVE  x[3] <= users'[u].lastStep
    <3>1. users'[u].secret = users[u].secret /\ users[u].lastStep <= users'[u].lastStep
      BY <2>1, <2>3 DEF Orderly
    <3>2. x[3] <= users[u].lastStep
      BY <2>1, <2>3, <3>1
    <3>3. users[u].lastStep \in Nat /\ users'[u].lastStep \in Nat
      BY DEF ShapeInv, Row, Orderly
    <3> QED
      BY <2>1, <3>1, <3>2, <3>3
  <2>4. ASSUME NEW n \in DOMAIN challenges', Live(n)'
        PROVE  challenges'[n].secret # x[2]
    BY <2>1, <2>2, <2>4 DEF Orderly
  <2> QED
    BY <1>5, <2>1, <2>2, <2>3, <2>4 DEF Used
<1> QED
  BY <1>1, <1>2, <1>3, <1>4, <1>5 DEF Used

\* A step that honours nothing, or things that were not honoured before.
LEMMA SpentKept ==
    ASSUME ShapeInv, users' \in [User -> Row], SpentInv, Orderly, UNCHANGED <<spent, twice>>
    PROVE  SpentInv'
BY UsedStable DEF SpentInv

LEMMA SpentOnce ==
    ASSUME ShapeInv, users' \in [User -> Row], SpentInv, Orderly, NEW things, Honour(things),
           \A x \in things : ~ Used(x) /\ Used(x)'
    PROVE  SpentInv'
<1>1. things \cap spent = {}
  BY DEF SpentInv
<1>2. twice' = {}
  BY <1>1 DEF SpentInv, Honour
<1>3. ASSUME NEW x \in spent'
      PROVE  Used(x)'
  BY <1>3, UsedStable DEF SpentInv, Honour
<1> QED
  BY <1>2, <1>3 DEF SpentInv

\* Where the secrets and the codes are after the step: one account u0 may be given
\* new codes, or the secret of a challenge n0 that is consumed, and one challenge n0
\* a new secret.
Hands(u0, n0) ==
    /\ fresh' \in {fresh, fresh + 1}
    /\ \A u \in User :
          \/ users'[u].secret = 0
          \/ users'[u].secret = users[u].secret /\ users[u].lastStep <= users'[u].lastStep
          \/ /\ u = u0 /\ n0 \in DOMAIN challenges /\ Live(n0) /\ ~ Live(n0)'
             /\ users'[u].secret = challenges[n0].secret
    /\ \A u \in User :
          \/ users'[u].codes \subseteq users[u].codes
          \/ u = u0 /\ fresh' = fresh + 1 /\ users'[u].codes = {fresh + 1}
    /\ \A n \in DOMAIN challenges : n \in DOMAIN challenges' /\ (challenges[n] = Gone => challenges'[n] = Gone)
    /\ \A n \in DOMAIN challenges' : Live(n)' =>
          \/ challenges'[n].secret = 0
          \/ n \in DOMAIN challenges /\ Live(n) /\ challenges'[n].secret = challenges[n].secret
          \/ n = n0 /\ fresh' = fresh + 1 /\ challenges'[n].secret = fresh + 1

LEMMA ApartStep ==
    ASSUME ShapeInv, ApartInv, NEW u0, NEW n0, Hands(u0, n0)
    PROVE  ApartInv'
<1>1. /\ fresh \in Nat /\ fresh' \in Nat /\ fresh <= fresh'
      /\ \A k \in Nat : k <= fresh => k <= fresh' /\ k # fresh + 1
      /\ fresh' = fresh + 1 => fresh + 1 <= fresh'
      /\ 0 <= fresh' /\ fresh + 1 # 0
  BY DEF ShapeInv, Hands
<1>2. \A u \in User :
        /\ users[u].secret \in Nat /\ users[u].secret <= fresh
        /\ \A b \in users[u].codes : b \in Nat /\ b <= fresh
  BY DEF ShapeInv, Row, ApartInv
<1>3. \A n \in DOMAIN challenges : Live(n) => challenges[n].secret \in Nat /\ challenges[n].secret <= fresh
  BY LiveIsChallenge DEF ShapeInv, ApartInv
<1>4. ASSUME NEW u \in User
      PROVE  /\ \/ users'[u].secret \in {0, users[u].secret}
                \/ /\ u = u0 /\ n0 \in DOMAIN challenges /\ Live(n0) /\ ~ Live(n0)'
                   /\ users'[u].secret = challenges[n0].secret
             /\ \/ users'[u].codes \subseteq users[u].codes
                \/ u = u0 /\ fresh' = fresh + 1 /\ users'[u].codes = {fresh + 1}
  BY DEF Hands
<1>5. ASSUME NEW n \in DOMAIN challenges', Live(n)'
      PROVE  \/ challenges'[n].secret = 0
             \/ n \in DOMAIN challenges /\ Live(n) /\ challenges'[n].secret = challenges[n].secret
             \/ n = n0 /\ fresh' = fresh + 1 /\ challenges'[n].secret = fresh + 1
  BY <1>5 DEF Hands
<1>6. ASSUME NEW u \in User
      PROVE  users'[u].secret <= fresh' /\ \A b \in users'[u].codes : b <= fresh'
  <2>1. users'[u].secret <= fresh'
    BY <1>1, <1>2, <1>3, <1>4
  <2>2. \A b \in users'[u].codes : b <= fresh'
    BY <1>1, <1>2, <1>4
  <2> QED
    BY <2>1, <2>2
<1>7. ASSUME NEW n \in DOMAIN challenges', Live(n)'
      PROVE  challenges'[n].secret <= fresh'
  BY <1>1, <1>3, <1>5, <1>7
<1>8. ASSUME NEW u \in User, NEW v \in User, u # v
      PROVE  /\ users'[u].secret # 0 => users'[u].secret # users'[v].secret
             /\ users'[u].codes \cap users'[v].codes = {}
  <2>1. /\ users[u].secret # 0 => users[u].secret # users[v].secret
        /\ users[v].secret # 0 => users[u].secret # users[v].secret
        /\ users[u].codes \cap users[v].codes = {}
    BY <1>8 DEF ApartInv
  <2>2. users'[u].secret # 0 => users'[u].secret # users'[v].secret
    <3>1. n0 \in DOMAIN challenges /\ Live(n0) /\ challenges[n0].secret # 0 =>
            users[u].secret # challenges[n0].secret /\ users[v].secret # challenges[n0].secret
      BY DEF ApartInv
    <3>2. /\ \/ users'[u].secret \in {0, users[u].secret}
             \/ /\ u = u0 /\ n0 \in DOMAIN challenges /\ Live(n0)
                /\ users'[u].secret = challenges[n0].secret
          /\ \/ users'[v].secret \in {0, users[v].secret}
             \/ /\ v = u0 /\ n0 \in DOMAIN challenges /\ Live(n0)
                /\ users'[v].secret = challenges[n0].secret
      BY <1>4
    <3> QED
      BY <1>8, <2>1, <3>1, <3>2
  <2>3. users'[u].codes \cap users'[v].codes = {}
    <3>1. fresh + 1 \notin users[u].codes /\ fresh + 1 \notin users[v].codes
      BY <1>1, <1>2
    <3>2. /\ users'[u].codes \subseteq users[u].codes \/ (u = u0 /\ users'[u].codes = {fresh + 1})
          /\ users'[v].codes \subseteq users[v].codes \/ (v = u0 /\ users'[v].codes = {fresh + 1})
      BY <1>4
    <3> QED
      BY <1>8, <2>1, <3>1, <3>2
  <2> QED
    BY <2>2, <2>3
<1>9. ASSUME NEW n \in DOMAIN challenges', NEW u \in User, Live(n)', challenges'[n].secret # 0
      PROVE  users'[u].secret # challenges'[n].secret
  <2>1. CASE n \in DOMAIN challenges /\ Live(n) /\ challenges'[n].secret = challenges[n].secret
    <3>1. users[u].secret # challenges[n].secret
      BY <1>9, <2>1 DEF ApartInv
    <3>2. /\ n0 \in DOMAIN challenges /\ Live(n0) /\ ~ Live(n0)' /\ challenges[n0].secret # 0 =>
                challenges[n0].secret # challenges[n].secret
      BY <1>9, <2>1 DEF ApartInv
    <3> QED
      BY <1>4, <1>9, <2>1, <3>1, <3>2
  <2>2. CASE challenges'[n].secret = fresh + 1
    BY <1>1, <1>2, <1>3, <1>4, <2>2
  <2> QED
    BY <1>5, <1>9, <2>1, <2>2
<1>10. ASSUME NEW m \in DOMAIN challenges', NEW n \in DOMAIN challenges', Live(m)', Live(n)', m # n,
              challenges'[m].secret # 0
       PROVE  challenges'[m].secret # challenges'[n].secret
  <2>1. /\ \/ m \in DOMAIN challenges /\ Live(m) /\ challenges'[m].secret = challenges[m].secret
           \/ m = n0 /\ challenges'[m].secret = fresh + 1
        /\ \/ challenges'[n].secret = 0
           \/ n \in DOMAIN challenges /\ Live(n) /\ challenges'[n].secret = challenges[n].secret
           \/ n = n0 /\ challenges'[n].secret = fresh + 1
    BY <1>5, <1>10
  <2>2. \A k \in DOMAIN challenges : Live(k) => challenges[k].secret # fresh + 1
    BY <1>1, <1>3
  <2>3. m \in DOMAIN challenges /\ Live(m) /\ n \in DOMAIN challenges /\ Live(n) /\ challenges[m].secret # 0 =>
          challenges[m].secret # challenges[n].secret
    BY <1>10 DEF ApartInv
  <2> QED
    BY <1>10, <2>1, <2>2, <2>3
<1> QED
  BY <1>6, <1>7, <1>8, <1>9, <1>10 DEF ApartInv

LEMMA ShownKept ==
    ASSUME ShownInv,
           \A n \in DOMAIN challenges' : Live(n)' =>
              \/ /\ n \in DOMAIN challenges /\ Live(n)
                 /\ challenges'[n].shown = challenges[n].shown
                 /\ challenges'[n].secret = challenges[n].secret
              \/ challenges'[n].shown \subseteq {challenges'[n].secret} \ {0}
    PROVE  ShownInv'
BY DEF ShownInv

\* What a request may hold.
Fits(it) ==
    /\ it.at \in Identified \cup {"idle", "enroll", "complete", "oidc", "feishu"}
    /\ it.at \in {"enroll", "complete"} => it.id \in DOMAIN challenges
    /\ it.at = "credential" => DOMAIN it = Credential
    /\ it.at \in Identified => Known(it.user, it.version, it.proof)
    /\ it.at = "feishu" =>
          /\ it.revision \in Nat /\ it.revision <= settings.revision
          /\ it.revision = settings.revision =>
                it.tenant = settings.config.tenant /\ settings.config.tenant # ""

LEMMA TenantKept ==
    ASSUME TenantInv, UNCHANGED settings,
           \A u \in User : \/ users'[u].feishu \in {users[u].feishu, NoIdentity}
                           \/ TenantOf[users'[u].feishu] = settings.config.tenant /\ settings.config.tenant # "",
           \A r \in Request : request'[r] = request[r] \/ request'[r].at # "feishu" \/ Fits(request[r])'
    PROVE  TenantInv'
<1>1. ASSUME NEW r \in Request, request'[r].at = "feishu"
      PROVE  /\ request'[r].revision \in Nat /\ request'[r].revision <= settings'.revision
             /\ request'[r].revision = settings'.revision =>
                  request'[r].tenant = settings'.config.tenant /\ settings'.config.tenant # ""
  BY <1>1 DEF TenantInv, Fits
<1>2. ASSUME NEW u \in User, users'[u].feishu # NoIdentity
      PROVE  TenantOf[users'[u].feishu] = settings'.config.tenant /\ settings'.config.tenant # ""
  BY <1>2 DEF TenantInv
<1>3. /\ DOMAIN settings' = {"revision", "config", "secrets"} /\ settings'.revision \in Nat
      /\ DOMAIN settings'.config = {"mode", "enabled", "tenant", "profiles"}
      /\ "feishu" \in settings'.config.enabled => settings'.config.tenant # ""
  BY DEF TenantInv
<1> QED
  BY <1>1, <1>2, <1>3 DEF TenantInv

LEMMA GotoFacts ==
    ASSUME DOMAIN request = Request, request = [q \in Request |-> request[q]],
           NEW r \in Request, NEW it, Goto(r, it)
    PROVE  /\ DOMAIN request' = Request /\ request' = [q \in Request |-> request'[q]]
           /\ request'[r] = it
           /\ \A q \in Request : q # r => request'[q] = request[q]
BY DEF Goto

\* One request goes on, or none.
Moves == UNCHANGED request \/ \E r \in Request : \E it : Goto(r, it) /\ Fits(it)'

LEMMA MovesFacts ==
    ASSUME ShapeInv, Moves, \A n \in DOMAIN challenges : n \in DOMAIN challenges'
    PROVE  /\ DOMAIN request' = Request /\ request' = [q \in Request |-> request'[q]]
           /\ \A q \in Request : request'[q] = request[q] \/ Fits(request[q])'
           /\ \A q \in Request :
                /\ request'[q].at \in Identified \cup {"idle", "enroll", "complete", "oidc", "feishu"}
                /\ request'[q].at \in {"enroll", "complete"} => request'[q].id \in DOMAIN challenges'
                /\ request'[q].at = "credential" => DOMAIN request'[q] = Credential
           /\ \A q \in Request : request'[q].at \in Identified =>
                request'[q] = request[q] \/ Known(request[q].user, request[q].version, request[q].proof)'
<1>1. DOMAIN request = Request /\ request = [q \in Request |-> request[q]]
  BY DEF ShapeInv
<1>2. /\ DOMAIN request' = Request /\ request' = [q \in Request |-> request'[q]]
      /\ \A q \in Request : request'[q] = request[q] \/ Fits(request[q])'
  <2>1. CASE UNCHANGED request
    BY <1>1, <2>1
  <2>2. ASSUME NEW r \in Request, NEW it, Goto(r, it), Fits(it)'
        PROVE  /\ DOMAIN request' = Request /\ request' = [q \in Request |-> request'[q]]
               /\ \A q \in Request : request'[q] = request[q] \/ Fits(request[q])'
    <3>1. /\ DOMAIN request' = Request /\ request' = [q \in Request |-> request'[q]]
          /\ request'[r] = it
          /\ \A q \in Request : q # r => request'[q] = request[q]
      BY <1>1, <2>2, GotoFacts
    <3>2. Fits(request[r])'
      BY <2>2, <3>1
    <3> QED
      BY <2>2, <3>1, <3>2
  <2> QED
    BY <2>1, <2>2 DEF Moves
<1>3. ASSUME NEW q \in Request
      PROVE  /\ request'[q].at \in Identified \cup {"idle", "enroll", "complete", "oidc", "feishu"}
             /\ request'[q].at \in {"enroll", "complete"} => request'[q].id \in DOMAIN challenges'
             /\ request'[q].at = "credential" => DOMAIN request'[q] = Credential
  BY <1>2 DEF ShapeInv, Fits
<1>4. ASSUME NEW q \in Request, request'[q].at \in Identified
      PROVE  request'[q] = request[q] \/ Known(request[q].user, request[q].version, request[q].proof)'
  BY <1>2, <1>4 DEF Fits
<1> QED
  BY <1>2, <1>3, <1>4

-----------------------------------------------------------------------------
(***************************************************************************)
(* What is to be shown of a step.                                          *)
(***************************************************************************)
Redirects ==
    /\ flows' \in Seq(Flow) /\ states' \subseteq DOMAIN flows'
    /\ \A n \in DOMAIN flows : n \in DOMAIN flows' /\ (n \notin states => n \notin states')

Links ==
    /\ invitations' \in Seq(Link)
    /\ \A n \in DOMAIN invitations :
          n \in DOMAIN invitations' /\ (invitations[n].state = "accepted" => invitations'[n].state = "accepted")

Rows ==
    /\ users' \in [User -> Row]
    /\ \A u \in User : users'[u].status = "absent" => users'[u] = Absent

\* A new cookie knows its account.
CookiesFit ==
    /\ cookies' \subseteq Cookie
    /\ \A c \in cookies' \ cookies :
          /\ Known(c.user, c.version, c.proof)'
          /\ users'[c.user].version = c.version => users'[c.user].secret = c.secret

\* A challenge says what it said, or is new.
ChallengesFit ==
    /\ challenges' \in Seq(Challenge \cup {Gone})
    /\ \A n \in DOMAIN challenges' : Live(n)' =>
          \/ /\ n \in DOMAIN challenges /\ Live(n)
             /\ challenges'[n].user = challenges[n].user
             /\ challenges'[n].version = challenges[n].version
             /\ challenges'[n].proof = challenges[n].proof
          \/ Known(challenges[n].user, challenges[n].version, challenges[n].proof)'
    /\ \A n \in DOMAIN challenges' : Live(n)' =>
          \/ /\ n \in DOMAIN challenges /\ Live(n)
             /\ challenges'[n].shown = challenges[n].shown
             /\ challenges'[n].secret = challenges[n].secret
          \/ challenges'[n].shown \subseteq {challenges'[n].secret} \ {0}

\* Nothing is honoured, or what was never honoured and cannot be again.
Honours ==
    \/ UNCHANGED <<spent, twice>>
    \/ \E things : Honour(things) /\ \A x \in things : ~ Used(x) /\ Used(x)'

\* Only an identity of the configured tenant is bound.
Bindings ==
    \A u \in User : \/ users'[u].feishu \in {users[u].feishu, NoIdentity}
                    \/ TenantOf[users'[u].feishu] = settings.config.tenant /\ settings.config.tenant # ""

LEMMA OrderlyStep ==
    ASSUME NEW u0, NEW n0, Hands(u0, n0), Redirects, Links
    PROVE  Orderly
<1>1. \A u \in User :
        /\ \/ users'[u].secret = 0
           \/ users'[u].secret = users[u].secret /\ users[u].lastStep <= users'[u].lastStep
           \/ \E n \in DOMAIN challenges : Live(n) /\ users'[u].secret = challenges[n].secret
        /\ users'[u].codes \subseteq users[u].codes \/ users'[u].codes \subseteq {fresh + 1}
  BY DEF Hands
<1>2. /\ fresh' \in {fresh, fresh + 1}
      /\ \A n \in DOMAIN challenges : n \in DOMAIN challenges' /\ (challenges[n] = Gone => challenges'[n] = Gone)
      /\ \A n \in DOMAIN challenges' : Live(n)' =>
          \/ challenges'[n].secret \in {0, fresh + 1}
          \/ n \in DOMAIN challenges /\ Live(n) /\ challenges'[n].secret = challenges[n].secret
  BY DEF Hands
<1> QED
  BY <1>1, <1>2 DEF Orderly, Redirects, Links

LEMMA Step ==
    ASSUME IdentityInv, NEW u0, NEW n0, Hands(u0, n0), Rows, FactorsHold, Bindings, CookiesFit, ChallengesFit,
           Honours, Moves, Redirects, Links, clock' \in Nat \ {0}, UNCHANGED settings
    PROVE  IdentityInv'
<1>1. /\ ShapeInv /\ KnownInv /\ ApartInv /\ SpentInv /\ ShownInv /\ TenantInv
  BY DEF IdentityInv
<1>2. \A n \in DOMAIN challenges : n \in DOMAIN challenges'
  BY DEF Hands
<1>3. /\ DOMAIN request' = Request /\ request' = [q \in Request |-> request'[q]]
      /\ \A q \in Request : request'[q] = request[q] \/ Fits(request[q])'
      /\ \A q \in Request :
           /\ request'[q].at \in Identified \cup {"idle", "enroll", "complete", "oidc", "feishu"}
           /\ request'[q].at \in {"enroll", "complete"} => request'[q].id \in DOMAIN challenges'
           /\ request'[q].at = "credential" => DOMAIN request'[q] = Credential
      /\ \A q \in Request : request'[q].at \in Identified =>
           request'[q] = request[q] \/ Known(request[q].user, request[q].version, request[q].proof)'
  BY <1>1, <1>2, MovesFacts
<1>4. fresh' \in Nat
  BY <1>1 DEF ShapeInv, Hands
<1>5. ShapeInv'
  BY <1>3, <1>4 DEF ShapeInv, Rows, Redirects, Links, CookiesFit, ChallengesFit
<1>6. KnownInv'
  BY <1>1, <1>3, KnownKept DEF Rows, CookiesFit, ChallengesFit
<1>7. ApartInv'
  BY <1>1, ApartStep
<1>8. Orderly
  BY OrderlyStep
<1>9. SpentInv'
  BY <1>1, <1>8, SpentKept, SpentOnce DEF Rows, Honours
<1>10. ShownInv'
  BY <1>1, ShownKept DEF ChallengesFit
<1>11. TenantInv'
  BY <1>1, <1>3, TenantKept DEF Bindings
<1> QED
  BY <1>5, <1>6, <1>7, <1>9, <1>10, <1>11 DEF IdentityInv

\* One row is written.
Writes(u, row) ==
    /\ row \in Row /\ row.status # "absent"
    /\ users[u].status # "absent" =>
          /\ users[u].version <= row.version
          /\ row.version = users[u].version =>
                /\ row.password = users[u].password
                /\ row.secret = users[u].secret
                /\ users[u].identities \subseteq row.identities
                /\ users[u].feishu # NoIdentity => row.feishu = users[u].feishu

LEMMA FactorsSame ==
    ASSUME ShapeInv, UNCHANGED users
    PROVE  Rows /\ FactorsHold
<1>1. \A u \in User : users[u].version \in Nat /\ users[u].version <= users[u].version
  BY DEF ShapeInv, Row
<1> QED
  BY <1>1 DEF ShapeInv, Rows, FactorsHold

LEMMA OneRow ==
    ASSUME ShapeInv, NEW u \in User, NEW row, Writes(u, row), users' = [users EXCEPT ![u] = row]
    PROVE  /\ Rows /\ FactorsHold
           /\ users'[u] = row /\ \A v \in User : v # u => users'[v] = users[v]
<1>1. users \in [User -> Row] /\ \A v \in User : users[v].status = "absent" => users[v] = Absent
  BY DEF ShapeInv
<1>2. users' \in [User -> Row] /\ users'[u] = row /\ \A v \in User : v # u => users'[v] = users[v]
  BY <1>1 DEF Writes
<1>3. \A v \in User : users[v].version \in Nat /\ users[v].version <= users[v].version
  BY <1>1 DEF Row
<1>4. FactorsHold
  <2> SUFFICES ASSUME NEW v \in User, users[v].status # "absent"
               PROVE  /\ users'[v].status # "absent"
                      /\ users[v].version <= users'[v].version
                      /\ users'[v].version = users[v].version =>
                            /\ users'[v].password = users[v].password
                            /\ users'[v].secret = users[v].secret
                            /\ users[v].identities \subseteq users'[v].identities
                            /\ users[v].feishu # NoIdentity => users'[v].feishu = users[v].feishu
    BY DEF FactorsHold
  <2>1. CASE v = u
    BY <1>2, <2>1 DEF Writes
  <2>2. CASE v # u
    BY <1>2, <1>3, <2>2
  <2> QED
    BY <2>1, <2>2
<1>5. Rows
  BY <1>1, <1>2 DEF Rows, Writes
<1> QED
  BY <1>2, <1>4, <1>5

-----------------------------------------------------------------------------
\* What a step leaves alone.
LEMMA Quiet ==
    ASSUME ShapeInv
    PROVE  /\ UNCHANGED cookies => CookiesFit
           /\ UNCHANGED challenges => ChallengesFit
           /\ UNCHANGED <<spent, twice>> => Honours
           /\ UNCHANGED externalVars => Redirects
           /\ UNCHANGED invitations => Links
           /\ UNCHANGED users => Rows /\ FactorsHold /\ Bindings
           /\ UNCHANGED request => Moves
<1>1. UNCHANGED cookies => CookiesFit
  BY DEF ShapeInv, CookiesFit
<1>2. UNCHANGED challenges => ChallengesFit
  BY DEF ShapeInv, ChallengesFit, Live
<1>3. UNCHANGED users => Rows /\ FactorsHold /\ Bindings
  BY FactorsSame DEF Bindings
<1> QED
  BY <1>1, <1>2, <1>3 DEF ShapeInv, Honours, Redirects, externalVars, Links, Moves

LEMMA SameHands ==
    ASSUME ShapeInv, fresh' \in {fresh, fresh + 1}, UNCHANGED challenges,
           \A u \in User :
              /\ \/ users'[u].secret = 0
                 \/ users'[u].secret = users[u].secret /\ users[u].lastStep <= users'[u].lastStep
              /\ users'[u].codes \subseteq users[u].codes
    PROVE  Hands(0, 0)
BY DEF Hands, Live

\* Only a request, a redirect, a link or the clock moves.
LEMMA CalmStep ==
    ASSUME IdentityInv, Moves, Redirects, Links, clock' \in Nat \ {0},
           UNCHANGED <<accountVars, cookies, challenges, spent, twice>>
    PROVE  IdentityInv'
<1>1. ShapeInv /\ UNCHANGED <<users, fresh, settings>>
  BY DEF IdentityInv, accountVars
<1>2. \A u \in User : users[u].lastStep <= users[u].lastStep
  BY <1>1, Numbers
<1>3. Hands(0, 0)
  BY <1>1, <1>2, SameHands
<1> QED
  BY <1>1, <1>3, Quiet, Step

LEMMA FitsStays ==
    ASSUME NEW it, Fits(it), UNCHANGED <<accountVars, challenges>>
    PROVE  Fits(it)'
BY DEF Fits, Known, Holds, accountVars

LEMMA IdleFits == Fits(NoRequest)
BY DEF Fits, NoRequest, Identified

LEMMA IdleMoves ==
    ASSUME NEW r \in Request, Done(r)
    PROVE  Moves
<1>1. Fits(NoRequest)'
  BY DEF Fits, NoRequest, Identified
<1> QED
  BY <1>1 DEF Moves, Done

\* Only the request goes on.
LEMMA ProceedStep ==
    ASSUME IdentityInv, NEW r \in Request, NEW it, Fits(it), Proceed(r, it),
           UNCHANGED <<externalVars, invitations>>
    PROVE  IdentityInv'
<1>1. ShapeInv /\ Goto(r, it) /\ UNCHANGED <<accountVars, cookies, challenges, clock, spent, twice>>
  BY DEF IdentityInv, Proceed
<1>2. Moves
  BY <1>1, FitsStays DEF Moves
<1> QED
  BY <1>1, <1>2, CalmStep, Quiet DEF ShapeInv

LEMMA FailStep ==
    ASSUME IdentityInv, NEW r \in Request, Fail(r), UNCHANGED <<externalVars, invitations>>
    PROVE  IdentityInv'
<1>1. Proceed(r, NoRequest)
  BY DEF Fail, Proceed, Done
<1> QED
  BY <1>1, IdleFits, ProceedStep

-----------------------------------------------------------------------------
(***************************************************************************)
(* The first factor.                                                       *)
(***************************************************************************)
LEMMA PasswordHolds ==
    ASSUME ShapeInv, NEW u \in User, users[u].password \notin {0, NoLocal}
    PROVE  Known(u, users[u].version, <<"password", users[u].password>>)
<1>1. users[u].status # "absent" /\ users[u].password \in Nat
  BY DEF ShapeInv, Row, Absent
<1>2. users[u].version \in Nat /\ users[u].version <= users[u].version
  BY Numbers
<1>3. <<"password", users[u].password>> \in Proof
  BY <1>1 DEF Proof
<1> QED
  BY <1>1, <1>2, <1>3 DEF Known, Holds

LEMMA PasswordLoginStep ==
    ASSUME IdentityInv, NEW r \in Request, NEW u \in User, passwordLogin(r, u),
           UNCHANGED <<externalVars, invitations>>
    PROVE  IdentityInv'
<1>1. PICK it : it = LocalCredential(u)
  OBVIOUS
<1>2. Proceed(r, it) /\ Known(u, users[u].version, <<"password", users[u].password>>)
  BY <1>1, PasswordHolds DEF passwordLogin, IdentityInv
<1>3. Fits(it)
  BY <1>1, <1>2 DEF LocalCredential, Fits, Identified, Credential
<1> QED
  BY <1>2, <1>3, ProceedStep

LEMMA AuthenticateLocalStep ==
    ASSUME IdentityInv, NEW r \in Request, AuthenticateLocal(r), UNCHANGED <<externalVars, invitations>>
    PROVE  IdentityInv'
<1>1. PICK it : it = [request[r] EXCEPT !.at = "primary"]
  OBVIOUS
<1>2. Proceed(r, it) \/ Fail(r)
  BY <1>1 DEF AuthenticateLocal
<1>3. request[r].at = "credential" /\ DOMAIN request[r] = Credential
  BY DEF AuthenticateLocal, At, IdentityInv, ShapeInv
<1>4. Known(request[r].user, request[r].version, request[r].proof)
  BY <1>3 DEF IdentityInv, KnownInv, Identified
<1>5. it.at = "primary" /\ it.user = request[r].user /\ it.version = request[r].version /\ it.proof = request[r].proof
  BY <1>1, <1>3 DEF Credential
<1>6. Fits(it)
  BY <1>4, <1>5 DEF Fits, Identified
<1> QED
  BY <1>2, <1>6, ProceedStep, FailStep

-----------------------------------------------------------------------------
(***************************************************************************)
(* Challenges and cookies.                                                 *)
(***************************************************************************)
LEMMA ChallengeReplaced ==
    ASSUME ShapeInv, NEW n \in DOMAIN challenges, NEW e \in Challenge \cup {Gone},
           challenges' = [challenges EXCEPT ![n] = e]
    PROVE  /\ challenges' \in Seq(Challenge \cup {Gone}) /\ DOMAIN challenges' = DOMAIN challenges
           /\ challenges'[n] = e /\ (Live(n)' <=> e # Gone)
           /\ \A m \in DOMAIN challenges : m # n => challenges'[m] = challenges[m] /\ (Live(m)' <=> Live(m))
<1>1. challenges \in Seq(Challenge \cup {Gone})
  BY DEF ShapeInv
<1>2. /\ challenges' \in Seq(Challenge \cup {Gone}) /\ DOMAIN challenges' = DOMAIN challenges
      /\ challenges'[n] = e
      /\ \A m \in DOMAIN challenges \ {n} : challenges'[m] = challenges[m]
  BY <1>1, Replaced
<1> QED
  BY <1>2 DEF Live

\* A row of mfa_challenges is changed, and nothing else but the request.
LEMMA ChallengeStep ==
    ASSUME IdentityInv, NEW n \in DOMAIN challenges, Live(n), NEW e,
           challenges' = [challenges EXCEPT ![n] = e],
           \/ e = Gone
           \/ /\ e \in Challenge
              /\ e.user = challenges[n].user /\ e.version = challenges[n].version
              /\ e.proof = challenges[n].proof
              /\ e.shown \subseteq {e.secret} \ {0}
              /\ e.secret = challenges[n].secret \/ (e.secret = fresh + 1 /\ fresh' = fresh + 1),
           fresh' \in {fresh, fresh + 1}, Moves,
           UNCHANGED <<users, settings, cookies, clock, spent, twice, externalVars, invitations>>
    PROVE  IdentityInv'
<1>1. ShapeInv
  BY DEF IdentityInv
<1>2. e \in Challenge \cup {Gone}
  OBVIOUS
<1>3. /\ challenges' \in Seq(Challenge \cup {Gone}) /\ DOMAIN challenges' = DOMAIN challenges
      /\ challenges'[n] = e /\ (Live(n)' <=> e # Gone)
      /\ \A m \in DOMAIN challenges : m # n => challenges'[m] = challenges[m] /\ (Live(m)' <=> Live(m))
  BY <1>1, <1>2, ChallengeReplaced
<1>4. ChallengesFit
  <2>1. ASSUME NEW m \in DOMAIN challenges', Live(m)'
        PROVE  /\ m \in DOMAIN challenges /\ Live(m)
               /\ challenges'[m].user = challenges[m].user
               /\ challenges'[m].version = challenges[m].version
               /\ challenges'[m].proof = challenges[m].proof
               /\ \/ challenges'[m] = challenges[m]
                  \/ challenges'[m].shown \subseteq {challenges'[m].secret} \ {0}
    BY <1>3, <2>1
  <2> QED
    BY <1>3, <2>1 DEF ChallengesFit
<1>5. Hands(0, n)
  <2>1. \A u \in User : users'[u] = users[u] /\ users[u].lastStep <= users[u].lastStep
    BY <1>1, Numbers
  <2>2. \A m \in DOMAIN challenges : m \in DOMAIN challenges' /\ (challenges[m] = Gone => challenges'[m] = Gone)
    BY <1>3 DEF Live
  <2>3. ASSUME NEW m \in DOMAIN challenges', Live(m)'
        PROVE  \/ m \in DOMAIN challenges /\ Live(m) /\ challenges'[m].secret = challenges[m].secret
               \/ m = n /\ fresh' = fresh + 1 /\ challenges'[m].secret = fresh + 1
    BY <1>3, <2>3
  <2> QED
    BY <2>1, <2>2, <2>3 DEF Hands
<1> QED
  BY <1>1, <1>4, <1>5, Quiet, Step DEF ShapeInv

LEMMA EnrollMFAStep ==
    ASSUME IdentityInv, NEW r \in Request, NEW n \in DOMAIN challenges, enrollMFA(r, n),
           UNCHANGED <<externalVars, invitations>>
    PROVE  IdentityInv'
<1>1. PICK it : it = [at |-> "enroll", id |-> n, mode |-> settings.config.mode, secret |-> challenges[n].secret]
  OBVIOUS
<1>2. Proceed(r, it)
  BY <1>1 DEF enrollMFA
<1>3. Fits(it)
  BY <1>1 DEF Fits, Identified
<1> QED
  BY <1>2, <1>3, ProceedStep

LEMMA CompleteMFABegins ==
    ASSUME IdentityInv, NEW r \in Request, NEW n \in DOMAIN challenges, NEW kind, completeMFA(r, n, kind),
           UNCHANGED <<externalVars, invitations>>
    PROVE  IdentityInv'
<1>1. PICK it : it = [at |-> "complete", id |-> n, kind |-> kind, mode |-> settings.config.mode]
  OBVIOUS
<1>2. PICK e : e = [challenges[n] EXCEPT !.attempts = challenges[n].attempts + 1]
  OBVIOUS
<1>3. /\ Live(n) /\ Goto(r, it) /\ challenges' = [challenges EXCEPT ![n] = e]
      /\ UNCHANGED <<users, settings, fresh, cookies, clock, spent, twice>>
  BY <1>1, <1>2 DEF completeMFA, AttemptMFAChallenge, MFAChallenge, accountVars
<1>4. ShapeInv /\ ShownInv /\ challenges[n] \in Challenge
  BY <1>3, LiveIsChallenge DEF IdentityInv, ShapeInv
<1>5. /\ e \in Challenge /\ e.user = challenges[n].user /\ e.version = challenges[n].version
      /\ e.proof = challenges[n].proof /\ e.shown = challenges[n].shown /\ e.secret = challenges[n].secret
  BY <1>2, <1>4 DEF Challenge
<1>6. e.shown \subseteq {e.secret} \ {0}
  BY <1>3, <1>4, <1>5 DEF ShownInv
<1>7. DOMAIN challenges' = DOMAIN challenges
  BY <1>3
<1>8. Fits(it)'
  BY <1>1, <1>7 DEF Fits, Identified
<1>9. Moves
  BY <1>3, <1>8 DEF Moves
<1> QED
  BY <1>3, <1>5, <1>6, <1>9, ChallengeStep

LEMMA ComparedStep ==
    ASSUME IdentityInv, NEW r \in Request, NEW n \in DOMAIN challenges, Live(n), Compared(r, n),
           UNCHANGED <<externalVars, invitations>>
    PROVE  IdentityInv'
<1>1. PICK e : e = [challenges[n] EXCEPT !.guesses = challenges[n].guesses + 1]
  OBVIOUS
<1>2. /\ Done(r) /\ challenges' = [challenges EXCEPT ![n] = e]
      /\ UNCHANGED <<users, settings, fresh, cookies, clock, spent, twice>>
  BY <1>1 DEF Compared, accountVars
<1>3. ShapeInv /\ ShownInv /\ challenges[n] \in Challenge
  BY LiveIsChallenge DEF IdentityInv, ShapeInv
<1>4. /\ e \in Challenge /\ e.user = challenges[n].user /\ e.version = challenges[n].version
      /\ e.proof = challenges[n].proof /\ e.shown = challenges[n].shown /\ e.secret = challenges[n].secret
  BY <1>1, <1>3 DEF Challenge
<1>5. e.shown \subseteq {e.secret} \ {0}
  BY <1>3, <1>4 DEF ShownInv
<1> QED
  BY <1>2, <1>4, <1>5, IdleMoves, ChallengeStep

LEMMA ChallengeExpiresStep ==
    ASSUME IdentityInv, NEW n \in DOMAIN challenges, ChallengeExpires(n), UNCHANGED <<externalVars, invitations>>
    PROVE  IdentityInv'
<1>1. /\ Live(n) /\ challenges' = [challenges EXCEPT ![n] = Gone]
      /\ UNCHANGED <<users, settings, fresh, cookies, request, clock, spent, twice>>
  BY DEF ChallengeExpires, ConsumeMFAChallenge, accountVars
<1> QED
  BY <1>1, ChallengeStep DEF Moves

\* The secret of a challenge is drawn once, and shown again.
LEMMA StartMFAEnrollmentStep ==
    ASSUME IdentityInv, NEW r \in Request, StartMFAEnrollment(r), UNCHANGED <<externalVars, invitations>>
    PROVE  IdentityInv'
<1>1. PICK n : n = request[r].id
  OBVIOUS
<1>2. CASE Fail(r)
  BY <1>2, FailStep
<1>3. CASE ~ Fail(r)
  <2>1. PICK s : /\ \/ s = challenges[n].secret /\ s # 0 /\ fresh' = fresh
                    \/ s = fresh + 1 /\ challenges[n].secret = 0 /\ fresh' = fresh + 1
                 /\ SetMFAEnrollment(n, s)
    BY <1>1, <1>3 DEF StartMFAEnrollment, Draw
  <2>2. /\ Live(n) /\ Done(r) /\ UNCHANGED <<users, settings, cookies, clock, spent, twice>>
    BY <1>1, <1>3 DEF StartMFAEnrollment, LockMFAChallenge
  <2>3. n \in DOMAIN challenges
    BY <2>2 DEF Live
  <2>4. ShapeInv /\ ShownInv /\ challenges[n] \in Challenge /\ fresh + 1 \in Nat /\ fresh + 1 # 0
    BY <2>2, <2>3, LiveIsChallenge DEF IdentityInv, ShapeInv
  <2>5. PICK e : e = [challenges[n] EXCEPT !.secret = s, !.shown = challenges[n].shown \cup {s}]
    OBVIOUS
  <2>6. challenges' = [challenges EXCEPT ![n] = e]
    BY <2>1, <2>3, <2>4, <2>5 DEF SetMFAEnrollment, ShapeInv
  <2>7. s \in Nat /\ challenges[n].shown \subseteq {challenges[n].secret} \ {0} /\ s # 0
    BY <2>1, <2>2, <2>3, <2>4 DEF ShownInv, Challenge
  <2>8. /\ e \in Challenge /\ e.user = challenges[n].user /\ e.version = challenges[n].version
        /\ e.proof = challenges[n].proof /\ e.secret = s /\ e.shown = challenges[n].shown \cup {s}
    BY <2>4, <2>5, <2>7 DEF Challenge
  <2>9. e.shown \subseteq {e.secret} \ {0}
    BY <2>1, <2>7, <2>8
  <2> QED
    BY <2>1, <2>2, <2>3, <2>6, <2>8, <2>9, IdleMoves, ChallengeStep
<1> QED
  BY <1>2, <1>3

\* The gate behind every first factor: a session, or a challenge.
LEMMA BeginMFAStep ==
    ASSUME IdentityInv, NEW r \in Request, NEW selfEnroll, request[r].at \in Identified,
           BeginMFA(r, selfEnroll), UNCHANGED <<externalVars, invitations>>
    PROVE  IdentityInv'
<1>1. PICK u, version, proof : u = request[r].user /\ version = request[r].version /\ proof = request[r].proof
  OBVIOUS
<1>2. ShapeInv /\ Known(u, version, proof)
  BY <1>1 DEF IdentityInv, KnownInv
<1>3. CASE Fail(r)
  BY <1>3, FailStep
<1>4. CASE ~ Fail(r)
  <2>1. /\ users[u].version = version /\ Done(r) /\ UNCHANGED <<users, settings, fresh, clock, spent, twice>>
    BY <1>1, <1>4 DEF BeginMFA, ValidateBrowserSession, accountVars
  <2>2. Known(u, version, proof)'
    BY <1>2, <2>1 DEF Known, Holds
  <2>3. u \in User /\ version \in Nat /\ proof \in Proof
    BY <1>2 DEF Known
  <2>4. Hands(0, 0) => IdentityInv' \/ ~ CookiesFit \/ ~ ChallengesFit
    BY <1>2, <2>1, IdleMoves, Quiet, Step DEF ShapeInv
  <2>5. \A v \in User : users'[v] = users[v] /\ users[v].lastStep <= users[v].lastStep
    BY <1>2, <2>1, Numbers
  <2>6. CASE UNCHANGED challenges /\ ~ MFA(u) /\ setSessionCookie(SignVersioned(u, version, proof))
    <3>1. PICK c : c = [user |-> u, version |-> version, secret |-> 0, proof |-> proof]
      OBVIOUS
    <3>2. cookies' = cookies \cup {c} /\ users[u].secret = 0
      BY <2>6, <3>1 DEF setSessionCookie, SignVersioned, MFA
    <3>3. c \in Cookie
      BY <2>3, <3>1 DEF Cookie
    <3>4. CookiesFit
      BY <1>2, <2>1, <2>2, <3>1, <3>2, <3>3 DEF CookiesFit, ShapeInv
    <3>5. Hands(0, 0)
      BY <1>2, <2>1, <2>5, <2>6, SameHands
    <3> QED
      BY <1>2, <2>4, <2>6, <3>4, <3>5, Quiet
  <2>7. ASSUME NEW kind \in {"enroll", "verify"}, CreateMFAChallenge(u, proof, kind), UNCHANGED cookies
        PROVE  IdentityInv'
    <3>1. PICK e : e = [user |-> u, version |-> version, kind |-> kind, secret |-> 0,
                        attempts |-> 0, proof |-> proof, guesses |-> 0, shown |-> {}]
      OBVIOUS
    <3>2. challenges' = Append(challenges, e) /\ challenges \in Seq(Challenge \cup {Gone})
      BY <1>2, <2>1, <2>7, <3>1 DEF CreateMFAChallenge, ShapeInv
    <3>3. e \in Challenge /\ e # Gone
      BY <2>3, <3>1 DEF Challenge, Gone
    <3>4. PICK k : k = Len(challenges) + 1
      OBVIOUS
    <3>5. /\ challenges' \in Seq(Challenge \cup {Gone}) /\ DOMAIN challenges' = DOMAIN challenges \cup {k}
          /\ k \notin DOMAIN challenges /\ challenges'[k] = e
          /\ \A n \in DOMAIN challenges : challenges'[n] = challenges[n]
      BY <3>2, <3>3, <3>4, Appended
    <3>6. \A n \in DOMAIN challenges : n \in DOMAIN challenges' /\ (Live(n)' <=> Live(n))
      BY <3>5 DEF Live
    <3>7. e.user = u /\ e.version = version /\ e.proof = proof /\ e.shown = {} /\ e.secret = 0
      BY <3>1
    <3>8. ChallengesFit
      BY <2>2, <3>5, <3>6, <3>7 DEF ChallengesFit
    <3>9. Hands(0, 0)
      BY <2>1, <2>5, <3>5, <3>6, <3>7 DEF Hands
    <3> QED
      BY <1>2, <2>4, <2>7, <3>8, <3>9, Quiet
  <2>8. \/ UNCHANGED challenges /\ ~ MFA(u) /\ setSessionCookie(SignVersioned(u, version, proof))
        \/ CreateMFAChallenge(u, proof, IF MFA(u) THEN "verify" ELSE "enroll") /\ UNCHANGED cookies
    BY <1>1, <1>4 DEF BeginMFA, Required
  <2>9. (IF MFA(u) THEN "verify" ELSE "enroll") \in {"enroll", "verify"}
    OBVIOUS
  <2> QED
    BY <2>6, <2>7, <2>8, <2>9
<1> QED
  BY <1>3, <1>4

LEMMA FinishPrimaryLoginStep ==
    ASSUME IdentityInv, NEW r \in Request, finishPrimaryLogin(r) \/ enrollOwnMFA(r),
           UNCHANGED <<externalVars, invitations>>
    PROVE  IdentityInv'
<1>1. request[r].at \in Identified /\ \E selfEnroll : BeginMFA(r, selfEnroll)
  BY DEF finishPrimaryLogin, enrollOwnMFA, At, Identified
<1> QED
  BY <1>1, BeginMFAStep

LEMMA CurrentUserStep ==
    ASSUME IdentityInv, NEW r \in Request, NEW c \in cookies, currentUser(r, c),
           UNCHANGED <<externalVars, invitations>>
    PROVE  IdentityInv'
<1>1. PICK it : it = [at |-> "authorised", user |-> c.user, version |-> c.version, proof |-> c.proof,
                      mode |-> settings.config.mode, enabled |-> settings.config.enabled]
  OBVIOUS
<1>2. Proceed(r, it) /\ Known(c.user, c.version, c.proof)
  BY <1>1 DEF currentUser, IdentityInv, KnownInv
<1>3. Fits(it)
  BY <1>1, <1>2 DEF Fits, Identified
<1> QED
  BY <1>2, <1>3, ProceedStep

LEMMA TickStep ==
    ASSUME IdentityInv, Tick, UNCHANGED <<externalVars, invitations>>
    PROVE  IdentityInv'
<1>1. ShapeInv /\ clock' \in Nat \ {0} /\ UNCHANGED <<accountVars, cookies, challenges, request, spent, twice>>
  BY DEF IdentityInv, ShapeInv, Tick
<1> QED
  BY <1>1, Quiet, CalmStep

-----------------------------------------------------------------------------
(***************************************************************************)
(* Rows that are written while nothing is honoured.                        *)
(***************************************************************************)
LEMMA RowStep ==
    ASSUME IdentityInv, NEW u \in User, NEW row, Writes(u, row), users' = [users EXCEPT ![u] = row],
           \/ row.secret = 0
           \/ row.secret = users[u].secret /\ row.lastStep = users[u].lastStep,
           row.codes \subseteq users[u].codes,
           \/ row.feishu \in {users[u].feishu, NoIdentity}
           \/ TenantOf[row.feishu] = settings.config.tenant /\ settings.config.tenant # "",
           fresh' \in {fresh, fresh + 1}, Moves, Redirects, Links, Honours,
           UNCHANGED <<settings, cookies, challenges, clock>>
    PROVE  IdentityInv'
<1>1. ShapeInv /\ clock' \in Nat \ {0}
  BY DEF IdentityInv, ShapeInv
<1>2. /\ Rows /\ FactorsHold
      /\ users'[u] = row /\ \A v \in User : v # u => users'[v] = users[v]
  BY <1>1, OneRow
<1>3. Bindings
  BY <1>2 DEF Bindings
<1>4. \A v \in User : users[v].lastStep <= users[v].lastStep
  BY <1>1, Numbers
<1>5. Hands(0, 0)
  <2>1. ASSUME NEW v \in User
        PROVE  /\ \/ users'[v].secret = 0
                  \/ users'[v].secret = users[v].secret /\ users[v].lastStep <= users'[v].lastStep
               /\ users'[v].codes \subseteq users[v].codes
    BY <1>2, <1>4
  <2> QED
    BY <1>1, <2>1, SameHands
<1> QED
  BY <1>1, <1>2, <1>3, <1>5, Quiet, Step

\* The rows the statements make of a row.
LEMMA RowFields ==
    ASSUME ShapeInv, NEW u \in User
    PROVE  /\ users[u] \in Row
           /\ \A status \in {"active", "inactive"} : users[u].status # "absent" =>
                /\ Writes(u, UpdateProfile(users[u], status))
                /\ UpdateProfile(users[u], status).secret = users[u].secret
                /\ UpdateProfile(users[u], status).lastStep = users[u].lastStep
                /\ UpdateProfile(users[u], status).codes = users[u].codes
                /\ UpdateProfile(users[u], status).feishu = users[u].feishu
           /\ \A hash \in Nat :
                /\ UpdateLocalPassword(users[u], hash) \in Row
                /\ UpdateLocalPassword(users[u], hash).status = users[u].status
                /\ UpdateLocalPassword(users[u], hash).version = users[u].version + 1
                /\ UpdateLocalPassword(users[u], hash).password = hash
                /\ UpdateLocalPassword(users[u], hash).secret = users[u].secret
                /\ UpdateLocalPassword(users[u], hash).lastStep = users[u].lastStep
                /\ UpdateLocalPassword(users[u], hash).codes = users[u].codes
                /\ UpdateLocalPassword(users[u], hash).feishu = users[u].feishu
<1>1. users[u] \in Row
  BY DEF ShapeInv
<1>2. /\ users[u].version \in Nat /\ users[u].version + 1 \in Nat /\ users[u].version <= users[u].version
      /\ users[u].version <= users[u].version + 1 /\ users[u].version + 1 # users[u].version
  BY Numbers
<1>3. ASSUME NEW status \in {"active", "inactive"}, users[u].status # "absent"
      PROVE  /\ Writes(u, UpdateProfile(users[u], status))
             /\ UpdateProfile(users[u], status).secret = users[u].secret
             /\ UpdateProfile(users[u], status).lastStep = users[u].lastStep
             /\ UpdateProfile(users[u], status).codes = users[u].codes
             /\ UpdateProfile(users[u], status).feishu = users[u].feishu
  <2>1. PICK version \in {users[u].version, users[u].version + 1} :
            UpdateProfile(users[u], status) = [users[u] EXCEPT !.status = status, !.version = version]
    BY DEF UpdateProfile
  <2>2. PICK row : row = UpdateProfile(users[u], status)
    OBVIOUS
  <2>3. /\ row \in Row /\ row.status = status /\ row.version = version /\ row.password = users[u].password
        /\ row.secret = users[u].secret /\ row.lastStep = users[u].lastStep /\ row.codes = users[u].codes
        /\ row.feishu = users[u].feishu /\ row.identities = users[u].identities
    <3>1. version \in Nat /\ row = [users[u] EXCEPT !.status = status, !.version = version]
      BY <1>2, <2>1, <2>2
    <3> QED
      BY <1>1, <3>1 DEF Row
  <2>4. Writes(u, row)
    BY <1>2, <2>3 DEF Writes
  <2> QED
    BY <2>2, <2>3, <2>4
<1>4. ASSUME NEW hash \in Nat
      PROVE  /\ UpdateLocalPassword(users[u], hash) \in Row
             /\ UpdateLocalPassword(users[u], hash).status = users[u].status
             /\ UpdateLocalPassword(users[u], hash).version = users[u].version + 1
             /\ UpdateLocalPassword(users[u], hash).password = hash
             /\ UpdateLocalPassword(users[u], hash).secret = users[u].secret
             /\ UpdateLocalPassword(users[u], hash).lastStep = users[u].lastStep
             /\ UpdateLocalPassword(users[u], hash).codes = users[u].codes
             /\ UpdateLocalPassword(users[u], hash).feishu = users[u].feishu
  BY <1>1, <1>2 DEF Row, UpdateLocalPassword
<1> QED
  BY <1>1, <1>3, <1>4

LEMMA ChangeUserStatusStep ==
    ASSUME IdentityInv, NEW actor, NEW u \in User, NEW status \in {"active", "inactive"},
           changeUserStatus(actor, u, status), UNCHANGED <<externalVars, invitations>>
    PROVE  IdentityInv'
<1>1. PICK row : row = UpdateProfile(users[u], status)
  OBVIOUS
<1>2. /\ users[u].status # "absent" /\ users' = [users EXCEPT ![u] = row]
      /\ UNCHANGED <<settings, fresh, cookies, challenges, request, clock, spent, twice>>
  BY <1>1 DEF changeUserStatus, signInVars
<1>3. ShapeInv
  BY DEF IdentityInv
<1>4. /\ Writes(u, row) /\ row.secret = users[u].secret /\ row.lastStep = users[u].lastStep
      /\ row.codes = users[u].codes /\ row.feishu = users[u].feishu
  BY <1>1, <1>2, <1>3, RowFields
<1> QED
  BY <1>2, <1>3, <1>4, Quiet, RowStep

LEMMA ChangePasswordStep ==
    ASSUME IdentityInv, NEW r \in Request, ChangePassword(r), UNCHANGED <<externalVars, invitations>>
    PROVE  IdentityInv'
<1>1. CASE Fail(r)
  BY <1>1, FailStep
<1>2. CASE ~ Fail(r)
  <2>1. ShapeInv /\ request[r].user \in User
    BY DEF ChangePassword, At, IdentityInv, KnownInv, Known, Identified
  <2>2. PICK u \in User : u = request[r].user
    BY <2>1
  <2>3. PICK row : row = UpdateLocalPassword(users[u], fresh + 1)
    OBVIOUS
  <2>4. /\ users[u].status = "active" /\ fresh' = fresh + 1 /\ users' = [users EXCEPT ![u] = row] /\ Done(r)
        /\ UNCHANGED <<settings, cookies, challenges, clock, spent, twice>>
    BY <1>2, <2>2, <2>3 DEF ChangePassword, Draw
  <2>5. /\ row \in Row /\ row.status = users[u].status /\ row.version = users[u].version + 1
        /\ row.secret = users[u].secret /\ row.lastStep = users[u].lastStep
        /\ row.codes = users[u].codes /\ row.feishu = users[u].feishu
    BY <2>1, <2>3, RowFields, Numbers
  <2>6. Writes(u, row)
    BY <2>1, <2>4, <2>5, Numbers DEF Writes
  <2> QED
    BY <2>1, <2>4, <2>5, <2>6, IdleMoves, Quiet, RowStep
<1> QED
  BY <1>1, <1>2

LEMMA ResetUserMFAStep ==
    ASSUME IdentityInv, NEW actor, NEW u \in User, ResetUserMFA(actor, u),
           UNCHANGED <<externalVars, invitations>>
    PROVE  IdentityInv'
<1>1. PICK row : row = BumpAuthVersion(DeleteMFA(users[u]))
  OBVIOUS
<1>2. /\ users[u].secret # 0 /\ users' = [users EXCEPT ![u] = row]
      /\ UNCHANGED <<settings, fresh, cookies, challenges, request, clock, spent, twice>>
  BY <1>1 DEF ResetUserMFA, MFA, signInVars
<1>3. ShapeInv /\ users[u] \in Row /\ users[u].status # "absent"
  BY <1>2 DEF IdentityInv, ShapeInv, Absent
<1>4. users[u].version + 1 \in Nat
  BY <1>3, Numbers
<1>5. /\ row \in Row /\ row.status = users[u].status /\ row.version = users[u].version + 1
      /\ row.secret = 0 /\ row.codes = {} /\ row.feishu = users[u].feishu
  BY <1>1, <1>3, <1>4 DEF BumpAuthVersion, DeleteMFA, Row
<1>6. Writes(u, row)
  BY <1>3, <1>5, Numbers DEF Writes
<1> QED
  BY <1>2, <1>3, <1>5, <1>6, Quiet, RowStep

-----------------------------------------------------------------------------
(***************************************************************************)
(* Providers.                                                              *)
(***************************************************************************)
LEMMA BeginLoginStep ==
    ASSUME IdentityInv, NEW provider \in {"feishu", "oidc"}, NEW u \in User \cup {NoUser}, NEW version \in Nat,
           beginLogin(provider, u, version)
    PROVE  Redirects
<1>1. flows \in Seq(Flow) /\ states \subseteq DOMAIN flows /\ settings.revision \in Nat
  BY DEF IdentityInv, ShapeInv, TenantInv
<1>2. PICK e : e = [provider |-> provider, user |-> u, version |-> version, revision |-> settings.revision]
  OBVIOUS
<1>3. e \in Flow
  BY <1>1, <1>2 DEF Flow
<1>4. flows' = Append(flows, e) /\ states' = states \cup {Len(flows')}
  BY <1>2 DEF beginLogin
<1>5. /\ flows' \in Seq(Flow) /\ DOMAIN flows' = DOMAIN flows \cup {Len(flows) + 1}
      /\ Len(flows) + 1 \notin DOMAIN flows /\ Len(flows') = Len(flows) + 1
  BY <1>1, <1>3, <1>4, Appended
<1> QED
  BY <1>1, <1>4, <1>5 DEF Redirects

LEMMA ExternalLoginStep ==
    ASSUME IdentityInv, NEW provider \in {"feishu", "oidc"}, externalLogin(provider), UNCHANGED invitations
    PROVE  IdentityInv'
<1>1. /\ ShapeInv /\ Redirects
      /\ UNCHANGED <<accountVars, cookies, challenges, request, clock, spent, twice>>
  BY BeginLoginStep DEF IdentityInv, externalLogin, signInVars
<1> QED
  BY <1>1, Quiet, CalmStep DEF ShapeInv

LEMMA BindFeishuBegins ==
    ASSUME IdentityInv, NEW r \in Request, bindFeishu(r), UNCHANGED invitations
    PROVE  IdentityInv'
<1>1. /\ ShapeInv /\ request[r].user \in User /\ request[r].version \in Nat
  BY DEF bindFeishu, At, IdentityInv, KnownInv, Known, Identified
<1>2. /\ Done(r) /\ UNCHANGED <<accountVars, cookies, challenges, clock, spent, twice>>
      /\ beginLogin("feishu", request[r].user, request[r].version)
  BY DEF bindFeishu
<1>3. Redirects
  BY <1>1, <1>2, BeginLoginStep
<1> QED
  BY <1>1, <1>2, <1>3, IdleMoves, Quiet, CalmStep DEF ShapeInv

LEMMA StateExpiresStep ==
    ASSUME IdentityInv, NEW n \in states, StateExpires(n), UNCHANGED invitations
    PROVE  IdentityInv'
<1>1. ShapeInv /\ UNCHANGED <<accountVars, cookies, challenges, request, clock, spent, twice>>
  BY DEF IdentityInv, StateExpires, signInVars
<1>2. Redirects
  BY <1>1 DEF Redirects, StateExpires, ShapeInv
<1> QED
  BY <1>1, <1>2, Quiet, CalmStep DEF ShapeInv

\* A state is honoured by the callback that deletes it.
LEMMA ExternalCallbackStep ==
    ASSUME IdentityInv, NEW r \in Request, NEW n \in DOMAIN flows, externalCallback(r, n), UNCHANGED invitations
    PROVE  IdentityInv'
<1>1. PICK it : it = [at |-> flows[n].provider, user |-> flows[n].user, version |-> flows[n].version,
                      revision |-> settings.revision, tenant |-> settings.config.tenant,
                      mode |-> settings.config.mode]
  OBVIOUS
<1>2. /\ ShapeInv /\ TenantInv /\ Goto(r, it) /\ Honour({<<"state", n>>}) /\ n \in states /\ states' = states \ {n}
      /\ flows[n].provider \in settings.config.enabled
      /\ UNCHANGED <<accountVars, cookies, challenges, clock, flows>>
  BY <1>1 DEF IdentityInv, externalCallback, Consume, redirectEnabled
<1>3. flows[n].provider \in {"feishu", "oidc"}
  <2>1. flows \in Seq(Flow)
    BY <1>2 DEF ShapeInv
  <2>2. flows[n] \in Flow
    BY <2>1
  <2> QED
    BY <2>2 DEF Flow
<1>4. settings.revision \in Nat /\ settings.revision <= settings.revision
  BY <1>2, Reflexive DEF TenantInv
<1>5. Fits(it)
  BY <1>1, <1>2, <1>3, <1>4 DEF Fits, Identified, TenantInv
<1>6. Moves
  BY <1>2, <1>5, FitsStays DEF Moves
<1>7. Redirects
  BY <1>2 DEF Redirects, ShapeInv
<1>8. ~ Used(<<"state", n>>) /\ Used(<<"state", n>>)'
  BY <1>2 DEF Used
<1>9. Honours
  BY <1>2, <1>8 DEF Honours
<1>10. UNCHANGED <<users, fresh, settings>> /\ clock' \in Nat \ {0}
  BY <1>2 DEF accountVars, ShapeInv
<1>11. Hands(0, 0)
  BY <1>2, <1>10, Numbers, SameHands
<1> QED
  BY <1>2, <1>6, <1>7, <1>9, <1>10, <1>11, Quiet, Step

\* The first factor was proved, and the row says so.
LEMMA PrimaryMoves ==
    ASSUME NEW r \in Request, NEW u, NEW version, NEW proof, Primary(r, u, version, proof),
           Known(u, version, proof)'
    PROVE  Moves
<1>1. PICK it : it = [at |-> "primary", user |-> u, version |-> version, mode |-> request[r].mode, proof |-> proof]
  OBVIOUS
<1>2. Fits(it)'
  BY <1>1 DEF Fits, Identified
<1> QED
  BY <1>1, <1>2 DEF Primary, Moves

LEMMA AbsentRow ==
    ASSUME ShapeInv, NEW u \in User, users[u].status = "absent", NEW status \in {"active", "inactive"}
    PROVE  /\ users[u] = Absent /\ users[u].secret = 0 /\ users[u].codes = {}
           /\ Create(status) \in Row /\ Create(status).status = status /\ Create(status).version = 0
           /\ Create(status).secret = 0 /\ Create(status).codes = {} /\ Create(status).lastStep = 0
           /\ Create(status).feishu = NoIdentity /\ Create(status).identities = {}
           /\ Create(status).password = NoLocal
<1>1. users[u] = Absent
  BY DEF ShapeInv
<1>2. Absent.secret = 0 /\ Absent.codes = {}
  BY ONLY TRUE DEF Absent
<1>3. Create(status) = [status |-> status, version |-> 0, password |-> NoLocal, feishu |-> NoIdentity,
                       identities |-> {}, secret |-> 0, lastStep |-> 0, codes |-> {}]
  BY ONLY TRUE DEF Absent, Create
<1>4. Create(status) \in Row
  BY ONLY <1>3, status \in {"active", "inactive"} DEF Row
<1> QED
  BY ONLY <1>1, <1>2, <1>3, <1>4

LEMMA SyncExternalUserStep ==
    ASSUME IdentityInv, NEW r \in Request, NEW subject \in Subject, SyncExternalUser(r, subject),
           UNCHANGED invitations
    PROVE  IdentityInv'
<1>1. ShapeInv /\ UNCHANGED <<externalVars, invitations>> /\ <<"oidc", subject>> \in Proof
  BY DEF IdentityInv, SyncExternalUser, Proof
<1>2. CASE Fail(r)
  BY <1>1, <1>2, FailStep
<1>3. ASSUME NEW u \in GetByIdentity(subject), users[u].status = "active",
             Primary(r, u, users[u].version, <<"oidc", subject>>),
             UNCHANGED <<accountVars, cookies, challenges, clock, spent, twice>>
      PROVE  IdentityInv'
  <2>1. u \in User /\ subject \in users[u].identities /\ users' = users
    BY <1>3 DEF GetByIdentity, accountVars
  <2>2. PICK version : version = users[u].version
    OBVIOUS
  <2>3. Known(u, version, <<"oidc", subject>>)'
    BY <1>1, <1>3, <2>1, <2>2, Numbers DEF Known, Holds
  <2>4. Moves
    BY <1>3, <2>2, <2>3, PrimaryMoves
  <2> QED
    BY <1>1, <1>3, <2>4, Quiet, CalmStep DEF ShapeInv
<1>4. ASSUME NEW u \in Unused, users' = [users EXCEPT ![u] = CreateIdentity(Create("active"), subject)],
             Primary(r, u, 0, <<"oidc", subject>>),
             UNCHANGED <<settings, fresh, cookies, challenges, clock, spent, twice>>
      PROVE  IdentityInv'
  <2>1. u \in User /\ users[u].status = "absent"
    BY DEF Unused
  <2>2. PICK row : row = CreateIdentity(Create("active"), subject)
    OBVIOUS
  <2>3. /\ users[u].secret = 0 /\ users[u].codes = {}
        /\ row \in Row /\ row.status = "active" /\ row.version = 0 /\ row.secret = 0 /\ row.codes = {}
        /\ row.feishu = NoIdentity /\ row.identities = {subject}
    BY <1>1, <2>1, <2>2, AbsentRow DEF CreateIdentity, Row
  <2>4. Writes(u, row)
    BY <2>1, <2>3 DEF Writes
  <2>5. users' = [users EXCEPT ![u] = row] /\ users'[u] = row
    BY <1>1, <1>4, <2>1, <2>2 DEF ShapeInv
  <2>6. Known(u, 0, <<"oidc", subject>>)'
    BY <1>1, <2>1, <2>3, <2>5 DEF Known, Holds
  <2>7. Moves
    BY <1>4, <2>6, PrimaryMoves
  <2> QED
    BY <1>1, <1>4, <2>1, <2>3, <2>4, <2>5, <2>7, Quiet, RowStep
<1>5. ASSUME Unused # {}
      PROVE  (CHOOSE v \in Unused : TRUE) \in Unused
  BY <1>5
<1> QED
  BY <1>2, <1>3, <1>4, <1>5 DEF SyncExternalUser

\* A profile updates the account it is bound to, or makes one.
LEMMA SyncFeishuUserStep ==
    ASSUME IdentityInv, NEW r \in Request, NEW openID \in OpenID, NEW active \in BOOLEAN,
           SyncFeishuUser(r, openID, active), UNCHANGED invitations
    PROVE  IdentityInv'
<1>1. ShapeInv /\ TenantInv /\ UNCHANGED <<externalVars, invitations>> /\ <<"feishu", openID>> \in Proof
  BY DEF IdentityInv, SyncFeishuUser, Proof
<1>2. CASE Fail(r)
  BY <1>1, <1>2, FailStep
<1>3. CASE ~ Fail(r)
  <2>1. PICK status \in {"active", "inactive"} : status = IF active THEN "active" ELSE "inactive"
    OBVIOUS
  <2>2. /\ request[r].at = "feishu" /\ TenantOf[openID] = request[r].tenant
        /\ settings.revision = request[r].revision
        /\ UNCHANGED <<settings, fresh, cookies, challenges, clock, spent, twice>>
    BY <1>3 DEF SyncFeishuUser, At, validateFeishuSettings
  <2>3. TenantOf[openID] = settings.config.tenant /\ settings.config.tenant # ""
    BY <1>1, <2>2 DEF TenantInv
  <2>4. PICK u \in User :
          /\ \/ users[u].feishu = openID /\ users' = [users EXCEPT ![u] = updateFeishuProfile(users[u], status)]
             \/ users[u].status = "absent" /\ users' = [users EXCEPT ![u] = BindFeishu(Create(status), openID)]
          /\ IF users'[u].status = "active" THEN Primary(r, u, users'[u].version, <<"feishu", openID>>)
             ELSE Done(r)
    <3>1. ASSUME Unused # {}
          PROVE  (CHOOSE v \in Unused : TRUE) \in Unused
      BY <3>1
    <3> QED
      BY <1>3, <2>1, <3>1 DEF SyncFeishuUser, UpsertByFeishu, Unused
  <2>5. PICK row :
          /\ users' = [users EXCEPT ![u] = row] /\ Writes(u, row)
          /\ row.secret = 0 \/ (row.secret = users[u].secret /\ row.lastStep = users[u].lastStep)
          /\ row.codes \subseteq users[u].codes /\ row.feishu = openID
    <3>1. ASSUME users[u].feishu = openID,
                 users' = [users EXCEPT ![u] = updateFeishuProfile(users[u], status)]
          PROVE  \E row :
                    /\ users' = [users EXCEPT ![u] = row] /\ Writes(u, row)
                    /\ row.secret = 0 \/ (row.secret = users[u].secret /\ row.lastStep = users[u].lastStep)
                    /\ row.codes \subseteq users[u].codes /\ row.feishu = openID
      <4>1. PICK row : row = updateFeishuProfile(users[u], status)
        OBVIOUS
      <4>2. users[u] \in Row /\ users[u].status \in {"active", "inactive"}
        BY <1>1, <3>1, ExternalAssumption DEF ShapeInv, Row, Absent
      <4>3. PICK version \in {users[u].version, users[u].version + 1}, now \in {"active", "inactive"} :
                row = [users[u] EXCEPT !.status = now, !.version = version]
        BY <4>1, <4>2 DEF updateFeishuProfile
      <4>4. version \in Nat /\ users[u].version <= version
        BY <1>1, <4>3, Numbers
      <4>5. /\ row \in Row /\ row.status = now /\ row.version = version /\ row.password = users[u].password
            /\ row.secret = users[u].secret /\ row.lastStep = users[u].lastStep /\ row.codes = users[u].codes
            /\ row.feishu = users[u].feishu /\ row.identities = users[u].identities
        BY <4>2, <4>3, <4>4 DEF Row
      <4>6. Writes(u, row)
        BY <4>4, <4>5 DEF Writes
      <4> QED
        BY <3>1, <4>1, <4>5, <4>6
    <3>2. ASSUME users[u].status = "absent",
                 users' = [users EXCEPT ![u] = BindFeishu(Create(status), openID)]
          PROVE  \E row :
                    /\ users' = [users EXCEPT ![u] = row] /\ Writes(u, row)
                    /\ row.secret = 0 \/ (row.secret = users[u].secret /\ row.lastStep = users[u].lastStep)
                    /\ row.codes \subseteq users[u].codes /\ row.feishu = openID
      <4>1. PICK row : row = BindFeishu(Create(status), openID)
        OBVIOUS
      <4>2. /\ row \in Row /\ row.status = status /\ row.secret = 0 /\ row.codes = {} /\ row.feishu = openID
        BY <1>1, <3>2, <4>1, AbsentRow DEF BindFeishu, Row
      <4>3. Writes(u, row)
        BY <3>2, <4>2 DEF Writes
      <4> QED
        BY <3>2, <4>1, <4>2, <4>3
    <3> QED
      BY <2>4, <3>1, <3>2
  <2>6. users'[u] = row /\ row \in Row /\ row.status # "absent"
    BY <1>1, <2>5 DEF ShapeInv, Writes
  <2>7. Moves
    <3>1. PICK version : version = row.version
      OBVIOUS
    <3>2. version \in Nat /\ version <= version
      BY <2>6, <3>1, Reflexive DEF Row
    <3>3. Known(u, version, <<"feishu", openID>>)'
      BY <1>1, <2>5, <2>6, <3>1, <3>2 DEF Known, Holds
    <3> QED
      BY <2>4, <2>6, <3>1, <3>3, PrimaryMoves, IdleMoves
  <2> QED
    BY <1>1, <2>2, <2>3, <2>5, <2>7, Quiet, RowStep
<1> QED
  BY <1>2, <1>3

LEMMA BindFeishuUserStep ==
    ASSUME IdentityInv, NEW r \in Request, NEW c \in cookies, NEW openID \in OpenID,
           BindFeishuUser(r, c, openID), UNCHANGED invitations
    PROVE  IdentityInv'
<1>1. ShapeInv /\ TenantInv /\ UNCHANGED <<externalVars, invitations>>
  BY DEF IdentityInv, BindFeishuUser
<1>2. CASE Fail(r)
  BY <1>1, <1>2, FailStep
<1>3. CASE ~ Fail(r)
  <2>1. c.user \in User /\ c.user = request[r].user
    BY <1>1 DEF BindFeishuUser, ShapeInv, Cookie
  <2>2. PICK u \in User : u = request[r].user
    BY <2>1
  <2>3. PICK row : row = BindFeishu(users[u], openID)
    OBVIOUS
  <2>4. /\ request[r].at = "feishu" /\ TenantOf[openID] = request[r].tenant
        /\ settings.revision = request[r].revision
        /\ users[u].status = "active" /\ users[u].feishu \in {NoIdentity, openID}
        /\ users' = [users EXCEPT ![u] = row] /\ Done(r)
        /\ UNCHANGED <<settings, fresh, cookies, challenges, clock, spent, twice>>
    BY <1>3, <2>2, <2>3
       DEF BindFeishuUser, At, validateFeishuSettings, BindFeishuAllowed, ValidateBrowserSession
  <2>5. TenantOf[openID] = settings.config.tenant /\ settings.config.tenant # ""
    BY <1>1, <2>4 DEF TenantInv
  <2>6. users[u] \in Row
    BY <1>1 DEF ShapeInv
  <2>7. /\ row \in Row /\ row.status = users[u].status /\ row.version = users[u].version
        /\ row.password = users[u].password /\ row.identities = users[u].identities
        /\ row.secret = users[u].secret /\ row.lastStep = users[u].lastStep
        /\ row.codes = users[u].codes /\ row.feishu = openID
    BY <2>3, <2>6 DEF BindFeishu, Row
  <2>8. Writes(u, row)
    BY <1>1, <2>4, <2>7, Numbers DEF Writes
  <2> QED
    BY <1>1, <2>4, <2>5, <2>7, <2>8, IdleMoves, Quiet, RowStep
<1> QED
  BY <1>2, <1>3

LEMMA UnbindFeishuUserStep ==
    ASSUME IdentityInv, NEW r \in Request, UnbindFeishuUser(r), UNCHANGED invitations
    PROVE  IdentityInv'
<1>1. ShapeInv /\ UNCHANGED <<externalVars, invitations>>
  BY DEF IdentityInv, UnbindFeishuUser
<1>2. CASE Fail(r)
  BY <1>1, <1>2, FailStep
<1>3. CASE ~ Fail(r)
  <2>1. PICK u \in User : u = request[r].user
    BY DEF UnbindFeishuUser, At, IdentityInv, KnownInv, Known, Identified
  <2>2. PICK row : row = UnbindFeishu(users[u])
    OBVIOUS
  <2>3. /\ users[u].status = "active" /\ users' = [users EXCEPT ![u] = row] /\ Done(r)
        /\ UNCHANGED <<settings, fresh, cookies, challenges, clock, spent, twice>>
    BY <1>3, <2>1, <2>2 DEF UnbindFeishuUser
  <2>4. users[u] \in Row /\ users[u].version + 1 \in Nat
    BY <1>1, Numbers DEF ShapeInv
  <2>5. /\ row \in Row /\ row.status = users[u].status /\ row.version = users[u].version + 1
        /\ row.secret = users[u].secret /\ row.lastStep = users[u].lastStep
        /\ row.codes = users[u].codes /\ row.feishu = NoIdentity
    BY <2>2, <2>4 DEF UnbindFeishu, Row
  <2>6. Writes(u, row)
    BY <1>1, <2>3, <2>5, Numbers DEF Writes
  <2> QED
    BY <1>1, <2>3, <2>5, <2>6, IdleMoves, Quiet, RowStep
<1> QED
  BY <1>2, <1>3

-----------------------------------------------------------------------------
(***************************************************************************)
(* The settings: a tenant is changed only while no account is bound, and a *)
(* request that took its snapshot before knows by the revision.            *)
(***************************************************************************)
LEMMA SettingsStep ==
    ASSUME IdentityInv, NEW config, NEW actor, SaveAllowed(actor, settings.config, config),
           settings' = [settings EXCEPT !.config = config, !.revision = settings.revision + 1],
           DOMAIN config = DOMAIN settings.config, "feishu" \in config.enabled => config.tenant # "",
           UNCHANGED <<users, fresh, signInVars, externalVars, invitations>>
    PROVE  IdentityInv'
<1>1. /\ ShapeInv /\ KnownInv /\ ApartInv /\ SpentInv /\ ShownInv /\ TenantInv
      /\ UNCHANGED <<cookies, challenges, request, clock, spent, twice, flows, states>>
  BY DEF IdentityInv, signInVars, externalVars
<1>2. ShapeInv' /\ KnownInv' /\ ApartInv' /\ SpentInv' /\ ShownInv'
  <2>1. ShapeInv'
    BY <1>1 DEF ShapeInv
  <2>2. KnownInv'
    BY <1>1 DEF KnownInv, Known, Holds, Live
  <2>3. ApartInv'
    BY <1>1 DEF ApartInv, Live
  <2>5. ShownInv'
    BY <1>1 DEF ShownInv, Live
  <2>4. SpentInv'
    <3>1. \A x : Used(x) => Used(x)'
      BY <1>1 DEF Used, Live
    <3> QED
      BY <1>1, <3>1 DEF SpentInv
  <2> QED
    BY <2>1, <2>2, <2>3, <2>4, <2>5
<1>3. /\ DOMAIN settings = {"revision", "config", "secrets"} /\ settings.revision \in Nat
      /\ DOMAIN settings.config = {"mode", "enabled", "tenant", "profiles"}
  BY <1>1 DEF TenantInv
<1>4. /\ settings'.config = config /\ settings'.revision = settings.revision + 1
      /\ DOMAIN settings' = {"revision", "config", "secrets"}
  BY <1>3
<1>5. /\ settings.revision + 1 \in Nat
      /\ \A k \in Nat : k <= settings.revision => k <= settings.revision + 1 /\ k # settings.revision + 1
  BY <1>3, Successor
<1>6. ASSUME NEW u \in User, users[u].feishu # NoIdentity
      PROVE  TenantOf[users[u].feishu] = config.tenant /\ config.tenant # ""
  <2>1. TenantOf[users[u].feishu] = settings.config.tenant /\ settings.config.tenant # ""
    BY <1>1, <1>6 DEF TenantInv
  <2>2. HasFeishuBindings
    BY <1>6 DEF HasFeishuBindings
  <2> QED
    BY <2>1, <2>2 DEF SaveAllowed, FeishuChanged
<1>7. ASSUME NEW r \in Request, request[r].at = "feishu"
      PROVE  /\ request[r].revision \in Nat /\ request[r].revision <= settings.revision + 1
             /\ request[r].revision # settings.revision + 1
  BY <1>1, <1>5, <1>7 DEF TenantInv
<1>8. TenantInv'
  BY <1>1, <1>3, <1>4, <1>5, <1>6, <1>7 DEF TenantInv
<1> QED
  BY <1>2, <1>8 DEF IdentityInv

LEMMA SavePolicyStep ==
    ASSUME IdentityInv, NEW actor, NEW mode, savePolicy(actor, mode), UNCHANGED <<externalVars, invitations>>
    PROVE  IdentityInv'
<1>1. PICK config : config = [settings.config EXCEPT !.mode = mode]
  OBVIOUS
<1>2. /\ SaveAllowed(actor, settings.config, config)
      /\ settings' = [[settings EXCEPT !.config = config] EXCEPT !.revision = settings.revision + 1]
      /\ UNCHANGED <<users, fresh, signInVars>>
  BY <1>1 DEF savePolicy, SaveRow
<1>3. /\ DOMAIN settings.config = {"mode", "enabled", "tenant", "profiles"}
      /\ "feishu" \in settings.config.enabled => settings.config.tenant # ""
  BY DEF IdentityInv, TenantInv
<1>4. DOMAIN config = DOMAIN settings.config /\ ("feishu" \in config.enabled => config.tenant # "")
  BY <1>1, <1>3
<1>5. settings' = [settings EXCEPT !.config = config, !.revision = settings.revision + 1]
  BY <1>2
<1> QED
  BY <1>2, <1>4, <1>5, SettingsStep

LEMMA SaveProvidersStep ==
    ASSUME IdentityInv, NEW actor, NEW enabled, NEW tenant, saveProviders(actor, enabled, tenant),
           UNCHANGED invitations
    PROVE  IdentityInv'
<1>1. PICK config : config = [settings.config EXCEPT !.enabled = enabled, !.tenant = tenant]
  OBVIOUS
<1>2. /\ SaveAllowed(actor, settings.config, config)
      /\ settings' = [[settings EXCEPT !.config = config] EXCEPT !.revision = settings.revision + 1]
      /\ "feishu" \in config.enabled => config.tenant # ""
      /\ UNCHANGED <<users, fresh, signInVars, externalVars>>
  BY <1>1 DEF saveProviders, SaveRow, Validate
<1>3. DOMAIN config = DOMAIN settings.config
  BY <1>1
<1>4. settings' = [settings EXCEPT !.config = config, !.revision = settings.revision + 1]
  BY <1>2
<1> QED
  BY <1>2, <1>3, <1>4, SettingsStep

-----------------------------------------------------------------------------
(***************************************************************************)
(* Invitations.                                                            *)
(***************************************************************************)
\* Only the links change.
LEMMA LinksStep ==
    ASSUME IdentityInv, Links, UNCHANGED <<accountVars, signInVars, externalVars>>
    PROVE  IdentityInv'
<1>1. ShapeInv /\ UNCHANGED <<cookies, challenges, request, clock, spent, twice>>
  BY DEF IdentityInv, signInVars
<1> QED
  BY <1>1, Quiet, CalmStep DEF ShapeInv

LEMMA LinkReplaced ==
    ASSUME ShapeInv, NEW n \in DOMAIN invitations, NEW e \in Link, invitations' = [invitations EXCEPT ![n] = e],
           invitations[n].state = "accepted" => e.state = "accepted"
    PROVE  Links
<1>1. invitations \in Seq(Link)
  BY DEF ShapeInv
<1>2. /\ invitations' \in Seq(Link) /\ DOMAIN invitations' = DOMAIN invitations
      /\ invitations'[n] = e
      /\ \A m \in DOMAIN invitations \ {n} : invitations'[m] = invitations[m]
  BY <1>1, Replaced
<1> QED
  BY <1>2 DEF Links

LEMMA LinkShape ==
    ASSUME ShapeInv, NEW n \in DOMAIN invitations
    PROVE  invitations[n] \in Link /\ invitations[n].user \in User
<1>1. invitations \in Seq(Link)
  BY DEF ShapeInv
<1>2. invitations[n] \in Link
  BY <1>1
<1> QED
  BY <1>2 DEF Link

LEMMA DeliverStep ==
    ASSUME IdentityInv, NEW n \in DOMAIN invitations, NEW outcome \in {"sent", "failed", "not_configured"},
           deliverInvitation(n, outcome), UNCHANGED externalVars
    PROVE  IdentityInv'
<1>1. ShapeInv /\ invitations[n] \in Link /\ UNCHANGED <<accountVars, signInVars>>
  BY LinkShape DEF IdentityInv, deliverInvitation
<1>2. PICK delivery \in {"sent", "failed", "not_configured"} :
          invitations' = [invitations EXCEPT ![n] = [invitations[n] EXCEPT !.delivery = delivery]]
  BY DEF deliverInvitation, MarkInvitationDelivery
<1>3. PICK e : e = [invitations[n] EXCEPT !.delivery = delivery]
  OBVIOUS
<1>4. e \in Link /\ e.state = invitations[n].state
  BY <1>1, <1>3 DEF Link
<1>5. Links
  BY <1>1, <1>2, <1>3, <1>4, LinkReplaced
<1> QED
  BY <1>1, <1>5, LinksStep

LEMMA RevokeStep ==
    ASSUME IdentityInv, NEW n \in DOMAIN invitations, NEW state \in {"revoked", "expired"},
           invitations[n].state \in {"live", "expired"},
           invitations' = [invitations EXCEPT ![n] = [invitations[n] EXCEPT !.state = state]],
           UNCHANGED <<accountVars, signInVars, externalVars>>
    PROVE  IdentityInv'
<1>1. ShapeInv /\ invitations[n] \in Link
  BY LinkShape DEF IdentityInv
<1>2. PICK e : e = [invitations[n] EXCEPT !.state = state]
  OBVIOUS
<1>3. e \in Link
  BY <1>1, <1>2 DEF Link
<1>4. Links
  BY <1>1, <1>2, <1>3, LinkReplaced
<1> QED
  BY <1>4, LinksStep

LEMMA ResendStep ==
    ASSUME IdentityInv, NEW actor, NEW n \in DOMAIN invitations, ResendInvitation(actor, n), UNCHANGED externalVars
    PROVE  IdentityInv'
<1>1. ShapeInv /\ invitations \in Seq(Link) /\ invitations[n].user \in User /\ UNCHANGED <<accountVars, signInVars>>
  BY LinkShape DEF IdentityInv, ShapeInv, ResendInvitation
<1>2. PICK q : q = RevokeUserInvitations(invitations[n].user)
  OBVIOUS
<1>3. PICK e : e = NewInvitation(invitations[n].user)
  OBVIOUS
<1>4. /\ DOMAIN q = DOMAIN invitations
      /\ \A m \in DOMAIN invitations : q[m] \in Link /\ (invitations[m].state = "accepted" => q[m] = invitations[m])
  <2>1. q = [m \in DOMAIN invitations |->
                IF invitations[m].user = invitations[n].user /\ invitations[m].state \in {"live", "expired"}
                THEN [invitations[m] EXCEPT !.state = "revoked"] ELSE invitations[m]]
    BY <1>2 DEF RevokeUserInvitations, Invitation
  <2>2. ASSUME NEW m \in DOMAIN invitations
        PROVE  q[m] \in Link /\ (invitations[m].state = "accepted" => q[m] = invitations[m])
    <3>1. invitations[m] \in Link
      BY <1>1, LinkShape
    <3>2. [invitations[m] EXCEPT !.state = "revoked"] \in Link
      BY <3>1 DEF Link
    <3>3. q[m] = IF invitations[m].user = invitations[n].user /\ invitations[m].state \in {"live", "expired"}
                 THEN [invitations[m] EXCEPT !.state = "revoked"] ELSE invitations[m]
      BY <2>1
    <3> QED
      BY <3>1, <3>2, <3>3
  <2> QED
    BY <2>1, <2>2
<1>5. q \in Seq(Link)
  <2>1. q = [m \in 1 .. Len(invitations) |-> q[m]] /\ Len(invitations) \in Nat
    BY <1>1, <1>2, <1>4 DEF RevokeUserInvitations, Invitation
  <2>2. \A m \in 1 .. Len(invitations) : q[m] \in Link
    BY <1>1, <1>4
  <2> QED
    BY <2>1, <2>2, SequenceOf
<1>6. e \in Link
  BY <1>1, <1>3 DEF NewInvitation, Link
<1>7. invitations' = Append(q, e)
  BY <1>2, <1>3 DEF ResendInvitation
<1>8. /\ invitations' \in Seq(Link) /\ DOMAIN invitations' = DOMAIN q \cup {Len(q) + 1}
      /\ \A m \in DOMAIN q : invitations'[m] = q[m]
  BY <1>5, <1>6, <1>7, Appended
<1>9. Links
  BY <1>4, <1>8 DEF Links
<1> QED
  BY <1>1, <1>9, LinksStep

LEMMA CreateInvitationStep ==
    ASSUME IdentityInv, NEW actor, CreateInvitation(actor), UNCHANGED externalVars
    PROVE  IdentityInv'
<1>1. ShapeInv /\ invitations \in Seq(Link)
  BY DEF IdentityInv, ShapeInv
<1>2. PICK u \in User : /\ users[u].status = "absent"
                        /\ users' = [users EXCEPT ![u] = CreateLocalCredential(Create("inactive"), 0)]
                        /\ invitations' = Append(invitations, NewInvitation(u))
  BY DEF CreateInvitation
<1>3. UNCHANGED <<settings, fresh, cookies, challenges, request, clock, spent, twice>>
  BY DEF CreateInvitation, signInVars
<1>4. PICK row : row = CreateLocalCredential(Create("inactive"), 0)
  OBVIOUS
<1>5. /\ users[u].secret = 0 /\ users[u].codes = {}
      /\ row \in Row /\ row.status = "inactive" /\ row.secret = 0 /\ row.codes = {} /\ row.feishu = NoIdentity
  BY <1>1, <1>2, <1>4, AbsentRow DEF CreateLocalCredential, Row
<1>6. Writes(u, row)
  BY <1>2, <1>5 DEF Writes
<1>7. PICK e : e = NewInvitation(u)
  OBVIOUS
<1>8. e \in Link
  BY <1>7 DEF NewInvitation, Link
<1>9. /\ invitations' \in Seq(Link) /\ DOMAIN invitations' = DOMAIN invitations \cup {Len(invitations) + 1}
      /\ \A m \in DOMAIN invitations : invitations'[m] = invitations[m]
  BY <1>1, <1>2, <1>7, <1>8, Appended
<1>10. Links
  BY <1>9 DEF Links
<1> QED
  BY <1>1, <1>2, <1>3, <1>4, <1>5, <1>6, <1>10, Quiet, RowStep

\* A link is honoured by the transaction that accepts it.
LEMMA AcceptInvitationStep ==
    ASSUME IdentityInv, NEW r \in Request, NEW n \in DOMAIN invitations, AcceptInvitation(r, n),
           UNCHANGED externalVars
    PROVE  IdentityInv'
<1>1. ShapeInv /\ invitations[n] \in Link /\ invitations[n].user \in User
  BY LinkShape DEF IdentityInv
<1>2. PICK u \in User : u = invitations[n].user
  BY <1>1
<1>3. PICK row : row = ActivateInvitedUser(UpdateLocalPassword(users[u], fresh + 1))
  OBVIOUS
<1>4. /\ invitations[n].state = "live" /\ users[u].status = "inactive" /\ fresh' = fresh + 1
      /\ users' = [users EXCEPT ![u] = row] /\ Honour({<<"invitation", n>>})
      /\ UNCHANGED <<settings, cookies, challenges, clock>>
  BY <1>2, <1>3 DEF AcceptInvitation, PreviewInvitation, LiveInvitation, Draw
<1>5. users[u] \in Row /\ fresh + 1 \in Nat /\ users[u].version + 1 \in Nat
  BY <1>1, Numbers DEF ShapeInv
<1>6. /\ row \in Row /\ row.status = "active" /\ row.version = users[u].version + 1 /\ row.password = fresh + 1
      /\ row.secret = users[u].secret /\ row.lastStep = users[u].lastStep
      /\ row.codes = users[u].codes /\ row.feishu = users[u].feishu
  BY <1>3, <1>5 DEF UpdateLocalPassword, ActivateInvitedUser, Row
<1>7. Writes(u, row)
  BY <1>1, <1>4, <1>6, Numbers DEF Writes
<1>8. PICK e : e = [invitations[n] EXCEPT !.state = "accepted"]
  OBVIOUS
<1>9. e \in Link /\ e.state = "accepted" /\ invitations' = [invitations EXCEPT ![n] = e]
  BY <1>1, <1>8 DEF Link, AcceptInvitation, ConsumeInvitation
<1>10. Links
  BY <1>1, <1>9, LinkReplaced
<1>11. ~ Used(<<"invitation", n>>) /\ Used(<<"invitation", n>>)'
  BY <1>4, <1>9 DEF Used
<1>12. Honours
  BY <1>4, <1>11 DEF Honours
<1>13. users'[u] = row
  BY <1>1, <1>4 DEF ShapeInv
<1>14. Moves
  <2>1. PICK it : it = [at |-> "primary", user |-> u, version |-> row.version,
                        mode |-> settings.config.mode, proof |-> <<"password", fresh + 1>>]
    OBVIOUS
  <2>2. Goto(r, it)
    BY <1>2, <1>4, <1>13, <2>1 DEF AcceptInvitation
  <2>3. PICK version, hash : version = row.version /\ hash = fresh + 1
    OBVIOUS
  <2>4. version \in Nat /\ version <= version /\ <<"password", hash>> \in Proof
    BY <1>5, <1>6, <2>3, Reflexive DEF Proof
  <2>5. Known(u, version, <<"password", hash>>)'
    BY <1>6, <1>13, <2>3, <2>4 DEF Known, Holds
  <2>6. Fits(it)'
    BY <2>1, <2>3, <2>5 DEF Fits, Identified
  <2> QED
    BY <2>2, <2>6 DEF Moves
<1> QED
  BY <1>1, <1>4, <1>6, <1>7, <1>10, <1>12, <1>14, Quiet, RowStep

-----------------------------------------------------------------------------
(***************************************************************************)
(* The second factor: a challenge and a code are honoured together with    *)
(* the change of the row that makes them useless.                          *)
(***************************************************************************)
LEMMA FactorRow ==
    ASSUME ShapeInv, NEW u \in User, NEW code, NEW row \in verifyMFAFactor(u, code)
    PROVE  /\ row \in Row /\ row.status = users[u].status /\ row.version = users[u].version
           /\ row.password = users[u].password /\ row.identities = users[u].identities
           /\ row.feishu = users[u].feishu /\ row.secret = users[u].secret
           /\ \/ \E b \in users[u].codes :
                    code = <<"code", b>> /\ row.codes = users[u].codes \ {b} /\ row.lastStep = users[u].lastStep
              \/ /\ row.lastStep > users[u].lastStep /\ row.codes = users[u].codes
                 /\ code = <<"totp", users[u].secret, row.lastStep>>
<1>1. users[u] \in Row
  BY DEF ShapeInv
<1>2. ASSUME NEW b \in users[u].codes, code = RecoveryCode(b), row = ConsumeRecoveryCode(users[u], b)
      PROVE  /\ row \in Row /\ row.status = users[u].status /\ row.version = users[u].version
             /\ row.password = users[u].password /\ row.identities = users[u].identities
             /\ row.feishu = users[u].feishu /\ row.secret = users[u].secret
             /\ code = <<"code", b>> /\ row.codes = users[u].codes \ {b} /\ row.lastStep = users[u].lastStep
  BY <1>1, <1>2 DEF RecoveryCode, ConsumeRecoveryCode, Row
<1>3. ASSUME NEW t \in (clock - 1) .. (clock + 1), code = totpCode(users[u].secret, t), t > users[u].lastStep,
             row = AdvanceMFAStep(users[u], t)
      PROVE  /\ row \in Row /\ row.status = users[u].status /\ row.version = users[u].version
             /\ row.password = users[u].password /\ row.identities = users[u].identities
             /\ row.feishu = users[u].feishu /\ row.secret = users[u].secret
             /\ row.lastStep > users[u].lastStep /\ row.codes = users[u].codes
             /\ code = <<"totp", users[u].secret, row.lastStep>>
  <2>1. t \in Nat
    <3>1. clock \in Nat \ {0}
      BY DEF ShapeInv
    <3> QED
      BY <3>1
  <2> QED
    BY <1>1, <1>3, <2>1 DEF totpCode, AdvanceMFAStep, Row
<1>4. \/ \E b \in users[u].codes : code = RecoveryCode(b) /\ row = ConsumeRecoveryCode(users[u], b)
      \/ \E t \in (clock - 1) .. (clock + 1) :
            /\ code = totpCode(users[u].secret, t) /\ t > users[u].lastStep
            /\ row = AdvanceMFAStep(users[u], t)
  BY DEF verifyMFAFactor, VerifyTOTP
<1> QED
  BY <1>2, <1>3, <1>4

\* A code was not honoured before, and cannot be honoured again.
LEMMA FactorUsed ==
    ASSUME ShapeInv, ApartInv, NEW u \in User, NEW code, NEW row \in verifyMFAFactor(u, code),
           users[u].secret # 0, fresh' \in {fresh, fresh + 1},
           users'[u].secret = 0 \/ (users'[u].secret = users[u].secret /\ users'[u].lastStep = row.lastStep),
           users'[u].codes \subseteq row.codes \/ users'[u].codes = {fresh + 1},
           \A v \in User : v # u => users'[v] = users[v],
           \A n \in DOMAIN challenges' : Live(n)' =>
              n \in DOMAIN challenges /\ Live(n) /\ challenges'[n].secret = challenges[n].secret
    PROVE  ~ Used(code) /\ Used(code)'
<1>1. /\ fresh \in Nat /\ fresh' \in Nat
      /\ \A k \in Nat : k <= fresh => k <= fresh' /\ k # fresh + 1
  BY DEF ShapeInv
<1>2. /\ users[u].secret \in Nat /\ users[u].secret <= fresh /\ users[u].lastStep \in Nat
      /\ \A b \in users[u].codes : b \in Nat /\ b <= fresh
  BY Numbers DEF ApartInv
<1>3. ASSUME NEW b \in users[u].codes, code = <<"code", b>>, row.codes = users[u].codes \ {b}
      PROVE  ~ Used(code) /\ Used(code)'
  <2>1. code[1] = "code" /\ code[2] = b
    BY <1>3
  <2>2. ~ Used(code)
    BY <2>1 DEF Used
  <2>3. b \in Nat /\ b <= fresh' /\ b # fresh + 1
    BY <1>1, <1>2
  <2>4. ASSUME NEW v \in User
        PROVE  b \notin users'[v].codes
    <3>1. CASE v = u
      BY <1>3, <2>3, <3>1
    <3>2. CASE v # u
      BY <3>2 DEF ApartInv
    <3> QED
      BY <3>1, <3>2
  <2>5. Used(code)'
    BY <2>1, <2>3, <2>4 DEF Used
  <2> QED
    BY <2>2, <2>5
<1>4. ASSUME row.lastStep > users[u].lastStep, code = <<"totp", users[u].secret, row.lastStep>>
      PROVE  ~ Used(code) /\ Used(code)'
  <2>1. PICK s, t : s = users[u].secret /\ t = row.lastStep
    OBVIOUS
  <2>2. code[1] = "totp" /\ code[2] = s /\ code[3] = t
    BY <1>4, <2>1
  <2>3. row \in Row
    BY FactorRow
  <2>4. t \in Nat /\ t <= t /\ ~ (t <= users[u].lastStep)
    BY <1>2, <1>4, <2>1, <2>3 DEF Row
  <2>5. ~ Used(code)
    BY <2>1, <2>2, <2>4 DEF Used
  <2>6. s \in Nat /\ s # 0 /\ s <= fresh'
    BY <1>1, <1>2, <2>1
  <2>7. ASSUME NEW v \in User, users'[v].secret = s
        PROVE  t <= users'[v].lastStep
    <3>1. v # u => users[v].secret # s
      BY <2>1, <2>6 DEF ApartInv
    <3> QED
      BY <2>1, <2>4, <2>6, <2>7, <3>1
  <2>8. ASSUME NEW n \in DOMAIN challenges', Live(n)'
        PROVE  challenges'[n].secret # s
    BY <2>1, <2>6, <2>8 DEF ApartInv
  <2>9. Used(code)'
    BY <2>2, <2>4, <2>6, <2>7, <2>8 DEF Used
  <2> QED
    BY <2>5, <2>9
<1> QED
  BY <1>3, <1>4, FactorRow

\* A challenge is consumed.
LEMMA Consumed ==
    ASSUME ShapeInv, NEW n \in DOMAIN challenges, Live(n), challenges' = ConsumeMFAChallenge(n)
    PROVE  /\ ChallengesFit /\ DOMAIN challenges' = DOMAIN challenges
           /\ ~ Live(n)'
           /\ \A m \in DOMAIN challenges : challenges[m] = Gone => challenges'[m] = Gone
           /\ \A m \in DOMAIN challenges' : Live(m)' =>
                m # n /\ m \in DOMAIN challenges /\ Live(m) /\ challenges'[m] = challenges[m]
           /\ ~ Used(<<"challenge", n>>) /\ Used(<<"challenge", n>>)'
<1>1. /\ challenges' \in Seq(Challenge \cup {Gone}) /\ DOMAIN challenges' = DOMAIN challenges
      /\ challenges'[n] = Gone /\ (Live(n)' <=> Gone # Gone)
      /\ \A m \in DOMAIN challenges : m # n => challenges'[m] = challenges[m] /\ (Live(m)' <=> Live(m))
  BY ChallengeReplaced DEF ConsumeMFAChallenge
<1>2. \A m \in DOMAIN challenges' : Live(m)' =>
        m # n /\ m \in DOMAIN challenges /\ Live(m) /\ challenges'[m] = challenges[m]
  BY <1>1
<1>3. ChallengesFit
  BY <1>1, <1>2 DEF ChallengesFit
<1>4. ~ Used(<<"challenge", n>>) /\ Used(<<"challenge", n>>)'
  BY <1>1 DEF Used, Live
<1> QED
  BY <1>1, <1>2, <1>3, <1>4

LEMMA NewCookie ==
    ASSUME ShapeInv, NEW c \in Cookie, cookies' = cookies \cup {c}, Known(c.user, c.version, c.proof)',
           users'[c.user].version = c.version => users'[c.user].secret = c.secret
    PROVE  CookiesFit
BY DEF CookiesFit, ShapeInv

LEMMA CompleteVerifyStep ==
    ASSUME IdentityInv, NEW r \in Request, NEW code, NEW n \in DOMAIN challenges, n = request[r].id, Live(n),
           ValidateBrowserSession(challenges[n].user, challenges[n].version),
           CompleteVerify(r, code), UNCHANGED <<externalVars, invitations>>
    PROVE  IdentityInv'
<1>1. /\ ShapeInv /\ ApartInv /\ KnownInv /\ challenges[n] \in Challenge
  BY LiveIsChallenge DEF IdentityInv, ShapeInv
<1>2. PICK u, version, proof :
        u = challenges[n].user /\ version = challenges[n].version /\ proof = challenges[n].proof
  OBVIOUS
<1>3. Known(u, version, proof) /\ users[u].version = version /\ users[u].status = "active"
  BY <1>1, <1>2 DEF KnownInv, ValidateBrowserSession
<1>4. u \in User /\ version \in Nat /\ proof \in Proof
  BY <1>3 DEF Known
<1>5. CASE Compared(r, n)
  BY <1>5, ComparedStep
<1>6. CASE ~ Compared(r, n)
  <2>1. /\ users[u].secret # 0 /\ challenges' = ConsumeMFAChallenge(n)
        /\ setVerifiedSession(u, users[u].version, challenges[n].proof, users[u].secret)
        /\ Honour({<<"challenge", n>>, code}) /\ Done(r) /\ UNCHANGED <<settings, fresh, clock>>
    BY <1>2, <1>6 DEF CompleteVerify, MFA
  <2>2. PICK row \in verifyMFAFactor(u, code) : users' = [users EXCEPT ![u] = row]
    BY <1>2, <1>6 DEF CompleteVerify
  <2>3. /\ row \in Row /\ row.status = users[u].status /\ row.version = users[u].version
        /\ row.password = users[u].password /\ row.identities = users[u].identities
        /\ row.feishu = users[u].feishu /\ row.secret = users[u].secret
        /\ row.codes \subseteq users[u].codes
        /\ row.lastStep = users[u].lastStep \/ row.lastStep > users[u].lastStep
    BY <1>1, <1>4, FactorRow
  <2>4. users[u].lastStep <= row.lastStep
    BY <1>1, <1>4, <2>3, Numbers DEF Row
  <2>5. Writes(u, row)
    BY <1>1, <1>3, <1>4, <2>3, Numbers DEF Writes
  <2>6. /\ Rows /\ FactorsHold
        /\ users'[u] = row /\ \A v \in User : v # u => users'[v] = users[v]
    BY <1>1, <1>4, <2>2, <2>5, OneRow
  <2>7. /\ ChallengesFit /\ DOMAIN challenges' = DOMAIN challenges
        /\ \A m \in DOMAIN challenges : challenges[m] = Gone => challenges'[m] = Gone
        /\ \A m \in DOMAIN challenges' : Live(m)' =>
             m # n /\ m \in DOMAIN challenges /\ Live(m) /\ challenges'[m] = challenges[m]
        /\ ~ Used(<<"challenge", n>>) /\ Used(<<"challenge", n>>)'
    BY <1>1, <2>1, Consumed
  <2>8. Hands(0, 0)
    <3>1. ASSUME NEW v \in User
          PROVE  /\ users'[v].secret = users[v].secret /\ users[v].lastStep <= users'[v].lastStep
                 /\ users'[v].codes \subseteq users[v].codes
      BY <1>1, <2>3, <2>4, <2>6, Numbers
    <3> QED
      BY <2>1, <2>7, <3>1 DEF Hands
  <2>9. ~ Used(code) /\ Used(code)'
    BY <1>1, <1>4, <2>1, <2>2, <2>3, <2>6, <2>7, FactorUsed
  <2>10. Honours
    BY <2>1, <2>7, <2>9 DEF Honours
  <2>11. Bindings
    BY <2>3, <2>6 DEF Bindings
  <2>12. CookiesFit
    <3>1. PICK c : c = [user |-> u, version |-> version, secret |-> users[u].secret, proof |-> proof]
      OBVIOUS
    <3>2. cookies' = cookies \cup {c}
      BY <1>2, <1>3, <2>1, <3>1 DEF setVerifiedSession, setSessionCookie, SignMFA
    <3>3. c \in Cookie
      BY <1>1, <1>4, <3>1, Numbers DEF Cookie
    <3>4. Known(u, version, proof)'
      BY <1>1, <1>3, <2>6, KnownStable DEF ShapeInv, Rows
    <3> QED
      BY <1>1, <2>3, <2>6, <3>1, <3>2, <3>3, <3>4, NewCookie
  <2> QED
    BY <1>1, <2>1, <2>6, <2>7, <2>8, <2>10, <2>11, <2>12, IdleMoves, Quiet, Step DEF ShapeInv
<1> QED
  BY <1>5, <1>6

\* Enrolment hands the secret of the challenge over to the account.
LEMMA CompleteEnrollStep ==
    ASSUME IdentityInv, NEW r \in Request, NEW code, NEW n \in DOMAIN challenges, n = request[r].id, Live(n),
           ValidateBrowserSession(challenges[n].user, challenges[n].version),
           CompleteEnroll(r, code), UNCHANGED <<externalVars, invitations>>
    PROVE  IdentityInv'
<1>1. /\ ShapeInv /\ ApartInv /\ KnownInv /\ challenges[n] \in Challenge
  BY LiveIsChallenge DEF IdentityInv, ShapeInv
<1>2. PICK u, version, proof, secret :
        /\ u = challenges[n].user /\ version = challenges[n].version /\ proof = challenges[n].proof
        /\ secret = challenges[n].secret
  OBVIOUS
<1>3. Known(u, version, proof) /\ users[u].version = version /\ users[u].status = "active"
  BY <1>1, <1>2 DEF KnownInv, ValidateBrowserSession
<1>4. u \in User /\ version \in Nat /\ proof \in Proof
  BY <1>3 DEF Known
<1>5. CASE Compared(r, n) \/ Fail(r)
  BY <1>5, ComparedStep, FailStep
<1>6. CASE ~ Compared(r, n) /\ ~ Fail(r)
  <2>1. /\ secret # 0 /\ users[u].secret = 0 /\ fresh' = fresh + 1 /\ challenges' = ConsumeMFAChallenge(n)
        /\ setVerifiedSession(u, users'[u].version, proof, secret)
        /\ Honour({<<"challenge", n>>, code}) /\ Done(r) /\ UNCHANGED <<settings, clock>>
    BY <1>2, <1>6 DEF CompleteEnroll, MFA, Draw
  <2>2. PICK t \in (clock - 1) .. (clock + 1) :
          /\ code = totpCode(secret, t)
          /\ users' = [users EXCEPT ![u] = BumpAuthVersion(replaceRecoveryCodes(BindMFA(users[u], secret, t)))]
    BY <1>2, <1>6 DEF CompleteEnroll, VerifyTOTP
  <2>3. t \in Nat /\ t <= t
    <3>1. clock \in Nat \ {0}
      BY <1>1 DEF ShapeInv
    <3> QED
      BY <3>1
  <2>4. /\ secret \in Nat /\ secret <= fresh /\ fresh + 1 \in Nat /\ users[u] \in Row
        /\ users[u].version + 1 \in Nat /\ users[u].version <= users[u].version + 1
        /\ users[u].version + 1 # users[u].version
    BY <1>1, <1>2, <1>4, Numbers DEF Challenge, ApartInv, ShapeInv
  <2>5. secret <= fresh + 1
    BY <1>1, <2>4 DEF ShapeInv
  <2>6. PICK row : row = BumpAuthVersion(replaceRecoveryCodes(BindMFA(users[u], secret, t)))
    OBVIOUS
  <2>7. /\ row \in Row /\ row.status = users[u].status /\ row.version = users[u].version + 1
        /\ row.password = users[u].password /\ row.identities = users[u].identities
        /\ row.feishu = users[u].feishu /\ row.secret = secret /\ row.lastStep = t /\ row.codes = {fresh + 1}
    BY <2>3, <2>4, <2>6 DEF BumpAuthVersion, replaceRecoveryCodes, ReplaceRecoveryCodes, BindMFA, Row
  <2>8. Writes(u, row)
    BY <1>3, <2>4, <2>7 DEF Writes
  <2>9. /\ Rows /\ FactorsHold
        /\ users'[u] = row /\ \A v \in User : v # u => users'[v] = users[v]
    BY <1>1, <1>4, <2>2, <2>6, <2>8, OneRow
  <2>10. /\ ChallengesFit /\ DOMAIN challenges' = DOMAIN challenges /\ ~ Live(n)'
         /\ \A m \in DOMAIN challenges : challenges[m] = Gone => challenges'[m] = Gone
         /\ \A m \in DOMAIN challenges' : Live(m)' =>
              m # n /\ m \in DOMAIN challenges /\ Live(m) /\ challenges'[m] = challenges[m]
         /\ ~ Used(<<"challenge", n>>) /\ Used(<<"challenge", n>>)'
    BY <1>1, <2>1, Consumed
  <2>11. Hands(u, n)
    <3>1. ASSUME NEW v \in User
          PROVE  /\ \/ users'[v].secret = users[v].secret /\ users[v].lastStep <= users'[v].lastStep
                    \/ v = u /\ users'[v].secret = challenges[n].secret
                 /\ users'[v].codes \subseteq users[v].codes \/ (v = u /\ users'[v].codes = {fresh + 1})
      BY <1>1, <1>2, <2>7, <2>9, Numbers
    <3> QED
      BY <2>1, <2>10, <3>1 DEF Hands
  <2>12. ~ Used(code) /\ Used(code)'
    <3>1. code[1] = "totp" /\ code[2] = secret /\ code[3] = t
      BY <2>2 DEF totpCode
    <3>2. ~ Used(code)
      BY <1>2, <3>1 DEF Used
    <3>3. ASSUME NEW v \in User, users'[v].secret = secret
          PROVE  t <= users'[v].lastStep
      <4>1. v # u => users[v].secret # secret
        BY <1>1, <1>2, <2>1 DEF ApartInv
      <4> QED
        BY <2>3, <2>7, <2>9, <3>3, <4>1
    <3>4. ASSUME NEW m \in DOMAIN challenges', Live(m)'
          PROVE  challenges'[m].secret # secret
      <4>1. m # n /\ m \in DOMAIN challenges /\ Live(m) /\ challenges'[m] = challenges[m]
        BY ONLY <2>10, <3>4
      <4>2. n \in DOMAIN challenges /\ Live(n) /\ challenges[n].secret = secret /\ secret # 0
        BY <1>2, <2>1
      <4>3. challenges[n].secret # challenges[m].secret
        BY ONLY <1>1, <4>1, <4>2 DEF ApartInv
      <4> QED
        BY ONLY <4>1, <4>2, <4>3
    <3>5. Used(code)'
      BY <2>1, <2>3, <2>4, <2>5, <3>1, <3>3, <3>4 DEF Used
    <3> QED
      BY <3>2, <3>5
  <2>13. Honours
    BY <2>1, <2>10, <2>12 DEF Honours
  <2>14. Bindings
    BY <2>7, <2>9 DEF Bindings
  <2>15. CookiesFit
    <3>1. PICK c : c = [user |-> u, version |-> row.version, secret |-> secret, proof |-> proof]
      OBVIOUS
    <3>2. cookies' = cookies \cup {c}
      BY <2>1, <2>9, <3>1 DEF setVerifiedSession, setSessionCookie, SignMFA
    <3>3. c \in Cookie
      BY <1>4, <2>4, <2>7, <3>1 DEF Cookie
    <3>4. Known(c.user, c.version, c.proof)'
      <4>1. PICK k : k = row.version
        OBVIOUS
      <4>2. k \in Nat /\ k <= k /\ Holds(u, proof)
        BY <1>3, <2>4, <2>7, <4>1, Reflexive DEF Known
      <4>3. Holds(u, proof)'
        BY <1>4, <2>7, <2>9, <4>2 DEF Holds
      <4>4. Known(u, k, proof)'
        BY <1>3, <1>4, <2>7, <2>9, <4>1, <4>2, <4>3 DEF Known
      <4> QED
        BY <3>1, <4>1, <4>4
    <3> QED
      BY <1>1, <2>7, <2>9, <3>1, <3>2, <3>3, <3>4, NewCookie
  <2> QED
    BY <1>1, <2>1, <2>9, <2>10, <2>11, <2>13, <2>14, <2>15, IdleMoves, Quiet, Step DEF ShapeInv
<1> QED
  BY <1>5, <1>6

LEMMA CompleteMFAStep ==
    ASSUME IdentityInv, NEW r \in Request, NEW code, CompleteMFA(r, code), UNCHANGED <<externalVars, invitations>>
    PROVE  IdentityInv'
<1>1. CASE Fail(r)
  BY <1>1, FailStep
<1>2. CASE ~ Fail(r)
  <2>1. PICK n : n = request[r].id
    OBVIOUS
  <2>2. /\ Live(n) /\ ValidateBrowserSession(challenges[n].user, challenges[n].version)
        /\ CompleteEnroll(r, code) \/ CompleteVerify(r, code)
    BY <1>2, <2>1 DEF CompleteMFA, LockMFAChallenge
  <2>3. n \in DOMAIN challenges
    BY <2>2 DEF Live
  <2> QED
    BY <2>1, <2>2, <2>3, CompleteEnrollStep, CompleteVerifyStep
<1> QED
  BY <1>1, <1>2

\* The owner removes the factor, or draws new recovery codes: the row after the
\* factor was verified is written with a new version.
LEMMA UpdateOwnMFAStep ==
    ASSUME IdentityInv, NEW r \in Request, NEW code, NEW remove \in BOOLEAN, UpdateOwnMFA(r, code, remove),
           UNCHANGED <<externalVars, invitations>>
    PROVE  IdentityInv'
<1>1. ShapeInv /\ ApartInv /\ KnownInv
  BY DEF IdentityInv
<1>2. PICK u, version, proof : u = request[r].user /\ version = request[r].version /\ proof = request[r].proof
  OBVIOUS
<1>3. Known(u, version, proof) /\ u \in User /\ version \in Nat /\ proof \in Proof
  BY <1>1, <1>2 DEF UpdateOwnMFA, At, KnownInv, Known, Identified
<1>4. CASE Fail(r)
  BY <1>4, FailStep
<1>5. CASE Done(r) /\ UNCHANGED <<users, fresh, cookies, spent, twice, settings, challenges, clock>>
  <2>1. Fail(r)
    BY <1>5 DEF Fail, accountVars
  <2> QED
    BY <2>1, FailStep
<1>6. CASE ~ Fail(r) /\ ~ UNCHANGED <<users, fresh, cookies, spent, twice, settings, challenges, clock>>
  <2>1. /\ users[u].version = version /\ users[u].secret # 0 /\ Done(r) /\ Honour({code})
        /\ UNCHANGED <<settings, challenges, clock>>
    BY <1>2, <1>6 DEF UpdateOwnMFA, ValidateBrowserSession, MFA
  <2>2. PICK verified \in verifyMFAFactor(u, code) :
          users' = [users EXCEPT ![u] =
                       BumpAuthVersion(IF remove THEN DeleteMFA(verified) ELSE replaceRecoveryCodes(verified))]
    BY <1>2, <1>6 DEF UpdateOwnMFA
  <2>3. \/ remove /\ UNCHANGED <<cookies, fresh>>
        \/ ~ remove /\ fresh' = fresh + 1 /\ setVerifiedSession(u, users'[u].version, proof, users[u].secret)
    BY <1>2, <1>6 DEF UpdateOwnMFA, Draw
  <2>4. /\ verified \in Row /\ verified.status = users[u].status /\ verified.version = users[u].version
        /\ verified.password = users[u].password /\ verified.identities = users[u].identities
        /\ verified.feishu = users[u].feishu /\ verified.secret = users[u].secret
        /\ verified.lastStep = users[u].lastStep \/ verified.lastStep > users[u].lastStep
    BY <1>1, <1>3, FactorRow
  <2>5. users[u].lastStep <= verified.lastStep
    BY <1>1, <1>3, <2>4, Numbers DEF Row
  <2>6. PICK row : row = BumpAuthVersion(IF remove THEN DeleteMFA(verified) ELSE replaceRecoveryCodes(verified))
    OBVIOUS
  <2>7. /\ row \in Row /\ row.status = users[u].status /\ row.version = users[u].version + 1
        /\ row.password = users[u].password /\ row.identities = users[u].identities
        /\ row.feishu = users[u].feishu
        /\ remove => row.secret = 0 /\ row.codes = {}
        /\ ~ remove => row.secret = users[u].secret /\ row.lastStep = verified.lastStep /\ row.codes = {fresh + 1}
    <3>1. fresh + 1 \in Nat /\ users[u].version + 1 \in Nat
      BY <1>1, <1>3, Numbers
    <3>2. CASE remove
      BY <2>4, <2>6, <3>1, <3>2 DEF BumpAuthVersion, DeleteMFA, Row
    <3>3. CASE ~ remove
      BY <2>4, <2>6, <3>1, <3>3 DEF BumpAuthVersion, replaceRecoveryCodes, ReplaceRecoveryCodes, Row
    <3> QED
      BY <3>2, <3>3
  <2>8. Writes(u, row)
    BY <1>1, <1>3, <2>7, Numbers DEF Writes, Known
  <2>9. /\ Rows /\ FactorsHold
        /\ users'[u] = row /\ \A v \in User : v # u => users'[v] = users[v]
    BY <1>1, <1>3, <2>2, <2>6, <2>8, OneRow
  <2>10. /\ DOMAIN challenges' = DOMAIN challenges
         /\ \A n \in DOMAIN challenges : challenges'[n] = challenges[n] /\ (Live(n)' <=> Live(n))
    BY <2>1 DEF Live
  <2>11. fresh' \in {fresh, fresh + 1}
    BY <2>3
  <2>12. Hands(u, 0)
    <3>1. ASSUME NEW v \in User
          PROVE  /\ \/ users'[v].secret = 0
                    \/ users'[v].secret = users[v].secret /\ users[v].lastStep <= users'[v].lastStep
                 /\ \/ users'[v].codes \subseteq users[v].codes
                    \/ v = u /\ fresh' = fresh + 1 /\ users'[v].codes = {fresh + 1}
      BY <1>1, <2>3, <2>5, <2>7, <2>9, Numbers
    <3> QED
      BY <2>10, <2>11, <3>1 DEF Hands
  <2>13. ~ Used(code) /\ Used(code)'
    <3>1. /\ users'[u].secret = 0 \/ (users'[u].secret = users[u].secret /\ users'[u].lastStep = verified.lastStep)
          /\ users'[u].codes \subseteq verified.codes \/ users'[u].codes = {fresh + 1}
      BY <2>7, <2>9
    <3>2. \A n \in DOMAIN challenges' : Live(n)' =>
            n \in DOMAIN challenges /\ Live(n) /\ challenges'[n].secret = challenges[n].secret
      BY <2>10
    <3> QED
      BY <1>1, <1>3, <2>1, <2>9, <2>11, <3>1, <3>2, FactorUsed
  <2>14. Honours
    BY <2>1, <2>13 DEF Honours
  <2>15. Bindings
    BY <2>7, <2>9 DEF Bindings
  <2>16. CookiesFit
    <3>1. CASE remove
      BY <1>1, <2>3, <3>1, Quiet
    <3>2. CASE ~ remove
      <4>1. PICK c : c = [user |-> u, version |-> row.version, secret |-> users[u].secret, proof |-> proof]
        OBVIOUS
      <4>2. cookies' = cookies \cup {c}
        BY <2>3, <2>9, <3>2, <4>1 DEF setVerifiedSession, setSessionCookie, SignMFA
      <4>3. c \in Cookie
        BY <1>1, <1>3, <2>7, <4>1, Numbers DEF Cookie
      <4>4. Known(c.user, c.version, c.proof)'
        <5>1. PICK k : k = row.version
          OBVIOUS
        <5>2. k \in Nat /\ k <= k /\ Holds(u, proof)
          BY <1>1, <1>3, <2>1, <2>7, <5>1, Numbers, Reflexive DEF Known
        <5>3. Holds(u, proof)'
          BY <1>3, <2>7, <2>9, <5>2 DEF Holds
        <5>4. Known(u, k, proof)'
          BY <1>3, <2>7, <2>9, <5>1, <5>2, <5>3 DEF Known
        <5> QED
          BY <4>1, <5>1, <5>4
      <4> QED
        BY <1>1, <2>7, <2>9, <3>2, <4>1, <4>2, <4>3, <4>4, NewCookie
    <3> QED
      BY <3>1, <3>2
  <2> QED
    BY <1>1, <2>1, <2>9, <2>12, <2>14, <2>15, <2>16, IdleMoves, Quiet, Step DEF ShapeInv
<1> QED
  BY <1>4, <1>5, <1>6 DEF UpdateOwnMFA

-----------------------------------------------------------------------------
(***************************************************************************)
(* The machine.                                                            *)
(***************************************************************************)
LEMMA IdentityInitial ==
    ASSUME IdentityInit
    PROVE  IdentityInv
<1>1. /\ cookies = {} /\ challenges = <<>> /\ request = [r \in Request |-> NoRequest] /\ clock = 1
      /\ spent = {} /\ twice = {} /\ flows = <<>> /\ states = {} /\ invitations = <<>> /\ fresh = 1
  BY DEF IdentityInit, SignInInit, ExternalInit, InvitationsInit
<1>2. DOMAIN challenges = {} /\ challenges \in Seq(Challenge \cup {Gone}) /\ flows \in Seq(Flow) /\ invitations \in Seq(Link)
  BY <1>1
<1>3. \A r \in Request : request[r].at = "idle"
  BY <1>1 DEF NoRequest
<1>4. users \in [User -> Account \cup {Absent}]
  BY DEF IdentityInit
<1>5. ASSUME NEW row \in Account \cup {Absent}
      PROVE  /\ row \in Row /\ (row.status = "absent" => row = Absent)
             /\ row.secret = 0 /\ row.codes = {} /\ row.feishu = NoIdentity
  BY DEF Account, Absent, Row
<1>6. ShapeInv
  <2>1. users \in [User -> Row] /\ \A u \in User : users[u].status = "absent" => users[u] = Absent
    BY <1>4, <1>5
  <2> QED
    BY <1>1, <1>2, <1>3, <2>1 DEF ShapeInv
<1>7. \A u \in User : users[u].secret = 0 /\ users[u].codes = {} /\ users[u].feishu = NoIdentity
  BY <1>4, <1>5
<1>8. ApartInv
  BY <1>1, <1>2, <1>7 DEF ApartInv
<1>9. KnownInv /\ SpentInv /\ ShownInv
  BY <1>1, <1>2, <1>3 DEF KnownInv, SpentInv, ShownInv, Identified
<1>10. TenantInv
  <2>1. PICK revision \in Nat, mode \in Mode, enabled \in SUBSET {"feishu", "oidc"} : \E tenant, oidc, feishu :
          settings = [revision |-> revision,
                      config |-> [Defaults EXCEPT !.mode = mode, !.enabled = enabled, !.tenant = tenant],
                      secrets |-> Secrets(oidc, feishu, NoProfiles)]
    BY DEF IdentityInit
  <2>2. /\ DOMAIN settings = {"revision", "config", "secrets"} /\ settings.revision \in Nat
        /\ DOMAIN settings.config = {"mode", "enabled", "tenant", "profiles"}
    BY <2>1 DEF Defaults
  <2>3. "feishu" \in settings.config.enabled => settings.config.tenant # ""
    BY DEF IdentityInit, Validate
  <2> QED
    BY <1>3, <1>7, <2>2, <2>3 DEF TenantInv
<1> QED
  BY <1>6, <1>8, <1>9, <1>10 DEF IdentityInv

\* The handlers of the first factor, which all three machines have.
LEMMA SignInHandlers ==
    ASSUME IdentityInv, UNCHANGED <<externalVars, invitations>>,
           \/ \E r \in Request, u \in User : passwordLogin(r, u)
           \/ \E r \in Request : AuthenticateLocal(r)
           \/ \E r \in Request : finishPrimaryLogin(r)
           \/ \E r \in Request, c \in cookies : currentUser(r, c)
           \/ \E actor, u \in User, status \in {"active", "inactive"} : changeUserStatus(actor, u, status) /\ Bounded
           \/ \E r \in Request : Abandon(r)
    PROVE  IdentityInv'
<1>1. ASSUME NEW r \in Request, Abandon(r)
      PROVE  IdentityInv'
  BY <1>1, FailStep DEF Abandon
<1> QED
  BY <1>1, PasswordLoginStep, AuthenticateLocalStep, FinishPrimaryLoginStep, CurrentUserStep, ChangeUserStatusStep

LEMMA SignInStep ==
    ASSUME IdentityInv, SignInNext, UNCHANGED <<externalVars, invitations>>
    PROVE  IdentityInv'
<1>1. CASE \E r \in Request, n \in DOMAIN challenges : enrollMFA(r, n)
  BY <1>1, EnrollMFAStep
<1>2. CASE \E r \in Request : StartMFAEnrollment(r) \/ enrollOwnMFA(r) \/ ChangePassword(r)
  BY <1>2, StartMFAEnrollmentStep, FinishPrimaryLoginStep, ChangePasswordStep
<1>3. CASE \E r \in Request, n \in DOMAIN challenges, kind \in {"enroll", "verify"} : completeMFA(r, n, kind)
  BY <1>3, CompleteMFABegins
<1>4. CASE \E r \in Request, code \in Typed : CompleteMFA(r, code)
  BY <1>4, CompleteMFAStep
<1>5. CASE \E r \in Request, code \in Typed, remove \in BOOLEAN : UpdateOwnMFA(r, code, remove)
  BY <1>5, UpdateOwnMFAStep
<1>6. CASE \E actor, u \in User : ResetUserMFA(actor, u)
  BY <1>6, ResetUserMFAStep
<1>7. CASE \E actor \in User, mode \in Mode : savePolicy(actor, mode)
  BY <1>7, SavePolicyStep
<1>8. CASE Tick \/ \E n \in DOMAIN challenges : ChallengeExpires(n)
  BY <1>8, TickStep, ChallengeExpiresStep
<1> QED
  BY <1>1, <1>2, <1>3, <1>4, <1>5, <1>6, <1>7, <1>8, SignInHandlers DEF SignInNext

LEMMA ExternalStep ==
    ASSUME IdentityInv, ExternalNext, UNCHANGED invitations
    PROVE  IdentityInv'
<1>1. CASE \E provider \in {"feishu", "oidc"} : externalLogin(provider)
  BY <1>1, ExternalLoginStep
<1>2. CASE \E r \in Request : bindFeishu(r) \/ UnbindFeishuUser(r)
  BY <1>2, BindFeishuBegins, UnbindFeishuUserStep
<1>3. CASE \E r \in Request, n \in DOMAIN flows : externalCallback(r, n)
  BY <1>3, ExternalCallbackStep
<1>4. CASE \E n \in states : StateExpires(n)
  BY <1>4, StateExpiresStep
<1>5. CASE \E r \in Request, subject \in Subject : SyncExternalUser(r, subject)
  BY <1>5, SyncExternalUserStep
<1>6. CASE \E r \in Request, openID \in OpenID, active \in BOOLEAN : SyncFeishuUser(r, openID, active)
  BY <1>6, SyncFeishuUserStep
<1>7. CASE \E r \in Request, c \in cookies, openID \in OpenID : BindFeishuUser(r, c, openID)
  BY <1>7, BindFeishuUserStep
<1>8. CASE \E actor \in User : \E enabled, tenant : saveProviders(actor, enabled, tenant)
  BY <1>8, SaveProvidersStep
<1> QED
  BY <1>1, <1>2, <1>3, <1>4, <1>5, <1>6, <1>7, <1>8, SignInHandlers DEF ExternalNext

LEMMA InvitationsStep ==
    ASSUME IdentityInv, InvitationsNext, UNCHANGED externalVars
    PROVE  IdentityInv'
<1>1. CASE \E actor \in User : CreateInvitation(actor)
  BY <1>1, CreateInvitationStep
<1>2. CASE \E n \in Invitation, outcome \in {"sent", "failed", "not_configured"} : deliverInvitation(n, outcome)
  BY <1>2, DeliverStep DEF Invitation
<1>3. CASE \E actor \in User, n \in Invitation : ResendInvitation(actor, n)
  BY <1>3, ResendStep DEF Invitation
<1>4. ASSUME NEW n \in DOMAIN invitations,
             InvitationExpires(n) \/ \E actor \in User : RevokeInvitation(actor, n)
      PROVE  IdentityInv'
  <2>1. PICK state \in {"revoked", "expired"} : invitations' = [invitations EXCEPT ![n].state = state]
    BY <1>4 DEF InvitationExpires, RevokeInvitation
  <2>2. invitations' = [invitations EXCEPT ![n] = [invitations[n] EXCEPT !.state = state]]
    BY <2>1
  <2>3. invitations[n].state \in {"live", "expired"} /\ UNCHANGED <<accountVars, signInVars>>
    BY <1>4 DEF InvitationExpires, RevokeInvitation, LiveInvitation
  <2> QED
    BY <2>2, <2>3, RevokeStep
<1>5. CASE \E r \in Request, n \in Invitation : AcceptInvitation(r, n)
  BY <1>5, AcceptInvitationStep DEF Invitation
<1> QED
  BY <1>1, <1>2, <1>3, <1>4, <1>5, SignInHandlers DEF InvitationsNext, Invitation

LEMMA IdentityStep ==
    ASSUME IdentityInv, [IdentityNext]_identityVars
    PROVE  IdentityInv'
<1>1. CASE UNCHANGED identityVars
  <2>1. /\ ShapeInv /\ UNCHANGED <<accountVars, cookies, challenges, request, clock, spent, twice>>
        /\ UNCHANGED <<externalVars, invitations>>
    BY <1>1 DEF IdentityInv, identityVars, signInVars
  <2> QED
    BY <2>1, Quiet, CalmStep DEF ShapeInv
<1> QED
  BY <1>1, SignInStep, ExternalStep, InvitationsStep DEF IdentityNext

-----------------------------------------------------------------------------
(***************************************************************************)
(* Attempts.  Every code is counted before it is compared: the comparisons *)
(* that were made and those under way are at most the attempts.            *)
(***************************************************************************)
FST == INSTANCE FiniteSetTheorems

LEMMA FiniteIsFinite == \A S : IsFiniteSet(S) <=> FST!IsFiniteSet(S)
BY Zenon DEF IsFiniteSet, FST!IsFiniteSet

LEMMA CardinalityIs == \A S : Cardinality(S) = FST!Cardinality(S)
BY Zenon DEF Cardinality, FST!Cardinality

LEMMA EmptyFacts == IsFiniteSet({}) /\ Cardinality({}) = 0
BY FST!FS_EmptySet, FiniteIsFinite, CardinalityIs

LEMMA AddFacts ==
    ASSUME NEW S, IsFiniteSet(S), NEW x, x \notin S
    PROVE  Cardinality(S \cup {x}) = Cardinality(S) + 1
BY FST!FS_AddElement, FiniteIsFinite, CardinalityIs

LEMMA SubsetFacts ==
    ASSUME NEW S, IsFiniteSet(S), NEW T \in SUBSET S
    PROVE  IsFiniteSet(T) /\ Cardinality(T) \in Nat /\ Cardinality(T) <= Cardinality(S)
BY FST!FS_Subset, FST!FS_CardinalityType, FiniteIsFinite, CardinalityIs

\* The requests that have an attempt at n counted and not yet compared.
Comparing(n) == {r \in Request : request[r].at = "complete" /\ request[r].id = n}

AttemptsInv ==
    \A n \in DOMAIN challenges : Live(n) =>
        /\ challenges[n].guesses + Cardinality(Comparing(n)) <= challenges[n].attempts
        /\ challenges[n].attempts <= MaxAttempts

LEMMA ComparingFacts ==
    \A n : /\ IsFiniteSet(Comparing(n)) /\ Cardinality(Comparing(n)) \in Nat
           /\ IsFiniteSet(Comparing(n)') /\ Cardinality(Comparing(n)') \in Nat
           /\ Comparing(n)' \subseteq Comparing(n) => Cardinality(Comparing(n)') <= Cardinality(Comparing(n))
<1> SUFFICES ASSUME NEW n
             PROVE  /\ IsFiniteSet(Comparing(n)) /\ Cardinality(Comparing(n)) \in Nat
                    /\ IsFiniteSet(Comparing(n)') /\ Cardinality(Comparing(n)') \in Nat
                    /\ Comparing(n)' \subseteq Comparing(n) =>
                         Cardinality(Comparing(n)') <= Cardinality(Comparing(n))
  OBVIOUS
<1>1. Comparing(n) \in SUBSET Request /\ Comparing(n)' \in SUBSET Request
  BY DEF Comparing
<1> QED
  BY <1>1, SignInAssumption, SubsetFacts

LEMMA AttemptsKept ==
    ASSUME ShapeInv, AttemptsInv,
           \A n \in DOMAIN challenges' : Live(n)' =>
              \/ /\ n \in DOMAIN challenges /\ Live(n)
                 /\ challenges'[n].attempts = challenges[n].attempts
                 /\ challenges'[n].guesses = challenges[n].guesses
              \/ n \notin DOMAIN challenges /\ challenges'[n].attempts = 0 /\ challenges'[n].guesses = 0,
           \A r \in Request : request'[r] = request[r] \/ request'[r].at # "complete"
    PROVE  AttemptsInv'
<1> SUFFICES ASSUME NEW n \in DOMAIN challenges', Live(n)'
             PROVE  /\ challenges'[n].guesses + Cardinality(Comparing(n)') <= challenges'[n].attempts
                    /\ challenges'[n].attempts <= MaxAttempts
  BY DEF AttemptsInv
<1>1. Comparing(n)' \subseteq Comparing(n)
  BY DEF Comparing
<1>2. /\ Cardinality(Comparing(n)') <= Cardinality(Comparing(n))
      /\ Cardinality(Comparing(n)) \in Nat /\ Cardinality(Comparing(n)') \in Nat
  BY <1>1, ComparingFacts
<1>3. CASE /\ n \in DOMAIN challenges /\ Live(n)
           /\ challenges'[n].attempts = challenges[n].attempts
           /\ challenges'[n].guesses = challenges[n].guesses
  <2>1. challenges[n].guesses \in Nat /\ challenges[n].attempts \in Nat
    BY <1>3, LiveIsChallenge DEF ShapeInv
  <2>2. /\ challenges[n].guesses + Cardinality(Comparing(n)) <= challenges[n].attempts
        /\ challenges[n].attempts <= MaxAttempts
    BY <1>3 DEF AttemptsInv
  <2> QED
    BY <1>2, <1>3, <2>1, <2>2
<1>4. CASE n \notin DOMAIN challenges /\ challenges'[n].attempts = 0 /\ challenges'[n].guesses = 0
  <2>1. Comparing(n) = {}
    BY <1>4 DEF Comparing, ShapeInv
  <2>2. Cardinality(Comparing(n)') = 0
    BY <1>1, <2>1, EmptyFacts
  <2> QED
    BY <1>4, <2>2, SignInAssumption
<1> QED
  BY <1>3, <1>4

\* The step concerns no challenge, and no code is about to be compared after it that
\* was not before.
Aside ==
    /\ UNCHANGED challenges
    /\ UNCHANGED request \/ \E r \in Request : \E it : Goto(r, it) /\ it.at # "complete"

LEMMA AsideKeeps ==
    ASSUME ShapeInv, AttemptsInv, Aside
    PROVE  AttemptsInv'
<1>1. \A r \in Request : request'[r] = request[r] \/ request'[r].at # "complete"
  BY GotoFacts DEF Aside, ShapeInv
<1>2. \A n \in DOMAIN challenges' : Live(n)' =>
        /\ n \in DOMAIN challenges /\ Live(n)
        /\ challenges'[n].attempts = challenges[n].attempts
        /\ challenges'[n].guesses = challenges[n].guesses
  BY DEF Aside, Live
<1> QED
  BY <1>1, <1>2, AttemptsKept

LEMMA DoneIsGoto ==
    ASSUME NEW r \in Request, Done(r)
    PROVE  \E it : Goto(r, it) /\ it.at # "complete"
BY DEF Done, NoRequest

LEMMA FailAside ==
    ASSUME NEW r \in Request, Fail(r)
    PROVE  Aside
BY DoneIsGoto DEF Fail, Aside

LEMMA ProceedAside ==
    ASSUME NEW r \in Request, NEW it, Proceed(r, it), it.at # "complete"
    PROVE  Aside
BY DEF Proceed, Aside

\* completeMFA counts an attempt, and a code is about to be compared.
LEMMA AttemptCounted ==
    ASSUME ShapeInv, AttemptsInv, NEW r \in Request, NEW n \in DOMAIN challenges, NEW kind, completeMFA(r, n, kind)
    PROVE  AttemptsInv'
<1>1. PICK it : it = [at |-> "complete", id |-> n, kind |-> kind, mode |-> settings.config.mode]
  OBVIOUS
<1>2. PICK e : e = [challenges[n] EXCEPT !.attempts = challenges[n].attempts + 1]
  OBVIOUS
<1>3. /\ Live(n) /\ challenges[n].attempts < MaxAttempts /\ request[r].at = "idle"
      /\ Goto(r, it) /\ challenges' = [challenges EXCEPT ![n] = e]
  BY <1>1, <1>2 DEF completeMFA, AttemptMFAChallenge, MFAChallenge, At
<1>4. /\ challenges[n] \in Challenge /\ challenges[n].attempts \in Nat /\ challenges[n].guesses \in Nat
  BY <1>3, LiveIsChallenge DEF ShapeInv
<1>5. /\ e \in Challenge /\ e.attempts = challenges[n].attempts + 1 /\ e.guesses = challenges[n].guesses
  BY <1>2, <1>4 DEF Challenge
<1>6. /\ DOMAIN challenges' = DOMAIN challenges /\ challenges'[n] = e
      /\ \A m \in DOMAIN challenges : m # n => challenges'[m] = challenges[m] /\ (Live(m)' <=> Live(m))
  BY <1>3, <1>5, ChallengeReplaced
<1>7. request'[r] = it /\ \A q \in Request : q # r => request'[q] = request[q]
  BY <1>3, GotoFacts DEF ShapeInv
<1>8. it.at = "complete" /\ it.id = n
  BY <1>1
<1>9. /\ Comparing(n)' = Comparing(n) \cup {r} /\ r \notin Comparing(n)
      /\ \A m : m # n => Comparing(m)' = Comparing(m)
  BY <1>3, <1>7, <1>8 DEF Comparing
<1>10. Cardinality(Comparing(n)') = Cardinality(Comparing(n)) + 1
  BY <1>9, ComparingFacts, AddFacts
<1>11. /\ challenges'[n].guesses + Cardinality(Comparing(n)') <= challenges'[n].attempts
       /\ challenges'[n].attempts <= MaxAttempts
  <2>1. /\ challenges[n].guesses + Cardinality(Comparing(n)) <= challenges[n].attempts
        /\ Cardinality(Comparing(n)) \in Nat /\ MaxAttempts \in Nat
    BY <1>3, ComparingFacts, SignInAssumption DEF AttemptsInv
  <2> QED
    BY <1>3, <1>4, <1>5, <1>6, <1>10, <2>1
<1>12. ASSUME NEW m \in DOMAIN challenges, m # n, Live(m)'
       PROVE  /\ challenges'[m].guesses + Cardinality(Comparing(m)') <= challenges'[m].attempts
              /\ challenges'[m].attempts <= MaxAttempts
  BY <1>6, <1>9, <1>12 DEF AttemptsInv
<1> QED
  BY <1>6, <1>11, <1>12 DEF AttemptsInv

\* A wrong code: the comparison that was counted is made.
LEMMA ComparisonMade ==
    ASSUME ShapeInv, AttemptsInv, NEW r \in Request, NEW n \in DOMAIN challenges, Live(n),
           request[r].at = "complete", request[r].id = n, Compared(r, n)
    PROVE  AttemptsInv'
<1>1. PICK e : e = [challenges[n] EXCEPT !.guesses = challenges[n].guesses + 1]
  OBVIOUS
<1>2. Goto(r, NoRequest) /\ challenges' = [challenges EXCEPT ![n] = e]
  BY <1>1 DEF Compared, Done
<1>3. /\ challenges[n] \in Challenge /\ challenges[n].attempts \in Nat /\ challenges[n].guesses \in Nat
  BY LiveIsChallenge DEF ShapeInv
<1>4. /\ e \in Challenge /\ e.attempts = challenges[n].attempts /\ e.guesses = challenges[n].guesses + 1
  BY <1>1, <1>3 DEF Challenge
<1>5. /\ DOMAIN challenges' = DOMAIN challenges /\ challenges'[n] = e
      /\ \A m \in DOMAIN challenges : m # n => challenges'[m] = challenges[m] /\ (Live(m)' <=> Live(m))
  BY <1>2, <1>4, ChallengeReplaced
<1>6. request'[r].at = "idle" /\ \A q \in Request : q # r => request'[q] = request[q]
  BY <1>2, GotoFacts DEF ShapeInv, NoRequest
<1>7. /\ Comparing(n) = Comparing(n)' \cup {r} /\ r \notin Comparing(n)'
      /\ \A m : m # n => Comparing(m)' = Comparing(m)
  BY <1>6 DEF Comparing
<1>8. Cardinality(Comparing(n)) = Cardinality(Comparing(n)') + 1
  BY <1>7, ComparingFacts, AddFacts
<1>9. /\ challenges'[n].guesses + Cardinality(Comparing(n)') <= challenges'[n].attempts
      /\ challenges'[n].attempts <= MaxAttempts
  <2>1. /\ challenges[n].guesses + Cardinality(Comparing(n)) <= challenges[n].attempts
        /\ challenges[n].attempts <= MaxAttempts
        /\ Cardinality(Comparing(n)') \in Nat
    BY ComparingFacts DEF AttemptsInv
  <2> QED
    BY <1>3, <1>4, <1>5, <1>8, <2>1
<1>10. ASSUME NEW m \in DOMAIN challenges, m # n, Live(m)'
       PROVE  /\ challenges'[m].guesses + Cardinality(Comparing(m)') <= challenges'[m].attempts
              /\ challenges'[m].attempts <= MaxAttempts
  BY <1>5, <1>7, <1>10 DEF AttemptsInv
<1> QED
  BY <1>5, <1>9, <1>10 DEF AttemptsInv

\* A challenge is consumed, by the handler that compared a right code or by time.
LEMMA ConsumedKeeps ==
    ASSUME ShapeInv, AttemptsInv, NEW n \in DOMAIN challenges, Live(n), challenges' = ConsumeMFAChallenge(n),
           UNCHANGED request \/ \E r \in Request : Done(r)
    PROVE  AttemptsInv'
<1>1. \A r \in Request : request'[r] = request[r] \/ request'[r].at # "complete"
  BY DoneIsGoto, GotoFacts DEF ShapeInv
<1>2. \A m \in DOMAIN challenges' : Live(m)' => m \in DOMAIN challenges /\ Live(m) /\ challenges'[m] = challenges[m]
  BY Consumed
<1> QED
  BY <1>1, <1>2, AttemptsKept

LEMMA CompleteKeeps ==
    ASSUME ShapeInv, AttemptsInv, NEW r \in Request, NEW code, CompleteMFA(r, code)
    PROVE  AttemptsInv'
<1>1. CASE Fail(r)
  BY <1>1, FailAside, AsideKeeps
<1>2. CASE ~ Fail(r)
  <2>1. PICK n : n = request[r].id
    OBVIOUS
  <2>2. /\ request[r].at = "complete" /\ Live(n)
        /\ CompleteEnroll(r, code) \/ CompleteVerify(r, code)
    BY <1>2, <2>1 DEF CompleteMFA, LockMFAChallenge, At
  <2>3. n \in DOMAIN challenges
    BY <2>2 DEF Live
  <2>4. \/ Compared(r, n)
        \/ challenges' = ConsumeMFAChallenge(n) /\ Done(r)
    BY <1>2, <2>1, <2>2 DEF CompleteEnroll, CompleteVerify
  <2> QED
    BY <2>1, <2>2, <2>3, <2>4, ComparisonMade, ConsumedKeeps
<1> QED
  BY <1>1, <1>2

\* A new challenge has no attempts.
LEMMA BeginKeeps ==
    ASSUME ShapeInv, AttemptsInv, NEW r \in Request, NEW selfEnroll, BeginMFA(r, selfEnroll)
    PROVE  AttemptsInv'
<1>1. CASE UNCHANGED challenges
  BY <1>1, DoneIsGoto, AsideKeeps DEF BeginMFA, Fail, Aside
<1>2. CASE ~ UNCHANGED challenges
  <2>1. PICK u, proof, kind : Done(r) /\ CreateMFAChallenge(u, proof, kind)
    BY <1>2 DEF BeginMFA, Fail
  <2>2. PICK e : e = [user |-> u, version |-> users[u].version, kind |-> kind, secret |-> 0,
                      attempts |-> 0, proof |-> proof, guesses |-> 0, shown |-> {}]
    OBVIOUS
  <2>3. challenges' = Append(challenges, e) /\ e.attempts = 0 /\ e.guesses = 0
    BY <2>1, <2>2 DEF CreateMFAChallenge
  <2>4. /\ DOMAIN challenges' = DOMAIN challenges \cup {Len(challenges) + 1}
        /\ Len(challenges) + 1 \notin DOMAIN challenges
        /\ challenges'[Len(challenges) + 1] = e
        /\ \A n \in DOMAIN challenges : challenges'[n] = challenges[n]
    BY <2>3 DEF ShapeInv
  <2>5. \A q \in Request : request'[q] = request[q] \/ request'[q].at # "complete"
    BY <2>1, DoneIsGoto, GotoFacts DEF ShapeInv
  <2>6. \A n \in DOMAIN challenges : Live(n)' => Live(n)
    BY <2>4 DEF Live
  <2> QED
    BY <2>3, <2>4, <2>5, <2>6, AttemptsKept
<1> QED
  BY <1>1, <1>2

LEMMA StartKeeps ==
    ASSUME ShapeInv, AttemptsInv, NEW r \in Request, StartMFAEnrollment(r)
    PROVE  AttemptsInv'
<1>1. CASE Fail(r)
  BY <1>1, FailAside, AsideKeeps
<1>2. CASE ~ Fail(r)
  <2>1. PICK n : n = request[r].id
    OBVIOUS
  <2>2. Live(n) /\ Done(r) /\ \E s : SetMFAEnrollment(n, s)
    BY <1>2, <2>1 DEF StartMFAEnrollment, LockMFAChallenge
  <2>3. PICK s : SetMFAEnrollment(n, s)
    BY <2>2
  <2>4. n \in DOMAIN challenges /\ challenges \in Seq(Challenge \cup {Gone}) /\ challenges[n] \in Challenge
    BY <2>2, LiveIsChallenge DEF Live, ShapeInv
  <2>5. PICK e : e = [challenges[n] EXCEPT !.secret = s, !.shown = challenges[n].shown \cup {s}]
    OBVIOUS
  <2>6. challenges' = [challenges EXCEPT ![n] = e]
    BY <2>3, <2>4, <2>5 DEF SetMFAEnrollment
  <2>7. e.attempts = challenges[n].attempts /\ e.guesses = challenges[n].guesses
    BY <2>4, <2>5 DEF Challenge
  <2>8. /\ DOMAIN challenges' = DOMAIN challenges /\ challenges'[n] = e
        /\ \A m \in DOMAIN challenges : m # n => challenges'[m] = challenges[m] /\ (Live(m)' <=> Live(m))
    BY <2>4, <2>6 DEF Live
  <2>9. \A q \in Request : request'[q] = request[q] \/ request'[q].at # "complete"
    BY <2>2, DoneIsGoto, GotoFacts DEF ShapeInv
  <2>10. \A m \in DOMAIN challenges' : Live(m)' =>
           /\ m \in DOMAIN challenges /\ Live(m)
           /\ challenges'[m].attempts = challenges[m].attempts
           /\ challenges'[m].guesses = challenges[m].guesses
    BY <2>2, <2>7, <2>8
  <2> QED
    BY <2>9, <2>10, AttemptsKept
<1> QED
  BY <1>1, <1>2

\* The other handlers of a sign-in.
LEMMA SignInAside ==
    ASSUME ShapeInv, NEW r \in Request,
           \/ \E u \in User : passwordLogin(r, u)
           \/ AuthenticateLocal(r)
           \/ \E n \in DOMAIN challenges : enrollMFA(r, n)
           \/ \E c \in cookies : currentUser(r, c)
           \/ \E code, remove : UpdateOwnMFA(r, code, remove)
           \/ ChangePassword(r) \/ Abandon(r)
    PROVE  Aside
<1>1. ASSUME NEW u \in User, passwordLogin(r, u)
      PROVE  Aside
  <2>1. LocalCredential(u).at # "complete"
    BY DEF LocalCredential
  <2> QED
    BY <1>1, <2>1, ProceedAside DEF passwordLogin
<1>2. CASE AuthenticateLocal(r)
  <2>1. request[r].at = "credential" /\ DOMAIN request[r] = Credential
    BY <1>2 DEF AuthenticateLocal, At, ShapeInv
  <2>2. [request[r] EXCEPT !.at = "primary"].at # "complete"
    BY <2>1 DEF Credential
  <2> QED
    BY <1>2, <2>2, ProceedAside, FailAside DEF AuthenticateLocal
<1>3. ASSUME NEW n \in DOMAIN challenges, enrollMFA(r, n)
      PROVE  Aside
  BY <1>3, ProceedAside DEF enrollMFA
<1>4. ASSUME NEW c \in cookies, currentUser(r, c)
      PROVE  Aside
  BY <1>4, ProceedAside DEF currentUser
<1>5. ASSUME NEW code, NEW remove, UpdateOwnMFA(r, code, remove)
      PROVE  Aside
  <2>1. Fail(r) \/ (Done(r) /\ UNCHANGED challenges)
    BY <1>5 DEF UpdateOwnMFA
  <2> QED
    BY <2>1, FailAside, DoneIsGoto DEF Aside
<1>6. CASE ChangePassword(r) \/ Abandon(r)
  <2>1. Fail(r) \/ (Done(r) /\ UNCHANGED challenges)
    BY <1>6 DEF ChangePassword, Abandon
  <2> QED
    BY <2>1, FailAside, DoneIsGoto DEF Aside
<1> QED
  BY <1>1, <1>2, <1>3, <1>4, <1>5, <1>6

\* A request with a provider.
LEMMA ExternalAside ==
    ASSUME ShapeInv, NEW r \in Request,
           \/ bindFeishu(r) \/ UnbindFeishuUser(r)
           \/ \E n \in DOMAIN flows : externalCallback(r, n)
           \/ \E subject : SyncExternalUser(r, subject)
           \/ \E openID, active : SyncFeishuUser(r, openID, active)
           \/ \E c, openID : BindFeishuUser(r, c, openID)
    PROVE  Aside
<1>1. ASSUME NEW n \in DOMAIN flows, externalCallback(r, n)
      PROVE  Aside
  <2>1. flows[n].provider # "complete"
    <3>1. flows[n] \in Flow
      BY DEF ShapeInv
    <3> QED
      BY <3>1 DEF Flow
  <2>2. PICK it : it = [at |-> flows[n].provider, user |-> flows[n].user, version |-> flows[n].version,
                        revision |-> settings.revision, tenant |-> settings.config.tenant,
                        mode |-> settings.config.mode]
    OBVIOUS
  <2>3. it.at # "complete" /\ Goto(r, it) /\ UNCHANGED challenges
    BY <1>1, <2>1, <2>2 DEF externalCallback
  <2> QED
    BY <2>3 DEF Aside
<1>2. ASSUME NEW u, NEW version, NEW proof, Primary(r, u, version, proof)
      PROVE  \E it : Goto(r, it) /\ it.at # "complete"
  <2>1. PICK it : it = [at |-> "primary", user |-> u, version |-> version, mode |-> request[r].mode, proof |-> proof]
    OBVIOUS
  <2>2. Goto(r, it) /\ it.at # "complete"
    BY <1>2, <2>1 DEF Primary
  <2> QED
    BY <2>2
<1>3. ASSUME NEW subject, SyncExternalUser(r, subject)
      PROVE  Aside
  <2>1. \/ Fail(r)
        \/ UNCHANGED challenges /\ \E u, version, proof : Primary(r, u, version, proof)
    BY <1>3 DEF SyncExternalUser
  <2> QED
    BY <1>2, <2>1, FailAside DEF Aside
<1>4. ASSUME NEW openID, NEW active, SyncFeishuUser(r, openID, active)
      PROVE  Aside
  <2>1. \/ Fail(r)
        \/ UNCHANGED challenges /\ (Done(r) \/ \E u, version, proof : Primary(r, u, version, proof))
    BY <1>4 DEF SyncFeishuUser
  <2> QED
    BY <1>2, <2>1, FailAside, DoneIsGoto DEF Aside
<1>5. CASE bindFeishu(r) \/ UnbindFeishuUser(r) \/ \E c, openID : BindFeishuUser(r, c, openID)
  <2>1. Fail(r) \/ (Done(r) /\ UNCHANGED challenges)
    BY <1>5 DEF bindFeishu, UnbindFeishuUser, BindFeishuUser
  <2> QED
    BY <2>1, FailAside, DoneIsGoto DEF Aside
<1> QED
  BY <1>1, <1>3, <1>4, <1>5

\* What others do.
LEMMA OthersAside ==
    ASSUME \/ \E actor, u : ResetUserMFA(actor, u)
           \/ \E actor, u, status : changeUserStatus(actor, u, status)
           \/ \E actor, mode : savePolicy(actor, mode)
           \/ \E actor, enabled, tenant : saveProviders(actor, enabled, tenant)
           \/ \E provider : externalLogin(provider)
           \/ \E n : StateExpires(n) \/ InvitationExpires(n)
           \/ \E actor : CreateInvitation(actor)
           \/ \E n, outcome : deliverInvitation(n, outcome)
           \/ \E actor, n : ResendInvitation(actor, n) \/ RevokeInvitation(actor, n)
           \/ Tick
    PROVE  Aside
<1>1. UNCHANGED signInVars \/ Tick
  BY DEF ResetUserMFA, changeUserStatus, savePolicy, saveProviders, externalLogin, StateExpires,
         InvitationExpires, CreateInvitation, deliverInvitation, ResendInvitation, RevokeInvitation
<1> QED
  BY <1>1 DEF Aside, Tick, signInVars

LEMMA AcceptAside ==
    ASSUME NEW r \in Request, NEW n, AcceptInvitation(r, n)
    PROVE  Aside
<1>1. PICK it : /\ it = [at |-> "primary", user |-> invitations[n].user, version |-> users'[invitations[n].user].version,
                         mode |-> settings.config.mode, proof |-> <<"password", fresh'>>]
                /\ Goto(r, it) /\ UNCHANGED challenges
  BY DEF AcceptInvitation
<1> QED
  BY <1>1 DEF Aside

LEMMA AttemptsStep ==
    ASSUME IdentityInv, AttemptsInv, [IdentityNext]_identityVars
    PROVE  AttemptsInv'
<1>1. ShapeInv
  BY DEF IdentityInv
<1>2. CASE UNCHANGED identityVars
  BY <1>1, <1>2, AsideKeeps DEF Aside, identityVars, signInVars
<1>3. ASSUME NEW r \in Request, finishPrimaryLogin(r) \/ enrollOwnMFA(r)
      PROVE  AttemptsInv'
  BY <1>1, <1>3, BeginKeeps DEF finishPrimaryLogin, enrollOwnMFA
<1>4. ASSUME NEW n \in DOMAIN challenges, ChallengeExpires(n)
      PROVE  AttemptsInv'
  BY <1>1, <1>4, ConsumedKeeps DEF ChallengeExpires
<1>5. CASE SignInNext
  BY <1>1, <1>3, <1>4, <1>5, AttemptCounted, CompleteKeeps, StartKeeps, SignInAside, OthersAside, AsideKeeps
     DEF SignInNext
<1>6. CASE ExternalNext
  BY <1>1, <1>3, <1>6, SignInAside, ExternalAside, OthersAside, AsideKeeps DEF ExternalNext
<1>7. CASE InvitationsNext
  BY <1>1, <1>3, <1>7, SignInAside, OthersAside, AcceptAside, AsideKeeps DEF InvitationsNext
<1> QED
  BY <1>2, <1>5, <1>6, <1>7 DEF IdentityNext

-----------------------------------------------------------------------------
LEMMA IdentityInvariant == IdentitySpec => []IdentityInv
<1>1. IdentityInit => IdentityInv
  BY IdentityInitial
<1>2. IdentityInv /\ [IdentityNext]_identityVars => IdentityInv'
  BY IdentityStep
<1> QED
  BY <1>1, <1>2, PTL DEF IdentitySpec

LEMMA AttemptsInvariant == IdentitySpec => []AttemptsInv
<1>1. IdentityInit => AttemptsInv
  BY DEF IdentityInit, SignInInit, AttemptsInv
<1>2. IdentityInv /\ AttemptsInv /\ [IdentityNext]_identityVars => AttemptsInv'
  BY AttemptsStep
<1> QED
  BY <1>1, <1>2, IdentityInvariant, PTL DEF IdentitySpec

\* ValidateBrowserSession compares the version of a cookie with the account's, and
\* every statement that replaces or takes away a password, a second factor or a
\* binding raises that version: a session that is accepted was obtained with the
\* factors the account has now, whatever ran between the steps of the sign-in.
THEOREM SessionIsCurrentHolds == IdentitySpec => []SessionIsCurrent
<1>1. ASSUME KnownInv
      PROVE  SessionIsCurrent
  BY <1>1 DEF KnownInv, Known, SessionIsCurrent, ValidateBrowserSession
<1>2. IdentityInv => SessionIsCurrent
  BY <1>1 DEF IdentityInv
<1> QED
  BY <1>2, IdentityInvariant, PTL

\* A challenge, a TOTP step, a recovery code, an OAuth state and an invitation link
\* are each honoured by the statement that uses them up, so none is honoured twice
\* from however many browsers it comes; and AttemptMFAChallenge commits an attempt
\* before its code is compared, so no challenge has more codes compared than it
\* allows, although the transaction of a wrong code is rolled back.
THEOREM HonouredOnceHolds == IdentitySpec => []HonouredOnce
<1>1. ASSUME ShapeInv, SpentInv, AttemptsInv
      PROVE  HonouredOnce
  <2>1. ASSUME NEW n \in DOMAIN challenges, Live(n)
        PROVE  challenges[n].guesses <= MaxAttempts
    <3>1. /\ challenges[n].guesses \in Nat /\ challenges[n].attempts \in Nat
          /\ Cardinality(Comparing(n)) \in Nat /\ MaxAttempts \in Nat
      BY <1>1, <2>1, LiveIsChallenge, ComparingFacts, SignInAssumption DEF ShapeInv
    <3>2. /\ challenges[n].guesses + Cardinality(Comparing(n)) <= challenges[n].attempts
          /\ challenges[n].attempts <= MaxAttempts
      BY <1>1, <2>1 DEF AttemptsInv
    <3> QED
      BY <3>1, <3>2
  <2> QED
    BY <1>1, <2>1 DEF HonouredOnce, SpentInv
<1>2. IdentityInv /\ AttemptsInv => HonouredOnce
  BY <1>1 DEF IdentityInv
<1> QED
  BY <1>2, IdentityInvariant, AttemptsInvariant, PTL

\* StartMFAEnrollment draws the secret of a challenge once, under its lock: two
\* enrolment requests never show two different QR codes.
THEOREM ShownIsStoredHolds == IdentitySpec => []ShownIsStored
<1>1. IdentityInv => ShownIsStored
  BY DEF IdentityInv, ShownInv, ShownIsStored
<1> QED
  BY <1>1, IdentityInvariant, PTL

\* Save refuses another tenant while an account is bound, and SyncFeishuUser and
\* BindFeishuUser refuse a snapshot that is no longer the saved one: every bound
\* identity is of the tenant that is configured.
THEOREM TenantAgreesHolds == IdentitySpec => []TenantAgrees
<1>1. IdentityInv => TenantAgrees
  BY DEF IdentityInv, TenantInv, TenantAgrees
<1> QED
  BY <1>1, IdentityInvariant, PTL
=============================================================================
