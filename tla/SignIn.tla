------------------------------- MODULE SignIn -------------------------------
(***************************************************************************)
(* Signing in with a password and a second factor, and what a signed-in    *)
(* person does to their own account.  A browser may present any session or *)
(* pending-MFA cookie it was ever given, from several tabs at once, so the *)
(* cookies are the set of all that were issued.  A cookie carries, beside  *)
(* what is signed, the proofs it was obtained with: the first factor and   *)
(* the TOTP secret.  A request takes one step per statement or             *)
(* transaction of its handler.                                             *)
(***************************************************************************)
EXTENDS Settings

CONSTANTS
    Request,         \* the requests in flight
    Mode,            \* the MFA policies an administrator chooses
    MaxAttempts,     \* attempts a challenge allows (5 in the code)
    MaxChallenges,   \* bound: challenges created and policies saved, together
    MaxClock,        \* bound: TOTP steps that pass
    MaxVersion,      \* bound: changes that end a user's sessions
    MaxDraws         \* bound: passwords, secrets and code sets drawn

ASSUME SignInAssumption ==
    /\ IsFiniteSet(Request)
    /\ MaxAttempts \in Nat \ {0}
    /\ Mode \subseteq {"off", "optional", "admin", "all"}

VARIABLES
    cookies,       \* every session cookie issued
    challenges,    \* the rows of mfa_challenges in the order of their creation
    request,       \* per request, where its handler is
    clock,         \* the current TOTP step
    spent,         \* one-time things that were honoured: challenges, codes, links
    twice          \* the ones honoured more than once

signInVars == <<cookies, challenges, request, clock, spent, twice>>

Gone == [kind |-> "gone"]      \* consumed or expired
NoRequest == [at |-> "idle"]
Live(n) == n \in DOMAIN challenges /\ challenges[n] # Gone

Honour(things) ==
    /\ spent' = spent \cup things
    /\ twice' = twice \cup (things \cap spent)

SignInInit ==
    /\ cookies = {}
    /\ challenges = <<>>
    /\ request = [r \in Request |-> NoRequest]
    /\ clock = 1
    /\ spent = {} /\ twice = {}

At(r, step) == request[r].at = step
Goto(r, record) == request' = [request EXCEPT ![r] = record]
Done(r) == Goto(r, NoRequest)

\* The handler answers with an error and has changed nothing.
Fail(r) ==
    /\ Done(r)
    /\ UNCHANGED <<accountVars, cookies, challenges, clock, spent, twice>>

Proceed(r, record) ==
    /\ Goto(r, record)
    /\ UNCHANGED <<accountVars, cookies, challenges, clock, spent, twice>>

-----------------------------------------------------------------------------
\* security/session.go: a session cookie, with or without the MFA mark.
SignVersioned(u, version, proof) ==
    [user |-> u, version |-> version, secret |-> 0, proof |-> proof]

SignMFA(u, version, proof, secret) ==
    [user |-> u, version |-> version, secret |-> secret, proof |-> proof]

MFAVerified(cookie) == cookie.secret # 0

setSessionCookie(cookie) == cookies' = cookies \cup {cookie}

setVerifiedSession(u, version, proof, secret) ==
    setSessionCookie(SignMFA(u, version, proof, secret))

\* security/totp.go: the code of a secret at a step; one step of skew is allowed.
totpCode(secret, step) == <<"totp", secret, step>>

RecoveryCode(batch) == <<"code", batch>>

VerifyTOTP(secret, code) ==
    {step \in (clock - 1) .. (clock + 1) : code = totpCode(secret, step)}

\* What a person may type: a code of a secret in use, of a step that has come, a
\* recovery code, or something else.
Typed ==
    LET secrets == {users[u].secret : u \in User}
                       \cup {challenges[n].secret : n \in {m \in DOMAIN challenges : Live(m)}}
    IN {totpCode(s, t) : s \in secrets \ {0}, t \in 1 .. clock}
           \cup {RecoveryCode(b) : b \in 1 .. fresh} \cup {<<"wrong">>}

-----------------------------------------------------------------------------
(***************************************************************************)
(* The first factor, and the gate behind it.                               *)
(***************************************************************************)
\* The hash and the version of the account, read in one statement.
LocalCredential(u) ==
    [at |-> "credential", user |-> u, version |-> users[u].version,
     mode |-> settings.config.mode, proof |-> <<"password", users[u].password>>]

\* passwordLogin with the right password; a wrong one changes nothing.
passwordLogin(r, u) ==
    /\ At(r, "idle")
    /\ users[u].password \notin {0, NoLocal}
    /\ Proceed(r, LocalCredential(u))

\* A mutant of AuthenticateLocal: the version of the second read is taken.
AuthenticateLate(r) ==
    LET it == request[r] IN
    /\ At(r, "credential")
    /\ IF users[it.user].status = "active"
       THEN Proceed(r, [it EXCEPT !.at = "primary", !.version = users[it.user].version])
       ELSE Fail(r)

\* "Credentials and their session version come from the same database snapshot."
AuthenticateLocal(r) ==
    LET it == request[r] IN
    /\ At(r, "credential")
    /\ IF users[it.user].status = "active"
       THEN Proceed(r, [it EXCEPT !.at = "primary"])
       ELSE Fail(r)

CreateMFAChallenge(u, proof, kind) ==
    /\ Len(challenges) + settings.revision < MaxChallenges
    /\ challenges' = Append(challenges,
          [user |-> u, version |-> users[u].version, kind |-> kind, secret |-> 0,
           attempts |-> 0, proof |-> proof, guesses |-> 0, shown |-> {}])

\* BeginMFA: its transaction; the policy was read when the request began.
BeginMFA(r, selfEnroll) ==
    LET it == request[r]
        u == it.user
    IN IF \/ ~ ValidateBrowserSession(u, it.version)
          \/ selfEnroll /\ (it.mode = "off" \/ MFA(u))
       THEN Fail(r)
       ELSE /\ Done(r)
            /\ IF ~ selfEnroll /\ ~ Required(it.mode, MFA(u), Admin(u))
               THEN setSessionCookie(SignVersioned(u, it.version, it.proof)) /\ UNCHANGED challenges
               ELSE /\ CreateMFAChallenge(u, it.proof, IF MFA(u) THEN "verify" ELSE "enroll")
                    /\ UNCHANGED cookies
            /\ UNCHANGED <<accountVars, clock, spent, twice>>

\* "All first-factor success paths must pass through this gate, including
\* invitation acceptance."
finishPrimaryLogin(r) == At(r, "primary") /\ BeginMFA(r, FALSE)

-----------------------------------------------------------------------------
(***************************************************************************)
(* The second factor.                                                      *)
(***************************************************************************)
\* MFAChallenge: an unexpired challenge with attempts left.
MFAChallenge(n) == Live(n) /\ challenges[n].attempts < MaxAttempts

enrollMFA(r, n) ==
    /\ At(r, "idle") /\ MFAChallenge(n)
    /\ Proceed(r, [at |-> "enroll", id |-> n, mode |-> settings.config.mode, secret |-> challenges[n].secret])

\* LockMFAChallenge, and the checks under the locks of the user and the challenge.
LockMFAChallenge(n, kind) ==
    /\ Live(n) /\ challenges[n].kind = kind
    /\ ValidateBrowserSession(challenges[n].user, challenges[n].version)

SetMFAEnrollment(n, secret) ==
    challenges' = [challenges EXCEPT ![n].secret = secret, ![n].shown = @ \cup {secret}]

\* A mutant of StartMFAEnrollment: the secret of the first, unlocked read counts.
EnrollUnlocked(r) ==
    LET it == request[r]
        n == it.id
    IN /\ At(r, "enroll")
       /\ IF it.mode = "off" \/ ~ LockMFAChallenge(n, "enroll") \/ challenges[n].attempts >= MaxAttempts
          THEN Fail(r)
          ELSE /\ Done(r)
               /\ IF it.secret # 0 THEN SetMFAEnrollment(n, it.secret) /\ UNCHANGED fresh
                  ELSE fresh < MaxDraws /\ Draw /\ SetMFAEnrollment(n, fresh')
               /\ UNCHANGED <<users, settings, cookies, clock, spent, twice>>

\* A secret the challenge already has is shown again.
StartMFAEnrollment(r) ==
    LET it == request[r]
        n == it.id
    IN /\ At(r, "enroll")
       /\ IF it.mode = "off" \/ ~ LockMFAChallenge(n, "enroll") \/ challenges[n].attempts >= MaxAttempts
          THEN Fail(r)
          ELSE /\ Done(r)
               /\ IF challenges[n].secret # 0
                  THEN SetMFAEnrollment(n, challenges[n].secret) /\ UNCHANGED fresh
                  ELSE fresh < MaxDraws /\ Draw /\ SetMFAEnrollment(n, fresh')
               /\ UNCHANGED <<users, settings, cookies, clock, spent, twice>>

\* "Persist attempts outside the verification transaction so failures cannot roll
\* the counter back."
AttemptMFAChallenge(n) ==
    /\ MFAChallenge(n)
    /\ challenges' = [challenges EXCEPT ![n].attempts = @ + 1]

\* completeMFA up to the transaction of CompleteMFA.
completeMFA(r, n, kind) ==
    /\ At(r, "idle")
    /\ AttemptMFAChallenge(n)
    /\ Goto(r, [at |-> "complete", id |-> n, kind |-> kind, mode |-> settings.config.mode])
    /\ UNCHANGED <<accountVars, cookies, clock, spent, twice>>

\* The rows a factor leads to; none when it is refused.  A TOTP step is accepted
\* only after the last one.
verifyMFAFactor(u, code) ==
    {ConsumeRecoveryCode(users[u], b) : b \in {c \in users[u].codes : code = RecoveryCode(c)}}
        \cup {AdvanceMFAStep(users[u], t) :
                  t \in {s \in VerifyTOTP(users[u].secret, code) : s > users[u].lastStep}}

replaceRecoveryCodes(row) == ReplaceRecoveryCodes(row, fresh + 1)

ConsumeMFAChallenge(n) == [challenges EXCEPT ![n] = Gone]

\* The transaction of CompleteMFA is rolled back; the code was compared.
Compared(r, n) ==
    /\ Done(r)
    /\ challenges' = [challenges EXCEPT ![n].guesses = @ + 1]
    /\ UNCHANGED <<accountVars, cookies, clock, spent, twice>>

\* Enrolment binds the factor: BindMFA inserts, so a second one conflicts.
CompleteEnroll(r, code) ==
    LET n == request[r].id
        u == challenges[n].user
        secret == challenges[n].secret
        steps == VerifyTOTP(secret, code)
    IN IF request[r].mode = "off" \/ secret = 0 THEN Fail(r)
       ELSE IF steps = {} \/ MFA(u) THEN Compared(r, n)
       ELSE /\ fresh < MaxDraws /\ Draw
            /\ \E step \in steps : users' = [users EXCEPT ![u] =
                  BumpAuthVersion(replaceRecoveryCodes(BindMFA(@, secret, step)))]
            /\ challenges' = ConsumeMFAChallenge(n)
            /\ setVerifiedSession(u, users'[u].version, challenges[n].proof, secret)
            /\ Honour({<<"challenge", n>>, code})
            /\ Done(r)
            /\ UNCHANGED <<settings, clock>>

CompleteVerify(r, code) ==
    LET n == request[r].id
        u == challenges[n].user
        rows == verifyMFAFactor(u, code)
    IN IF ~ MFA(u) \/ rows = {} THEN Compared(r, n)
       ELSE /\ \E row \in rows : users' = [users EXCEPT ![u] = row]
            /\ challenges' = ConsumeMFAChallenge(n)
            /\ setVerifiedSession(u, users[u].version, challenges[n].proof, users[u].secret)
            /\ Honour({<<"challenge", n>>, code})
            /\ Done(r)
            /\ UNCHANGED <<settings, fresh, clock>>

CompleteMFA(r, code) ==
    LET it == request[r] IN
    /\ At(r, "complete")
    /\ IF ~ LockMFAChallenge(it.id, it.kind) THEN Fail(r)
       ELSE IF it.kind = "enroll" THEN CompleteEnroll(r, code) ELSE CompleteVerify(r, code)

-----------------------------------------------------------------------------
(***************************************************************************)
(* A request with a session cookie.                                        *)
(***************************************************************************)
\* currentUser, called by authorizationFilter and by the handler: the cookie is
\* for the version in force, and a second factor that is required was given.
currentUser(r, c) ==
    /\ At(r, "idle") /\ c \in cookies
    /\ ValidateBrowserSession(c.user, c.version)
    /\ ValidateMFASession(c.user, settings.config.mode, MFAVerified(c))
    /\ Proceed(r, [at |-> "authorised", user |-> c.user, version |-> c.version, proof |-> c.proof,
                   mode |-> settings.config.mode, enabled |-> settings.config.enabled])

enrollOwnMFA(r) == At(r, "authorised") /\ BeginMFA(r, TRUE)

\* UpdateOwnMFA: new recovery codes, or the factor removed and the browser
\* logged out.
UpdateOwnMFA(r, code, remove) ==
    LET it == request[r]
        u == it.user
        rows == verifyMFAFactor(u, code)
    IN /\ At(r, "authorised")
       /\ IF remove /\ Required(it.mode, FALSE, Admin(u)) THEN Fail(r)
          ELSE /\ Done(r)
               /\ IF ValidateBrowserSession(u, it.version) /\ MFA(u) /\ rows # {}
                  THEN /\ \E row \in rows : users' = [users EXCEPT ![u] =
                             BumpAuthVersion(IF remove THEN DeleteMFA(row) ELSE replaceRecoveryCodes(row))]
                       /\ Honour({code})
                       /\ IF remove THEN UNCHANGED <<cookies, fresh>>
                          ELSE /\ fresh < MaxDraws /\ Draw
                               /\ setVerifiedSession(u, users'[u].version, it.proof, users[u].secret)
                  ELSE UNCHANGED <<users, fresh, cookies, spent, twice>>
               /\ UNCHANGED <<settings, challenges, clock>>

\* ChangePassword with the right current password.
ChangePassword(r) ==
    LET u == request[r].user IN
    /\ At(r, "authorised")
    /\ IF users[u].status # "active" \/ users[u].password = NoLocal THEN Fail(r)
       ELSE /\ fresh < MaxDraws /\ Draw
            /\ users' = [users EXCEPT ![u] = UpdateLocalPassword(@, fresh')]
            /\ Done(r)
            /\ UNCHANGED <<settings, cookies, challenges, clock, spent, twice>>

-----------------------------------------------------------------------------
\* What others do: an administrator, time, and a handler that is cut short.
ResetUserMFA(actor, u) ==
    /\ actor # u /\ Admin(actor) /\ users[actor].status = "active"
    /\ MFA(u)
    /\ users' = [users EXCEPT ![u] = BumpAuthVersion(DeleteMFA(@))]
    /\ UNCHANGED <<settings, fresh, signInVars>>

changeUserStatus(actor, u, status) ==
    /\ actor # u /\ Admin(actor) /\ users[actor].status = "active"
    /\ users[u].status \notin {"absent", status}
    /\ users' = [users EXCEPT ![u] = UpdateProfile(@, status)]
    /\ UNCHANGED <<settings, fresh, signInVars>>

savePolicy(actor, mode) ==
    /\ Admin(actor) /\ Len(challenges) + settings.revision < MaxChallenges
    /\ settings.config.mode # mode
    /\ LET config == [settings.config EXCEPT !.mode = mode] IN
       /\ SaveAllowed(actor, settings.config, config)
       /\ SaveRow([settings EXCEPT !.config = config])
    /\ UNCHANGED <<users, fresh, signInVars>>

Tick ==
    /\ clock < MaxClock
    /\ clock' = clock + 1
    /\ UNCHANGED <<accountVars, cookies, challenges, request, spent, twice>>

ChallengeExpires(n) ==
    /\ Live(n)
    /\ challenges' = ConsumeMFAChallenge(n)
    /\ UNCHANGED <<accountVars, cookies, request, clock, spent, twice>>

\* Also what a full bucket of login_attempts does to a request.
Abandon(r) == ~ At(r, "idle") /\ Fail(r)

\* The bound on the changes that end sessions.
Bounded == \A u \in User : users'[u].version <= MaxVersion

SignInNext ==
    \/ \E r \in Request, u \in User : passwordLogin(r, u)
    \/ \E r \in Request : AuthenticateLocal(r)
    \/ \E r \in Request : finishPrimaryLogin(r)
    \/ \E r \in Request, n \in DOMAIN challenges : enrollMFA(r, n)
    \/ \E r \in Request : StartMFAEnrollment(r)
    \/ \E r \in Request, n \in DOMAIN challenges, kind \in {"enroll", "verify"} : completeMFA(r, n, kind)
    \/ \E r \in Request, code \in Typed : CompleteMFA(r, code) /\ Bounded
    \/ \E r \in Request, c \in cookies : currentUser(r, c)
    \/ \E r \in Request : enrollOwnMFA(r)
    \/ \E r \in Request, code \in Typed, remove \in BOOLEAN : UpdateOwnMFA(r, code, remove) /\ Bounded
    \/ \E r \in Request : ChangePassword(r) /\ Bounded
    \/ \E actor, u \in User : ResetUserMFA(actor, u) /\ Bounded
    \/ \E actor, u \in User, status \in {"active", "inactive"} : changeUserStatus(actor, u, status) /\ Bounded
    \/ \E actor \in User, mode \in Mode : savePolicy(actor, mode)
    \/ Tick
    \/ \E n \in DOMAIN challenges : ChallengeExpires(n)
    \/ \E r \in Request : Abandon(r)

-----------------------------------------------------------------------------
\* What proves a first factor is still so.
Holds(u, proof) ==
    CASE proof[1] = "password" -> users[u].password = proof[2]
      [] proof[1] = "feishu" -> users[u].feishu = proof[2]
      [] OTHER -> proof[2] \in users[u].identities

\* A session cookie that currentUser accepts was obtained with the first factor
\* the account has now (its present password, its bound Feishu identity) and with
\* its present TOTP secret, and without one only while none is bound: a change of
\* password, a new or removed factor, an unbinding or a change of status that runs
\* between two steps of a sign-in leaves no session behind.
SessionIsCurrent ==
    \A c \in cookies :
        /\ ValidateBrowserSession(c.user, c.version)
        /\ ValidateMFASession(c.user, settings.config.mode, MFAVerified(c))
        => Holds(c.user, c.proof) /\ users[c.user].secret = c.secret

\* Every challenge, TOTP step, recovery code, OAuth state and invitation link is
\* honoured at most once, from however many tabs it is presented, and no challenge
\* has more codes compared with the right one than it allows attempts, although a
\* wrong code rolls its transaction back.
HonouredOnce ==
    /\ twice = {}
    /\ \A n \in DOMAIN challenges : Live(n) => challenges[n].guesses <= MaxAttempts

\* mfa.go: "two concurrent enrollment requests can each return a different QR code
\* while the last writer silently wins": every secret shown for a challenge is the
\* one that will be bound.
ShownIsStored ==
    \A n \in DOMAIN challenges : Live(n) => challenges[n].shown \subseteq {challenges[n].secret}
=============================================================================
