---------------------------- MODULE Invitations ----------------------------
(***************************************************************************)
(* Inviting a person: an inactive account with an empty password hash, and *)
(* a link that sets the password and activates it.  The administrator may  *)
(* send a new link, revoke one, or change the status of the account        *)
(* meanwhile.  Each administrative operation is one transaction under the  *)
(* exclusive IAM lock.                                                     *)
(***************************************************************************)
EXTENDS SignIn

CONSTANT MaxInvitations    \* bound: links created

VARIABLE invitations       \* the rows of user_invitations, in order

InvitationsInit == invitations = <<>>

Invitation == DOMAIN invitations

-----------------------------------------------------------------------------
\* repository/identity_security.go.
LiveInvitation(n) == invitations[n].state = "live"

ConsumeInvitation(n) == [invitations EXCEPT ![n].state = "accepted"]

\* Also the links that have expired: they are neither accepted nor revoked.
RevokeUserInvitations(u) ==
    [n \in Invitation |-> IF invitations[n].user = u /\ invitations[n].state \in {"live", "expired"}
                          THEN [invitations[n] EXCEPT !.state = "revoked"] ELSE invitations[n]]

MarkInvitationDelivery(n, sent) ==
    [invitations EXCEPT ![n].delivery = IF sent THEN "sent" ELSE "failed"]

NewInvitation(u) == [user |-> u, state |-> "live", delivery |-> "sending"]

\* mutateIAM with user:manage.
MayInvite(actor) == Admin(actor) /\ users[actor].status = "active"

-----------------------------------------------------------------------------
\* "Reserve the username. An empty hash is never a valid password, and the account
\* remains inactive until acceptance."
CreateInvitation(actor) ==
    /\ MayInvite(actor) /\ Len(invitations) < MaxInvitations
    /\ \E u \in User :
          /\ users[u].status = "absent"
          /\ users' = [users EXCEPT ![u] = CreateLocalCredential(Create("inactive"), 0)]
          /\ invitations' = Append(invitations, NewInvitation(u))
    /\ UNCHANGED <<settings, fresh, signInVars>>

\* The mail is sent after the commit and its outcome recorded whatever became of
\* the link; without a mail server there is nothing to record.
deliverInvitation(n, outcome) ==
    /\ invitations[n].delivery = "sending"
    /\ invitations' = IF outcome = "not_configured" THEN [invitations EXCEPT ![n].delivery = outcome]
                      ELSE MarkInvitationDelivery(n, outcome = "sent")
    /\ UNCHANGED <<accountVars, signInVars>>

\* The account has never had a password.
Resendable(n) ==
    /\ invitations[n].state # "accepted"
    /\ users[invitations[n].user].status = "inactive"
    /\ users[invitations[n].user].password = 0

ResendInvitation(actor, n) ==
    /\ MayInvite(actor) /\ Len(invitations) < MaxInvitations
    /\ Resendable(n)
    /\ invitations' = Append(RevokeUserInvitations(invitations[n].user), NewInvitation(invitations[n].user))
    /\ UNCHANGED <<accountVars, signInVars>>

RevokeInvitation(actor, n) ==
    /\ MayInvite(actor)
    /\ invitations[n].state \in {"live", "expired"}
    /\ invitations' = [invitations EXCEPT ![n].state = "revoked"]
    /\ UNCHANGED <<accountVars, signInVars>>

\* What a link must be to be previewed, and again to be accepted.
PreviewInvitation(n) ==
    /\ LiveInvitation(n)
    /\ users[invitations[n].user].status = "inactive"
    /\ users[invitations[n].user].password = 0

\* The transaction of AcceptInvitation; the sign-in goes on behind the same gate
\* as any other.
AcceptInvitation(r, n) ==
    LET u == invitations[n].user IN
    /\ At(r, "idle") /\ fresh < MaxDraws
    /\ PreviewInvitation(n)
    /\ Draw
    /\ users' = [users EXCEPT ![u] = ActivateInvitedUser(UpdateLocalPassword(@, fresh'))]
    /\ invitations' = ConsumeInvitation(n)
    /\ Honour({<<"invitation", n>>})
    /\ Goto(r, [at |-> "primary", user |-> u, version |-> users'[u].version,
                mode |-> settings.config.mode, proof |-> <<"password", fresh'>>])
    /\ UNCHANGED <<settings, cookies, challenges, clock>>

InvitationExpires(n) ==
    /\ LiveInvitation(n)
    /\ invitations' = [invitations EXCEPT ![n].state = "expired"]
    /\ UNCHANGED <<accountVars, signInVars>>

InvitationsNext ==
    \/ \E actor \in User : CreateInvitation(actor)
    \/ \E n \in Invitation, outcome \in {"sent", "failed", "not_configured"} : deliverInvitation(n, outcome)
    \/ \E actor \in User, n \in Invitation : ResendInvitation(actor, n)
    \/ \E actor \in User, n \in Invitation : RevokeInvitation(actor, n)
    \/ \E r \in Request, n \in Invitation : AcceptInvitation(r, n) /\ Bounded
    \/ \E n \in Invitation : InvitationExpires(n)
    \/ /\ \/ \E r \in Request, u \in User : passwordLogin(r, u)
          \/ \E r \in Request : AuthenticateLocal(r)
          \/ \E r \in Request : finishPrimaryLogin(r)
          \/ \E actor, u \in User, status \in {"active", "inactive"} :
                changeUserStatus(actor, u, status) /\ Bounded
          \/ \E r \in Request : Abandon(r)
       /\ UNCHANGED invitations

=============================================================================
