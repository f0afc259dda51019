--------------------------- MODULE ControlPlane ---------------------------
(***************************************************************************)
(* What the console does besides access requests, one part at a time: the  *)
(* settings on several replicas, signing in with a password and a second   *)
(* factor, signing in through OIDC and Feishu, invitations, roles, the     *)
(* realtime stream, the catalogue and the placing of sessions on gateways. *)
(* The sign-in parts share accounts and settings and each of them starts   *)
(* from the accounts it is about; the other parts run for themselves.      *)
(***************************************************************************)
EXTENDS ExternalSignIn, Invitations, Directory, Realtime, Catalogue, Routing

CONSTANTS
    ControlParts,   \* the parts to follow
    Administrator   \* the account that exists in every part

ASSUME ControlPartsAssumption ==
    /\ ControlParts \subseteq {"settings", "mfa", "external", "invite", "iam", "realtime",
                        "catalogue", "routing"}
    /\ Administrator \in Managers

VARIABLE part

vars == <<part, accountVars, settingsVars, signInVars, externalVars, invitations, directoryVars,
          realtimeVars, catalogueVars, routingVars>>

WithPassword == [Absent EXCEPT !.status = "active", !.password = 1]
WithoutPassword == [Absent EXCEPT !.status = "active", !.identities = Subject]

\* External sign-in starts from settings saved once, with both providers.
Configured ==
    CASE part = "mfa" ->
           [Unsaved EXCEPT !.config.mode = "optional", !.config.enabled = {"oidc"}, !.secrets.oidc = 1]
      [] part = "external" ->
           [Unsaved EXCEPT !.revision = 1, !.config.tenant = "A", !.config.enabled = {"oidc", "feishu"},
                           !.secrets.oidc = 1, !.secrets.feishu = 1]
      [] OTHER -> Unsaved

Account(u) ==
    CASE part = "mfa" -> IF u = Administrator THEN WithoutPassword ELSE WithPassword
      [] part = "settings" -> IF u = Administrator THEN WithPassword ELSE WithoutPassword
      [] OTHER -> IF u = Administrator THEN WithPassword ELSE Absent

Init ==
    /\ part \in ControlParts
    /\ settings = Configured
    /\ SettingsInit
    /\ users = [u \in User |-> Account(u)]
    /\ fresh = 1
    /\ SignInInit
    /\ ExternalInit
    /\ InvitationsInit
    /\ DirectoryInit
    /\ RealtimeInit
    /\ CatalogueInit
    /\ RoutingInit

Only(chosen) == part = chosen /\ UNCHANGED part

Elsewhere == UNCHANGED <<directoryVars, realtimeVars, catalogueVars, routingVars>>
SignedIn == UNCHANGED <<accountVars, settingsVars, signInVars, externalVars, invitations>>

Next ==
    \/ Only("settings") /\ SettingsNext /\ Elsewhere /\ UNCHANGED <<signInVars, externalVars, invitations>>
    \/ Only("mfa") /\ SignInNext /\ Elsewhere /\ UNCHANGED <<settingsVars, externalVars, invitations>>
    \/ Only("external") /\ ExternalNext /\ Elsewhere /\ UNCHANGED <<settingsVars, invitations>>
    \/ Only("invite") /\ InvitationsNext /\ Elsewhere /\ UNCHANGED <<settingsVars, externalVars>>
    \/ Only("iam") /\ DirectoryNext /\ SignedIn /\ UNCHANGED <<realtimeVars, catalogueVars, routingVars>>
    \/ Only("realtime") /\ RealtimeNext /\ SignedIn /\ UNCHANGED <<directoryVars, catalogueVars, routingVars>>
    \/ Only("catalogue") /\ CatalogueNext /\ SignedIn /\ UNCHANGED <<directoryVars, realtimeVars, routingVars>>
    \/ Only("routing") /\ RoutingNext /\ SignedIn /\ UNCHANGED <<directoryVars, realtimeVars, catalogueVars>>

Spec == Init /\ [][Next]_vars
=============================================================================
