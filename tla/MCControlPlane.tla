--------------------------- MODULE MCControlPlane ---------------------------
(***************************************************************************)
(* Two accounts, of which u2 is an administrator in every part; two        *)
(* replicas and two concurrent calls for the settings; two concurrent      *)
(* requests for the sign-in parts; three people and two requests in        *)
(* flight for the roles: b is configured as an administrator, c holds the  *)
(* role ops and a has no account at first; two streams with a buffer of    *)
(* one; one port, two administrators at work and two workers for the       *)
(* catalogue; two workers, two sessions and two gateways, a third one to   *)
(* create, for the placing.  Requests, administrators and workers are      *)
(* interchangeable; they share two names.  The view leaves out cookies,    *)
(* challenges and flows of an older version or revision: versions only     *)
(* grow, so that nothing reads them again.  It also leaves out the last    *)
(* actor, which only the step itself refers to, whether a link that cannot *)
(* be used again was accepted, what a request that can only be refused     *)
(* asked for, and the stale marks of requests that no form belongs to.     *)
(***************************************************************************)
EXTENDS ControlPlane, TLC

CONSTANTS u1, u2

MCTenantOf == "fa" :> "A" @@ "fb" :> "B"

MCEdit ==
    {[field |-> "mode", value |-> "all"], [field |-> "tenant", value |-> "A"],
     [field |-> "profile", name |-> "p", value |-> 1],
     [field |-> "remove", name |-> "p"]}

MCOperation ==
    {[op |-> "grant", user |-> "a", role |-> "admin"],
     [op |-> "revoke", user |-> "a", role |-> "admin"],
     [op |-> "role", role |-> "ops", enabled |-> TRUE, permissions |-> Permission],
     [op |-> "binding", enabled |-> TRUE, role |-> "ops"],
     [op |-> "user", user |-> "a", status |-> "inactive", label |-> "ops"],
     [op |-> "user", user |-> "a", status |-> "active", label |-> "ops"],
     [op |-> "unbind", user |-> "b"],
     [op |-> "create", user |-> "a"], [op |-> "invite", user |-> "a"],
     [op |-> "resend", user |-> "a"], [op |-> "uninvite", user |-> "a"]}

MCSeed == {<<"c", "ops">>}

MCDraft ==
    {[type |-> "ssh", audit |-> NoAudit], [type |-> "mysql", audit |-> NoAudit],
     [type |-> NoChange, audit |-> [protocol |-> "ssh", ports |-> {}]],
     [type |-> "ssh", audit |-> [protocol |-> "ssh", ports |-> Port]],
     [type |-> "mysql", audit |-> [protocol |-> "mysql", ports |-> Port]]}

MCListing ==
    {[listed |-> FALSE],
     [listed |-> TRUE, type |-> "ssh", status |-> "enabled", ports |-> Port]}

Symmetry == Permutations(Request)

Redeemable(n) == Live(n) /\ challenges[n].version = users[challenges[n].user].version

SignInView ==
    <<accountVars, request, clock, spent, twice, invitations,
      {c \in cookies : c.version = users[c.user].version},
      [n \in DOMAIN challenges |-> IF Redeemable(n) THEN challenges[n] ELSE Gone],
      [n \in DOMAIN flows |-> IF n \in states /\ flows[n].revision = settings.revision
                              THEN flows[n] ELSE Gone]>>

\* A request to create an account that exists can only be refused.
TooLate(it) == it.op \in {"create", "invite"} /\ people[it.user].status # "absent"

DirectoryView ==
    <<roles, binding, assignments,
      [u \in Person |-> [people[u] EXCEPT !.link = IF @ = "accepted" THEN "none" ELSE @]],
      [u \in Person |-> IF TooLate(doing[u]) THEN [op |-> "late"] ELSE doing[u]],
      {u \in stale : doing[u].op \in {"role", "binding", "user"}}>>

\* The gateway of a session that nobody claimed yet is not counted.
RoutingView ==
    <<route, bound, rebind, probing, placer, changes,
      [s \in Placed |-> IF place[s].version = 0 THEN [status |-> place[s].status] ELSE place[s]]>>

View ==
    CASE part = "settings" -> <<part, accountVars, settingsVars>>
      [] part = "iam" -> <<part, DirectoryView>>
      [] part = "realtime" -> <<part, realtimeVars>>
      [] part = "catalogue" -> <<part, catalogueVars>>
      [] part = "routing" -> <<part, RoutingView>>
      [] OTHER -> <<part, SignInView>>
=============================================================================
