------------------------------ MODULE Routing ------------------------------
(***************************************************************************)
(* Placing sessions on the gateways of one asset: administrators create,   *)
(* bind, disable and resize gateways, probes record their health and the   *)
(* capacity they report, and workers claim a place for a session: list the *)
(* candidates, probe one, then count and assign in a transaction that      *)
(* holds the capacity lock of the gateway.  The status "live" stands for   *)
(* running, revoking, revoke_failed and manual_intervention, which all     *)
(* occupy a place; "over" for every other status after provisioning.       *)
(***************************************************************************)
EXTENDS FiniteSets, Functions, Naturals

CONSTANTS
    Route,          \* the gateways
    Existing,       \* the gateways that are there and bound from the start
    Touched,        \* the gateways that administrators and time change
    Placed,         \* the sessions, all of one asset
    Placer,         \* the workers that provision
    Capacity,       \* the values max_sessions takes
    MaxPlacements,  \* claims of all sessions together
    MaxChanges      \* administrative changes, aged heartbeats, new reported capacities

ASSUME RoutingAssumption ==
    /\ Existing \subseteq Route /\ Existing # {} /\ Touched \subseteq Route
    /\ IsFiniteSet(Placed)
    /\ Capacity \subseteq Nat \ {0} /\ Capacity # {}
    /\ MaxPlacements \in Nat /\ MaxChanges \in Nat

VARIABLES
    route,      \* gateways: status, whether the heartbeat is recent, max_sessions
    bound,      \* asset_gateway_bindings: "none", "enabled" or "disabled"
    rebind,     \* UpdateAssetGatewayBinding requests past their checks
    place,      \* sessions: status, gateway_id, version
    probing,    \* gateways the periodic probe still waits for
    placer,     \* what each worker is doing
    changes

routingVars == <<route, bound, rebind, probing, place, placer, changes>>

Unengaged == [phase |-> "idle"]
NoSession == "no session"

Occupies(s) ==
    \/ place[s].status = "live"
    \/ place[s].status = "provisioning" /\ place[s].version > 0

\* The active sessions of a gateway other than s itself.
Load(g, s) == Cardinality({t \in Placed \ {s} : place[t].gateway = g /\ Occupies(t)})

Serving(g) == bound[g] = "enabled" /\ route[g].status = "enabled"

-----------------------------------------------------------------------------
\* Administration.  No change of a gateway takes its capacity lock.

Change ==
    /\ changes < MaxChanges
    /\ changes' = changes + 1
    /\ UNCHANGED <<place, placer>>

CreateGateway(g, status, n) ==
    /\ route[g].status = "none"
    /\ route' = [route EXCEPT ![g] = [status |-> status, fresh |-> FALSE, max |-> n]]
    /\ Change /\ UNCHANGED <<bound, rebind, probing>>

UpdateGatewayStatus(g, status) ==
    /\ route[g].status \notin {"none", status}
    /\ route' = [route EXCEPT ![g].status = status]
    /\ Change /\ UNCHANGED <<bound, rebind, probing>>

UpdateGatewayCapacity(g, n) ==
    /\ route[g].status # "none" /\ route[g].max # n
    /\ route' = [route EXCEPT ![g].max = n]
    /\ Change /\ UNCHANGED <<bound, rebind, probing>>

BindAssetGateway(g) ==
    /\ route[g].status # "none"
    /\ bound' = [bound EXCEPT ![g] = "enabled"]
    /\ Change /\ UNCHANGED <<route, rebind, probing>>

\* The last enabled binding stays; the count is read before the transaction.
UpdateAssetGatewayBinding(g, to) ==
    /\ bound[g] \notin {"none", to}
    /\ to = "disabled" => Cardinality({h \in Route : bound[h] = "enabled"}) > 1
    /\ rebind' = rebind \cup {[gateway |-> g, to |-> to]}
    /\ Change /\ UNCHANGED <<route, bound, probing>>

UpdateAssetBinding(r) ==
    /\ r \in rebind
    /\ bound' = [bound EXCEPT ![r.gateway] = r.to]
    /\ rebind' = rebind \ {r}
    /\ UNCHANGED <<route, probing, place, placer, changes>>

HeartbeatAges(g) ==
    /\ route[g].status # "none" /\ route[g].fresh
    /\ route' = [route EXCEPT ![g].fresh = FALSE]
    /\ Change /\ UNCHANGED <<bound, rebind, probing>>

\* A ready gateway is recorded as alive, with its capacity when it reports one.
RecordHealth(g, n) ==
    /\ route' = [route EXCEPT ![g].fresh = TRUE, ![g].max = n]
    /\ IF n = route[g].max THEN UNCHANGED changes
       ELSE g \in Touched /\ changes < MaxChanges /\ changes' = changes + 1

\* The periodic probe lists the enabled gateways; each answers in its own time.
ProbeGateways ==
    /\ probing = {}
    /\ probing' = {g \in Route : route[g].status = "enabled"}
    /\ probing' # {}
    /\ Change /\ UNCHANGED <<route, bound, rebind>>

Probed(g) ==
    /\ g \in probing
    /\ probing' = probing \ {g}
    /\ UNCHANGED <<route, changes>> \/ \E n \in Capacity : RecordHealth(g, n)
    /\ UNCHANGED <<bound, rebind, place, placer>>

-----------------------------------------------------------------------------
\* Provisioning, as far as the place is concerned.

\* An owned session is claimable once its lease has lapsed; its owner may renew
\* the lease at any time, so that both are possible whenever somebody looks.
Claimable(s, lapsed) ==
    /\ place[s].status = "provisioning"
    /\ place[s].version = 0 \/ lapsed

\* A full gateway is left out, before any lock.
ListAvailableForAsset(s) ==
    {g \in Route : Serving(g) /\ route[g].fresh /\ Load(g, s) < route[g].max}

Waits(w, phase) == placer[w].phase = phase /\ UNCHANGED <<bound, rebind, probing>>

\* The next candidate; without one the outbox event is retried later.
NextCandidate(s, version, left) ==
    IF left = {} THEN Unengaged
    ELSE [phase |-> "choose", session |-> s, version |-> version, left |-> left]

Placements == FoldFunction(+, 0, [t \in Placed |-> place[t].version])

StartPlacing(w, s) ==
    /\ Waits(w, "idle")
    /\ Claimable(s, TRUE)
    /\ Placements < MaxPlacements
    /\ placer' = [placer EXCEPT ![w] = NextCandidate(s, place[s].version, ListAvailableForAsset(s))]
    /\ UNCHANGED <<route, place, changes>>

probeGateway(w, g) ==
    /\ Waits(w, "choose") /\ g \in placer[w].left
    /\ \/ /\ \E n \in Capacity : RecordHealth(g, n)
          /\ placer' = [placer EXCEPT ![w] = [phase |-> "probed", session |-> @.session,
                            version |-> @.version, left |-> @.left \ {g}, gateway |-> g]]
       \/ /\ placer' = [placer EXCEPT ![w] = NextCandidate(@.session, @.version, @.left \ {g})]
          /\ UNCHANGED <<route, changes>>
    /\ UNCHANGED place

\* A mutant of LockCapacity: the claims of a gateway do not wait for each other.
Unserialised(g) == TRUE

\* The advisory lock is held from here to the end of the transaction.
LockCapacity(g) == \A v \in Placer : placer[v].phase = "claimed" => placer[v].gateway # g

\* The UPDATE waits for another one of the same row.  The probe just recorded a
\* heartbeat, which is after the boundary this attempt computed before it.
RowFree(s) == \A v \in Placer : placer[v].phase = "claimed" => placer[v].session # s

Assignable(s, version, g, lapsed) ==
    /\ Claimable(s, lapsed) /\ place[s].version = version
    /\ Serving(g)
    /\ Load(g, s) < route[g].max

\* No row: the next candidate, unless somebody else has the session by now.
ClaimProvisioningOnGateway(w) ==
    /\ Waits(w, "probed")
    /\ \E lapsed \in BOOLEAN : LET p == placer[w] IN
       /\ LockCapacity(p.gateway) /\ RowFree(p.session)
       /\ placer' = [placer EXCEPT ![w] =
             IF Assignable(p.session, p.version, p.gateway, lapsed)
             THEN [phase |-> "claimed", session |-> p.session, gateway |-> p.gateway,
                   limit |-> route[p.gateway].max]
             ELSE IF place[p.session].status = "provisioning"
                     /\ place[p.session].version = p.version
             THEN NextCandidate(p.session, p.version, p.left)
             ELSE Unengaged]
    /\ UNCHANGED <<route, place, changes>>

CommitClaim(w) ==
    /\ Waits(w, "claimed")
    /\ LET s == placer[w].session IN
       place' = [place EXCEPT ![s].gateway = placer[w].gateway, ![s].version = @ + 1]
    /\ placer' = [placer EXCEPT ![w] = Unengaged]
    /\ UNCHANGED <<route, changes>>

\* The worker stops or loses its connection: the transaction is rolled back.
PlacerStops(w) ==
    /\ placer[w] # Unengaged
    /\ placer' = [placer EXCEPT ![w] = Unengaged]
    /\ UNCHANGED <<route, bound, rebind, probing, place, changes>>

\* What becomes of a session afterwards.  A transition waits for the row.
Transition(s, status) ==
    /\ RowFree(s)
    /\ \/ status = "live" /\ place[s].status = "provisioning" /\ place[s].version > 0
       \/ status = "over" /\ place[s].status # "over"
    /\ place' = [place EXCEPT ![s].status = status]
    /\ UNCHANGED <<route, bound, rebind, probing, placer, changes>>

-----------------------------------------------------------------------------
\* A session is created on the primary gateway of its asset; it occupies no place
\* before it is claimed.
RoutingInit ==
    /\ bound = [g \in Route |-> IF g \in Existing THEN "enabled" ELSE "none"]
    /\ route = [g \in Route |->
                  [status |-> IF g \in Existing THEN "enabled" ELSE "none",
                   fresh |-> g \in Existing, max |-> CHOOSE n \in Capacity : TRUE]]
    /\ rebind = {} /\ probing = {} /\ changes = 0
    /\ \E primary \in Existing :
         place = [s \in Placed |-> [status |-> "provisioning", gateway |-> primary, version |-> 0]]
    /\ placer = [w \in Placer |-> Unengaged]

RoutingNext ==
    \/ \E g \in Touched, status \in {"enabled", "disabled"} :
         \/ UpdateGatewayStatus(g, status)
         \/ UpdateAssetGatewayBinding(g, status)
         \/ \E n \in Capacity : CreateGateway(g, status, n)
    \/ \E g \in Touched, n \in Capacity : UpdateGatewayCapacity(g, n)
    \/ \E g \in Touched : BindAssetGateway(g) \/ HeartbeatAges(g)
    \/ ProbeGateways
    \/ \E g \in probing : Probed(g)
    \/ \E r \in rebind : UpdateAssetBinding(r)
    \/ \E w \in Placer, s \in Placed : StartPlacing(w, s)
    \/ \E w \in Placer, g \in Route : probeGateway(w, g)
    \/ \E w \in Placer : ClaimProvisioningOnGateway(w) \/ CommitClaim(w) \/ PlacerStops(w)
    \/ \E s \in Placed, status \in {"live", "over"} : Transition(s, status)

-----------------------------------------------------------------------------
\* "concurrent claims observe the capacity consumed by earlier transactions"
\* (ClaimProvisioningOnGateway): when a claim commits, the gateway carries at
\* most as many sessions as the capacity the claim read, whoever else claimed a
\* place meanwhile and even when the capacity, the binding or the gateway changed
\* since the candidates were listed.
CapacityIsKept ==
    [][\A w \in Placer, g \in Route :
         placer[w].phase = "claimed" /\ placer[w].gateway = g /\ placer'[w] = Unengaged
         /\ place' # place => Load(g, NoSession)' <= placer[w].limit]_routingVars
=============================================================================
