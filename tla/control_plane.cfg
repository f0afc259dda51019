SPECIFICATION Spec
CONSTANTS
    u1 = u1
    u2 = u2
    User = {u1, u2}
    Managers = {u2}
    Administrator = u2
    ControlParts = {"settings", "mfa", "external", "invite", "iam", "realtime", "catalogue", "routing"}
    Replica = {p1, p2}
    Call = {c1, c2}
    Profile = {"p"}
    Edit <- MCEdit
    MaxRevision = 2
    Request = {r1, r2}
    Mode = {"optional", "all"}
    MaxAttempts = 2
    MaxChallenges = 2
    MaxClock = 1
    MaxVersion = 2
    MaxDraws = 3
    OpenID = {"fa", "fb"}
    TenantOf <- MCTenantOf
    Subject = {"s"}
    MaxFlows = 2
    MaxInvitations = 3
    Person = {"a", "b", "c"}
    Present = {"b", "c"}
    Operation <- MCOperation
    Member = {"b"}
    Bootstrap = {"b"}
    Renamed = {"b"}
    Seed <- MCSeed
    MaxInFlight = 2
    Viewer = {"v", "w"}
    Buffer = 1
    MaxWrites = 2
    MaxWire = 2
    Clerk = {r1, r2}
    Requested = {"admin"}
    Port = {1}
    Draft <- MCDraft
    Listing <- MCListing
    Legacy = {1}
    SyncWorker = {r1, r2}
    MaxAuditRevision = 2
    MaxAccountRevision = 2
    Route = {"g", "h", "k"}
    Existing = {"g", "h"}
    Touched = {"g", "k"}
    Placed = {"s", "t"}
    Placer = {r1, r2}
    Capacity = {1, 2}
    MaxPlacements = 2
    MaxChanges = 1
SYMMETRY Symmetry
VIEW View
INVARIANT SnapshotIsFresh
INVARIANT SavesAreMerged
INVARIANT SessionIsCurrent
INVARIANT HonouredOnce
INVARIANT ShownIsStored
INVARIANT TenantAgrees
INVARIANT NothingMissed
INVARIANT DiscoveryIsCurrent
PROPERTY RecoveryRemains
PROPERTY GainsNeedManager
PROPERTY CapacityIsKept
PROPERTY DeletionsHold
CHECK_DEADLOCK FALSE
