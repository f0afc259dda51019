SPECIFICATION FairSpec
CONSTANTS
  ann = ann
  bob = bob
  eve = eve
  k1 = k1
  k2 = k2
  port = port
  owners = owners
  security = security
  User = {ann, bob, eve}
  Admin = {ann}
  Key = {k1, k2}
  Target = {port}
  MaxTTL = 2
  Submissions <- MCSubmissions
  Selector = {owners, security}
  Workflows <- MCWorkflows
  DemoMode = FALSE
  Call = {c1, c2}
  NoKey = NoKey
  MaxEdits <- MCMaxEdits
INVARIANTS
  SessionNeedsEveryLevel
  OneActivePerTarget
  AnswerIsOwnRequest
  ConsoleAgrees
PROPERTY PendingEnds
CHECK_DEADLOCK FALSE
