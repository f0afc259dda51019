SPECIFICATION Spec
CONSTANTS
  Session = {s1}
  NoSession = NoSession
  EventId = {e1, e2, e3, e4}
  NoEvent = NoEvent
  Worker = {w1, w2}
  MaxRetry = 0
  MaxClaims = 2
  MaxFaults = 1
SYMMETRY Symmetry
INVARIANTS
  RevokeCommandsFit
  ClosureIsTrue
  WithdrawnNeverRuns
  LeaseIsExclusive
PROPERTY NeverRevived
