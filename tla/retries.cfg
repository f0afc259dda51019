SPECIFICATION Spec
CONSTANTS
  Session = {s1}
  NoSession = NoSession
  EventId = {e1, e2, e3}
  NoEvent = NoEvent
  Worker = {w1}
  MaxRetry = 2
  MaxClaims = 2
  MaxFaults = 3
SYMMETRY Symmetry
INVARIANT RevokeCommandsFit
