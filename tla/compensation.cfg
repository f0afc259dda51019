SPECIFICATION Spec
CONSTANTS
  Session = {s1}
  NoSession = NoSession
  EventId = {e1, e2, e3, e4}
  NoEvent = NoEvent
  Worker = {w1, w2}
  MaxRetry = 1
  MaxClaims = 2
  MaxFaults = 1
SYMMETRY Symmetry
PROPERTY CompensationSparesRunning
