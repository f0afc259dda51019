SPECIFICATION FairSpec
CONSTANTS
  Session = {s1}
  NoSession = NoSession
  EventId = {e1, e2, e3}
  NoEvent = NoEvent
  Worker = {w1}
  MaxRetry = 1
  MaxClaims = 2
  MaxFaults = 1
PROPERTIES
  ProvisioningEnds
  RevocationEnds
  ExpiryEnds
