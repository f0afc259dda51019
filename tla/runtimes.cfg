SPECIFICATION Spec
CONSTANTS
    s1 = s1
    c1 = c1
    c2 = c2
    x1 = x1
    Session <- MCSession
    PodSession <- MCSession
    Creator <- MCCreator
    Closer <- MCCloser
    Call <- MCCreator
    Drivers <- MCDrivers
    WebOnly = {}
    MaxFaults = 2
    MaxAborts = 1
INVARIANT ClosedIsDrained
PROPERTY EndedSettles
PROPERTY ImplementsSessionAgent
CHECK_DEADLOCK FALSE
