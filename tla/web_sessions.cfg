SPECIFICATION Spec
CONSTANTS
    s1 = s1
    c1 = c1
    c2 = c2
    x1 = x1
    Session <- MCSession
    PodSession <- MCSession
    Creator <- MCCreator
    Closer <- MCCloser
    Call <- MCCreator
    Drivers <- MCKubernetes
    WebOnly <- MCSession
    MaxFaults = 2
    MaxAborts = 1
INVARIANT ReconcileSparesServing
CHECK_DEADLOCK FALSE
