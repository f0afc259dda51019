SPECIFICATION Spec
CONSTANTS
    c1 = c1
    w1 = w1
    x1 = x1
    TCP <- MCTCP
    Web <- MCWeb
    Extra <- MCExtra
    Parts <- MCPostgres
    MaxOps <- MCMaxOps
    MaxConnections = 2
    MaxFailures = 1
    MaxSteps = 2
    SyncFails = TRUE
    MaxFrames = 1
    MaxBridges = 1
INVARIANT RunIsNotSkipped
CHECK_DEADLOCK FALSE
