SPECIFICATION Spec
CONSTANTS
    c1 = c1
    w1 = w1
    x1 = x1
    TCP <- MCTCP
    Web <- MCWeb
    Extra <- MCExtra
    Parts <- MCParts
    MaxOps <- MCMaxOps
    MaxConnections = 2
    MaxFailures = 1
    MaxSteps = 2
    SyncFails = FALSE
    MaxFrames = 1
    MaxBridges = 1
INVARIANT OnlyEncryptedCrosses
INVARIANT StoppedIsQuiet
INVARIANT ConnectedIsEnded
INVARIANT ResultIsRight
INVARIANT RecordedFirst
PROPERTY EndedReturns
PROPERTY TerminalEnds
CHECK_DEADLOCK FALSE
