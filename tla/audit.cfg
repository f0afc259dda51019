\* Two connections, one after the other, each with one command: the second
\* reuses the source address while the end of the first may be unreported.  The
\* clock of the target may be one step off either way; an operation logged one step
\* ahead has left the window of the connection that sent it.
SPECIFICATION Spec
CONSTANTS
    Conn = {c1, c2}
    BatchSize = 1
    MaxAge = 2
    MaxAhead = 0
    Drift = 1
    MaxFaults = 2
INVARIANT ForwardedIsShown
INVARIANT MatchIsRight
INVARIANT ToldOnce
PROPERTY SpooledIsDelivered
CHECK_DEADLOCK FALSE
