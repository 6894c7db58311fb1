SPECIFICATION FairSpec
CONSTANTS
    c1 = c1
    c2 = c2
    c3 = c3
    None = None
    Conns <- Two
    Fds = {5, 6}
    MaxPending = 2
    MaxSignals = 1
    Resets = FALSE
PROPERTIES
    RequestsServed
    IdleDropped
    HangUpNoticed
    ConnectionsAccepted
    StopEndsProcess
\* the process may end
CHECK_DEADLOCK FALSE
