SPECIFICATION Spec
CONSTANTS
    c1 = c1
    c2 = c2
    c3 = c3
    None = None
    Conns <- Two
    Fds = {5, 6}
    MaxPending = 1
    MaxSignals = 1
    Resets = FALSE
INVARIANT
    NeverHung
\* the process may end
CHECK_DEADLOCK FALSE
