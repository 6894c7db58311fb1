SPECIFICATION Spec
CONSTANTS
    c1 = c1
    c2 = c2
    c3 = c3
    None = None
    Conns <- Three
    Fds = {5, 6}
    MaxPending = 1
    MaxSignals = 1
    Resets = TRUE
SYMMETRY Symmetry
INVARIANTS
    TypeOK
    FdsMatchClients
    EventsCurrent
\* the process may end
CHECK_DEADLOCK FALSE
