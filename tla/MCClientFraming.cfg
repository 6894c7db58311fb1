SPECIFICATION Spec
CONSTANTS
    Width = 3
    MaxMessageSize = 2
    Outgoing <- AllMessages
    MaxSent = 2
    BufferSize = 5
    Keep = TRUE
INVARIANTS
    TypeOK
    NoLoss
    RoundTrip
\* everything sent and received
CHECK_DEADLOCK FALSE
