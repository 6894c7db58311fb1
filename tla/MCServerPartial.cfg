SPECIFICATION Spec
CONSTANTS
    Width = 3
    MaxMessageSize = 2
    Outgoing <- FramableMessages
    MaxSent = 2
    BufferSize = 5
    Keep = FALSE
INVARIANTS
    NoLoss
\* everything sent and received
CHECK_DEADLOCK FALSE
