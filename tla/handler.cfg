CONSTANTS
    MaxOut = 3
    MaxIn = 2
    Parts = 2
    Malformed = {2}
    HandshakeAlone = TRUE
SPECIFICATION Spec
INVARIANTS BufferIsAttended MessagesAreForwarded
PROPERTIES StreamIsKept
CHECK_DEADLOCK FALSE
