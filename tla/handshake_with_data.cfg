CONSTANTS
    MaxOut = 3
    MaxIn = 2
    Parts = 2
    Malformed = {}
    HandshakeAlone = FALSE
SPECIFICATION Spec
INVARIANTS HonestIsNotPenalized
CHECK_DEADLOCK FALSE
