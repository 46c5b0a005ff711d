CONSTANTS
    p1 = p1 p2 = p2
    b1 = b1 b2 = b2 b3 = b3
    t1 = t1 t2 = t2
    NoPeer = NoPeer
    Genesis = Genesis
    Peers = {p1}
    Blocks = {b1, b2}
    Txs = {}
    Parent <- Chain2
    Malformed = {b2}
    SyntInvalid = {b2}
    SemInvalid = {b1}
    LocalModifiers = {b1, b2}
    Encodings = {"good", "trailing"}
    MaxDeliveryChecks = 2
    MaxRequestedPerPeer = 2
    HandlingTransactionsEnabled = TRUE
    SlowModeFeatureFlag = FALSE
    SlowModeMaxRequested = 0
    RebroadcastEnabled = FALSE
    RebroadcastQueueSize = 2
    RebroadcastBatchSize = 1
    CacheMaxSize = 1
    CleaningThreshold = 1
    MaxInvObjects = 2
    MaxOrphans = 1
    MaxMailbox = 2
SPECIFICATION Spec
PROPERTIES InvalidIsForEver RequestsEnd
VIEW WithoutOut
