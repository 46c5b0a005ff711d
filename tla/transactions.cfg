CONSTANTS
    p1 = p1 p2 = p2
    b1 = b1 b2 = b2 b3 = b3
    t1 = t1 t2 = t2
    NoPeer = NoPeer
    Genesis = Genesis
    Peers = {p1}
    Blocks = {b1}
    Txs = {t1, t2}
    Parent <- Chain1
    Malformed = {b1}
    SyntInvalid = {}
    SemInvalid = {}
    LocalModifiers = {t1, t2}
    Encodings = {"good"}
    MaxDeliveryChecks = 2
    MaxRequestedPerPeer = 2
    HandlingTransactionsEnabled = TRUE
    SlowModeFeatureFlag = TRUE
    SlowModeMaxRequested = 0
    RebroadcastEnabled = TRUE
    RebroadcastQueueSize = 2
    RebroadcastBatchSize = 1
    CacheMaxSize = 1
    CleaningThreshold = 1
    MaxInvObjects = 1
    MaxOrphans = 0
    MaxMailbox = 2
SPECIFICATION Spec
INVARIANTS ReceivedTxIsUnderWay RebroadcastIsScheduled
VIEW WithoutOut
