CONSTANTS
    p1 = p1 p2 = p2
    b1 = b1 b2 = b2 b3 = b3
    t1 = t1 t2 = t2
    NoPeer = NoPeer
    Genesis = Genesis
    Peers = {p1, p2}
    Blocks = {b1, b2, b3}
    Txs = {}
    Parent <- Fork3
    Malformed = {}
    SyntInvalid = {b3}
    SemInvalid = {}
    LocalModifiers = {b1}
    Encodings = {"good", "broken"}
    MaxDeliveryChecks = 2
    MaxRequestedPerPeer = 1
    HandlingTransactionsEnabled = TRUE
    SlowModeFeatureFlag = FALSE
    SlowModeMaxRequested = 0
    RebroadcastEnabled = FALSE
    RebroadcastQueueSize = 2
    RebroadcastBatchSize = 1
    CacheMaxSize = 1
    CleaningThreshold = 1
    MaxInvObjects = 1
    MaxOrphans = 0
    MaxMailbox = 2
SPECIFICATION Spec
INVARIANTS TypeOK StatusIsUnambiguous ChecksAreBounded RequestsAreCounted
    EveryRequestIsWatched ReceivedIsUnderWayOrHeld ReadersCatchUp InHandIsReceived CacheIsBounded
PROPERTIES LifeIsLegal
SYMMETRY PeerSymmetry
VIEW WithoutOut
