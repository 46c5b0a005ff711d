CONSTANTS
    a1 = a1 a2 = a2
    c1 = c1 c2 = c2 c3 = c3
    None = None
    Conns = {c1, c2}
    AddressOf <- Reconnecting
    Comparisons = {"Older", "Younger"}
    SyncInterval = 1
    SyncStatusRefresh = 1
    SyncIntervalStable = 1
    SyncStatusRefreshStable = 1
    MaxMailbox = 2
SPECIFICATION Spec
PROPERTIES SyncReachesTheConnection
