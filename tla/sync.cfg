CONSTANTS
    a1 = a1 a2 = a2
    c1 = c1 c2 = c2 c3 = c3
    None = None
    Conns = {c1, c2, c3}
    AddressOf <- ReconnectingAndOther
    Comparisons = {"Older", "Younger"}
    SyncInterval = 1
    SyncStatusRefresh = 1
    SyncIntervalStable = 2
    SyncStatusRefreshStable = 2
    MaxMailbox = 1
SPECIFICATION Spec
INVARIANTS ConnectedIsTracked SeniorsAreAnnounced
PROPERTIES EveryPeerIsSynced
