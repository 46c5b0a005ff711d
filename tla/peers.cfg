CONSTANTS
    a1 = a1 a2 = a2 b = b k = k self = self
    hostA = hostA hostB = hostB s1 = s1 s2 = s2
    Spam = Spam Disconnect = Disconnect Permanent = Permanent
    None = None
    Addresses = {a1, a2, b, k, self}
    SelfAddresses = {self}
    Hosts = {hostA, hostB}
    Host <- MCHost
    KnownPeers = {k}
    Slots = {s1, s2}
    NewSlot <- MCNewSlot
    TriedSlot <- MCTriedSlot
    Penalties = {Spam, Disconnect, Permanent}
    PenaltyScore <- MCPenaltyScore
    PermanentPenalty = Permanent
    PenaltyScoreThreshold = 3
SPECIFICATION Spec
INVARIANTS PeersTypeOK StoredIsIndexed TriedIsExact BannedIsForgotten
PROPERTIES TriedAreKept PermanentBansStay
