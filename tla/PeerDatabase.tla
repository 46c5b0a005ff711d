---------------------------- MODULE PeerDatabase ----------------------------
(***************************************************************************)
(* network/peer: the PeerManager actor and its InMemoryPeerDatabase, with  *)
(* the PeerBucketStorages of new and of tried peers that a BucketManager   *)
(* keeps, the penalty book and the blacklist.  One action per message.     *)
(*                                                                         *)
(* A bucket storage is a table of slots, addressed by hashing a peer's     *)
(* address, and a reverse table from addresses to slots.  What is stored   *)
(* about a peer is left out but for its address.  Time is seen through its *)
(* effects: the safe interval after a penalty is over, or a ban is.  An    *)
(* expired ban stays in the map until somebody asks for it.                *)
(***************************************************************************)
EXTENDS Integers, FiniteSets

CONSTANTS
    Addresses, SelfAddresses,   \* addresses of nodes, and those of this one
    Hosts, Host,                \* IP addresses, and the one of an address
    KnownPeers,                 \* settings.knownPeers
    Slots, NewSlot, TriedSlot,  \* slots, and where an address is hashed to
    Penalties, PenaltyScore,    \* the types of penalties and their scores
    PermanentPenalty,           \* the one that is permanent
    PenaltyScoreThreshold,      \* settings.penaltyScoreThreshold
    None

ASSUME PeerDatabaseAssumption ==
    /\ SelfAddresses \subseteq Addresses /\ KnownPeers \subseteq Addresses
    /\ None \notin Addresses \cup Slots
    /\ Host \in [Addresses -> Hosts]
    /\ NewSlot \in [Addresses -> Slots] /\ TriedSlot \in [Addresses -> Slots]
    /\ PenaltyScore \in [Penalties -> Nat]
    /\ PenaltyScoreThreshold \in Nat

VARIABLES
    newBucket, triedBucket,     \* the bucket storages
    penaltyBook,                \* host -> accumulated score (0: no entry)
    recentlyPenalized,          \* hosts within the safe interval after their last penalty
    blacklist,                  \* host -> "none", "temporary", "permanent" or "expired"
    bannedAddresses             \* auxiliary: the addresses that got banned and still are

bucketVars == <<newBucket, triedBucket>>
penaltyVars == <<penaltyBook, recentlyPenalized>>
vars == <<bucketVars, penaltyVars, blacklist, bannedAddresses>>

-----------------------------------------------------------------------------
(* PeerBucketStorage                                                       *)

EmptyBucket == [table |-> [s \in Slots |-> None], index |-> [a \in Addresses |-> None]]

Contains(storage, a) == storage.index[a] # None
Stored(storage) == {a \in Addresses : \E s \in Slots : storage.table[s] = a}

\* getStoredPeerByAddress throws when the slot is empty.
StoredPeerByAddress(storage, a) == storage.table[storage.index[a]]
LookupThrows(storage, a) == Contains(storage, a) /\ StoredPeerByAddress(storage, a) = None

\* Whoever was in the slot before is overwritten, but stays in the reverse table.
Add(storage, slot, a) ==
    [table |-> [storage.table EXCEPT ![slot[a]] = a],
     index |-> [storage.index EXCEPT ![a] = slot[a]]]

\* Mistake: only the reverse table forgets the peer.
RemoveFromIndex(storage, a) ==
    IF ~Contains(storage, a) THEN storage
    ELSE [storage EXCEPT !.index = [storage.index EXCEPT ![a] = None]]

Remove(storage, a) ==
    IF ~Contains(storage, a) THEN storage
    ELSE [table |-> [storage.table EXCEPT ![storage.index[a]] = None],
          index |-> [storage.index EXCEPT ![a] = None]]

-----------------------------------------------------------------------------
(* BucketManager                                                           *)

\* A peer that either storage has an index for is at most updated in place.
AddOrUpdatePeerIntoBucket(a) ==
    /\ newBucket' = IF Contains(newBucket, a) \/ Contains(triedBucket, a) THEN newBucket
                    ELSE Add(newBucket, NewSlot, a)
    /\ UNCHANGED triedBucket

NewWithout(a) ==
    IF Contains(newBucket, a) THEN Remove(newBucket, StoredPeerByAddress(newBucket, a))
    ELSE newBucket

\* Mistake: the peer in the way is overwritten, as in the storage of new peers.
MakeTriedOverwriting(a) ==
    /\ newBucket' = NewWithout(a)
    /\ triedBucket' = Add(triedBucket, TriedSlot, a)

\* Mistake: the peer in the way is not kept among the new ones.
MakeTriedDropping(a) ==
    LET occupant == triedBucket.table[TriedSlot[a]]
        freed == IF occupant = None THEN triedBucket ELSE Remove(triedBucket, occupant)
    IN  /\ newBucket' = NewWithout(a)
        /\ triedBucket' = Add(freed, TriedSlot, a)

\* The peer leaves the new ones; a peer in its slot among the tried ones moves back.
MakeTried(a) ==
    LET occupant == triedBucket.table[TriedSlot[a]]
        freed == IF occupant = None THEN triedBucket ELSE Remove(triedBucket, occupant)
    IN  /\ newBucket' = IF occupant = None THEN NewWithout(a)
                        ELSE Add(NewWithout(a), NewSlot, occupant)
        /\ triedBucket' = Add(freed, TriedSlot, a)

RemovePeerFromBuckets(a) ==
    newBucket' = Remove(newBucket, a) /\ triedBucket' = Remove(triedBucket, a)

-----------------------------------------------------------------------------
(* InMemoryPeerDatabase                                                    *)

InForce == {"temporary", "permanent"}
IsBlacklisted(h) == blacklist[h] \in InForce

\* checkBanned removes an expired ban that it meets.
Checked(hosts) ==
    [h \in Hosts |-> IF h \in hosts /\ blacklist[h] = "expired" THEN "none" ELSE blacklist[h]]

\* Addresses whose ban is over are not banned any more.
ForgetBans == bannedAddresses' = {a \in bannedAddresses : blacklist'[Host[a]] \in InForce}

\* Mistake: the new ban replaces the old one.
BanReplaced(h, permanent) == IF permanent THEN "permanent" ELSE "temporary"

\* A ban that is in the map, be it expired, is not changed.
BanIn(h, permanent) ==
    IF blacklist[h] # "none" THEN blacklist[h]
    ELSE IF permanent THEN "permanent" ELSE "temporary"

\* Mistake: the peer stays in the buckets.
BlacklistOnly(a, permanent) ==
    /\ UNCHANGED bucketVars
    /\ penaltyBook' = [penaltyBook EXCEPT ![Host[a]] = 0]
    /\ recentlyPenalized' = recentlyPenalized \ {Host[a]}
    /\ blacklist' = [blacklist EXCEPT ![Host[a]] = BanIn(Host[a], permanent)]
    /\ bannedAddresses' =
          IF blacklist'[Host[a]] \in InForce THEN bannedAddresses \cup {a} ELSE bannedAddresses

Blacklist(a, permanent) ==
    /\ RemovePeerFromBuckets(a)
    /\ penaltyBook' = [penaltyBook EXCEPT ![Host[a]] = 0]
    /\ recentlyPenalized' = recentlyPenalized \ {Host[a]}
    /\ blacklist' = [blacklist EXCEPT ![Host[a]] = BanIn(Host[a], permanent)]
    /\ bannedAddresses' =
          IF blacklist'[Host[a]] \in InForce THEN bannedAddresses \cup {a} ELSE bannedAddresses

\* peerPenaltyScoreOverThreshold: within the safe interval only a permanent penalty counts.
Counts(h, type) == h \notin recentlyPenalized \/ type = PermanentPenalty
NewPenaltyScore(h, type) ==
    penaltyBook[h] + (IF Counts(h, type) THEN PenaltyScore[type] ELSE 0)

\* peerIsNotBlacklistedAndNotKnownPeer
IsAcceptable(a) == ~IsBlacklisted(Host[a]) /\ a \notin KnownPeers

-----------------------------------------------------------------------------
(* PeerManager: a lookup that throws restarts the actor, which keeps the   *)
(* database it was created with                                            *)

\* Whether the host is blacklisted decides the answer.
ConfirmConnection(h) ==
    /\ blacklist' = Checked({h})
    /\ UNCHANGED <<bucketVars, penaltyVars, bannedAddresses>>

AddOrUpdatePeer(a) ==
    /\ a \notin SelfAddresses
    /\ IF IsAcceptable(a) THEN AddOrUpdatePeerIntoBucket(a) ELSE UNCHANGED bucketVars
    /\ blacklist' = Checked({Host[a]})
    /\ UNCHANGED <<penaltyVars, bannedAddresses>>

\* Only peers that `get` does not find are added.
AddPeersIfEmpty(a) ==
    /\ a \notin SelfAddresses /\ a \notin KnownPeers
    /\ ~Contains(triedBucket, a) /\ ~Contains(newBucket, a)
    /\ IF IsAcceptable(a) THEN AddOrUpdatePeerIntoBucket(a) ELSE UNCHANGED bucketVars
    /\ blacklist' = Checked({Host[a]})
    /\ UNCHANGED <<penaltyVars, bannedAddresses>>

\* The NetworkController keeps a connection with the peer.
UpdatePeer(a) ==
    /\ a \notin SelfAddresses
    /\ IF IsAcceptable(a) /\ ~LookupThrows(newBucket, a) THEN MakeTried(a)
       ELSE UNCHANGED bucketVars
    /\ blacklist' = Checked({Host[a]})
    /\ UNCHANGED <<penaltyVars, bannedAddresses>>

RemovePeer(a) ==
    /\ RemovePeerFromBuckets(a)
    /\ UNCHANGED <<penaltyVars, blacklist, bannedAddresses>>

\* Mistake: the threshold has to be exceeded by more than one.
PenalizeLate(a, type) ==
    LET h == Host[a] IN
    IF NewPenaltyScore(h, type) > PenaltyScoreThreshold + 1
    THEN Blacklist(a, type = PermanentPenalty)
    ELSE /\ penaltyBook' = [penaltyBook EXCEPT ![h] = NewPenaltyScore(h, type)]
         /\ recentlyPenalized' = recentlyPenalized \cup {h}
         /\ UNCHANGED <<bucketVars, blacklist, bannedAddresses>>

Penalize(a, type) ==
    LET h == Host[a] IN
    IF NewPenaltyScore(h, type) > PenaltyScoreThreshold
    THEN Blacklist(a, type = PermanentPenalty)
    ELSE /\ penaltyBook' = [penaltyBook EXCEPT ![h] = NewPenaltyScore(h, type)]
         /\ recentlyPenalized' = recentlyPenalized \cup {h}
         /\ UNCHANGED <<bucketVars, blacklist, bannedAddresses>>

\* From the API, for a duration.
AddToBlacklist(a) == Blacklist(a, FALSE)

RemoveFromBlacklist(h) ==
    /\ blacklist' = [blacklist EXCEPT ![h] = "none"]
    /\ ForgetBans
    /\ UNCHANGED <<bucketVars, penaltyVars>>

\* Every request for peers looks at every ban.
GetPeers ==
    /\ blacklist' = Checked(Hosts)
    /\ UNCHANGED <<bucketVars, penaltyVars, bannedAddresses>>

\* Time passes.
SafeIntervalEnds(h) ==
    /\ h \in recentlyPenalized
    /\ recentlyPenalized' = recentlyPenalized \ {h}
    /\ UNCHANGED <<bucketVars, penaltyBook, blacklist, bannedAddresses>>

BanExpires(h) ==
    /\ blacklist[h] = "temporary"
    /\ blacklist' = [blacklist EXCEPT ![h] = "expired"]
    /\ ForgetBans
    /\ UNCHANGED <<bucketVars, penaltyVars>>

-----------------------------------------------------------------------------
Init ==
    /\ newBucket = EmptyBucket /\ triedBucket = EmptyBucket
    /\ penaltyBook = [h \in Hosts |-> 0] /\ recentlyPenalized = {}
    /\ blacklist = [h \in Hosts |-> "none"] /\ bannedAddresses = {}

Next ==
    \/ GetPeers
    \/ \E a \in Addresses :
          \/ AddOrUpdatePeer(a) \/ AddPeersIfEmpty(a) \/ UpdatePeer(a) \/ RemovePeer(a)
          \/ AddToBlacklist(a)
          \/ \E type \in Penalties : Penalize(a, type)
    \/ \E h \in Hosts :
          ConfirmConnection(h) \/ RemoveFromBlacklist(h) \/ SafeIntervalEnds(h) \/ BanExpires(h)

Spec == Init /\ [][Next]_vars

-----------------------------------------------------------------------------
(* Properties                                                              *)

StorageType ==
    [table : [Slots -> Addresses \cup {None}], index : [Addresses -> Slots \cup {None}]]

\* The variables have their types, and no score that is kept is over the threshold.
PeersTypeOK ==
    /\ newBucket \in StorageType /\ triedBucket \in StorageType
    /\ penaltyBook \in [Hosts -> 0 .. PenaltyScoreThreshold]
    /\ recentlyPenalized \subseteq Hosts
    /\ blacklist \in [Hosts -> InForce \cup {"none", "expired"}]
    /\ bannedAddresses \subseteq Addresses

\* Whatever was overwritten, moved back or removed, a peer that is in a table is found
\* through its address, so that it can be updated and removed.
StoredIsIndexed ==
    \A s \in Slots, a \in Addresses :
        /\ newBucket.table[s] = a => newBucket.index[a] = s
        /\ triedBucket.table[s] = a => triedBucket.index[a] = s

\* Of the tried peers the reverse table knows no others than those in the table: looking
\* one up never fails and never yields another peer.
TriedIsExact ==
    \A a \in Addresses : Contains(triedBucket, a) => StoredPeerByAddress(triedBucket, a) = a

\* "correctly move peers from tried back to new without deleting them": when a peer
\* becomes tried, every peer that was tried is still known.
TriedAreKept ==
    [][(\E a \in Addresses : a \in Stored(triedBucket)' /\ a \notin Stored(triedBucket))
         => Stored(triedBucket) \subseteq Stored(triedBucket)' \cup Stored(newBucket)']_vars

\* An address that got banned is not offered for connections while it is: it is in no
\* bucket, whichever messages about it were still on their way.
BannedIsForgotten ==
    bannedAddresses \cap (Stored(newBucket) \cup Stored(triedBucket)) = {}

\* A permanent ban ends only when it is lifted by hand.
PermanentBansStay ==
    [][\A h \in Hosts : blacklist[h] = "permanent" =>
          blacklist'[h] = "permanent" \/ RemoveFromBlacklist(h)]_vars

=============================================================================
