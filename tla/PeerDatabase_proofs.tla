------------------------ MODULE PeerDatabase_proofs ------------------------
(***************************************************************************)
(* Proofs about PeerDatabase, for every set of addresses and hosts, every  *)
(* way of hashing addresses to slots and every scale of penalties.         *)
(***************************************************************************)
EXTENDS PeerDatabase, TLAPS

-----------------------------------------------------------------------------
(* Bucket storages                                                         *)

\* A stored peer is indexed, and every index is the slot the address is hashed to.
WellIndexed(storage, slot) ==
    /\ storage \in StorageType
    /\ \A s \in Slots, a \in Addresses : storage.table[s] = a => storage.index[a] = s
    /\ \A a \in Addresses : storage.index[a] \in {None, slot[a]}

\* No index leads to an empty slot or to another peer.
Exact(storage) ==
    \A a \in Addresses : storage.index[a] # None => storage.table[storage.index[a]] = a

\* add keeps a storage in order, even when it overwrites a peer.
LEMMA AddKeepsOrder ==
    ASSUME NEW st, NEW slot \in [Addresses -> Slots], NEW x \in Addresses,
           WellIndexed(st, slot)
    PROVE  /\ WellIndexed(Add(st, slot, x), slot)
           /\ Stored(Add(st, slot, x)) \subseteq Stored(st) \cup {x}
<1> DEFINE new == Add(st, slot, x)
<1>1. st.table \in [Slots -> Addresses \cup {None}] /\ st.index \in [Addresses -> Slots \cup {None}]
  BY DEF WellIndexed, StorageType
<1>2. /\ new.table = [st.table EXCEPT ![slot[x]] = x]
      /\ new.index = [st.index EXCEPT ![x] = slot[x]]
  BY DEF Add
<1>3. new \in StorageType
  BY <1>1 DEF Add, StorageType
<1>4. \A s \in Slots, a \in Addresses : new.table[s] = a => new.index[a] = s
  BY <1>1, <1>2, PeerDatabaseAssumption DEF WellIndexed
<1>5. \A a \in Addresses : new.index[a] \in {None, slot[a]}
  BY <1>1, <1>2 DEF WellIndexed
<1>6. Stored(new) \subseteq Stored(st) \cup {x}
  BY <1>1, <1>2 DEF Stored
<1>7. QED
  BY <1>3, <1>4, <1>5, <1>6 DEF WellIndexed

\* add keeps a storage exact when the slot was free.
LEMMA AddKeepsExact ==
    ASSUME NEW st, NEW slot \in [Addresses -> Slots], NEW x \in Addresses,
           WellIndexed(st, slot), Exact(st), st.table[slot[x]] = None
    PROVE  Exact(Add(st, slot, x))
<1>1. st.table \in [Slots -> Addresses \cup {None}] /\ st.index \in [Addresses -> Slots \cup {None}]
  BY DEF WellIndexed, StorageType
<1>2. QED
  BY <1>1, PeerDatabaseAssumption DEF Add, Exact

\* remove keeps a storage in order, and the peer is gone.
LEMMA RemoveKeepsOrder ==
    ASSUME NEW st, NEW slot \in [Addresses -> Slots], NEW x \in Addresses,
           WellIndexed(st, slot)
    PROVE  /\ WellIndexed(Remove(st, x), slot)
           /\ Stored(Remove(st, x)) \subseteq Stored(st) \ {x}
           /\ st.index[x] # None => Remove(st, x).table[st.index[x]] = None
<1>1. st.table \in [Slots -> Addresses \cup {None}] /\ st.index \in [Addresses -> Slots \cup {None}]
  BY DEF WellIndexed, StorageType
<1>2. CASE st.index[x] = None
  <2>1. Remove(st, x) = st
    BY <1>2 DEF Remove, Contains
  <2>2. x \notin Stored(st)
    BY <1>2, PeerDatabaseAssumption DEF Stored, WellIndexed
  <2>3. QED
    BY <1>2, <2>1, <2>2
<1>3. CASE st.index[x] # None
  <2> DEFINE new == Remove(st, x)
  <2>1. /\ new.table = [st.table EXCEPT ![st.index[x]] = None]
        /\ new.index = [st.index EXCEPT ![x] = None]
        /\ st.index[x] \in Slots
    BY <1>1, <1>3 DEF Remove, Contains
  <2>2. new \in StorageType
    BY <1>1, <1>3 DEF Remove, Contains, StorageType
  <2>3. \A s \in Slots, a \in Addresses : new.table[s] = a => new.index[a] = s
    BY <1>1, <2>1, PeerDatabaseAssumption DEF WellIndexed
  <2>4. \A a \in Addresses : new.index[a] \in {None, slot[a]}
    BY <1>1, <2>1 DEF WellIndexed
  <2>5. Stored(new) \subseteq Stored(st) \ {x}
    BY <1>1, <2>1, PeerDatabaseAssumption DEF Stored, WellIndexed
  <2>6. new.table[st.index[x]] = None
    BY <1>1, <2>1
  <2>7. QED
    BY <2>2, <2>3, <2>4, <2>5, <2>6 DEF WellIndexed
<1>4. QED
  BY <1>2, <1>3

\* remove keeps a storage exact.
LEMMA RemoveKeepsExact ==
    ASSUME NEW st, NEW slot \in [Addresses -> Slots], NEW x \in Addresses,
           WellIndexed(st, slot), Exact(st)
    PROVE  Exact(Remove(st, x))
<1>1. st.table \in [Slots -> Addresses \cup {None}] /\ st.index \in [Addresses -> Slots \cup {None}]
  BY DEF WellIndexed, StorageType
<1>2. CASE st.index[x] = None
  BY <1>2 DEF Remove, Contains
<1>3. CASE st.index[x] # None
  BY <1>1, <1>3, PeerDatabaseAssumption DEF Remove, Contains, Exact
<1>4. QED
  BY <1>2, <1>3

-----------------------------------------------------------------------------
(* The inductive invariant                                                 *)

\* The tried peers stay exact because a slot is freed before it is used; the banned
\* addresses stay out because their hosts are blacklisted as long as they are banned.
BansAreInForce == \A a \in bannedAddresses : blacklist[Host[a]] \in InForce
StoragesInOrder ==
    WellIndexed(newBucket, NewSlot) /\ WellIndexed(triedBucket, TriedSlot) /\ Exact(triedBucket)
IInv == PeersTypeOK /\ StoragesInOrder /\ BansAreInForce /\ BannedIsForgotten

\* Everything that is stored afterwards was stored before, or is the given peer.
NothingElseStored(a) ==
    Stored(newBucket)' \cup Stored(triedBucket)'
      \subseteq Stored(newBucket) \cup Stored(triedBucket) \cup {a}

\* getStoredPeerByAddress yields a peer unless it throws.
LEMMA LookupType ==
    ASSUME NEW st, NEW slot \in [Addresses -> Slots], NEW a \in Addresses,
           WellIndexed(st, slot), Contains(st, a), ~LookupThrows(st, a)
    PROVE  StoredPeerByAddress(st, a) \in Addresses
  BY DEF WellIndexed, StorageType, Contains, LookupThrows, StoredPeerByAddress

\* makeTried takes the peer found under the address out of the new peers.
LEMMA NewWithoutKeepsOrder ==
    ASSUME WellIndexed(newBucket, NewSlot), NEW a \in Addresses, ~LookupThrows(newBucket, a)
    PROVE  /\ WellIndexed(NewWithout(a), NewSlot)
           /\ Stored(NewWithout(a)) \subseteq Stored(newBucket)
<1>1. CASE ~Contains(newBucket, a)
  BY <1>1 DEF NewWithout
<1>2. CASE Contains(newBucket, a)
  <2>1. StoredPeerByAddress(newBucket, a) \in Addresses
    BY <1>2, LookupType, PeerDatabaseAssumption
  <2>2. QED
    BY <1>2, <2>1, RemoveKeepsOrder, PeerDatabaseAssumption DEF NewWithout
<1>3. QED
  BY <1>1, <1>2

\* addOrUpdatePeerIntoBucket keeps the storages in order.
LEMMA AddOrUpdateKeepsOrder ==
    ASSUME StoragesInOrder, NEW a \in Addresses, AddOrUpdatePeerIntoBucket(a)
    PROVE  StoragesInOrder' /\ NothingElseStored(a)
<1>1. triedBucket' = triedBucket
  BY DEF AddOrUpdatePeerIntoBucket
<1>2. newBucket' = newBucket \/ newBucket' = Add(newBucket, NewSlot, a)
  BY DEF AddOrUpdatePeerIntoBucket
<1>3. /\ WellIndexed(newBucket', NewSlot)
      /\ Stored(newBucket') \subseteq Stored(newBucket) \cup {a}
  BY <1>2, AddKeepsOrder, PeerDatabaseAssumption DEF StoragesInOrder
<1>4. QED
  BY <1>1, <1>3 DEF StoragesInOrder, NothingElseStored, Stored

\* makeTried keeps the storages in order: the slot it uses was freed.
LEMMA MakeTriedKeepsOrder ==
    ASSUME StoragesInOrder, NEW a \in Addresses, ~LookupThrows(newBucket, a), MakeTried(a)
    PROVE  StoragesInOrder' /\ NothingElseStored(a)
<1> DEFINE occupant == triedBucket.table[TriedSlot[a]]
           freed == IF occupant = None THEN triedBucket ELSE Remove(triedBucket, occupant)
<1>1. /\ WellIndexed(NewWithout(a), NewSlot)
      /\ Stored(NewWithout(a)) \subseteq Stored(newBucket)
  BY NewWithoutKeepsOrder DEF StoragesInOrder
<1>2. /\ newBucket' = IF occupant = None THEN NewWithout(a)
                      ELSE Add(NewWithout(a), NewSlot, occupant)
      /\ triedBucket' = Add(freed, TriedSlot, a)
  BY DEF MakeTried
<1>3. TriedSlot[a] \in Slots /\ occupant \in Addresses \cup {None}
  BY PeerDatabaseAssumption DEF StoragesInOrder, WellIndexed, StorageType
<1>4. occupant # None => /\ occupant \in Stored(triedBucket)
                         /\ triedBucket.index[occupant] = TriedSlot[a]
                         /\ TriedSlot[a] # None
  BY <1>3, PeerDatabaseAssumption DEF StoragesInOrder, WellIndexed, Stored
<1>5. /\ WellIndexed(freed, TriedSlot) /\ Exact(freed)
      /\ Stored(freed) \subseteq Stored(triedBucket)
      /\ freed.table[TriedSlot[a]] = None
  <2>1. CASE occupant = None
    BY <2>1 DEF StoragesInOrder
  <2>2. CASE occupant # None
    BY <2>2, <1>3, <1>4, RemoveKeepsOrder, RemoveKeepsExact, PeerDatabaseAssumption
    DEF StoragesInOrder
  <2>3. QED
    BY <2>1, <2>2
<1>6. /\ WellIndexed(triedBucket', TriedSlot) /\ Exact(triedBucket')
      /\ Stored(triedBucket') \subseteq Stored(triedBucket) \cup {a}
  BY <1>2, <1>5, AddKeepsOrder, AddKeepsExact, PeerDatabaseAssumption
<1>7. /\ WellIndexed(newBucket', NewSlot)
      /\ Stored(newBucket') \subseteq Stored(newBucket) \cup Stored(triedBucket)
  <2>1. CASE occupant = None
    BY <2>1, <1>1, <1>2
  <2>2. CASE occupant # None
    BY <2>2, <1>1, <1>2, <1>3, <1>4, AddKeepsOrder, PeerDatabaseAssumption
  <2>3. QED
    BY <2>1, <2>2
<1>8. QED
  BY <1>6, <1>7 DEF StoragesInOrder, NothingElseStored, Stored

\* removePeer keeps the storages in order, and the peer is in neither.
LEMMA RemovePeerKeepsOrder ==
    ASSUME StoragesInOrder, NEW a \in Addresses, RemovePeerFromBuckets(a)
    PROVE  /\ StoragesInOrder'
           /\ Stored(newBucket') \cup Stored(triedBucket')
                \subseteq (Stored(newBucket) \cup Stored(triedBucket)) \ {a}
<1>1. newBucket' = Remove(newBucket, a) /\ triedBucket' = Remove(triedBucket, a)
  BY DEF RemovePeerFromBuckets
<1>2. /\ WellIndexed(newBucket', NewSlot)
      /\ Stored(newBucket') \subseteq Stored(newBucket) \ {a}
  BY <1>1, RemoveKeepsOrder, PeerDatabaseAssumption DEF StoragesInOrder
<1>3. /\ WellIndexed(triedBucket', TriedSlot) /\ Exact(triedBucket')
      /\ Stored(triedBucket') \subseteq Stored(triedBucket) \ {a}
  BY <1>1, RemoveKeepsOrder, RemoveKeepsExact, PeerDatabaseAssumption DEF StoragesInOrder
<1>4. QED
  BY <1>2, <1>3 DEF StoragesInOrder

\* The parts of the type invariant that are not about the storages.
BookTypeOK ==
    /\ penaltyBook \in [Hosts -> 0 .. PenaltyScoreThreshold]
    /\ recentlyPenalized \subseteq Hosts
    /\ blacklist \in [Hosts -> InForce \cup {"none", "expired"}]
    /\ bannedAddresses \subseteq Addresses

\* The type invariant, part by part.
LEMMA TypeFromParts == PeersTypeOK <=> newBucket \in StorageType /\ triedBucket \in StorageType /\ BookTypeOK
  BY DEF PeersTypeOK, BookTypeOK

\* Looking at bans removes expired ones only.
LEMMA CheckedKeepsBans ==
    ASSUME BookTypeOK, NEW hosts
    PROVE  /\ Checked(hosts) \in [Hosts -> InForce \cup {"none", "expired"}]
           /\ \A h \in Hosts : blacklist[h] \in InForce => Checked(hosts)[h] = blacklist[h]
  BY DEF BookTypeOK, Checked, InForce

\* A message that stores at most a peer that is not banned, and may remove expired bans.
LEMMA StoringStep ==
    ASSUME IInv, NEW a \in Addresses, NEW hosts,
           \/ UNCHANGED bucketVars
           \/ ~IsBlacklisted(Host[a]) /\ StoragesInOrder' /\ NothingElseStored(a),
           blacklist' = Checked(hosts), UNCHANGED <<penaltyVars, bannedAddresses>>
    PROVE  IInv'
<1>1. StoragesInOrder'
  BY DEF IInv, StoragesInOrder, bucketVars, WellIndexed, Exact
<1>2. BookTypeOK'
  BY CheckedKeepsBans, TypeFromParts DEF IInv, BookTypeOK, penaltyVars
<1>3. \A h \in Hosts : blacklist[h] \in InForce => blacklist'[h] = blacklist[h]
  BY CheckedKeepsBans, TypeFromParts DEF IInv
<1>4. \A x \in bannedAddresses : x \in Addresses /\ Host[x] \in Hosts
  BY PeerDatabaseAssumption DEF IInv, PeersTypeOK
<1>5. BansAreInForce'
  BY <1>3, <1>4 DEF IInv, BansAreInForce
<1>6. BannedIsForgotten'
  <2>1. CASE UNCHANGED bucketVars
    BY <2>1 DEF IInv, BannedIsForgotten, bucketVars, Stored
  <2>2. CASE ~IsBlacklisted(Host[a]) /\ NothingElseStored(a)
    <3>1. a \notin bannedAddresses
      BY <2>2 DEF IInv, BansAreInForce, IsBlacklisted
    <3>2. QED
      BY <2>2, <3>1 DEF IInv, BannedIsForgotten, NothingElseStored
  <2>3. QED
    BY <2>1, <2>2
<1>7. QED
  BY <1>1, <1>2, <1>5, <1>6 DEF IInv, PeersTypeOK, BookTypeOK, StoragesInOrder, WellIndexed

\* addToBlacklist keeps the invariant.
LEMMA BlacklistKeepsInvariant ==
    ASSUME IInv, NEW a \in Addresses, NEW permanent \in BOOLEAN, Blacklist(a, permanent)
    PROVE  IInv'
<1>1. Host[a] \in Hosts
  BY PeerDatabaseAssumption
<1>2. /\ StoragesInOrder'
      /\ Stored(newBucket') \cup Stored(triedBucket')
           \subseteq (Stored(newBucket) \cup Stored(triedBucket)) \ {a}
  BY RemovePeerKeepsOrder DEF IInv, Blacklist
<1>3. BookTypeOK'
  BY <1>1, PeerDatabaseAssumption DEF IInv, PeersTypeOK, BookTypeOK, Blacklist, BanIn, InForce
<1>4. \A h \in Hosts : blacklist[h] \in InForce => blacklist'[h] = blacklist[h]
  BY <1>1 DEF IInv, PeersTypeOK, Blacklist, BanIn, InForce
<1>5. bannedAddresses' = IF blacklist'[Host[a]] \in InForce THEN bannedAddresses \cup {a}
                         ELSE bannedAddresses
  BY DEF Blacklist
<1>6. \A x \in bannedAddresses : x \in Addresses /\ Host[x] \in Hosts
  BY PeerDatabaseAssumption DEF IInv, PeersTypeOK
<1>7. BansAreInForce'
  BY <1>4, <1>5, <1>6 DEF IInv, BansAreInForce
<1>8. BannedIsForgotten'
  BY <1>2, <1>5 DEF IInv, BannedIsForgotten, Stored
<1>9. QED
  BY <1>2, <1>3, <1>7, <1>8 DEF IInv, PeersTypeOK, BookTypeOK, StoragesInOrder, WellIndexed

\* What changes neither the storages nor a ban in force keeps the invariant.
LEMMA BookKeepingStep ==
    ASSUME IInv, UNCHANGED bucketVars, BookTypeOK', BansAreInForce',
           bannedAddresses' \subseteq bannedAddresses
    PROVE  IInv'
  BY TypeFromParts DEF IInv, StoragesInOrder, WellIndexed, Exact, bucketVars, BookTypeOK,
     PeersTypeOK, BannedIsForgotten, Stored

-----------------------------------------------------------------------------
(* The messages of the PeerManager                                         *)

\* Penalize, with the ban it may end in.
LEMMA PenalizeKeepsInvariant ==
    ASSUME IInv, NEW a \in Addresses, NEW type \in Penalties, Penalize(a, type)
    PROVE  IInv'
<1> DEFINE h == Host[a]
<1>1. h \in Hosts /\ NewPenaltyScore(h, type) \in Nat
  BY PeerDatabaseAssumption DEF IInv, PeersTypeOK, NewPenaltyScore
<1>2. CASE NewPenaltyScore(h, type) > PenaltyScoreThreshold
  <2>1. Blacklist(a, type = PermanentPenalty)
    BY <1>2 DEF Penalize
  <2>2. QED
    BY <2>1, BlacklistKeepsInvariant
<1>3. CASE ~(NewPenaltyScore(h, type) > PenaltyScoreThreshold)
  <2>1. /\ penaltyBook' = [penaltyBook EXCEPT ![h] = NewPenaltyScore(h, type)]
        /\ recentlyPenalized' = recentlyPenalized \cup {h}
        /\ UNCHANGED <<bucketVars, blacklist, bannedAddresses>>
    BY <1>3 DEF Penalize
  <2>2. NewPenaltyScore(h, type) \in 0 .. PenaltyScoreThreshold
    BY <1>1, <1>3, PeerDatabaseAssumption
  <2>3. BookTypeOK'
    BY <1>1, <2>1, <2>2 DEF IInv, PeersTypeOK, BookTypeOK
  <2>4. BansAreInForce'
    BY <2>1 DEF IInv, BansAreInForce
  <2>5. QED
    BY <2>1, <2>3, <2>4, BookKeepingStep
<1>4. QED
  BY <1>2, <1>3

\* Lifting a ban, by hand or in time, frees the addresses it was for.
LEMMA LiftingKeepsInvariant ==
    ASSUME IInv, NEW h \in Hosts, RemoveFromBlacklist(h) \/ BanExpires(h)
    PROVE  IInv'
<1>1. ForgetBans /\ UNCHANGED <<bucketVars, penaltyVars>>
  BY DEF RemoveFromBlacklist, BanExpires
<1>2. blacklist' \in [Hosts -> InForce \cup {"none", "expired"}]
  BY DEF IInv, PeersTypeOK, RemoveFromBlacklist, BanExpires
<1>3. BookTypeOK'
  BY <1>1, <1>2 DEF IInv, PeersTypeOK, BookTypeOK, ForgetBans, penaltyVars
<1>4. BansAreInForce' /\ bannedAddresses' \subseteq bannedAddresses
  BY <1>1 DEF ForgetBans, BansAreInForce
<1>5. QED
  BY <1>1, <1>3, <1>4, BookKeepingStep

\* Every message of the PeerManager that names a peer.
LEMMA MessagesKeepInvariant ==
    ASSUME IInv, NEW a \in Addresses,
           \/ AddOrUpdatePeer(a) \/ AddPeersIfEmpty(a) \/ UpdatePeer(a) \/ RemovePeer(a)
           \/ AddToBlacklist(a)
           \/ \E type \in Penalties : Penalize(a, type)
    PROVE  IInv'
<1>0. StoragesInOrder
  BY DEF IInv
<1>1. CASE AddOrUpdatePeer(a) \/ AddPeersIfEmpty(a)
  <2>1. /\ UNCHANGED bucketVars \/ (IsAcceptable(a) /\ AddOrUpdatePeerIntoBucket(a))
        /\ blacklist' = Checked({Host[a]}) /\ UNCHANGED <<penaltyVars, bannedAddresses>>
    BY <1>1 DEF AddOrUpdatePeer, AddPeersIfEmpty
  <2>2. \/ UNCHANGED bucketVars
        \/ ~IsBlacklisted(Host[a]) /\ StoragesInOrder' /\ NothingElseStored(a)
    BY <1>0, <2>1, AddOrUpdateKeepsOrder DEF IsAcceptable
  <2>3. QED
    BY <2>1, <2>2, StoringStep
<1>2. CASE UpdatePeer(a)
  <2>1. /\ UNCHANGED bucketVars \/ (IsAcceptable(a) /\ ~LookupThrows(newBucket, a) /\ MakeTried(a))
        /\ blacklist' = Checked({Host[a]}) /\ UNCHANGED <<penaltyVars, bannedAddresses>>
    BY <1>2 DEF UpdatePeer
  <2>2. \/ UNCHANGED bucketVars
        \/ ~IsBlacklisted(Host[a]) /\ StoragesInOrder' /\ NothingElseStored(a)
    BY <1>0, <2>1, MakeTriedKeepsOrder DEF IsAcceptable
  <2>3. QED
    BY <2>1, <2>2, StoringStep
<1>3. CASE RemovePeer(a)
  <2>1. /\ StoragesInOrder' /\ UNCHANGED <<penaltyVars, blacklist, bannedAddresses>>
        /\ Stored(newBucket') \cup Stored(triedBucket')
             \subseteq Stored(newBucket) \cup Stored(triedBucket)
    BY <1>0, <1>3, RemovePeerKeepsOrder DEF RemovePeer
  <2>2. BookTypeOK' /\ BansAreInForce' /\ BannedIsForgotten'
    BY <2>1 DEF IInv, PeersTypeOK, BookTypeOK, penaltyVars, BansAreInForce, BannedIsForgotten, Stored
  <2>3. QED
    BY <2>1, <2>2 DEF IInv, PeersTypeOK, BookTypeOK, StoragesInOrder, WellIndexed
<1>4. CASE AddToBlacklist(a)
  BY <1>4, BlacklistKeepsInvariant DEF AddToBlacklist
<1>5. CASE \E type \in Penalties : Penalize(a, type)
  BY <1>5, PenalizeKeepsInvariant
<1>6. QED
  BY <1>1, <1>2, <1>3, <1>4, <1>5

\* The invariant holds at the start and is kept by every message and by time.
THEOREM PeerDatabaseInvariant == Spec => []IInv
<1>1. Init => IInv
  <2> SUFFICES ASSUME Init PROVE IInv
    OBVIOUS
  <2>1. EmptyBucket \in StorageType
    BY DEF EmptyBucket, StorageType
  <2>2. Stored(EmptyBucket) = {}
    BY PeerDatabaseAssumption DEF EmptyBucket, Stored
  <2>3. StoragesInOrder
    BY <2>1, PeerDatabaseAssumption DEF Init, StoragesInOrder, WellIndexed, Exact, EmptyBucket
  <2>4. QED
    BY <2>1, <2>2, <2>3, PeerDatabaseAssumption
    DEF Init, IInv, PeersTypeOK, BansAreInForce, BannedIsForgotten
<1>2. IInv /\ [Next]_vars => IInv'
  <2> SUFFICES ASSUME IInv, [Next]_vars PROVE IInv'
    OBVIOUS
  <2>1. ASSUME GetPeers \/ \E h \in Hosts : ConfirmConnection(h) PROVE IInv'
    <3>1. PICK hosts : blacklist' = Checked(hosts)
      BY <2>1 DEF GetPeers, ConfirmConnection
    <3>2. UNCHANGED <<bucketVars, penaltyVars, bannedAddresses>>
      BY <2>1 DEF GetPeers, ConfirmConnection
    <3>3. BookTypeOK'
      BY <3>1, <3>2, CheckedKeepsBans, TypeFromParts DEF IInv, BookTypeOK, penaltyVars
    <3>4. BansAreInForce'
      <4>1. \A x \in bannedAddresses : x \in Addresses /\ Host[x] \in Hosts
        BY PeerDatabaseAssumption DEF IInv, PeersTypeOK
      <4>2. QED
        BY <3>1, <3>2, <4>1, CheckedKeepsBans, TypeFromParts DEF IInv, BansAreInForce
    <3>5. QED
      BY <3>2, <3>3, <3>4, BookKeepingStep
  <2>2. ASSUME NEW h \in Hosts, SafeIntervalEnds(h) PROVE IInv'
    <3>1. UNCHANGED bucketVars /\ UNCHANGED bannedAddresses /\ BookTypeOK' /\ BansAreInForce'
      BY <2>2 DEF SafeIntervalEnds, IInv, PeersTypeOK, BookTypeOK, BansAreInForce
    <3>2. QED
      BY <3>1, BookKeepingStep
  <2>3. CASE UNCHANGED vars
    BY <2>3 DEF vars, bucketVars, penaltyVars, IInv, PeersTypeOK, StoragesInOrder, WellIndexed,
       Exact, BansAreInForce, BannedIsForgotten, Stored
  <2>4. QED
    BY <2>1, <2>2, <2>3, MessagesKeepInvariant, LiftingKeepsInvariant DEF Next
<1>3. QED
  BY <1>1, <1>2, PTL DEF Spec

\* The types hold, and a score over the threshold is never kept: it leads to a ban.
THEOREM PeersTypeCorrect == Spec => []PeersTypeOK
<1>1. IInv => PeersTypeOK
  BY DEF IInv
<1>2. QED
  BY <1>1, PeerDatabaseInvariant, PTL

\* A stored peer is found through its address, however addresses collide.
THEOREM StoredAlwaysIndexed == Spec => []StoredIsIndexed
<1>1. IInv => StoredIsIndexed
  BY DEF IInv, StoragesInOrder, WellIndexed, StoredIsIndexed
<1>2. QED
  BY <1>1, PeerDatabaseInvariant, PTL

\* Looking up a tried peer never fails and never yields another peer.
THEOREM TriedAlwaysExact == Spec => []TriedIsExact
<1>1. IInv => TriedIsExact
  BY DEF IInv, StoragesInOrder, Exact, TriedIsExact, Contains, StoredPeerByAddress
<1>2. QED
  BY <1>1, PeerDatabaseInvariant, PTL

\* A banned address is in no bucket.
THEOREM BannedAlwaysForgotten == Spec => []BannedIsForgotten
<1>1. IInv => BannedIsForgotten
  BY DEF IInv
<1>2. QED
  BY <1>1, PeerDatabaseInvariant, PTL

-----------------------------------------------------------------------------
(* Action properties                                                       *)

\* A permanent ban ends only by hand: no later ban, and no check of it, replaces it.
THEOREM PermanentBansAlwaysStay == Spec => PermanentBansStay
<1> DEFINE Stays(h) == blacklist[h] = "permanent" =>
                         blacklist'[h] = "permanent" \/ RemoveFromBlacklist(h)
<1>1. IInv /\ [Next]_vars => [\A h \in Hosts : Stays(h)]_vars
  <2> SUFFICES ASSUME IInv, Next, NEW h \in Hosts, blacklist[h] = "permanent"
               PROVE  blacklist'[h] = "permanent" \/ RemoveFromBlacklist(h)
    OBVIOUS
  <2>0. blacklist \in [Hosts -> InForce \cup {"none", "expired"}]
    BY DEF IInv, PeersTypeOK
  <2>1. ASSUME NEW hosts, blacklist' = Checked(hosts) PROVE blacklist'[h] = "permanent"
    BY <2>0, <2>1 DEF Checked
  <2>2. ASSUME NEW a \in Addresses, NEW permanent, Blacklist(a, permanent)
        PROVE  blacklist'[h] = "permanent"
    BY <2>0, <2>2 DEF Blacklist, BanIn
  <2>3. ASSUME NEW a \in Addresses,
               AddOrUpdatePeer(a) \/ AddPeersIfEmpty(a) \/ UpdatePeer(a) \/ RemovePeer(a)
        PROVE  blacklist'[h] = "permanent"
    BY <2>1, <2>3 DEF AddOrUpdatePeer, AddPeersIfEmpty, UpdatePeer, RemovePeer
  <2>4. ASSUME NEW a \in Addresses, AddToBlacklist(a) \/ \E type \in Penalties : Penalize(a, type)
        PROVE  blacklist'[h] = "permanent"
    BY <2>2, <2>4 DEF AddToBlacklist, Penalize
  <2>5. ASSUME NEW x \in Hosts, ConfirmConnection(x) \/ SafeIntervalEnds(x) \/ BanExpires(x)
        PROVE  blacklist'[h] = "permanent"
    BY <2>0, <2>1, <2>5 DEF ConfirmConnection, SafeIntervalEnds, BanExpires
  <2>6. ASSUME NEW x \in Hosts, RemoveFromBlacklist(x)
        PROVE  blacklist'[h] = "permanent" \/ RemoveFromBlacklist(h)
    <3>1. CASE x = h
      BY <2>6, <3>1
    <3>2. CASE x # h
      BY <2>0, <2>6, <3>2 DEF RemoveFromBlacklist
    <3>3. QED
      BY <3>1, <3>2
  <2>7. CASE GetPeers
    BY <2>1, <2>7 DEF GetPeers
  <2>8. QED
    BY <2>3, <2>4, <2>5, <2>6, <2>7 DEF Next
<1>2. QED
  BY <1>1, PeerDatabaseInvariant, PTL DEF Spec, PermanentBansStay

\* makeTried keeps every tried peer in one of the storages.
LEMMA MakeTriedKeepsPeers ==
    ASSUME StoragesInOrder, NEW a \in Addresses, ~LookupThrows(newBucket, a), MakeTried(a)
    PROVE  Stored(triedBucket) \subseteq Stored(triedBucket)' \cup Stored(newBucket)'
<1> DEFINE occupant == triedBucket.table[TriedSlot[a]]
           freed == IF occupant = None THEN triedBucket ELSE Remove(triedBucket, occupant)
<1>1. TriedSlot[a] \in Slots /\ triedBucket.table \in [Slots -> Addresses \cup {None}]
  BY PeerDatabaseAssumption DEF StoragesInOrder, WellIndexed, StorageType
<1>2. /\ newBucket' = IF occupant = None THEN NewWithout(a)
                      ELSE Add(NewWithout(a), NewSlot, occupant)
      /\ triedBucket' = Add(freed, TriedSlot, a)
  BY DEF MakeTried
<1>3. freed.table = [triedBucket.table EXCEPT ![TriedSlot[a]] = None]
  <2>1. CASE occupant = None
    BY <1>1, <2>1
  <2>2. CASE occupant # None
    <3>1. occupant \in Addresses /\ triedBucket.index[occupant] = TriedSlot[a]
      BY <1>1, <2>2 DEF StoragesInOrder, WellIndexed
    <3>2. QED
      BY <1>1, <2>2, <3>1, PeerDatabaseAssumption DEF Remove, Contains
  <2>3. QED
    BY <2>1, <2>2
<1>4. triedBucket'.table = [triedBucket.table EXCEPT ![TriedSlot[a]] = a]
  BY <1>1, <1>2, <1>3 DEF Add
<1>5. ASSUME occupant # None PROVE occupant \in Stored(newBucket')
  <2>1. occupant \in Addresses /\ NewSlot[occupant] \in Slots
    BY <1>1, <1>5, PeerDatabaseAssumption
  <2>2. NewWithout(a).table \in [Slots -> Addresses \cup {None}]
    BY NewWithoutKeepsOrder DEF StoragesInOrder, WellIndexed, StorageType
  <2>3. newBucket'.table[NewSlot[occupant]] = occupant
    BY <1>2, <1>5, <2>1, <2>2 DEF Add
  <2>4. QED
    BY <2>1, <2>3 DEF Stored
<1>6. ASSUME NEW x \in Stored(triedBucket), x # occupant PROVE x \in Stored(triedBucket')
  <2>1. PICK s \in Slots : triedBucket.table[s] = x
    BY DEF Stored
  <2>2. s # TriedSlot[a] /\ x \in Addresses
    BY <1>6, <2>1 DEF Stored
  <2>3. triedBucket'.table[s] = x
    BY <1>1, <1>4, <2>1, <2>2
  <2>4. QED
    BY <2>2, <2>3 DEF Stored
<1>7. None \notin Stored(triedBucket)
  BY PeerDatabaseAssumption DEF Stored
<1>8. QED
  <2> SUFFICES ASSUME NEW x \in Stored(triedBucket)
               PROVE  x \in Stored(triedBucket') \cup Stored(newBucket')
    BY DEF Stored
  <2>1. QED
    BY <1>5, <1>6, <1>7

\* A peer that becomes tried never makes the node forget one that was.
THEOREM TriedAlwaysKept == Spec => TriedAreKept
<1> DEFINE Kept == (\E a \in Addresses : a \in Stored(triedBucket)' /\ a \notin Stored(triedBucket))
                     => Stored(triedBucket) \subseteq Stored(triedBucket)' \cup Stored(newBucket)'
<1>1. IInv /\ [Next]_vars => [Kept]_vars
  <2> SUFFICES ASSUME IInv, Next PROVE Kept
    OBVIOUS
  <2>0. StoragesInOrder
    BY DEF IInv
  <2>1. ASSUME triedBucket' = triedBucket PROVE Kept
    BY <2>1 DEF Stored
  <2>2. ASSUME NEW a \in Addresses, triedBucket' = Remove(triedBucket, a) PROVE Kept
    <3>1. Stored(triedBucket') \subseteq Stored(triedBucket)
      BY <2>0, <2>2, RemoveKeepsOrder, PeerDatabaseAssumption DEF StoragesInOrder
    <3>2. QED
      BY <3>1 DEF Stored
  <2>3. ASSUME NEW a \in Addresses, UpdatePeer(a) PROVE Kept
    BY <2>0, <2>1, <2>3, MakeTriedKeepsPeers DEF UpdatePeer, bucketVars
  <2>4. ASSUME NEW a \in Addresses, AddOrUpdatePeer(a) \/ AddPeersIfEmpty(a) PROVE Kept
    BY <2>1, <2>4 DEF AddOrUpdatePeer, AddPeersIfEmpty, AddOrUpdatePeerIntoBucket, bucketVars
  <2>5. ASSUME NEW a \in Addresses, RemovePeer(a) \/ AddToBlacklist(a) PROVE Kept
    BY <2>2, <2>5 DEF RemovePeer, AddToBlacklist, Blacklist, RemovePeerFromBuckets
  <2>6. ASSUME NEW a \in Addresses, NEW type \in Penalties, Penalize(a, type) PROVE Kept
    BY <2>1, <2>2, <2>6 DEF Penalize, Blacklist, RemovePeerFromBuckets, bucketVars
  <2>7. ASSUME NEW h \in Hosts, \/ ConfirmConnection(h) \/ RemoveFromBlacklist(h)
                                \/ SafeIntervalEnds(h) \/ BanExpires(h)
        PROVE  Kept
    BY <2>1, <2>7 DEF ConfirmConnection, RemoveFromBlacklist, SafeIntervalEnds, BanExpires, bucketVars
  <2>8. CASE GetPeers
    BY <2>1, <2>8 DEF GetPeers, bucketVars
  <2> HIDE DEF Kept
  <2>9. QED
    BY <2>3, <2>4, <2>5, <2>6, <2>7, <2>8 DEF Next
<1>2. QED
  BY <1>1, PeerDatabaseInvariant, PTL DEF Spec, TriedAreKept

=============================================================================
