--------------------------- MODULE PeerSync_proofs ---------------------------
(***************************************************************************)
(* Proofs about PeerSync, for every set of connections, every sharing of   *)
(* addresses between them, every comparison of histories and every setting.*)
(***************************************************************************)
EXTENDS PeerSync, SequenceTheorems, TLAPS

\* An entry belongs to the address it is found under.
KeysFit ==
    /\ \A a \in Tracked(statuses) : AddressOf[statuses[a].conn] = a
    /\ \A a \in Tracked(lastSyncSentTime) : AddressOf[lastSyncSentTime[a].conn] = a

TrackerTypeOK ==
    /\ statuses \in [Addresses -> StatusEntry \cup {None}]
    /\ lastSyncSentTime \in [Addresses -> TimeEntry \cup {None}]
    /\ stableSyncRegime \in BOOLEAN
    /\ schedule \in {"delayed", "running"}
    /\ neighbour \in {"Better", "NoBetter"}

\* The invariant of the SyncTracker on its own.
TrackerInv ==
    /\ TrackerTypeOK
    /\ KeysFit
    /\ SeniorsAreAnnounced
    /\ Tracked(statuses) = Tracked(lastSyncSentTime)

\* The controller has one connection per address.
OneLivePerAddress ==
    \A c, d \in Conns :
        life[c] = "live" /\ life[d] = "live" /\ AddressOf[c] = AddressOf[d] => c = d

\* The end of an old connection is announced before the beginning of the new one.
HandshakeFollows ==
    \A c \in Conns, i \in DOMAIN mailbox :
        life[c] = "live" /\ mailbox[i] = DisconnectedPeer(AddressOf[c])
          => \E j \in DOMAIN mailbox : j > i /\ mailbox[j] = HandshakedPeer(c)

Announced(c) == \E i \in DOMAIN mailbox : mailbox[i] = HandshakedPeer(c)

LiveIsTracked ==
    \A c \in Conns : life[c] = "live" => Announced(c) \/ AddressOf[c] \in Tracked(statuses)

EnvTypeOK ==
    /\ historyReader \in BOOLEAN
    /\ mailbox \in Seq(Message)
    /\ sent \subseteq Conns
    /\ life \in [Conns -> {"new", "live", "closed"}]

IInv ==
    /\ TrackerInv
    /\ EnvTypeOK
    /\ OneLivePerAddress
    /\ HandshakeFollows
    /\ LiveIsTracked

-----------------------------------------------------------------------------
(* The SyncTracker                                                         *)

\* Connections have addresses.
LEMMA AddressIsKnown ==
    ASSUME NEW c \in Conns
    PROVE  AddressOf[c] \in Addresses
BY DEF Addresses

\* Ages are small natural numbers.
LEMMA AgesAreNumbers == MaxAge \in Nat /\ 0 \in 0..MaxAge /\ MaxAge \in 0..MaxAge
BY SyncAssumption DEF MaxAge

\* The key of an entry is of the right address, new or old.
LEMMA KeyFits ==
    ASSUME NEW map, NEW c \in Conns, map[AddressOf[c]] # None => map[AddressOf[c]].conn \in Conns,
           AddressOf[c] \in Tracked(map) => AddressOf[map[AddressOf[c]].conn] = AddressOf[c]
    PROVE  KeyFor(map, c) \in Conns /\ AddressOf[KeyFor(map, c)] = AddressOf[c]
BY AddressIsKnown DEF KeyFor, Tracked

\* updateLastSyncSentTime adds the addresses of S and keeps every entry under its address.
LEMMA UpdateLastSyncSentTimeKeeps ==
    ASSUME TrackerTypeOK, KeysFit, NEW S \in SUBSET Conns
    PROVE  LET updated == UpdateLastSyncSentTime(lastSyncSentTime, S)
           IN  /\ updated \in [Addresses -> TimeEntry \cup {None}]
               /\ Tracked(updated) = Tracked(lastSyncSentTime) \cup {AddressOf[c] : c \in S}
               /\ \A a \in Tracked(updated) : AddressOf[updated[a].conn] = a
<1> DEFINE updated == UpdateLastSyncSentTime(lastSyncSentTime, S)
           In(a) == \E c \in S : AddressOf[c] = a
           Of(a) == CHOOSE c \in S : AddressOf[c] = a
           new(a) == [conn |-> KeyFor(lastSyncSentTime, Of(a)), age |-> 0]
<1>1. \A a \in Addresses : In(a) => Of(a) \in Conns /\ AddressOf[Of(a)] = a
  OBVIOUS
<1>2. ASSUME NEW a \in Addresses, In(a)
      PROVE  new(a) \in TimeEntry /\ new(a) # None /\ AddressOf[new(a).conn] = a
  <2>1. Of(a) \in Conns /\ AddressOf[Of(a)] = a
    BY <1>1, <1>2
  <2>2. KeyFor(lastSyncSentTime, Of(a)) \in Conns
          /\ AddressOf[KeyFor(lastSyncSentTime, Of(a))] = AddressOf[Of(a)]
    <3> HIDE DEF Of
    <3>1. lastSyncSentTime[a] # None => lastSyncSentTime[a].conn \in Conns
      BY DEF TrackerTypeOK, TimeEntry
    <3>2. a \in Tracked(lastSyncSentTime) => AddressOf[lastSyncSentTime[a].conn] = a
      BY DEF KeysFit
    <3>3. QED
      BY <2>1, <3>1, <3>2, KeyFits
  <2>3. new(a) \in TimeEntry
    BY <2>2, AgesAreNumbers DEF TimeEntry
  <2>4. QED
    BY <2>1, <2>2, <2>3, SyncAssumption
<1>3. updated = [a \in Addresses |-> IF In(a) THEN new(a) ELSE lastSyncSentTime[a]]
  BY DEF UpdateLastSyncSentTime
<1> HIDE DEF updated, new
<1>4. updated \in [Addresses -> TimeEntry \cup {None}]
  BY <1>2, <1>3 DEF TrackerTypeOK
<1>5. Tracked(updated) = Tracked(lastSyncSentTime) \cup {AddressOf[c] : c \in S}
  BY <1>2, <1>3, AddressIsKnown DEF Tracked
<1>6. \A a \in Tracked(updated) : AddressOf[updated[a].conn] = a
  BY <1>2, <1>3 DEF Tracked, KeysFit
<1>7. QED
  BY <1>4, <1>5, <1>6 DEF updated

\* updateStatus tracks the peer, and announces a senior when the first one appears.
LEMMA UpdateStatusKeeps ==
    ASSUME TrackerInv, NEW c \in Conns, NEW status \in Statuses, UpdateStatus(c, status)
    PROVE  TrackerInv' /\ Tracked(statuses)' = Tracked(statuses) \cup {AddressOf[c]}
<1> DEFINE a == AddressOf[c]
           entry == [conn |-> KeyFor(statuses, c), status |-> status]
<1> USE DEF TrackerInv
<1>1. a \in Addresses
  BY AddressIsKnown
<1>2. KeyFor(statuses, c) \in Conns /\ AddressOf[KeyFor(statuses, c)] = a
  <2>1. statuses[a] # None => statuses[a].conn \in Conns
    BY <1>1 DEF TrackerTypeOK, StatusEntry
  <2>2. QED
    BY <2>1, KeyFits DEF KeysFit
<1>3. entry \in StatusEntry /\ entry # None /\ AddressOf[entry.conn] = a
  BY <1>2, SyncAssumption DEF StatusEntry
<1>4. statuses' = [statuses EXCEPT ![a] = entry]
  BY DEF UpdateStatus
<1>5. /\ Tracked(statuses') = Tracked(statuses) \cup {a}
      /\ statuses' \in [Addresses -> StatusEntry \cup {None}]
      /\ \A b \in Tracked(statuses') : AddressOf[statuses'[b].conn] = b
  <2> HIDE DEF entry, a
  <2>1. QED
    BY <1>1, <1>3, <1>4 DEF Tracked, TrackerTypeOK, KeysFit
<1>6. /\ Tracked(lastSyncSentTime') = Tracked(lastSyncSentTime) \cup {a}
      /\ lastSyncSentTime' \in [Addresses -> TimeEntry \cup {None}]
      /\ \A b \in Tracked(lastSyncSentTime') : AddressOf[lastSyncSentTime'[b].conn] = b
  <2>1. CASE lastSyncSentTime[a] = None
    <3>1. lastSyncSentTime' = UpdateLastSyncSentTime(lastSyncSentTime, {c})
      BY <2>1 DEF UpdateStatus
    <3>2. {AddressOf[d] : d \in {c}} = {a}
      OBVIOUS
    <3>3. QED
      BY <3>1, <3>2, UpdateLastSyncSentTimeKeeps
  <2>2. CASE lastSyncSentTime[a] # None
    BY <1>1, <2>2 DEF UpdateStatus, Tracked, TrackerTypeOK, KeysFit
  <2>3. QED
    BY <2>1, <2>2
<1>7. /\ stableSyncRegime' \in BOOLEAN /\ neighbour' \in {"Better", "NoBetter"}
      /\ schedule' \in {"delayed", "running"}
  BY DEF UpdateStatus, TrackerTypeOK
<1>8. SeniorsAreAnnounced'
  BY DEF UpdateStatus, SeniorsAreAnnounced
<1>9. QED
  BY <1>5, <1>6, <1>7, <1>8 DEF TrackerTypeOK, KeysFit

\* clearStatus forgets the peer and nobody else.
LEMMA ClearStatusKeeps ==
    ASSUME TrackerInv, NEW a \in Addresses, ClearStatus(a)
    PROVE  TrackerInv' /\ Tracked(statuses)' = Tracked(statuses) \ {a}
<1> USE DEF TrackerInv
<1>1. /\ Tracked(statuses') = Tracked(statuses) \ {a}
      /\ Tracked(lastSyncSentTime') = Tracked(lastSyncSentTime) \ {a}
      /\ \A b \in Tracked(statuses') : statuses'[b] = statuses[b]
      /\ \A b \in Tracked(lastSyncSentTime') : lastSyncSentTime'[b] = lastSyncSentTime[b]
  BY DEF ClearStatus, Tracked, TrackerTypeOK
<1>2. KeysFit'
  BY <1>1 DEF KeysFit
<1>3. SeniorsAreAnnounced'
  BY <1>1 DEF SeniorsAreAnnounced, Seniors, WithStatus, ClearStatus
<1>4. TrackerTypeOK'
  BY DEF TrackerTypeOK, ClearStatus
<1>5. QED
  BY <1>1, <1>2, <1>3, <1>4

\* peersToSyncWith returns connections of tracked peers.
LEMMA PeersToSyncWithAreTracked ==
    ASSUME TrackerInv, NEW S \in PeersToSyncWith
    PROVE  S \subseteq Conns /\ \A c \in S : AddressOf[c] \in Tracked(lastSyncSentTime)
<1> USE DEF TrackerInv
<1>1. CASE Outdated # {}
  <2>1. S = {lastSyncSentTime[a].conn : a \in Outdated}
    BY <1>1 DEF PeersToSyncWith
  <2>2. QED
    BY <2>1 DEF Outdated, Tracked, TrackerTypeOK, TimeEntry, KeysFit
<1>2. CASE Outdated = {}
  <2>1. PICK T \in SUBSET Tracked(statuses) : S = {statuses[a].conn : a \in T}
    <3> DEFINE others == WithStatus(statuses, "Unknown") \cup WithStatus(statuses, "Fork")
               chosen == IF Seniors(statuses) = {} THEN {others}
                         ELSE {others \cup {elder} : elder \in Seniors(statuses)}
    <3>1. PICK C \in chosen : S = {statuses[a].conn : a \in {b \in C : IsDue(b)}}
      BY <1>2 DEF PeersToSyncWith
    <3>2. C \subseteq Tracked(statuses)
      BY <3>1 DEF WithStatus, Seniors
    <3>3. QED
      BY <3>1, <3>2
  <2>2. QED
    BY <2>1 DEF Tracked, TrackerTypeOK, StatusEntry, KeysFit
<1>3. QED
  BY <1>1, <1>2

-----------------------------------------------------------------------------
(* The mailbox                                                             *)

\* The head leaves: the others keep their order.
LEMMA TailOf ==
    ASSUME NEW S, NEW s \in Seq(S), s # <<>>
    PROVE  /\ Tail(s) \in Seq(S) /\ Head(s) \in S /\ Head(s) = s[1]
           /\ \A i \in DOMAIN Tail(s) : i + 1 \in DOMAIN s /\ Tail(s)[i] = s[i + 1]
           /\ \A i \in DOMAIN s : i # 1 => i - 1 \in DOMAIN Tail(s) /\ Tail(s)[i - 1] = s[i]
           /\ \A i \in DOMAIN s : i \in Int /\ i >= 1
OBVIOUS

\* A message is added: the others keep their places.
LEMMA AppendOf ==
    ASSUME NEW S, NEW s \in Seq(S), NEW e \in S
    PROVE  /\ Append(s, e) \in Seq(S)
           /\ \A i \in DOMAIN s : i \in DOMAIN Append(s, e) /\ Append(s, e)[i] = s[i]
           /\ \A i \in DOMAIN Append(s, e) :
                i \in DOMAIN s \/ (i = Len(s) + 1 /\ Append(s, e)[i] = e)
           /\ Len(s) + 1 \in DOMAIN Append(s, e) /\ Append(s, e)[Len(s) + 1] = e
           /\ \A i \in DOMAIN s : i \in Int /\ i < Len(s) + 1
OBVIOUS

\* Messages of different kinds, or about different peers, are different.
LEMMA MessagesDiffer ==
    /\ \A c : HandshakedPeer(c).kind = "HandshakedPeer" /\ HandshakedPeer(c).conn = c
    /\ \A a : DisconnectedPeer(a).kind = "DisconnectedPeer" /\ DisconnectedPeer(a).address = a
    /\ \A c : SyncInfo(c).kind = "SyncInfo"
    /\ \A c, st : OtherNodeSyncingStatus(c, st).kind = "OtherNodeSyncingStatus"
BY DEF HandshakedPeer, DisconnectedPeer, SyncInfo, OtherNodeSyncingStatus

\* Every message has its type.
LEMMA MessagesHaveTheirType ==
    ASSUME NEW c \in Conns
    PROVE  /\ HandshakedPeer(c) \in Message /\ SyncInfo(c) \in Message
           /\ DisconnectedPeer(AddressOf[c]) \in Message
           /\ \A st \in Comparisons : OtherNodeSyncingStatus(c, st) \in Message
BY AddressIsKnown DEF Message, HandshakedPeer, SyncInfo, DisconnectedPeer, OtherNodeSyncingStatus

\* What a message of each kind carries.
LEMMA MessageFields ==
    ASSUME NEW m \in Message
    PROVE  /\ m.kind \in {"HandshakedPeer", "SyncInfo", "OtherNodeSyncingStatus"} => m.conn \in Conns
           /\ m.kind = "OtherNodeSyncingStatus" => m.status \in Comparisons
           /\ m.kind = "HandshakedPeer" => m = HandshakedPeer(m.conn)
           /\ m.kind = "DisconnectedPeer" =>
                m.address \in Addresses /\ m = DisconnectedPeer(m.address)
BY DEF Message, HandshakedPeer, DisconnectedPeer

\* A message about no connection's beginning or end is added at the back.
LEMMA AppendKeepsOrder ==
    ASSUME IInv, NEW e \in Message, e.kind \in {"SyncInfo", "OtherNodeSyncingStatus"},
           mailbox' = Append(mailbox, e), UNCHANGED life
    PROVE  HandshakeFollows' /\ \A c \in Conns : Announced(c) => Announced(c)'
<1> USE DEF IInv, EnvTypeOK
<1>1. \A c \in Conns, i \in DOMAIN mailbox' :
         mailbox'[i] = DisconnectedPeer(AddressOf[c]) => i \in DOMAIN mailbox /\ mailbox'[i] = mailbox[i]
  BY AppendOf, MessagesDiffer
<1>2. \A i \in DOMAIN mailbox : i \in DOMAIN mailbox' /\ mailbox'[i] = mailbox[i]
  BY AppendOf
<1>3. HandshakeFollows'
  BY <1>1, <1>2 DEF HandshakeFollows
<1>4. QED
  BY <1>2, <1>3 DEF Announced

\* The head of the mailbox leaves it.
LEMMA TailKeepsOrder ==
    ASSUME IInv, mailbox # <<>>, mailbox' = Tail(mailbox), UNCHANGED life
    PROVE  /\ HandshakeFollows'
           /\ \A c \in Conns : Announced(c) /\ Head(mailbox) # HandshakedPeer(c) => Announced(c)'
           /\ \A c \in Conns : life[c] = "live" /\ Head(mailbox) = DisconnectedPeer(AddressOf[c])
                                 => Announced(c)'
<1> USE DEF IInv, EnvTypeOK
<1>1. HandshakeFollows'
  <2> SUFFICES ASSUME NEW c \in Conns, NEW i \in DOMAIN Tail(mailbox), life[c] = "live",
                      Tail(mailbox)[i] = DisconnectedPeer(AddressOf[c])
               PROVE  \E j \in DOMAIN Tail(mailbox) : j > i /\ Tail(mailbox)[j] = HandshakedPeer(c)
    BY DEF HandshakeFollows
  <2>1. i + 1 \in DOMAIN mailbox /\ mailbox[i + 1] = DisconnectedPeer(AddressOf[c])
    BY TailOf
  <2>2. PICK j \in DOMAIN mailbox : j > i + 1 /\ mailbox[j] = HandshakedPeer(c)
    BY <2>1 DEF HandshakeFollows
  <2>3. i \in Int /\ i >= 1
    BY TailOf
  <2>4. j - 1 \in DOMAIN Tail(mailbox) /\ Tail(mailbox)[j - 1] = HandshakedPeer(c) /\ j - 1 > i
    BY <2>2, <2>3, TailOf
  <2>5. QED
    BY <2>4
<1>2. ASSUME NEW c \in Conns, Announced(c), Head(mailbox) # HandshakedPeer(c)
      PROVE  Announced(c)'
  <2>1. PICK i \in DOMAIN mailbox : mailbox[i] = HandshakedPeer(c)
    BY <1>2 DEF Announced
  <2>2. i - 1 \in DOMAIN Tail(mailbox) /\ Tail(mailbox)[i - 1] = mailbox[i]
    BY <1>2, <2>1, TailOf
  <2>3. QED
    BY <2>1, <2>2 DEF Announced
<1>3. ASSUME NEW c \in Conns, life[c] = "live", Head(mailbox) = DisconnectedPeer(AddressOf[c])
      PROVE  Announced(c)'
  <2>1. 1 \in DOMAIN mailbox /\ mailbox[1] = DisconnectedPeer(AddressOf[c])
    BY <1>3, TailOf
  <2>2. Announced(c)
    BY <1>3, <2>1 DEF HandshakeFollows, Announced
  <2>3. Head(mailbox) # HandshakedPeer(c)
    BY <1>3, MessagesDiffer
  <2>4. QED
    BY <1>2, <2>2, <2>3
<1>4. QED
  BY <1>1, <1>2, <1>3

-----------------------------------------------------------------------------
(* One lemma per action                                                    *)

\* HandshakedPeer and OtherNodeSyncingStatus: the head of the mailbox updates a status.
LEMMA StepUpdatesStatus ==
    ASSUME IInv, HandleHandshakedPeer \/ ProcessSyncStatus
    PROVE  IInv'
<1> DEFINE m == Head(mailbox)
           st == IF m.kind = "HandshakedPeer" THEN "Unknown" ELSE m.status
<1> USE DEF IInv
<1>1. /\ mailbox # <<>> /\ mailbox' = Tail(mailbox) /\ sent' = {}
      /\ UNCHANGED <<historyReader, life>>
      /\ m.kind \in {"HandshakedPeer", "OtherNodeSyncingStatus"}
      /\ UpdateStatus(m.conn, st)
  BY DEF HandleHandshakedPeer, ProcessSyncStatus, Handles
<1>2. m \in Message /\ Tail(mailbox) \in Seq(Message)
  BY <1>1, TailOf DEF EnvTypeOK
<1>3. m.conn \in Conns /\ st \in Statuses
  BY <1>1, <1>2, MessageFields DEF Statuses
<1>4. TrackerInv' /\ Tracked(statuses)' = Tracked(statuses) \cup {AddressOf[m.conn]}
  BY <1>1, <1>3, UpdateStatusKeeps
<1>5. EnvTypeOK' /\ OneLivePerAddress'
  BY <1>1, <1>2 DEF EnvTypeOK, OneLivePerAddress
<1>6. HandshakeFollows'
  BY <1>1, TailKeepsOrder
<1>7. LiveIsTracked'
  <2> SUFFICES ASSUME NEW c \in Conns, life[c] = "live"
               PROVE  Announced(c)' \/ AddressOf[c] \in Tracked(statuses)'
    BY <1>1 DEF LiveIsTracked
  <2>1. CASE m = HandshakedPeer(c)
    BY <1>4, <2>1, MessagesDiffer
  <2>2. CASE m # HandshakedPeer(c)
    BY <1>1, <1>4, <2>2, TailKeepsOrder DEF LiveIsTracked
  <2>3. QED
    BY <2>1, <2>2
<1>8. QED
  BY <1>4, <1>5, <1>6, <1>7

\* DisconnectedPeer: whoever is connected again is still to be announced.
LEMMA StepDisconnectedPeer ==
    ASSUME IInv, HandleDisconnectedPeer
    PROVE  IInv'
<1> DEFINE m == Head(mailbox)
<1> USE DEF IInv
<1>1. /\ mailbox # <<>> /\ mailbox' = Tail(mailbox) /\ sent' = {}
      /\ UNCHANGED <<historyReader, life>>
      /\ m.kind = "DisconnectedPeer"
      /\ ClearStatus(m.address)
  BY DEF HandleDisconnectedPeer, Handles
<1>2. m \in Message /\ Tail(mailbox) \in Seq(Message)
  BY <1>1, TailOf DEF EnvTypeOK
<1>3. m.address \in Addresses /\ m = DisconnectedPeer(m.address)
  BY <1>1, <1>2, MessageFields
<1>4. TrackerInv' /\ Tracked(statuses)' = Tracked(statuses) \ {m.address}
  BY <1>1, <1>3, ClearStatusKeeps
<1>5. EnvTypeOK' /\ OneLivePerAddress'
  BY <1>1, <1>2 DEF EnvTypeOK, OneLivePerAddress
<1>6. HandshakeFollows'
  BY <1>1, TailKeepsOrder
<1>7. LiveIsTracked'
  <2> SUFFICES ASSUME NEW c \in Conns, life[c] = "live"
               PROVE  Announced(c)' \/ AddressOf[c] \in Tracked(statuses)'
    BY <1>1 DEF LiveIsTracked
  <2>1. CASE AddressOf[c] = m.address
    BY <1>1, <1>3, <2>1, TailKeepsOrder
  <2>2. CASE AddressOf[c] # m.address
    <3>1. m # HandshakedPeer(c)
      BY <1>1, MessagesDiffer
    <3>2. QED
      BY <1>1, <1>4, <2>2, <3>1, TailKeepsOrder DEF LiveIsTracked
  <2>3. QED
    BY <2>1, <2>2
<1>8. QED
  BY <1>4, <1>5, <1>6, <1>7

\* A SyncInfo is taken out; its comparison, if there is one, is put in at the back.
LEMMA StepProcessSync ==
    ASSUME IInv, ProcessSync
    PROVE  IInv'
<1> DEFINE m == Head(mailbox)
<1> USE DEF IInv
<1>1. /\ mailbox # <<>> /\ sent' = {} /\ m.kind = "SyncInfo"
      /\ UNCHANGED <<historyReader, life>> /\ UNCHANGED trackerVars
  BY DEF ProcessSync, Handles
<1>2. m \in Message /\ Tail(mailbox) \in Seq(Message)
  BY <1>1, TailOf DEF EnvTypeOK
<1>3. \/ mailbox' = Tail(mailbox)
      \/ \E st \in Comparisons : mailbox' = Append(Tail(mailbox), OtherNodeSyncingStatus(m.conn, st))
  BY DEF ProcessSync
<1>4. \A i \in DOMAIN Tail(mailbox) : i \in DOMAIN mailbox' /\ mailbox'[i] = Tail(mailbox)[i]
  BY <1>1, <1>2, <1>3, AppendOf, MessageFields, MessagesHaveTheirType
<1>5. \A i \in DOMAIN mailbox' :
         \/ i \in DOMAIN Tail(mailbox) /\ mailbox'[i] = Tail(mailbox)[i]
         \/ mailbox'[i].kind = "OtherNodeSyncingStatus"
  BY <1>1, <1>2, <1>3, AppendOf, MessageFields, MessagesHaveTheirType, MessagesDiffer
<1>6. mailbox' \in Seq(Message)
  BY <1>1, <1>2, <1>3, AppendOf, MessageFields, MessagesHaveTheirType
<1>7. HandshakeFollows'
  <2> SUFFICES ASSUME NEW c \in Conns, NEW i \in DOMAIN mailbox', life[c] = "live",
                      mailbox'[i] = DisconnectedPeer(AddressOf[c])
               PROVE  \E j \in DOMAIN mailbox' : j > i /\ mailbox'[j] = HandshakedPeer(c)
    BY <1>1 DEF HandshakeFollows
  <2>1. i \in DOMAIN Tail(mailbox) /\ Tail(mailbox)[i] = DisconnectedPeer(AddressOf[c])
    BY <1>5, MessagesDiffer
  <2>2. i + 1 \in DOMAIN mailbox /\ mailbox[i + 1] = DisconnectedPeer(AddressOf[c])
    BY <1>1, <2>1, TailOf DEF EnvTypeOK
  <2>3. PICK j \in DOMAIN mailbox : j > i + 1 /\ mailbox[j] = HandshakedPeer(c)
    BY <2>2 DEF HandshakeFollows
  <2>4. i \in Int /\ i >= 1
    BY <1>2, <2>1
  <2>5. j - 1 \in DOMAIN Tail(mailbox) /\ Tail(mailbox)[j - 1] = HandshakedPeer(c) /\ j - 1 > i
    BY <1>1, <2>3, <2>4, TailOf DEF EnvTypeOK
  <2>6. QED
    BY <1>4, <2>5
<1>8. LiveIsTracked'
  <2> SUFFICES ASSUME NEW c \in Conns, life[c] = "live", Announced(c)
               PROVE  Announced(c)'
    BY <1>1 DEF LiveIsTracked, trackerVars
  <2>1. PICK i \in DOMAIN mailbox : mailbox[i] = HandshakedPeer(c)
    BY DEF Announced
  <2>2. i # 1
    BY <1>1, <2>1, TailOf, MessagesDiffer DEF EnvTypeOK
  <2>3. i - 1 \in DOMAIN Tail(mailbox) /\ Tail(mailbox)[i - 1] = HandshakedPeer(c)
    BY <1>1, <2>1, <2>2, TailOf DEF EnvTypeOK
  <2>4. QED
    BY <1>4, <2>3 DEF Announced
<1>9. TrackerInv'
  BY <1>1 DEF trackerVars, TrackerInv, TrackerTypeOK, KeysFit, SeniorsAreAnnounced
<1>10. EnvTypeOK' /\ OneLivePerAddress'
  BY <1>1, <1>6 DEF EnvTypeOK, OneLivePerAddress
<1>11. QED
  BY <1>7, <1>8, <1>9, <1>10

\* SendLocalSyncInfo and Tick change the times only, of peers that are tracked.
LEMMA StepChangesTimes ==
    ASSUME IInv, SendLocalSyncInfo \/ Tick
    PROVE  IInv'
<1> USE DEF IInv, TrackerInv
<1>1. /\ UNCHANGED <<statuses, stableSyncRegime, neighbour, schedule, historyReader, mailbox, life>>
  BY DEF SendLocalSyncInfo, Tick
<1>2. /\ lastSyncSentTime' \in [Addresses -> TimeEntry \cup {None}]
      /\ Tracked(lastSyncSentTime') = Tracked(lastSyncSentTime)
      /\ \A a \in Tracked(lastSyncSentTime') : AddressOf[lastSyncSentTime'[a].conn] = a
      /\ sent' \subseteq Conns
  <2>1. CASE SendLocalSyncInfo
    <3>1. PICK S \in PeersToSyncWith :
             sent' = S /\ lastSyncSentTime' = UpdateLastSyncSentTime(lastSyncSentTime, S)
      BY <2>1 DEF SendLocalSyncInfo
    <3>2. S \subseteq Conns /\ \A c \in S : AddressOf[c] \in Tracked(lastSyncSentTime)
      BY <3>1, PeersToSyncWithAreTracked
    <3>3. Tracked(lastSyncSentTime) \cup {AddressOf[c] : c \in S} = Tracked(lastSyncSentTime)
      BY <3>2
    <3>4. QED
      BY <3>1, <3>2, <3>3, UpdateLastSyncSentTimeKeeps
  <2>2. CASE Tick
    <3>1. lastSyncSentTime' = [a \in Addresses |-> Older(lastSyncSentTime[a])] /\ sent' = {}
      BY <2>2 DEF Tick
    <3>2. ASSUME NEW e \in TimeEntry
          PROVE  Older(e) \in TimeEntry /\ Older(e) # None /\ Older(e).conn = e.conn
      BY SyncAssumption, AgesAreNumbers DEF Older, TimeEntry
    <3>3. Older(None) = None
      BY DEF Older
    <3>4. QED
      BY <3>1, <3>2, <3>3, SyncAssumption DEF TrackerTypeOK, Tracked, KeysFit
  <2>3. QED
    BY <2>1, <2>2
<1>3. TrackerInv'
  BY <1>1, <1>2 DEF TrackerTypeOK, KeysFit, SeniorsAreAnnounced
<1>4. QED
  BY <1>1, <1>2, <1>3 DEF EnvTypeOK, OneLivePerAddress, HandshakeFollows, LiveIsTracked, Announced

\* A connection begins: its announcement is the last message.
LEMMA StepConnect ==
    ASSUME IInv, NEW c \in Conns, Connect(c)
    PROVE  IInv'
<1> USE DEF IInv
<1>1. /\ mailbox' = Append(mailbox, HandshakedPeer(c)) /\ sent' = {}
      /\ life' = [life EXCEPT ![c] = "live"]
      /\ UNCHANGED <<trackerVars, historyReader>>
      /\ \A d \in Conns : AddressOf[d] = AddressOf[c] => life[d] # "live"
  BY DEF Connect, FromController
<1>2. /\ mailbox' \in Seq(Message)
      /\ \A i \in DOMAIN mailbox : i \in DOMAIN mailbox' /\ mailbox'[i] = mailbox[i]
      /\ \A i \in DOMAIN mailbox' :
            i \in DOMAIN mailbox \/ (i = Len(mailbox) + 1 /\ mailbox'[i] = HandshakedPeer(c))
      /\ Len(mailbox) + 1 \in DOMAIN mailbox' /\ mailbox'[Len(mailbox) + 1] = HandshakedPeer(c)
      /\ \A i \in DOMAIN mailbox : i \in Int /\ i < Len(mailbox) + 1
  BY <1>1, AppendOf, MessagesHaveTheirType DEF EnvTypeOK
<1>3. \A d \in Conns : life'[d] = "live" <=> d = c \/ life[d] = "live"
  BY <1>1 DEF EnvTypeOK
<1>4. HandshakeFollows'
  <2> SUFFICES ASSUME NEW d \in Conns, NEW i \in DOMAIN mailbox', life'[d] = "live",
                      mailbox'[i] = DisconnectedPeer(AddressOf[d])
               PROVE  \E j \in DOMAIN mailbox' : j > i /\ mailbox'[j] = HandshakedPeer(d)
    BY DEF HandshakeFollows
  <2>1. i \in DOMAIN mailbox
    BY <1>2, MessagesDiffer
  <2>2. CASE d = c
    BY <1>2, <2>1, <2>2
  <2>3. CASE d # c
    BY <1>2, <1>3, <2>1, <2>3 DEF HandshakeFollows
  <2>4. QED
    BY <2>2, <2>3
<1>5. LiveIsTracked'
  BY <1>1, <1>2, <1>3 DEF LiveIsTracked, Announced, trackerVars
<1>6. EnvTypeOK' /\ OneLivePerAddress'
  BY <1>1, <1>2, <1>3 DEF EnvTypeOK, OneLivePerAddress
<1>7. TrackerInv'
  BY <1>1 DEF trackerVars, TrackerInv, TrackerTypeOK, KeysFit, SeniorsAreAnnounced
<1>8. QED
  BY <1>4, <1>5, <1>6, <1>7

\* A connection ends: nobody else is connected from its address.
LEMMA StepDisconnect ==
    ASSUME IInv, NEW c \in Conns, Disconnect(c)
    PROVE  IInv'
<1> USE DEF IInv
<1>1. /\ mailbox' = Append(mailbox, DisconnectedPeer(AddressOf[c])) /\ sent' = {}
      /\ life[c] = "live" /\ life' = [life EXCEPT ![c] = "closed"]
      /\ UNCHANGED <<trackerVars, historyReader>>
  BY DEF Disconnect, FromController
<1>2. /\ mailbox' \in Seq(Message)
      /\ \A i \in DOMAIN mailbox : i \in DOMAIN mailbox' /\ mailbox'[i] = mailbox[i]
      /\ \A i \in DOMAIN mailbox' :
            i \in DOMAIN mailbox \/ mailbox'[i] = DisconnectedPeer(AddressOf[c])
  BY <1>1, AppendOf, MessagesHaveTheirType DEF EnvTypeOK
<1>3. \A d \in Conns : life'[d] = "live" <=> d # c /\ life[d] = "live"
  BY <1>1 DEF EnvTypeOK
<1>4. \A d \in Conns : life'[d] = "live" => AddressOf[d] # AddressOf[c]
  BY <1>1, <1>3 DEF OneLivePerAddress
<1>5. HandshakeFollows'
  <2> SUFFICES ASSUME NEW d \in Conns, NEW i \in DOMAIN mailbox', life'[d] = "live",
                      mailbox'[i] = DisconnectedPeer(AddressOf[d])
               PROVE  \E j \in DOMAIN mailbox' : j > i /\ mailbox'[j] = HandshakedPeer(d)
    BY DEF HandshakeFollows
  <2>1. i \in DOMAIN mailbox
    BY <1>2, <1>4, MessagesDiffer
  <2>2. QED
    BY <1>2, <1>3, <2>1 DEF HandshakeFollows
<1>6. LiveIsTracked'
  BY <1>1, <1>2, <1>3 DEF LiveIsTracked, Announced, trackerVars
<1>7. EnvTypeOK' /\ OneLivePerAddress'
  BY <1>1, <1>2, <1>3 DEF EnvTypeOK, OneLivePerAddress
<1>8. TrackerInv'
  BY <1>1 DEF trackerVars, TrackerInv, TrackerTypeOK, KeysFit, SeniorsAreAnnounced
<1>9. QED
  BY <1>5, <1>6, <1>7, <1>8

\* A SyncInfo is put into the mailbox.
LEMMA StepForwardSyncInfo ==
    ASSUME IInv, NEW c \in Conns, ForwardSyncInfo(c)
    PROVE  IInv'
<1> USE DEF IInv
<1>1. /\ mailbox' = Append(mailbox, SyncInfo(c)) /\ sent' = {}
      /\ UNCHANGED <<trackerVars, historyReader, life>>
  BY DEF ForwardSyncInfo, FromController
<1>2. SyncInfo(c) \in Message /\ SyncInfo(c).kind = "SyncInfo"
  BY MessagesHaveTheirType, MessagesDiffer
<1>3. HandshakeFollows' /\ \A d \in Conns : Announced(d) => Announced(d)'
  BY <1>1, <1>2, AppendKeepsOrder
<1>4. EnvTypeOK' /\ OneLivePerAddress'
  BY <1>1, <1>2, AppendOf DEF EnvTypeOK, OneLivePerAddress
<1>5. LiveIsTracked'
  BY <1>1, <1>3 DEF LiveIsTracked, trackerVars
<1>6. TrackerInv'
  BY <1>1 DEF trackerVars, TrackerInv, TrackerTypeOK, KeysFit, SeniorsAreAnnounced
<1>7. QED
  BY <1>3, <1>4, <1>5, <1>6

-----------------------------------------------------------------------------
(* The invariant                                                           *)

\* The inductive invariant holds in every state: the conjuncts about connections and
\* the order of their announcements are what makes a tracked peer stay tracked.
THEOREM SyncInvariant == Spec => []IInv
<1>1. Init => IInv
  <2> SUFFICES ASSUME Init PROVE IInv
    OBVIOUS
  <2> USE DEF Init
  <2>1. Tracked(statuses) = {} /\ Tracked(lastSyncSentTime) = {}
    BY DEF Tracked
  <2>2. TrackerInv
    BY <2>1 DEF TrackerInv, TrackerTypeOK, KeysFit, SeniorsAreAnnounced, Seniors, WithStatus
  <2>3. EnvTypeOK
    <3>1. <<>> \in Seq(Message)
      OBVIOUS
    <3>2. QED
      BY <3>1 DEF EnvTypeOK
  <2>4. \A c \in Conns : life[c] # "live"
    OBVIOUS
  <2>5. QED
    BY <2>2, <2>3, <2>4 DEF IInv, OneLivePerAddress, HandshakeFollows, LiveIsTracked
<1>2. IInv /\ [Next]_vars => IInv'
  <2> SUFFICES ASSUME IInv, [Next]_vars PROVE IInv'
    OBVIOUS
  <2>1. CASE SendLocalSyncInfo \/ Tick
    BY <2>1, StepChangesTimes
  <2>2. CASE Handle
    BY <2>2, StepUpdatesStatus, StepDisconnectedPeer, StepProcessSync DEF Handle
  <2>3. CASE \E c \in Conns : Connect(c) \/ Disconnect(c) \/ ForwardSyncInfo(c)
    BY <2>3, StepConnect, StepDisconnect, StepForwardSyncInfo
  <2>4. CASE ChangedHistory
    BY <2>4 DEF ChangedHistory, trackerVars, IInv, TrackerInv, TrackerTypeOK, KeysFit, SeniorsAreAnnounced,
                EnvTypeOK, OneLivePerAddress, HandshakeFollows, LiveIsTracked, Announced
  <2>5. CASE ScheduleStarts
    BY <2>5 DEF ScheduleStarts, IInv, TrackerInv, TrackerTypeOK, KeysFit, SeniorsAreAnnounced,
                EnvTypeOK, OneLivePerAddress, HandshakeFollows, LiveIsTracked, Announced
  <2>6. CASE UNCHANGED vars
    BY <2>6 DEF vars, trackerVars, IInv, TrackerInv, TrackerTypeOK, KeysFit, SeniorsAreAnnounced,
                EnvTypeOK, OneLivePerAddress, HandshakeFollows, LiveIsTracked, Announced
  <2>7. QED
    BY <2>1, <2>2, <2>3, <2>4, <2>5, <2>6 DEF Next
<1>3. QED
  BY <1>1, <1>2, PTL DEF Spec

\* The maps of the SyncTracker, the mailbox and the connections have their types.
THEOREM SyncTypeCorrect == Spec => []SyncTypeOK
<1>1. IInv => SyncTypeOK
  BY DEF IInv, TrackerInv, TrackerTypeOK, EnvTypeOK, SyncTypeOK
<1>2. QED
  BY <1>1, SyncInvariant, PTL

\* Whatever order disconnections, handshakes and late messages come in, a connected
\* peer whose handshake was handled is tracked, in both maps of the SyncTracker.
THEOREM ConnectedAlwaysTracked == Spec => []ConnectedIsTracked
<1>1. IInv => ConnectedIsTracked
  BY DEF IInv, TrackerInv, LiveIsTracked, Announced, ConnectedIsTracked
<1>2. QED
  BY <1>1, SyncInvariant, PTL

\* updateStatus does not announce the end of synchronization while a senior is left.
THEOREM SeniorsAlwaysAnnounced == Spec => []SeniorsAreAnnounced
<1>1. IInv => SeniorsAreAnnounced
  BY DEF IInv, TrackerInv
<1>2. QED
  BY <1>1, SyncInvariant, PTL

=============================================================================
