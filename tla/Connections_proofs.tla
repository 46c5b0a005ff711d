------------------------ MODULE Connections_proofs ------------------------
(***************************************************************************)
(* Proofs about Connections, for every network of nodes and addresses,     *)
(* every set of handlers and every setting of the limits.                  *)
(***************************************************************************)
EXTENDS Connections, FiniteSetTheorems, SequenceTheorems, TLAPS

-----------------------------------------------------------------------------
(* The messages between the controller and the PeerManager                 *)

\* Messages about an incoming connection that has no handler yet.
ConfirmTypes == {"ConfirmConnection", "ConnectionConfirmed", "ConnectionDenied"}

Message == [type : ConfirmTypes, of : Handlers]
             \cup [type : {"Penalize", "DisconnectFromAddress"}, of : Addresses]

Queued(m) ==
    \/ \E i \in DOMAIN fromPeerManager : fromPeerManager[i] = m
    \/ \E i \in DOMAIN toPeerManager : toPeerManager[i] = m

\* The controller handles m before n, or the answer to it.
Precedes(m, n) ==
    \/ \E i, j \in DOMAIN fromPeerManager : i < j /\ fromPeerManager[i] = m /\ fromPeerManager[j] = n
    \/ \E i \in DOMAIN fromPeerManager, j \in DOMAIN toPeerManager :
          fromPeerManager[i] = m /\ toPeerManager[j] = n
    \/ \E i, j \in DOMAIN toPeerManager : i < j /\ toPeerManager[i] = m /\ toPeerManager[j] = n

Awaits(m) == m.type \in ConfirmTypes

-----------------------------------------------------------------------------
(* The inductive invariant                                                 *)

HandlerRecord ==
    [phase : {"free", "confirming", "handshaking", "working", "stopped"},
     address : Addresses \cup {None}, direction : {"Incoming", "Outgoing"},
     open : BOOLEAN, closing : BOOLEAN, reported : BOOLEAN]

\* A handler reports a handshake once, and after that it has its peerInfo at most once.
HandlersOK ==
    /\ handler \in [Handlers -> HandlerRecord]
    /\ handshaked \subseteq Handlers
    /\ \A h \in Handlers :
          /\ handler[h].phase = "free" <=> handler[h] = NoHandler
          /\ handler[h].phase # "free" => handler[h].address \in Addresses
          /\ handler[h].reported => handler[h].phase \in {"working", "stopped"}
          /\ h \in handshaked => handler[h].phase \in {"working", "stopped"} /\ ~handler[h].reported

MapOK ==
    /\ connections \in [Addresses -> Handlers \cup {None}]
    /\ \A a \in Addresses : connections[a] # None =>
          /\ handler[connections[a]].address = a
          /\ handler[connections[a]].phase \in {"handshaking", "working", "stopped"}
    /\ IsFiniteSet(Connected)

\* What is dialled is not connected.
DialingOK ==
    /\ unconfirmed \subseteq Listening /\ dialing \subseteq unconfirmed
    /\ dialing \cap Connected = {}

MailOK ==
    /\ toPeerManager \in Seq(Message) /\ fromPeerManager \in Seq(Message)
    /\ blacklist \subseteq Nodes

\* A handler that awaits a confirmation is not in use, and called from a source.
WaitingOK ==
    \A m \in Message : Queued(m) /\ Awaits(m) =>
        handler[m.of].phase = "confirming" /\ handler[m.of].address \in Sources

\* Of two connections from one source that await confirmation, the first is closed.
InOrder ==
    \A m, n \in Message : Precedes(m, n) /\ Awaits(m) /\ Awaits(n) =>
        /\ m.of # n.of
        /\ handler[m.of].address = handler[n.of].address => ~handler[m.of].open

\* The handler will neither report a handshake nor count as connected.
Dead(h) == ~handler[h].open /\ ~handler[h].reported /\ h \notin handshaked

\* The entry that a confirmation replaces is dead.
OvertakenIsDead ==
    \A m \in Message : Queued(m) /\ Awaits(m) /\ connections[handler[m.of].address] # None
        => Dead(connections[handler[m.of].address])

\* Connections that the controller keeps, by their addresses.
Kept == {a \in Connected : connections[a] \in handshaked}

\* While a connection of a peer is kept, the address that the peer names is not used
\* for another one: connectionForPeerAddress would find the first.
NamedAddressIsFree ==
    \A a \in Kept :
        /\ Owner[a] # Self
        /\ LET named == GetPeerAddress(Owner[a])
           IN  SpecAddress(Owner[a]) = named /\ named \in Connected => a = named

\* Two connections that are kept are of different peers, or of one that names no address
\* or two.
KeptAreApart ==
    \A a, b \in Kept :
        /\ Owner[a] = Owner[b]
        /\ GetPeerAddress(Owner[a]) # None /\ SpecAddress(Owner[a]) = GetPeerAddress(Owner[a])
        => a = b

IInv ==
    /\ HandlersOK /\ MapOK /\ DialingOK /\ MailOK
    /\ WaitingOK /\ InOrder /\ OvertakenIsDead
    /\ NoHandlerIsForgotten
    /\ announced = Kept
    /\ HandshakedFitIn
    /\ NamedAddressIsFree /\ KeptAreApart

-----------------------------------------------------------------------------
(* What the steps do to the two queues                                     *)

\* What the assumptions say of the addresses and limits, in the form the proofs use.
LEMMA ConstantsOK ==
    /\ \A a \in Addresses : Owner[a] \in Nodes
    /\ \A n \in Nodes : GetPeerAddress(n) \in Listening \cup {None}
    /\ \A n \in Nodes : SpecAddress(n) \in Listening \cup {None}
    /\ None \notin Addresses /\ None \notin Handlers
    /\ Listening \cap Sources = {}
    /\ MaxIncoming \in Nat /\ MaxOutgoing \in Nat
BY ConnectionsAssumption DEF GetPeerAddress, SpecAddress, Addresses

\* Queues that do not change.
LEMMA SameQueues ==
    ASSUME UNCHANGED <<toPeerManager, fromPeerManager>>
    PROVE  /\ \A m \in Message : Queued(m)' <=> Queued(m)
           /\ \A m, n \in Message : Precedes(m, n)' <=> Precedes(m, n)
BY DEF Queued, Precedes

\* The controller writes to the PeerManager.
LEMMA Sent ==
    ASSUME MailOK, NEW x \in Message, toPeerManager' = Append(toPeerManager, x),
           UNCHANGED fromPeerManager
    PROVE  /\ toPeerManager' \in Seq(Message)
           /\ \A m \in Message : Queued(m)' => Queued(m) \/ m = x
           /\ \A m, n \in Message : Precedes(m, n)' => Precedes(m, n) \/ (Queued(m) /\ n = x)
<1>1. /\ toPeerManager' \in Seq(Message)
      /\ Len(toPeerManager') = Len(toPeerManager) + 1 /\ Len(toPeerManager) \in Nat
      /\ DOMAIN toPeerManager = 1..Len(toPeerManager)
      /\ DOMAIN toPeerManager' = 1..Len(toPeerManager')
      /\ \A i \in 1..Len(toPeerManager) : toPeerManager'[i] = toPeerManager[i]
      /\ toPeerManager'[Len(toPeerManager) + 1] = x
  BY DEF MailOK
<1>2. \A i \in DOMAIN toPeerManager' :
        \/ i \in DOMAIN toPeerManager /\ toPeerManager'[i] = toPeerManager[i]
        \/ i = Len(toPeerManager) + 1 /\ toPeerManager'[i] = x
  BY <1>1
<1>3. \A m \in Message : Queued(m)' => Queued(m) \/ m = x
  BY <1>2 DEF Queued
<1>4. ASSUME NEW m \in Message, NEW n \in Message, Precedes(m, n)'
      PROVE  Precedes(m, n) \/ (Queued(m) /\ n = x)
  <2>1. CASE \E i, j \in DOMAIN fromPeerManager : i < j /\ fromPeerManager[i] = m /\ fromPeerManager[j] = n
    BY <2>1 DEF Precedes
  <2>2. CASE \E i \in DOMAIN fromPeerManager, j \in DOMAIN toPeerManager' :
                fromPeerManager[i] = m /\ toPeerManager'[j] = n
    BY <1>2, <2>2 DEF Precedes, Queued
  <2>3. CASE \E i, j \in DOMAIN toPeerManager' : i < j /\ toPeerManager'[i] = m /\ toPeerManager'[j] = n
    <3>1. PICK i \in DOMAIN toPeerManager', j \in DOMAIN toPeerManager' :
                 i < j /\ toPeerManager'[i] = m /\ toPeerManager'[j] = n
      BY <2>3
    <3>2. i \in DOMAIN toPeerManager /\ toPeerManager[i] = m
      BY <3>1, <1>1
    <3>. QED  BY <3>1, <3>2, <1>2 DEF Precedes, Queued
  <2>. QED  BY <1>4, <2>1, <2>2, <2>3 DEF Precedes
<1>. QED  BY <1>1, <1>3, <1>4

\* The first of a queue, and the rest of it.
LEMMA HeadAndTail ==
    ASSUME NEW q \in Seq(Message), q # <<>>
    PROVE  /\ Head(q) \in Message /\ Tail(q) \in Seq(Message)
           /\ 1 \in DOMAIN q /\ q[1] = Head(q)
           /\ \A i \in DOMAIN Tail(q) :
                 i \in Nat /\ i + 1 \in DOMAIN q /\ Tail(q)[i] = q[i + 1] /\ 1 < i + 1
<1>1. Len(q) \in Nat \ {0} /\ DOMAIN q = 1..Len(q)
  BY EmptySeq
<1>2. /\ Head(q) = q[1] /\ Tail(q) \in Seq(Message) /\ Len(Tail(q)) = Len(q) - 1
      /\ \A i \in 1..Len(Tail(q)) : Tail(q)[i] = q[i + 1]
  BY <1>1, HeadTailProperties
<1>3. DOMAIN Tail(q) = 1..Len(Tail(q))
  BY <1>2
<1>. QED  BY <1>1, <1>2, <1>3, ElementOfSeq

\* The controller takes a message of the PeerManager.
LEMMA Received ==
    ASSUME MailOK, fromPeerManager # <<>>, fromPeerManager' = Tail(fromPeerManager),
           UNCHANGED toPeerManager
    PROVE  /\ Head(fromPeerManager) \in Message
           /\ fromPeerManager' \in Seq(Message)
           /\ Queued(Head(fromPeerManager))
           /\ \A m \in Message : Queued(m)' => Queued(m) /\ Precedes(Head(fromPeerManager), m)
           /\ \A m, n \in Message : Precedes(m, n)' => Precedes(m, n)
<1>1. /\ Head(fromPeerManager) \in Message /\ fromPeerManager' \in Seq(Message)
      /\ 1 \in DOMAIN fromPeerManager /\ fromPeerManager[1] = Head(fromPeerManager)
      /\ \A i \in DOMAIN fromPeerManager' :
            /\ i \in Nat /\ i + 1 \in DOMAIN fromPeerManager /\ 1 < i + 1
            /\ fromPeerManager'[i] = fromPeerManager[i + 1]
  BY HeadAndTail DEF MailOK
<1>2. Queued(Head(fromPeerManager))
  BY <1>1 DEF Queued
<1>3. \A m \in Message : Queued(m)' => Queued(m) /\ Precedes(Head(fromPeerManager), m)
  BY <1>1 DEF Queued, Precedes
<1>4. ASSUME NEW m \in Message, NEW n \in Message, Precedes(m, n)'
      PROVE  Precedes(m, n)
  <2>1. CASE \E i, j \in DOMAIN fromPeerManager' :
                i < j /\ fromPeerManager'[i] = m /\ fromPeerManager'[j] = n
    <3>1. PICK i \in DOMAIN fromPeerManager', j \in DOMAIN fromPeerManager' :
                 i < j /\ fromPeerManager'[i] = m /\ fromPeerManager'[j] = n
      BY <2>1
    <3>2. /\ i + 1 \in DOMAIN fromPeerManager /\ j + 1 \in DOMAIN fromPeerManager
          /\ fromPeerManager[i + 1] = m /\ fromPeerManager[j + 1] = n /\ i + 1 < j + 1
      BY <3>1, <1>1
    <3>. QED  BY <3>2 DEF Precedes
  <2>2. CASE \E i \in DOMAIN fromPeerManager', j \in DOMAIN toPeerManager :
                fromPeerManager'[i] = m /\ toPeerManager[j] = n
    BY <2>2, <1>1 DEF Precedes
  <2>3. CASE \E i, j \in DOMAIN toPeerManager : i < j /\ toPeerManager[i] = m /\ toPeerManager[j] = n
    BY <2>3 DEF Precedes
  <2>. QED  BY <1>4, <2>1, <2>2, <2>3 DEF Precedes
<1>. QED  BY <1>1, <1>2, <1>3, <1>4

\* The PeerManager takes a message, and answers with x or not at all.
LEMMA Taken ==
    ASSUME MailOK, toPeerManager # <<>>, toPeerManager' = Tail(toPeerManager), NEW x \in Message,
           fromPeerManager' = Append(fromPeerManager, x) \/ UNCHANGED fromPeerManager
    PROVE  /\ Head(toPeerManager) \in Message
           /\ toPeerManager' \in Seq(Message) /\ fromPeerManager' \in Seq(Message)
           /\ Queued(Head(toPeerManager))
           /\ \A m \in Message : Queued(m)' => Queued(m) \/ m = x
           /\ \A m, n \in Message : Precedes(m, n)' =>
                 \/ Precedes(m, n)
                 \/ n = x /\ Precedes(m, Head(toPeerManager))
                 \/ m = x /\ Precedes(Head(toPeerManager), n)
<1>1. /\ Head(toPeerManager) \in Message /\ toPeerManager' \in Seq(Message)
      /\ 1 \in DOMAIN toPeerManager /\ toPeerManager[1] = Head(toPeerManager)
      /\ \A i \in DOMAIN toPeerManager' :
            /\ i \in Nat /\ i + 1 \in DOMAIN toPeerManager /\ 1 < i + 1
            /\ toPeerManager'[i] = toPeerManager[i + 1]
  BY HeadAndTail DEF MailOK
<1>2. fromPeerManager' \in Seq(Message)
  <2>1. fromPeerManager \in Seq(Message) /\ Append(fromPeerManager, x) \in Seq(Message)
    BY AppendProperties DEF MailOK
  <2>. QED  BY <2>1, Zenon
<1>3. \A i \in DOMAIN fromPeerManager' :
        \/ i \in DOMAIN fromPeerManager /\ fromPeerManager'[i] = fromPeerManager[i]
        \/ fromPeerManager'[i] = x /\ \A j \in DOMAIN fromPeerManager' : ~(i < j)
  BY DEF MailOK
<1>4. Queued(Head(toPeerManager))
  BY <1>1 DEF Queued
<1>5. \A m \in Message : Queued(m)' => Queued(m) \/ m = x
  BY <1>1, <1>3 DEF Queued
<1>6. ASSUME NEW m \in Message, NEW n \in Message, Precedes(m, n)'
      PROVE  \/ Precedes(m, n)
             \/ n = x /\ Precedes(m, Head(toPeerManager))
             \/ m = x /\ Precedes(Head(toPeerManager), n)
  <2>1. CASE \E i, j \in DOMAIN fromPeerManager' :
                i < j /\ fromPeerManager'[i] = m /\ fromPeerManager'[j] = n
    <3>1. PICK i \in DOMAIN fromPeerManager', j \in DOMAIN fromPeerManager' :
                 i < j /\ fromPeerManager'[i] = m /\ fromPeerManager'[j] = n
      BY <2>1
    <3>2. i \in DOMAIN fromPeerManager /\ fromPeerManager[i] = m
      BY <3>1, <1>3
    <3>. QED  BY <3>1, <3>2, <1>1, <1>3 DEF Precedes
  <2>2. CASE \E i \in DOMAIN fromPeerManager', j \in DOMAIN toPeerManager' :
                fromPeerManager'[i] = m /\ toPeerManager'[j] = n
    <3>1. PICK i \in DOMAIN fromPeerManager', j \in DOMAIN toPeerManager' :
                 fromPeerManager'[i] = m /\ toPeerManager'[j] = n
      BY <2>2
    <3>. QED  BY <3>1, <1>1, <1>3 DEF Precedes
  <2>3. CASE \E i, j \in DOMAIN toPeerManager' : i < j /\ toPeerManager'[i] = m /\ toPeerManager'[j] = n
    <3>1. PICK i \in DOMAIN toPeerManager', j \in DOMAIN toPeerManager' :
                 i < j /\ toPeerManager'[i] = m /\ toPeerManager'[j] = n
      BY <2>3
    <3>2. /\ i + 1 \in DOMAIN toPeerManager /\ j + 1 \in DOMAIN toPeerManager
          /\ toPeerManager[i + 1] = m /\ toPeerManager[j + 1] = n /\ i + 1 < j + 1
      BY <3>1, <1>1
    <3>. QED  BY <3>2 DEF Precedes
  <2>. QED  BY <1>6, <2>1, <2>2, <2>3 DEF Precedes
<1>. QED  BY <1>1, <1>2, <1>4, <1>5, <1>6

-----------------------------------------------------------------------------
(* Fewer connections are kept                                              *)

KeptOnly(a) == a \in Kept /\ connections'[a] = connections[a]
                          /\ handler'[connections[a]].direction = handler[connections[a]].direction

\* The limits hold when no connection is newly kept.
LEMMA FitInShrinks ==
    ASSUME IsFiniteSet(Connected), HandshakedFitIn, \A a \in Kept' : KeptOnly(a)
    PROVE  HandshakedFitIn'
<1>1. \A d : HandshakedWith(d)' \ ForgerConnections' \subseteq HandshakedWith(d) \ ForgerConnections
  BY DEF HandshakedWith, ForgerConnections, Kept, KeptOnly, Connected
<1>2. ASSUME NEW d
      PROVE  /\ Cardinality(HandshakedWith(d)' \ ForgerConnections')
                  <= Cardinality(HandshakedWith(d) \ ForgerConnections)
             /\ Cardinality(HandshakedWith(d)' \ ForgerConnections') \in Nat
             /\ Cardinality(HandshakedWith(d) \ ForgerConnections) \in Nat
  <2>1. HandshakedWith(d) \ ForgerConnections \subseteq Connected
    BY DEF HandshakedWith
  <2>2. IsFiniteSet(HandshakedWith(d) \ ForgerConnections)
    BY <2>1, FS_Subset
  <2>. QED  BY <1>1, <2>2, FS_Subset, FS_CardinalityType
<1>3. Cardinality(HandshakedWith("Incoming")' \ ForgerConnections') <= MaxIncoming
  BY <1>2, ConstantsOK DEF HandshakedFitIn
<1>4. Cardinality(HandshakedWith("Outgoing")' \ ForgerConnections') <= MaxOutgoing
  BY <1>2, ConstantsOK DEF HandshakedFitIn
<1>. QED  BY <1>3, <1>4 DEF HandshakedFitIn

\* Nothing that is kept is newly disturbed.
LEMMA ApartShrinks ==
    ASSUME NamedAddressIsFree, KeptAreApart, Kept' \subseteq Kept, Connected' \subseteq Connected
    PROVE  NamedAddressIsFree' /\ KeptAreApart'
BY DEF NamedAddressIsFree, KeptAreApart, SpecAddress, GetPeerAddress

-----------------------------------------------------------------------------
(* A handler moves on, and perhaps out of the map                          *)

\* What handler h does on its own: it goes from one phase to the next, its TCP
\* connection may close, and it reports a handshake while the connection is open.
MovesOn(h) ==
    /\ handler' \in [Handlers -> HandlerRecord]
    /\ \A g \in Handlers \ {h} : handler'[g] = handler[g]
    /\ handler[h].phase # "free" /\ handler'[h].phase # "free"
    /\ handler'[h].address = handler[h].address /\ handler'[h].direction = handler[h].direction
    /\ handler'[h].phase = "confirming" <=> handler[h].phase = "confirming"
    /\ handler'[h].open => handler[h].open
    /\ handler'[h].reported =>
          /\ handler'[h].phase \in {"working", "stopped"} /\ h \notin handshaked
          /\ handler[h].reported \/ handler[h].open
    /\ h \in handshaked => handler'[h].phase \in {"working", "stopped"}

\* The entry of h goes, if h is told to close.
LeavesMap(h) ==
    /\ connections' \in [Addresses -> Handlers \cup {None}]
    /\ \A a \in Addresses :
          \/ connections'[a] = connections[a]
          \/ connections[a] = h /\ connections'[a] = None
    /\ handler'[h].phase \in {"handshaking", "working"} /\ handler'[h].open =>
          \/ handler'[h].closing
          \/ /\ connections' = connections
             /\ handler[h].phase \in {"handshaking", "working"} /\ handler[h].open
             /\ handler[h].closing => handler'[h].closing

\* No message arrives in the queues, and the order of those that stay is kept.
QueuesShrink ==
    /\ \A m \in Message : Queued(m)' => Queued(m)
    /\ \A m, n \in Message : Precedes(m, n)' => Precedes(m, n)

\* The record of a free handler says nothing.
LEMMA FreeIsNoHandler ==
    ASSUME HandlersOK, NEW h \in Handlers, handler[h] = NoHandler
    PROVE  /\ handler[h].phase = "free" /\ handler[h].address = None /\ ~handler[h].open
           /\ ~handler[h].reported /\ h \notin handshaked
BY DEF HandlersOK, NoHandler

\* A handler moves on in its life, its entry stays or leaves the map, and no message is
\* added: all parts but those about announcements and mail are kept.
LEMMA HandlerStep ==
    ASSUME IInv, NEW h \in Handlers, MovesOn(h), LeavesMap(h), QueuesShrink,
           UNCHANGED <<handshaked, unconfirmed, dialing>>
    PROVE  /\ HandlersOK' /\ MapOK' /\ DialingOK'
           /\ WaitingOK' /\ InOrder' /\ OvertakenIsDead'
           /\ NoHandlerIsForgotten' /\ HandshakedFitIn' /\ NamedAddressIsFree' /\ KeptAreApart'
<1>. USE DEF IInv
<1>0. \A m \in Message : Awaits(m) => m.of \in Handlers
  BY DEF Message, Awaits, ConfirmTypes
<1>1. HandlersOK'
  <2>1. handler'[h] # NoHandler
    BY DEF MovesOn, NoHandler
  <2>. QED  BY <2>1 DEF HandlersOK, MovesOn
<1>2. Connected' \subseteq Connected
  BY ConstantsOK DEF LeavesMap, Connected
<1>3. \A a \in Connected' : connections'[a] = connections[a] /\ connections[a] \in Handlers
  BY ConstantsOK DEF LeavesMap, Connected, MapOK
<1>4. MapOK'
  <2>1. IsFiniteSet(Connected')
    BY <1>2, FS_Subset DEF MapOK
  <2>2. \A a \in Connected' :
            /\ handler'[connections'[a]].address = a
            /\ handler'[connections'[a]].phase \in {"handshaking", "working", "stopped"}
    <3>1. ASSUME NEW a \in Connected'
          PROVE  /\ handler'[connections'[a]].address = a
                 /\ handler'[connections'[a]].phase \in {"handshaking", "working", "stopped"}
      <4>1. /\ connections'[a] \in Handlers /\ handler[connections'[a]].address = a
            /\ handler[connections'[a]].phase \in {"handshaking", "working", "stopped"}
        BY <1>2, <1>3 DEF MapOK, Connected
      <4>2. CASE connections'[a] = h
        <5>1. handler'[h] \in HandlerRecord
          BY DEF MovesOn
        <5>. QED  BY <4>1, <4>2, <5>1 DEF MovesOn, HandlerRecord
      <4>3. CASE connections'[a] # h
        BY <4>1, <4>3 DEF MovesOn
      <4>. QED  BY <4>2, <4>3
    <3>. QED  BY <3>1
  <2>. QED  BY <2>1, <2>2 DEF MapOK, LeavesMap, Connected
<1>5. DialingOK'
  BY <1>2 DEF DialingOK
<1>6. \A g \in Handlers : handler'[g].address = handler[g].address
                          /\ handler'[g].direction = handler[g].direction
                          /\ (handler'[g].open => handler[g].open)
                          /\ (handler[g].phase = "confirming" => handler'[g].phase = "confirming")
  BY DEF MovesOn
<1>7. WaitingOK'
  BY <1>0, <1>6 DEF WaitingOK, QueuesShrink
<1>8. InOrder'
  <2>. SUFFICES ASSUME NEW m \in Message, NEW n \in Message, Precedes(m, n), Awaits(m), Awaits(n)
                PROVE  /\ m.of # n.of
                       /\ handler'[m.of].address = handler'[n.of].address => ~handler'[m.of].open
    BY DEF InOrder, QueuesShrink, Awaits
  <2>. QED  BY <1>0, <1>6 DEF InOrder
<1>9. \A g \in Handlers : Dead(g) => Dead(g)'
  BY DEF Dead, MovesOn
<1>10. OvertakenIsDead'
  <2>. SUFFICES ASSUME NEW m \in Message, Queued(m), Awaits(m),
                       (connections[handler[m.of].address] # None)'
                PROVE  Dead(connections[handler[m.of].address])'
    BY DEF OvertakenIsDead, QueuesShrink, Awaits, Dead
  <2>1. m.of \in Handlers /\ handler[m.of].address \in Addresses
    BY <1>0, Zenon DEF WaitingOK, Addresses
  <2>2. handler'[m.of].address \in Connected' /\ handler'[m.of].address = handler[m.of].address
    BY <2>1, <1>6 DEF Connected
  <2>3. connections'[handler'[m.of].address] = connections[handler[m.of].address]
    BY <2>2, <1>3
  <2>4. connections[handler[m.of].address] \in Handlers /\ Dead(connections[handler[m.of].address])
    BY <2>2, <2>3, <1>3 DEF OvertakenIsDead
  <2>. QED  BY <2>3, <2>4, <1>9 DEF Dead
<1>11. NoHandlerIsForgotten'
  <2>. SUFFICES ASSUME NEW g \in Handlers, handler'[g].phase \in {"handshaking", "working"},
                       handler'[g].open
                PROVE  handler'[g].closing \/ connections'[handler'[g].address] = g
    BY DEF NoHandlerIsForgotten
  <2>1. CASE g = h
    BY <2>1 DEF LeavesMap, NoHandlerIsForgotten, MovesOn
  <2>2. CASE g # h
    <3>1. handler'[g] = handler[g]
      BY <2>2 DEF MovesOn
    <3>2. handler[g].address \in Addresses
      BY <3>1 DEF HandlersOK
    <3>. QED  BY <2>2, <3>1, <3>2 DEF NoHandlerIsForgotten, LeavesMap
  <2>. QED  BY <2>1, <2>2
<1>12. \A a \in Kept' : KeptOnly(a)
  BY <1>2, <1>3, <1>6 DEF Kept, KeptOnly, Connected
<1>13. HandshakedFitIn'
  BY <1>12, FitInShrinks DEF MapOK
<1>14. NamedAddressIsFree' /\ KeptAreApart'
  BY <1>2, <1>12, ApartShrinks DEF KeptOnly
<1>. QED  BY <1>1, <1>4, <1>5, <1>7, <1>8, <1>10, <1>11, <1>13, <1>14

\* The same when the controller's tables do not change at all.
LEMMA QuietStep ==
    ASSUME IInv, NEW h \in Handlers, MovesOn(h), LeavesMap(h), HandlerOnly
    PROVE  IInv'
<1>1. QueuesShrink
  BY SameQueues DEF HandlerOnly, mail, QueuesShrink
<1>2. MailOK' /\ announced' = Kept'
  BY DEF HandlerOnly, mail, MailOK, IInv, Kept, Connected
<1>. QED  BY <1>1, <1>2, HandlerStep DEF IInv, HandlerOnly

\* The map does not change, and a handler that may be told to close is told so.
LEMMA StaysInMap ==
    ASSUME IInv, NEW h \in Handlers, UNCHANGED connections,
           handler'[h].phase \in {"handshaking", "working"} /\ handler'[h].open =>
              \/ handler'[h].closing
              \/ /\ handler[h].phase \in {"handshaking", "working"} /\ handler[h].open
                 /\ ~handler[h].closing
    PROVE  LeavesMap(h)
BY DEF IInv, MapOK, LeavesMap

\* The handler gets the peer's handshake and reports it.
LEMMA ReceiveHandshakeStep ==
    ASSUME IInv, NEW h \in Handlers, ReceiveHandshake(h)
    PROVE  IInv'
<1>1. handler[h] \in HandlerRecord /\ handler \in [Handlers -> HandlerRecord]
  BY DEF IInv, HandlersOK
<1>2. handler' = [handler EXCEPT ![h] = [handler[h] EXCEPT !.phase = "working", !.reported = TRUE]]
  BY <1>1 DEF ReceiveHandshake
<1>3. h \notin handshaked
  BY DEF IInv, HandlersOK, ReceiveHandshake
<1>4. MovesOn(h)
  BY <1>1, <1>2, <1>3 DEF ReceiveHandshake, MovesOn, HandlerRecord
<1>5. LeavesMap(h)
  BY <1>1, <1>2, StaysInMap DEF ReceiveHandshake, HandlerRecord, HandlerOnly
<1>. QED  BY <1>4, <1>5, QuietStep DEF ReceiveHandshake

\* Being told to close is a step of a handler.
LEMMA ToldToCloseMoves ==
    ASSUME IInv, NEW h \in Handlers, handler' = ToldToClose(h), handler[h].phase # "free"
    PROVE  /\ MovesOn(h)
           /\ handler'[h].open => handler'[h].closing
<1>1. handler[h] \in HandlerRecord /\ handler \in [Handlers -> HandlerRecord]
  BY DEF IInv, HandlersOK
<1>2. handler' = [handler EXCEPT ![h] = [handler[h] EXCEPT !.closing = handler[h].open]]
  BY <1>1 DEF ToldToClose
<1>. QED  BY <1>1, <1>2 DEF IInv, HandlersOK, MovesOn, HandlerRecord

\* The handshake timer fires, and the handler closes.
LEMMA HandshakeTimeoutStep ==
    ASSUME IInv, NEW h \in Handlers, HandshakeTimeout(h)
    PROVE  IInv'
<1>1. MovesOn(h) /\ (handler'[h].open => handler'[h].closing)
  BY ToldToCloseMoves DEF HandshakeTimeout
<1>2. LeavesMap(h)
  BY <1>1, StaysInMap DEF HandshakeTimeout, HandlerOnly
<1>. QED  BY <1>1, <1>2, QuietStep DEF HandshakeTimeout

\* The node asks the controller to close a connection.
LEMMA DisconnectFromStep ==
    ASSUME IInv, NEW a \in Addresses, DisconnectFrom(a)
    PROVE  IInv'
<1>1. connections[a] \in Handlers /\ handler[connections[a]].phase # "free"
  BY DEF IInv, MapOK, DisconnectFrom, Connected
<1>2. MovesOn(connections[a]) /\ (handler'[connections[a]].open => handler'[connections[a]].closing)
  BY <1>1, ToldToCloseMoves DEF DisconnectFrom
<1>3. LeavesMap(connections[a])
  BY <1>1, <1>2, StaysInMap DEF DisconnectFrom
<1>. QED  BY <1>1, <1>2, <1>3, QuietStep DEF DisconnectFrom, HandlerOnly

\* The handler aborts its connection, or the peer closes it.
LEMMA ClosedStep ==
    ASSUME IInv, NEW h \in Handlers, Abort(h) \/ TcpClosed(h)
    PROVE  IInv'
<1>1. handler[h] \in HandlerRecord /\ handler \in [Handlers -> HandlerRecord]
  BY DEF IInv, HandlersOK
<1>2. handler' = [handler EXCEPT ![h] = [handler[h] EXCEPT !.open = FALSE, !.closing = FALSE]]
  BY <1>1 DEF Abort, TcpClosed
<1>3. handler[h].phase # "free"
  BY FreeIsNoHandler DEF IInv, HandlersOK, Abort, TcpClosed
<1>4. MovesOn(h)
  BY <1>1, <1>2, <1>3 DEF IInv, HandlersOK, MovesOn, HandlerRecord
<1>5. LeavesMap(h)
  BY <1>1, <1>2, StaysInMap DEF Abort, TcpClosed, HandlerRecord, HandlerOnly
<1>. QED  BY <1>4, <1>5, QuietStep DEF Abort, TcpClosed

\* The handler learns that its connection is closed.
LEMMA ConnectionClosedStep ==
    ASSUME IInv, NEW h \in Handlers, ConnectionClosed(h)
    PROVE  IInv'
<1>1. handler[h] \in HandlerRecord /\ handler \in [Handlers -> HandlerRecord]
  BY DEF IInv, HandlersOK
<1>2. handler' = [handler EXCEPT ![h] = [handler[h] EXCEPT !.phase = "stopped"]]
  BY <1>1 DEF ConnectionClosed
<1>3. handler[h].reported => h \notin handshaked
  BY DEF IInv, HandlersOK
<1>4. MovesOn(h)
  BY <1>1, <1>2, <1>3 DEF ConnectionClosed, MovesOn, HandlerRecord
<1>5. LeavesMap(h)
  BY <1>1, <1>2, StaysInMap DEF ConnectionClosed, HandlerRecord, HandlerOnly
<1>. QED  BY <1>4, <1>5, QuietStep DEF ConnectionClosed

-----------------------------------------------------------------------------
(* Handlers and connections stay as they are                               *)

\* Handlers, map and announcements stay: only the parts about mail and dialing are to
\* be shown.
LEMMA NothingMoves ==
    ASSUME IInv, UNCHANGED <<handler, connections, handshaked, announced>>,
           DialingOK', MailOK', WaitingOK', InOrder', OvertakenIsDead'
    PROVE  IInv'
<1>1. HandlersOK' /\ MapOK' /\ NoHandlerIsForgotten' /\ announced' = Kept'
  BY DEF IInv, HandlersOK, MapOK, NoHandlerIsForgotten, Kept, Connected
<1>2. Kept' = Kept /\ Connected' = Connected /\ \A b \in Kept' : KeptOnly(b)
  BY DEF Kept, KeptOnly, Connected
<1>3. HandshakedFitIn'
  BY <1>2, FitInShrinks DEF IInv, MapOK
<1>4. NamedAddressIsFree' /\ KeptAreApart'
  BY <1>2, ApartShrinks DEF IInv
<1>. QED  BY <1>1, <1>3, <1>4 DEF IInv

\* When messages are only taken out, those parts hold too.
LEMMA OnlyMailShrinks ==
    ASSUME IInv, UNCHANGED <<handler, connections, handshaked, announced>>,
           QueuesShrink, MailOK', DialingOK'
    PROVE  IInv'
<1>1. WaitingOK' /\ InOrder' /\ OvertakenIsDead'
  BY DEF IInv, WaitingOK, InOrder, OvertakenIsDead, QueuesShrink, Dead, Awaits
<1>. QED  BY <1>1, NothingMoves

\* Only dialing and unconfirmedConnections change.
LEMMA DialingStep ==
    ASSUME IInv, DialingOK', UNCHANGED <<connections, handshaked, handler, mail, announced>>
    PROVE  IInv'
<1>1. QueuesShrink /\ MailOK'
  BY SameQueues DEF mail, QueuesShrink, IInv, MailOK
<1>. QED  BY <1>1, OnlyMailShrinks

\* The controller dials an address.
LEMMA ConnectToStep ==
    ASSUME IInv, NEW n \in Nodes, ConnectTo(n)
    PROVE  IInv'
<1>1. /\ GetPeerAddress(n) \in Listening /\ GetPeerAddress(n) \notin Connected
      /\ Connected' = Connected
  BY ConstantsOK DEF ConnectTo, ConnectionForPeerAddress, Connected
<1>2. DialingOK'
  BY <1>1 DEF IInv, DialingOK, ConnectTo
<1>. QED  BY <1>2, DialingStep DEF ConnectTo

\* Dialing fails.
LEMMA ConnectFailedStep ==
    ASSUME IInv, NEW a \in Addresses, ConnectFailed(a)
    PROVE  IInv'
<1>1. DialingOK'
  BY DEF IInv, DialingOK, ConnectFailed, Connected
<1>. QED  BY <1>1, DialingStep DEF ConnectFailed

\* A connection comes up and is refused.
LEMMA ConnectedRefusedStep ==
    ASSUME IInv, NEW a \in Addresses, ConnectedRefused(a)
    PROVE  IInv'
<1>1. DialingOK'
  BY DEF IInv, DialingOK, ConnectedRefused, TcpConnected, Connected
<1>. QED  BY <1>1, DialingStep DEF ConnectedRefused

\* A ban ends.
LEMMA RemoveFromBlacklistStep ==
    ASSUME IInv, NEW n \in Nodes, RemoveFromBlacklist(n)
    PROVE  IInv'
<1>1. QueuesShrink /\ MailOK' /\ DialingOK'
  BY SameQueues DEF RemoveFromBlacklist, QueuesShrink, IInv, MailOK, DialingOK, Connected
<1>. QED  BY <1>1, OnlyMailShrinks DEF RemoveFromBlacklist

\* A PenalizePeer is sent to the PeerManager.
LEMMA PenalizePeerStep ==
    ASSUME IInv, NEW a \in Addresses, PenalizePeer(a)
    PROVE  IInv'
<1> DEFINE x == [type |-> "Penalize", of |-> a]
<1>1. x \in Message /\ ~Awaits(x)
  BY DEF Message, Awaits, ConfirmTypes
<1>2. /\ toPeerManager' \in Seq(Message)
      /\ \A m \in Message : Queued(m)' => Queued(m) \/ m = x
      /\ \A m, n \in Message : Precedes(m, n)' => Precedes(m, n) \/ (Queued(m) /\ n = x)
  BY <1>1, Sent DEF IInv, PenalizePeer
<1>3. MailOK' /\ DialingOK'
  BY <1>2 DEF IInv, MailOK, DialingOK, PenalizePeer, Connected
<1> HIDE DEF x
<1>4. UNCHANGED <<handler, connections, handshaked, announced>>
  BY DEF PenalizePeer
<1>5. WaitingOK'
  BY <1>1, <1>2, <1>4 DEF IInv, WaitingOK, Awaits
<1>6. InOrder'
  BY <1>1, <1>2, <1>4 DEF IInv, InOrder, Awaits
<1>7. OvertakenIsDead'
  BY <1>1, <1>2, <1>4 DEF IInv, OvertakenIsDead, Awaits, Dead
<1>. QED  BY <1>3, <1>4, <1>5, <1>6, <1>7, NothingMoves

\* The PeerManager's answer x takes the place of the message it took: it is about the
\* same handler, or about no connection that waits.
LEMMA PeerManagerStep ==
    ASSUME IInv, NEW type, PeerManagerMail(type), blacklist' \subseteq Nodes, NEW x \in Message,
           Awaits(x) => Awaits(Head(toPeerManager)) /\ x.of = Head(toPeerManager).of,
           fromPeerManager' = Append(fromPeerManager, x) \/ UNCHANGED fromPeerManager
    PROVE  IInv'
<1> DEFINE y == Head(toPeerManager)
<1>1. /\ y \in Message /\ toPeerManager' \in Seq(Message) /\ fromPeerManager' \in Seq(Message)
      /\ Queued(y)
      /\ \A m \in Message : Queued(m)' => Queued(m) \/ m = x
      /\ \A m, n \in Message : Precedes(m, n)' =>
            Precedes(m, n) \/ (n = x /\ Precedes(m, y)) \/ (m = x /\ Precedes(y, n))
  BY Taken DEF IInv, PeerManagerMail
<1>2. Awaits(x) => Awaits(y) /\ x.of = y.of
  OBVIOUS
<1> HIDE DEF y
<1>3. MailOK' /\ DialingOK'
  BY <1>1 DEF IInv, MailOK, DialingOK, PeerManagerMail, Connected
<1>4. UNCHANGED <<handler, connections, handshaked, announced>>
  BY DEF PeerManagerMail
<1>5. WaitingOK'
  BY <1>1, <1>2, <1>4 DEF IInv, WaitingOK, Awaits
<1>6. InOrder'
  <2>. SUFFICES ASSUME NEW m \in Message, NEW n \in Message, Precedes(m, n)', Awaits(m), Awaits(n)
                PROVE  /\ m.of # n.of
                       /\ handler[m.of].address = handler[n.of].address => ~handler[m.of].open
    BY <1>4 DEF InOrder, Awaits
  <2>1. PICK k \in Message, l \in Message :
           Precedes(k, l) /\ Awaits(k) /\ Awaits(l) /\ k.of = m.of /\ l.of = n.of
    BY <1>1, <1>2
  <2>. QED  BY <2>1 DEF IInv, InOrder
<1>7. OvertakenIsDead'
  BY <1>1, <1>2, <1>4 DEF IInv, OvertakenIsDead, Awaits, Dead
<1>. QED  BY <1>3, <1>4, <1>5, <1>6, <1>7, NothingMoves

\* The PeerManager answers a ConfirmConnection; the request leaves one queue and its
\* answer enters the other.
LEMMA ConfirmConnectionStep ==
    ASSUME IInv, ConfirmConnection
    PROVE  IInv'
<1> DEFINE y == Head(toPeerManager)
           x == [type |-> IF Owner[handler[y.of].address] \in blacklist THEN "ConnectionDenied"
                                                                        ELSE "ConnectionConfirmed",
                 of |-> y.of]
<1>1. y \in Message /\ y.type = "ConfirmConnection"
  BY HeadAndTail DEF IInv, MailOK, ConfirmConnection, PeerManagerMail
<1>2. y.of \in Handlers
  BY <1>1 DEF Message, ConfirmTypes
<1>3. x \in Message /\ Awaits(y) /\ x.of = y.of
  BY <1>1, <1>2 DEF Message, ConfirmTypes, Awaits
<1>4. fromPeerManager' = Append(fromPeerManager, x) /\ blacklist' = blacklist
  BY DEF ConfirmConnection
<1>5. PeerManagerMail("ConfirmConnection") /\ blacklist' \subseteq Nodes
  BY <1>4 DEF ConfirmConnection, IInv, MailOK
<1> HIDE DEF x
<1>. QED  BY <1>3, <1>4, <1>5, PeerManagerStep

\* The PeerManager penalizes a peer, and a ban asks the controller to disconnect it.
LEMMA PenalizeStep ==
    ASSUME IInv, Penalize
    PROVE  IInv'
<1> DEFINE x == [type |-> "DisconnectFromAddress", of |-> Head(toPeerManager).of]
<1>1. Head(toPeerManager) \in Message /\ Head(toPeerManager).type = "Penalize"
  BY HeadAndTail DEF IInv, MailOK, Penalize, PeerManagerMail
<1>2. Head(toPeerManager).of \in Addresses
  BY <1>1 DEF Message, ConfirmTypes
<1>3. x \in Message /\ ~Awaits(x)
  BY <1>2 DEF Message, ConfirmTypes, Awaits
<1>4. fromPeerManager' = Append(fromPeerManager, x) \/ UNCHANGED fromPeerManager
  BY DEF Penalize
<1>5. PeerManagerMail("Penalize") /\ blacklist' \subseteq Nodes
  BY <1>2, ConstantsOK DEF Penalize, IInv, MailOK
<1> HIDE DEF x
<1>. QED  BY <1>3, <1>4, <1>5, PeerManagerStep

-----------------------------------------------------------------------------
(* The controller closes a connection                                      *)

\* The entry of h, which is told to close, goes.
LEMMA LeavesMapToClose ==
    ASSUME IInv, NEW a \in Connected, NEW h, connections[a] = h,
           connections' = [connections EXCEPT ![a] = None],
           handler'[h].open => handler'[h].closing
    PROVE  /\ h \in Handlers /\ LeavesMap(h)
           /\ (UNCHANGED handshaked) => Kept' = Kept \ {a}
BY ConstantsOK DEF IInv, MapOK, LeavesMap, Connected, Kept

\* closeConnection takes an entry out of the map and tells its handler to close.
LEMMA CloseConnectionStep ==
    ASSUME IInv, NEW a \in Addresses, CloseConnection(a), QueuesShrink, MailOK',
           UNCHANGED <<handshaked, unconfirmed, dialing>>
    PROVE  IInv'
<1>1. CASE a \in Connected
  <2>1. connections[a] \in Handlers /\ handler[connections[a]].phase # "free"
    BY <1>1 DEF IInv, MapOK, Connected
  <2>2. /\ MovesOn(connections[a])
        /\ handler'[connections[a]].open => handler'[connections[a]].closing
    BY <1>1, <2>1, ToldToCloseMoves DEF CloseConnection
  <2>3. LeavesMap(connections[a]) /\ Kept' = Kept \ {a}
    BY <1>1, <2>2, LeavesMapToClose DEF CloseConnection
  <2>4. announced' = Kept'
    BY <1>1, <2>3 DEF IInv, CloseConnection
  <2>. QED  BY <2>1, <2>2, <2>3, <2>4, HandlerStep DEF IInv
<1>2. CASE a \notin Connected
  <2>1. UNCHANGED <<handler, connections, announced>>
    BY <1>2 DEF CloseConnection
  <2>. QED  BY <2>1, OnlyMailShrinks DEF IInv, DialingOK, Connected
<1>. QED  BY <1>1, <1>2

\* DisconnectFromNode, through closeConnection.
LEMMA DisconnectFromNodeStep ==
    ASSUME IInv, NEW a \in Addresses, DisconnectFromNode(a)
    PROVE  IInv'
<1>1. QueuesShrink /\ MailOK'
  BY SameQueues DEF DisconnectFromNode, mail, QueuesShrink, IInv, MailOK
<1>. QED  BY <1>1, CloseConnectionStep DEF DisconnectFromNode

\* The controller takes an answer: the queues get shorter.
LEMMA AnswerShrinks ==
    ASSUME IInv, NEW type, Answer(type)
    PROVE  /\ Head(fromPeerManager) \in Message /\ Queued(Head(fromPeerManager))
           /\ MailOK' /\ QueuesShrink
           /\ \A m \in Message : Queued(m)' => Precedes(Head(fromPeerManager), m)
<1>1. MailOK /\ fromPeerManager # <<>> /\ fromPeerManager' = Tail(fromPeerManager)
      /\ UNCHANGED <<toPeerManager, blacklist>>
  BY DEF IInv, Answer
<1>. QED  BY <1>1, Received DEF MailOK, QueuesShrink

\* DisconnectFromAddress of the PeerManager, through closeConnection.
LEMMA DisconnectFromAddressStep ==
    ASSUME IInv, DisconnectFromAddress
    PROVE  IInv'
<1>1. /\ Head(fromPeerManager) \in Message /\ MailOK' /\ QueuesShrink
  BY AnswerShrinks DEF DisconnectFromAddress
<1>2. Head(fromPeerManager).of \in Addresses
  BY <1>1 DEF DisconnectFromAddress, Answer, Message, ConfirmTypes
<1>. QED  BY <1>1, <1>2, CloseConnectionStep DEF DisconnectFromAddress, Answer

-----------------------------------------------------------------------------
(* A handler is gone                                                       *)

\* A handler is gone: its entry, its handshake and every message that waits for it go
\* with it.
LEMMA HandlerGone ==
    ASSUME IInv, NEW h \in Handlers,
           handler' = [handler EXCEPT ![h] = NoHandler], handshaked' = handshaked \ {h},
           connections' \in [Addresses -> Handlers \cup {None}],
           \A a \in Addresses : /\ connections[a] = h => connections'[a] = None
                                /\ connections[a] # h => connections'[a] = connections[a],
           QueuesShrink, \A m \in Message : Queued(m)' /\ Awaits(m) => m.of # h,
           MailOK', DialingOK', announced' = Kept'
    PROVE  IInv'
<1>1. HandlersOK'
  <2>1. NoHandler \in HandlerRecord /\ NoHandler.phase = "free" /\ ~NoHandler.reported
    BY DEF NoHandler, HandlerRecord
  <2>. QED  BY <2>1 DEF IInv, HandlersOK
<1>2. /\ Connected' \subseteq Connected
      /\ \A a \in Connected' :
            /\ connections'[a] = connections[a] /\ connections[a] \in Handlers \ {h}
            /\ handler'[connections[a]] = handler[connections[a]]
  BY ConstantsOK DEF IInv, MapOK, HandlersOK, Connected
<1>3. MapOK'
  <2>1. IsFiniteSet(Connected')
    BY <1>2, FS_Subset DEF IInv, MapOK
  <2>. QED  BY <1>2, <2>1 DEF IInv, MapOK, Connected
<1>4. \A m \in Message : Queued(m)' /\ Awaits(m) =>
          /\ m.of \in Handlers /\ handler'[m.of] = handler[m.of]
          /\ handler[m.of].phase = "confirming" /\ handler[m.of].address \in Sources
  <2>1. \A m \in Message : Awaits(m) => m.of \in Handlers
    BY DEF Message, Awaits, ConfirmTypes
  <2>. QED  BY <2>1 DEF IInv, WaitingOK, QueuesShrink, HandlersOK
<1>5. WaitingOK'
  BY <1>4 DEF WaitingOK, Awaits
<1>6. \A m, n \in Message : Precedes(m, n)' => Queued(m)' /\ Queued(n)'
  BY DEF Precedes, Queued
<1>7. InOrder'
  BY <1>4, <1>6 DEF IInv, InOrder, QueuesShrink, Awaits
<1>8. OvertakenIsDead'
  <2>. SUFFICES ASSUME NEW m \in Message, Queued(m)', Awaits(m),
                       (connections[handler[m.of].address] # None)'
                PROVE  Dead(connections[handler[m.of].address])'
    BY DEF OvertakenIsDead, Awaits
  <2>1. handler'[m.of].address = handler[m.of].address /\ handler[m.of].address \in Connected'
    BY <1>4 DEF Connected, Addresses
  <2>2. Dead(connections[handler[m.of].address]) /\ connections[handler[m.of].address] \in Handlers
    BY <1>2, <2>1 DEF IInv, OvertakenIsDead, QueuesShrink, Connected
  <2>. QED  BY <1>2, <2>1, <2>2 DEF Dead
<1>9. NoHandlerIsForgotten'
  <2>. SUFFICES ASSUME NEW g \in Handlers, handler'[g].phase \in {"handshaking", "working"},
                       handler'[g].open
                PROVE  handler'[g].closing \/ connections'[handler'[g].address] = g
    BY DEF NoHandlerIsForgotten
  <2>1. g # h /\ handler'[g] = handler[g]
    BY DEF IInv, HandlersOK, NoHandler
  <2>2. handler[g].address \in Addresses
    BY <2>1 DEF IInv, HandlersOK
  <2>. QED  BY <2>1, <2>2 DEF IInv, NoHandlerIsForgotten
<1>10. \A a \in Kept' : KeptOnly(a)
  BY <1>2 DEF Kept, KeptOnly
<1>11. HandshakedFitIn'
  BY <1>10, FitInShrinks DEF IInv, MapOK
<1>12. NamedAddressIsFree' /\ KeptAreApart'
  BY <1>2, <1>10, ApartShrinks DEF IInv, KeptOnly
<1>. QED  BY <1>1, <1>3, <1>5, <1>7, <1>8, <1>9, <1>11, <1>12 DEF IInv

\* The controller handles Terminated.
LEMMA TerminatedStep ==
    ASSUME IInv, NEW h \in Handlers, Terminated(h)
    PROVE  IInv'
<1> DEFINE a == handler[h].address
<1>1. a \in Addresses /\ handler[h].phase = "stopped"
  BY DEF IInv, HandlersOK, Terminated
<1>2. \A b \in Addresses : connections[b] = h => b = a
  BY ConstantsOK DEF IInv, MapOK
<1>3. /\ handler' = [handler EXCEPT ![h] = NoHandler] /\ handshaked' = handshaked \ {h}
      /\ UNCHANGED <<dialing, toPeerManager, fromPeerManager, blacklist>>
  BY DEF Terminated, mail
<1>4. CASE connections[a] = h
  <2>1. /\ connections' = [connections EXCEPT ![a] = None]
        /\ unconfirmed' = unconfirmed \ {a} /\ announced' = announced \ {a}
    BY <1>4 DEF Terminated
  <2>2. /\ connections' \in [Addresses -> Handlers \cup {None}]
        /\ \A b \in Addresses : /\ connections[b] = h => connections'[b] = None
                                /\ connections[b] # h => connections'[b] = connections[b]
    BY <1>1, <1>2, <1>4, <2>1 DEF IInv, MapOK
  <2>3. a \in Connected /\ Connected' = Connected \ {a}
    BY <1>1, <1>4, <2>1, <2>2, ConstantsOK DEF Connected
  <2>4. DialingOK'
    BY <1>3, <2>1, <2>3 DEF IInv, DialingOK
  <2>5. announced' = Kept'
    <3>1. Kept' = Kept \ {a}
      BY <1>2, <1>3, <2>2, <2>3 DEF Kept, Connected
    <3>. QED  BY <2>1, <3>1 DEF IInv
  <2>6. QueuesShrink /\ MailOK'
    BY <1>3, SameQueues DEF QueuesShrink, IInv, MailOK
  <2>7. \A m \in Message : Queued(m)' /\ Awaits(m) => m.of # h
    BY <1>1, <2>6 DEF QueuesShrink, IInv, WaitingOK
  <2>. QED  BY <1>3, <2>2, <2>4, <2>5, <2>6, <2>7, HandlerGone
<1>5. CASE connections[a] # h
  <2>1. UNCHANGED <<connections, unconfirmed, announced>>
    BY <1>5 DEF Terminated
  <2>2. /\ connections' \in [Addresses -> Handlers \cup {None}]
        /\ \A b \in Addresses : connections[b] # h /\ connections'[b] = connections[b]
    BY <1>1, <1>2, <1>5, <2>1 DEF IInv, MapOK
  <2>3. DialingOK'
    BY <1>3, <2>1 DEF IInv, DialingOK, Connected
  <2>4. announced' = Kept'
    BY <1>3, <2>1, <2>2 DEF IInv, Kept, Connected
  <2>5. QueuesShrink /\ MailOK'
    BY <1>3, SameQueues DEF QueuesShrink, IInv, MailOK
  <2>6. \A m \in Message : Queued(m)' /\ Awaits(m) => m.of # h
    BY <1>1, <2>5 DEF QueuesShrink, IInv, WaitingOK
  <2>. QED  BY <1>3, <2>2, <2>3, <2>4, <2>5, <2>6, HandlerGone
<1>. QED  BY <1>4, <1>5

\* A connection that was not confirmed is given up.
LEMMA ConnectionDeniedStep ==
    ASSUME IInv, ConnectionDenied
    PROVE  IInv'
<1> DEFINE x == Head(fromPeerManager)
           h == x.of
<1>1. /\ x \in Message /\ Queued(x) /\ MailOK' /\ QueuesShrink
      /\ \A m \in Message : Queued(m)' => Precedes(x, m)
  BY AnswerShrinks DEF ConnectionDenied
<1>2. Awaits(x) /\ h \in Handlers
  BY <1>1 DEF ConnectionDenied, Answer, Message, Awaits, ConfirmTypes
<1>3. /\ handler' = [handler EXCEPT ![h] = NoHandler]
      /\ UNCHANGED <<connections, handshaked, unconfirmed, dialing, announced>>
  BY DEF ConnectionDenied, Answer
<1> HIDE DEF x
<1>4. handler[h].phase = "confirming"
  BY <1>1, <1>2 DEF IInv, WaitingOK
<1>5. h \notin handshaked /\ \A a \in Addresses : connections[a] # h
  BY <1>2, <1>4, ConstantsOK DEF IInv, HandlersOK, MapOK
<1>6. \A m \in Message : Queued(m)' /\ Awaits(m) => m.of # h
  BY <1>1, <1>2 DEF IInv, InOrder
<1>7. DialingOK' /\ announced' = Kept' /\ handshaked' = handshaked \ {h}
  BY <1>3, <1>5 DEF IInv, DialingOK, Kept, Connected
<1>8. connections' \in [Addresses -> Handlers \cup {None}]
  BY <1>3 DEF IInv, MapOK
<1>. QED  BY <1>1, <1>2, <1>3, <1>5, <1>6, <1>7, <1>8, HandlerGone

-----------------------------------------------------------------------------
(* A handler enters the map                                                *)

\* A handler gets an entry in the map: the old one of that address was of a dead
\* handler, and no peer is found under it.
LEMMA EntryMade ==
    ASSUME IInv, NEW h \in Handlers, NEW a \in Addresses, h \notin handshaked,
           connections' = [connections EXCEPT ![a] = h],
           connections[a] # None => Dead(connections[a]),
           \A b \in Addresses : connections[b] # h,
           handler' \in [Handlers -> HandlerRecord],
           \A g \in Handlers \ {h} : handler'[g] = handler[g],
           handler'[h].phase = "handshaking", handler'[h].address = a, ~handler'[h].reported,
           QueuesShrink,
           \A m \in Message : Queued(m)' /\ Awaits(m) =>
               m.of # h /\ (handler[m.of].address = a => ~handler'[h].open),
           a \in Sources \/ ConnectionForPeerAddress(a) = {},
           MailOK', DialingOK', UNCHANGED <<handshaked, announced>>
    PROVE  IInv'
<1>1. HandlersOK'
  <2>1. handler'[h] # NoHandler
    BY DEF NoHandler
  <2>. QED  BY <2>1 DEF IInv, HandlersOK
<1>2. /\ connections' \in [Addresses -> Handlers \cup {None}] /\ connections'[a] = h
      /\ \A b \in Addresses \ {a} : connections'[b] = connections[b]
  BY DEF IInv, MapOK
<1>3. Connected' = Connected \cup {a}
  BY <1>2, ConstantsOK DEF Connected
<1>4. MapOK'
  <2>1. IsFiniteSet(Connected')
    BY <1>3, FS_AddElement DEF IInv, MapOK
  <2>2. \A b \in Addresses \ {a} : connections[b] # None =>
            connections[b] \in Handlers \ {h} /\ handler'[connections[b]] = handler[connections[b]]
    BY DEF IInv, MapOK
  <2>. QED  BY <1>2, <2>1, <2>2 DEF IInv, MapOK
<1>5. \A m \in Message : Queued(m)' /\ Awaits(m) =>
          /\ m.of \in Handlers \ {h} /\ handler'[m.of] = handler[m.of]
          /\ handler[m.of].phase = "confirming" /\ handler[m.of].address \in Sources
  <2>1. \A m \in Message : Awaits(m) => m.of \in Handlers
    BY DEF Message, Awaits, ConfirmTypes
  <2>. QED  BY <2>1 DEF IInv, WaitingOK, QueuesShrink
<1>6. WaitingOK'
  BY <1>5 DEF WaitingOK, Awaits
<1>7. \A m, n \in Message : Precedes(m, n)' => Queued(m)' /\ Queued(n)'
  BY DEF Precedes, Queued
<1>8. InOrder'
  BY <1>5, <1>7 DEF IInv, InOrder, QueuesShrink, Awaits
<1>9. OvertakenIsDead'
  <2>. SUFFICES ASSUME NEW m \in Message, Queued(m)', Awaits(m),
                       (connections[handler[m.of].address] # None)'
                PROVE  Dead(connections[handler[m.of].address])'
    BY DEF OvertakenIsDead, Awaits
  <2>1. /\ handler'[m.of].address = handler[m.of].address /\ handler[m.of].address \in Addresses
        /\ handler[m.of].address = a => ~handler'[h].open
    BY <1>5 DEF Addresses
  <2>2. CASE handler[m.of].address = a
    BY <1>2, <2>1, <2>2 DEF Dead
  <2>3. CASE handler[m.of].address # a
    <3>1. connections'[handler[m.of].address] = connections[handler[m.of].address]
      BY <1>2, <2>1, <2>3
    <3>2. /\ Dead(connections[handler[m.of].address])
          /\ connections[handler[m.of].address] \in Handlers \ {h}
      BY <2>1, <3>1 DEF IInv, OvertakenIsDead, QueuesShrink, MapOK
    <3>. QED  BY <2>1, <3>1, <3>2 DEF Dead
  <2>. QED  BY <2>2, <2>3
<1>10. NoHandlerIsForgotten'
  <2>. SUFFICES ASSUME NEW g \in Handlers, handler'[g].phase \in {"handshaking", "working"},
                       handler'[g].open
                PROVE  handler'[g].closing \/ connections'[handler'[g].address] = g
    BY DEF NoHandlerIsForgotten
  <2>1. CASE g = h
    BY <1>2, <2>1
  <2>2. CASE g # h
    <3>1. handler'[g] = handler[g] /\ handler[g].address \in Addresses
      BY <2>2 DEF IInv, HandlersOK
    <3>2. connections[a] # g
      BY <3>1, ConstantsOK DEF Dead
    <3>. QED  BY <1>2, <3>1, <3>2 DEF IInv, NoHandlerIsForgotten
  <2>. QED  BY <2>1, <2>2
<1>11. a \notin Kept
  BY DEF Kept, Dead, Connected
<1>12. Kept' = Kept
  BY <1>2, <1>3, <1>11 DEF Kept, Connected
<1>13. \A b \in Kept' : KeptOnly(b)
  <2>. SUFFICES ASSUME NEW b \in Kept
                PROVE  KeptOnly(b)
    BY <1>12
  <2>1. b \in Addresses \ {a} /\ connections[b] \in Handlers \ {h}
    BY <1>11 DEF Kept, Connected, IInv, MapOK
  <2>. QED  BY <1>2, <2>1 DEF KeptOnly
<1>14. HandshakedFitIn'
  BY <1>13, FitInShrinks DEF IInv, MapOK
<1>15. KeptAreApart'
  BY <1>12 DEF IInv, KeptAreApart, SpecAddress, GetPeerAddress
<1>16. NamedAddressIsFree'
  <2>. SUFFICES ASSUME NEW b \in Kept, SpecAddress(Owner[b]) = GetPeerAddress(Owner[b]),
                       GetPeerAddress(Owner[b]) \in Connected'
                PROVE  b = GetPeerAddress(Owner[b])
    BY <1>12 DEF IInv, NamedAddressIsFree, SpecAddress, GetPeerAddress
  <2>1. GetPeerAddress(Owner[b]) \in Listening \cup {None}
    BY ConstantsOK DEF Kept, Connected
  <2>2. GetPeerAddress(Owner[b]) # a
    BY <2>1, ConstantsOK DEF ConnectionForPeerAddress, Kept
  <2>. QED  BY <1>3, <2>2 DEF IInv, NamedAddressIsFree
<1>17. announced' = Kept'
  BY <1>12 DEF IInv
<1>. QED  BY <1>1, <1>4, <1>6, <1>8, <1>9, <1>10, <1>14, <1>15, <1>16, <1>17 DEF IInv

\* The name for a new handler is not in use anywhere.
LEMMA NextHandlerIsFree ==
    ASSUME IInv, HandlersHaveRoom
    PROVE  /\ NextHandler \in Handlers /\ handler[NextHandler].phase = "free"
           /\ handler[NextHandler].address = None /\ NextHandler \notin handshaked
           /\ \A a \in Addresses : connections[a] # NextHandler
           /\ \A m \in Message : Queued(m) /\ Awaits(m) => m.of # NextHandler
<1>1. NextHandler \in Handlers /\ handler[NextHandler] = NoHandler
  BY DEF HandlersHaveRoom, NextHandler
<1> HIDE DEF NextHandler
<1>2. /\ handler[NextHandler].phase = "free" /\ handler[NextHandler].address = None
      /\ NextHandler \notin handshaked
  BY <1>1, FreeIsNoHandler DEF IInv
<1>. QED  BY <1>1, <1>2, ConstantsOK DEF IInv, MapOK, WaitingOK

\* A connection that was dialled comes up and gets its handler.
LEMMA ConnectedOutgoingStep ==
    ASSUME IInv, NEW a \in Addresses, ConnectedOutgoing(a)
    PROVE  IInv'
<1> DEFINE h == NextHandler
           r == NewHandler("handshaking", a, "Outgoing")
<1>1. /\ h \in Handlers /\ h \notin handshaked /\ \A b \in Addresses : connections[b] # h
      /\ \A m \in Message : Queued(m) /\ Awaits(m) => m.of # h
  BY NextHandlerIsFree DEF ConnectedOutgoing
<1>2. /\ r \in HandlerRecord /\ r.phase = "handshaking" /\ r.address = a /\ ~r.reported
  BY DEF NewHandler, NoHandler, HandlerRecord
<1>3. /\ handler' = [handler EXCEPT ![h] = r] /\ connections' = [connections EXCEPT ![a] = h]
      /\ unconfirmed' = unconfirmed \ {a}
      /\ UNCHANGED <<handshaked, announced, toPeerManager, fromPeerManager, blacklist>>
  BY DEF ConnectedOutgoing, mail
<1> HIDE DEF r, h
<1>4. /\ handler' \in [Handlers -> HandlerRecord] /\ handler'[h] = r
      /\ \A g \in Handlers \ {h} : handler'[g] = handler[g]
  BY <1>1, <1>2, <1>3 DEF IInv, HandlersOK
<1>5. ConnectionForPeerAddress(a) = {} /\ a \in unconfirmed
  BY DEF ConnectedOutgoing, IsNewConnectionAndStillHaveRoom, Direction
<1>6. a \notin Connected /\ connections[a] = None /\ a \in Listening /\ a \notin Sources
  BY <1>5, ConstantsOK DEF ConnectionForPeerAddress, Connected, IInv, DialingOK
<1>7. dialing' = dialing \ {a}
  BY <1>6 DEF ConnectedOutgoing, TcpConnected
<1>8. DialingOK'
  BY <1>1, <1>3, <1>7 DEF IInv, DialingOK, Connected, MapOK
<1>9. QueuesShrink /\ MailOK'
  BY <1>3, SameQueues DEF QueuesShrink, IInv, MailOK
<1>10. \A m \in Message : Queued(m)' /\ Awaits(m) => m.of # h /\ handler[m.of].address # a
  BY <1>1, <1>6, <1>9 DEF QueuesShrink, IInv, WaitingOK
<1>. QED  BY <1>1, <1>2, <1>3, <1>4, <1>5, <1>6, <1>8, <1>9, <1>10, EntryMade

\* The PeerManager has confirmed an incoming connection, which gets its handler.
LEMMA ConnectionConfirmedStep ==
    ASSUME IInv, ConnectionConfirmed
    PROVE  IInv'
<1> DEFINE x == Head(fromPeerManager)
           h == x.of
           a == handler[h].address
<1>1. /\ x \in Message /\ Queued(x) /\ MailOK' /\ QueuesShrink
      /\ \A m \in Message : Queued(m)' => Precedes(x, m)
  BY AnswerShrinks DEF ConnectionConfirmed
<1>2. Awaits(x) /\ h \in Handlers
  BY <1>1 DEF ConnectionConfirmed, Answer, Message, Awaits, ConfirmTypes
<1>3. /\ handler' = [handler EXCEPT ![h].phase = "handshaking"]
      /\ connections' = [connections EXCEPT ![a] = h] /\ unconfirmed' = unconfirmed \ {a}
      /\ UNCHANGED <<handshaked, dialing, announced>>
  BY DEF ConnectionConfirmed, Answer
<1> HIDE DEF x
<1>4. handler[h].phase = "confirming" /\ a \in Sources
  BY <1>1, <1>2 DEF IInv, WaitingOK
<1>5. /\ h \notin handshaked /\ ~handler[h].reported /\ a \in Addresses
      /\ \A b \in Addresses : connections[b] # h
  BY <1>2, <1>4, ConstantsOK DEF IInv, HandlersOK, MapOK
<1>6. connections[a] # None => Dead(connections[a])
  BY <1>1, <1>2 DEF IInv, OvertakenIsDead
<1>7. \A m \in Message : Queued(m)' /\ Awaits(m) =>
          m.of # h /\ (handler[m.of].address = a => ~handler[h].open)
  BY <1>1, <1>2 DEF IInv, InOrder
<1>8. /\ handler' \in [Handlers -> HandlerRecord]
      /\ \A g \in Handlers \ {h} : handler'[g] = handler[g]
      /\ handler'[h].phase = "handshaking" /\ handler'[h].address = a
      /\ handler'[h].reported = handler[h].reported /\ handler'[h].open = handler[h].open
  BY <1>2, <1>3 DEF IInv, HandlersOK, HandlerRecord
<1>9. DialingOK'
  <2>1. a \notin Listening /\ a \notin dialing
    BY <1>4, ConstantsOK DEF IInv, DialingOK
  <2>. QED  BY <1>3, <1>5, <2>1 DEF IInv, DialingOK, Connected, MapOK
<1>10. /\ ~handler'[h].reported
       /\ \A m \in Message : Queued(m)' /\ Awaits(m) =>
             m.of # h /\ (handler[m.of].address = a => ~handler'[h].open)
  BY <1>5, <1>7, <1>8
<1> HIDE DEF a, h
<1>. QED  BY <1>1, <1>2, <1>3, <1>4, <1>5, <1>6, <1>8, <1>9, <1>10, EntryMade

\* An incoming connection waits for the PeerManager.
LEMMA ConnectedIncomingStep ==
    ASSUME IInv, NEW a \in Addresses, ConnectedIncoming(a)
    PROVE  IInv'
<1> DEFINE h == NextHandler
           r == NewHandler("confirming", a, "Incoming")
           x == [type |-> "ConfirmConnection", of |-> h]
<1>1. /\ h \in Handlers /\ h \notin handshaked /\ handler[h].phase = "free"
      /\ \A b \in Addresses : connections[b] # h
      /\ \A m \in Message : Queued(m) /\ Awaits(m) => m.of # h
  BY NextHandlerIsFree DEF ConnectedIncoming
<1>2. r \in HandlerRecord /\ r.phase = "confirming" /\ r.address = a /\ ~r.reported
  BY DEF NewHandler, NoHandler, HandlerRecord
<1>3. /\ handler' = [handler EXCEPT ![h] = r] /\ toPeerManager' = Append(toPeerManager, x)
      /\ UNCHANGED <<connections, handshaked, unconfirmed, fromPeerManager, blacklist, announced>>
  BY DEF ConnectedIncoming
<1>4. a \notin unconfirmed /\ connections[a] = None /\ TcpConnected(a)
  BY ConstantsOK DEF ConnectedIncoming, IsNewConnectionAndStillHaveRoom, Direction,
                     ConnectionForPeerAddress, Connected
<1>5. /\ a \in Sources /\ UNCHANGED dialing
      /\ \A g \in Handlers : handler[g].address = a => ~handler[g].open
  BY <1>4 DEF TcpConnected, IInv, DialingOK
<1>6. x \in Message /\ Awaits(x) /\ x.of = h
  BY <1>1 DEF Message, Awaits, ConfirmTypes
<1> HIDE DEF h, r, x
<1>7. /\ toPeerManager' \in Seq(Message)
      /\ \A m \in Message : Queued(m)' => Queued(m) \/ m = x
      /\ \A m, n \in Message : Precedes(m, n)' => Precedes(m, n) \/ (Queued(m) /\ n = x)
  BY <1>3, <1>6, Sent DEF IInv
<1>8. /\ handler' \in [Handlers -> HandlerRecord] /\ handler'[h] = r
      /\ \A g \in Handlers \ {h} : handler'[g] = handler[g]
  BY <1>1, <1>2, <1>3 DEF IInv, HandlersOK
<1>9. HandlersOK'
  <2>1. r # NoHandler
    BY <1>2 DEF NoHandler
  <2>. QED  BY <1>1, <1>2, <1>3, <1>8, <2>1 DEF IInv, HandlersOK
<1>10. Connected' = Connected /\ Kept' = Kept
  BY <1>3 DEF Connected, Kept
<1>11. \A b \in Addresses : connections[b] # None =>
           connections[b] \in Handlers \ {h} /\ handler'[connections[b]] = handler[connections[b]]
  BY <1>1, <1>8 DEF IInv, MapOK
<1>12. MapOK'
  BY <1>3, <1>10, <1>11 DEF IInv, MapOK
<1>13. DialingOK' /\ MailOK' /\ announced' = Kept'
  BY <1>3, <1>5, <1>7, <1>10 DEF IInv, DialingOK, MailOK
<1>14. \A m \in Message : Queued(m) /\ Awaits(m) =>
           m.of \in Handlers \ {h} /\ handler'[m.of] = handler[m.of]
  <2>1. \A m \in Message : Awaits(m) => m.of \in Handlers
    BY DEF Message, Awaits, ConfirmTypes
  <2>. QED  BY <1>1, <1>8, <2>1
<1>15. WaitingOK'
  BY <1>2, <1>5, <1>6, <1>7, <1>8, <1>14 DEF IInv, WaitingOK, Awaits
<1>16. InOrder'
  <2>. SUFFICES ASSUME NEW m \in Message, NEW n \in Message, Precedes(m, n)', Awaits(m), Awaits(n)
                PROVE  /\ m.of # n.of
                       /\ handler'[m.of].address = handler'[n.of].address => ~handler'[m.of].open
    BY DEF InOrder, Awaits
  <2>1. CASE Precedes(m, n)
    <3>1. Queued(m) /\ Queued(n)
      BY <2>1 DEF Precedes, Queued
    <3>. QED  BY <1>14, <2>1, <3>1 DEF IInv, InOrder
  <2>2. CASE Queued(m) /\ n = x
    BY <1>2, <1>5, <1>6, <1>8, <1>14, <2>2
  <2>. QED  BY <1>7, <2>1, <2>2
<1>17. OvertakenIsDead'
  <2>. SUFFICES ASSUME NEW m \in Message, Queued(m)', Awaits(m),
                       (connections[handler[m.of].address] # None)'
                PROVE  Dead(connections[handler[m.of].address])'
    BY DEF OvertakenIsDead, Awaits
  <2>1. Queued(m) /\ handler'[m.of].address = handler[m.of].address
    BY <1>2, <1>3, <1>4, <1>6, <1>7, <1>8, <1>14
  <2>2. handler[m.of].address \in Addresses
    BY <2>1 DEF IInv, WaitingOK, Addresses
  <2>3. Dead(connections[handler[m.of].address])
    BY <1>3, <2>1 DEF IInv, OvertakenIsDead
  <2>. QED  BY <1>3, <1>11, <2>1, <2>2, <2>3 DEF Dead
<1>18. NoHandlerIsForgotten'
  BY <1>2, <1>3, <1>8 DEF IInv, NoHandlerIsForgotten
<1>19. \A b \in Kept' : KeptOnly(b)
  BY <1>3, <1>10, <1>11 DEF Kept, KeptOnly, Connected
<1>20. HandshakedFitIn'
  BY <1>19, FitInShrinks DEF IInv, MapOK
<1>21. NamedAddressIsFree' /\ KeptAreApart'
  BY <1>10, ApartShrinks DEF IInv
<1>. QED  BY <1>9, <1>12, <1>13, <1>15, <1>16, <1>17, <1>18, <1>20, <1>21 DEF IInv

-----------------------------------------------------------------------------
(* A connection is kept                                                    *)

\* What HandleHandshake found out before it kept the connection of h.
Keeps(h, found) ==
    LET a == handler[h].address
        spec == SpecAddress(Owner[a])
        peerAddress == IF spec # None THEN spec ELSE a
    IN  /\ found \in FoundIn(ConnectionForPeerAddress(peerAddress))
        /\ connections[a] = h /\ handler[h].reported
        /\ ~ShouldDrop(h, found)

\* No other connection of the peer is kept, and none uses the address that it names.
LEMMA KeepsOne ==
    ASSUME IInv, NEW h \in Handlers, NEW found, Keeps(h, found),
           SpecAddress(Owner[handler[h].address]) = GetPeerAddress(Owner[handler[h].address]),
           GetPeerAddress(Owner[handler[h].address]) # None
    PROVE  LET a == handler[h].address
               named == GetPeerAddress(Owner[a])
           IN  /\ named \in Connected => a = named
               /\ \A b \in Kept : Owner[b] # Owner[a]
<1> DEFINE a == handler[h].address
           named == GetPeerAddress(Owner[a])
           S == ConnectionForPeerAddress(named)
<1>1. /\ handler[h].reported /\ connections[a] = h /\ a \in Addresses
      /\ h \notin handshaked
  BY DEF Keeps, IInv, HandlersOK
<1>2. /\ found \in FoundIn(S)
      /\ found = None \/ connections[found] = h
  BY DEF Keeps, ShouldDrop
<1>3. S \subseteq Connected /\ Connected \subseteq Addresses
  BY DEF ConnectionForPeerAddress, Connected
<1>4. ASSUME NEW b \in S
      PROVE  a \in S
  <2>1. found \in S
    BY <1>2, <1>4 DEF FoundIn
  <2>2. connections[found] = h /\ found \in Addresses
    BY <1>2, <1>3, <2>1, ConstantsOK
  <2>3. found = a
    BY <2>2, ConstantsOK DEF IInv, MapOK
  <2>. QED  BY <2>1, <2>3
<1>5. a \in S => a = named
  BY <1>1 DEF ConnectionForPeerAddress
<1>6. named \in Connected => named \in S
  BY DEF ConnectionForPeerAddress
<1>7. named \in Connected => a = named
  BY <1>4, <1>5, <1>6
<1>8. ASSUME NEW b \in Kept, Owner[b] = Owner[a]
      PROVE  FALSE
  <2>1. b \in S /\ connections[b] \in handshaked
    BY <1>8 DEF ConnectionForPeerAddress, Kept
  <2>2. a = named /\ named \in Connected
    BY <2>1, <1>3, <1>4, <1>5
  <2>3. b = named
    BY <1>8, <2>2 DEF IInv, NamedAddressIsFree
  <2>. QED  BY <1>1, <2>1, <2>2, <2>3
<1>. QED  BY <1>7, <1>8

\* With h the connections of its direction still fit in.
LEMMA KeepsFitIn ==
    ASSUME IInv, NEW h \in Handlers, NEW found, Keeps(h, found),
           handshaked' = handshaked \cup {h}, UNCHANGED connections,
           \A g \in Handlers : handler'[g].direction = handler[g].direction
    PROVE  HandshakedFitIn'
<1> DEFINE a == handler[h].address
           n == Owner[a]
           Room(d) == {b \in Connected : handler[connections[b]].direction = d}
           Old(d) == HandshakedWith(d) \ ForgerConnections
           New(d) == HandshakedWith(d)' \ ForgerConnections'
<1>1. /\ Connected' = Connected /\ ForgerConnections' = ForgerConnections
      /\ connections[a] = h /\ a \in Connected
      /\ \A b \in Connected : connections[b] \in Handlers /\ (connections[b] = h => b = a)
  BY ConstantsOK DEF Connected, ForgerConnections, Keeps, IInv, MapOK, HandlersOK
<1>2. \A d : Old(d) \subseteq Connected /\ Room(d) \subseteq Connected
  BY DEF HandshakedWith
<1>3. \A d : New(d) \subseteq Old(d) \cup ({a} \ ForgerConnections) /\ New(d) \subseteq Room(d)
  BY <1>1 DEF HandshakedWith
<1>4. \A d : d # handler[h].direction => New(d) \subseteq Old(d)
  BY <1>1 DEF HandshakedWith
<1>5. \A d : /\ IsFiniteSet(Old(d)) /\ IsFiniteSet(Room(d))
             /\ Cardinality(Old(d)) \in Nat /\ Cardinality(Room(d)) \in Nat
  BY <1>2, FS_Subset, FS_CardinalityType DEF IInv, MapOK
<1>6. ASSUME NEW d
      PROVE  /\ Cardinality(New(d)) \in Nat
             /\ New(d) \subseteq Old(d) => Cardinality(New(d)) <= Cardinality(Old(d))
             /\ Cardinality(New(d)) <= Cardinality(Room(d))
  <2> HIDE DEF New, Old, Room
  <2>1. New(d) \subseteq Room(d) /\ IsFiniteSet(Room(d)) /\ IsFiniteSet(Old(d))
    BY <1>3, <1>5
  <2>2. IsFiniteSet(New(d)) /\ Cardinality(New(d)) <= Cardinality(Room(d))
    BY <2>1, FS_Subset
  <2>3. New(d) \subseteq Old(d) => Cardinality(New(d)) <= Cardinality(Old(d))
    BY <2>1, FS_Subset
  <2>. QED  BY <2>2, <2>3, FS_CardinalityType
<1>7. /\ Cardinality(Old("Incoming")) <= MaxIncoming
      /\ Cardinality(Old("Outgoing")) <= MaxOutgoing
  BY DEF IInv, HandshakedFitIn
<1>8. ~IsConnectionLimitExhausted(n, handler[h].direction)
  BY DEF Keeps, ShouldDrop
<1>9. CASE n \in Forgers /\ IsForgerNode
  <2>1. \A d : New(d) \subseteq Old(d)
    BY <1>1, <1>3, <1>9 DEF ForgerConnections
  <2> HIDE DEF Room, Old, New
  <2>2. /\ Cardinality(New("Incoming")) <= MaxIncoming
        /\ Cardinality(New("Outgoing")) <= MaxOutgoing
    BY <1>5, <1>6, <1>7, <2>1, ConstantsOK
  <2>. QED  BY <2>2 DEF HandshakedFitIn, New
<1>10. CASE ~(n \in Forgers /\ IsForgerNode)
  <2>1. /\ handler[h].direction = "Incoming" => ~(Cardinality(Room("Incoming")) > MaxIncoming)
        /\ handler[h].direction = "Outgoing" => ~(Cardinality(Room("Outgoing")) > MaxOutgoing)
    BY <1>8, <1>10 DEF IsConnectionLimitExhausted, ConnectionsSize
  <2> HIDE DEF Room, Old, New
  <2>2. Cardinality(New("Incoming")) <= MaxIncoming
    BY <1>4, <1>5, <1>6, <1>7, <2>1, ConstantsOK
  <2>3. Cardinality(New("Outgoing")) <= MaxOutgoing
    BY <1>4, <1>5, <1>6, <1>7, <2>1, ConstantsOK
  <2>. QED  BY <2>2, <2>3 DEF HandshakedFitIn, New
<1>. QED  BY <1>9, <1>10

\* The report of h is taken out of the mailbox.
LEMMA ReportedMoves ==
    ASSUME IInv, NEW h \in Handlers, handler[h].reported, handler' = Reported(h)
    PROVE  /\ MovesOn(h)
           /\ handler'[h].open = handler[h].open /\ handler'[h].closing = handler[h].closing
           /\ handler'[h].phase = handler[h].phase /\ ~handler'[h].reported
<1>1. handler[h] \in HandlerRecord /\ handler \in [Handlers -> HandlerRecord]
  BY DEF IInv, HandlersOK
<1>2. handler' = [handler EXCEPT ![h] = [handler[h] EXCEPT !.reported = FALSE]]
  BY <1>1 DEF Reported
<1>3. handler[h].phase \in {"working", "stopped"}
  BY DEF IInv, HandlersOK
<1>4. MovesOn(h) /\ handler'[h].reported = FALSE
  <2>1. [handler[h] EXCEPT !.reported = FALSE] \in HandlerRecord
    BY <1>1 DEF HandlerRecord
  <2>2. handler' \in [Handlers -> HandlerRecord] /\ \A g \in Handlers \ {h} : handler'[g] = handler[g]
    BY <1>1, <1>2, <2>1
  <2>3. handler'[h] = [handler[h] EXCEPT !.reported = FALSE]
    BY <1>1, <1>2
  <2>4. /\ handler'[h].phase = handler[h].phase /\ handler'[h].address = handler[h].address
        /\ handler'[h].direction = handler[h].direction /\ handler'[h].reported = FALSE
        /\ handler'[h].open => handler[h].open
    BY <1>1, <2>3 DEF HandlerRecord
  <2>. QED  BY <1>3, <2>2, <2>4 DEF MovesOn
<1>5. /\ handler'[h].open = handler[h].open /\ handler'[h].closing = handler[h].closing
      /\ handler'[h].phase = handler[h].phase
  BY <1>1, <1>2, Zenon DEF HandlerRecord
<1>. QED  BY <1>4, <1>5

\* handleHandshake keeps the connection: the limits and the search for the same peer
\* have left room for it.
LEMMA HandshakeKept ==
    ASSUME IInv, NEW h \in Handlers, NEW found, Keeps(h, found), handler' = Reported(h),
           handshaked' = handshaked \cup {h}, announced' = announced \cup {handler[h].address},
           UNCHANGED <<connections, unconfirmed, dialing, mail>>
    PROVE  IInv'
<1> DEFINE a == handler[h].address
<1>1. /\ handler[h].reported /\ connections[a] = h /\ a \in Connected
      /\ handler[h].phase \in {"working", "stopped"}
      /\ Connected \subseteq Addresses
  BY ConstantsOK DEF Keeps, IInv, HandlersOK, Connected
<1>2. /\ MovesOn(h) /\ ~handler'[h].reported /\ handler'[h].open = handler[h].open
      /\ handler'[h].closing = handler[h].closing /\ handler'[h].phase = handler[h].phase
  BY <1>1, ReportedMoves
<1>3. \A g \in Handlers : /\ g # h => handler'[g] = handler[g]
                          /\ handler'[g].address = handler[g].address
                          /\ handler'[g].direction = handler[g].direction
                          /\ handler'[g].phase = handler[g].phase
                          /\ handler'[g].open = handler[g].open
                          /\ handler'[g].closing = handler[g].closing
  BY <1>2 DEF MovesOn
<1>4. HandlersOK'
  <2>1. handler'[h] # NoHandler
    BY <1>1, <1>2 DEF NoHandler
  <2>. QED  BY <1>1, <1>2, <1>3, <2>1 DEF IInv, HandlersOK, MovesOn
<1>5. Connected' = Connected /\ Kept' = Kept \cup {a}
  BY <1>1, ConstantsOK DEF Connected, Kept, IInv, MapOK
<1>6. MapOK' /\ DialingOK' /\ MailOK' /\ announced' = Kept'
  BY <1>3, <1>5 DEF IInv, MapOK, DialingOK, MailOK, mail
<1>7. \A m \in Message : Awaits(m) => m.of \in Handlers
  BY DEF Message, Awaits, ConfirmTypes
<1>8. QueuesShrink
  BY SameQueues DEF mail, QueuesShrink
<1>9. WaitingOK' /\ InOrder'
  BY <1>3, <1>7, <1>8 DEF QueuesShrink, IInv, WaitingOK, InOrder, Awaits
<1>10. OvertakenIsDead'
  <2>. SUFFICES ASSUME NEW m \in Message, Queued(m), Awaits(m),
                       (connections[handler[m.of].address] # None)'
                PROVE  Dead(connections[handler[m.of].address])'
    BY <1>8 DEF OvertakenIsDead, QueuesShrink, Awaits
  <2>1. /\ handler'[m.of].address = handler[m.of].address
        /\ handler[m.of].address \in Addresses
    BY <1>3, <1>7 DEF IInv, WaitingOK, Addresses
  <2>2. Dead(connections[handler[m.of].address])
    BY <2>1 DEF IInv, OvertakenIsDead
  <2>3. connections[handler[m.of].address] \in Handlers \ {h}
    BY <1>1, <2>1, <2>2 DEF IInv, MapOK, Dead
  <2>. QED  BY <1>3, <2>1, <2>2, <2>3 DEF Dead
<1>11. NoHandlerIsForgotten'
  BY <1>3 DEF IInv, NoHandlerIsForgotten
<1>12. HandshakedFitIn'
  BY <1>3, KeepsFitIn
<1>13. NamedAddressIsFree'
  <2>. SUFFICES ASSUME NEW b \in Kept \cup {a}
                PROVE  /\ Owner[b] # Self
                       /\ SpecAddress(Owner[b]) = GetPeerAddress(Owner[b])
                          /\ GetPeerAddress(Owner[b]) \in Connected => b = GetPeerAddress(Owner[b])
    BY <1>5 DEF NamedAddressIsFree, SpecAddress, GetPeerAddress
  <2>1. CASE b \in Kept
    BY <2>1 DEF IInv, NamedAddressIsFree
  <2>2. CASE b = a
    <3>1. Owner[a] # Self
      BY DEF Keeps, ShouldDrop
    <3>2. GetPeerAddress(Owner[a]) \in Connected => GetPeerAddress(Owner[a]) # None
      BY <1>1, ConstantsOK
    <3>. QED  BY <2>2, <3>1, <3>2, KeepsOne
  <2>. QED  BY <2>1, <2>2
<1>14. KeptAreApart'
  <2>. SUFFICES ASSUME NEW b \in Kept \cup {a}, NEW c \in Kept \cup {a}, Owner[b] = Owner[c],
                       GetPeerAddress(Owner[b]) # None,
                       SpecAddress(Owner[b]) = GetPeerAddress(Owner[b])
                PROVE  b = c
    BY <1>5 DEF KeptAreApart, SpecAddress, GetPeerAddress
  <2>1. CASE b \in Kept /\ c \in Kept
    BY <2>1 DEF IInv, KeptAreApart
  <2>2. CASE b = a \/ c = a
    BY <2>2, KeepsOne
  <2>. QED  BY <2>1, <2>2
<1>. QED  BY <1>4, <1>6, <1>9, <1>10, <1>11, <1>12, <1>13, <1>14 DEF IInv

\* handleHandshake, with its three outcomes.
LEMMA HandleHandshakeStep ==
    ASSUME IInv, NEW h \in Handlers, HandleHandshake(h)
    PROVE  IInv'
<1> DEFINE a == handler[h].address
<1>1. /\ handler[h].reported /\ UNCHANGED <<unconfirmed, dialing, mail>>
      /\ a \in Addresses /\ handler[h].phase \in {"working", "stopped"}
  BY DEF HandleHandshake, IInv, HandlersOK
<1>2. CASE connections[a] # h
  <2>1. handler' = Reported(h) /\ HandlerOnly
    BY <1>1, <1>2 DEF HandleHandshake, HandlerOnly
  <2>2. /\ MovesOn(h) /\ handler'[h].open = handler[h].open
        /\ handler'[h].closing = handler[h].closing /\ handler'[h].phase = handler[h].phase
    BY <1>1, <2>1, ReportedMoves
  <2>3. LeavesMap(h)
    BY <2>1, <2>2, StaysInMap DEF HandlerOnly
  <2>. QED  BY <2>1, <2>2, <2>3, QuietStep
<1>3. CASE connections[a] = h
  <2> DEFINE spec == SpecAddress(Owner[a])
             peerAddress == IF spec # None THEN spec ELSE a
  <2>1. PICK found \in FoundIn(ConnectionForPeerAddress(peerAddress)) :
           IF ShouldDrop(h, found)
           THEN /\ handler' = [ToldToClose(h) EXCEPT ![h].reported = FALSE]
                /\ connections' = [connections EXCEPT ![a] = None]
                /\ UNCHANGED <<handshaked, announced>>
           ELSE /\ handler' = Reported(h)
                /\ handshaked' = handshaked \cup {h}
                /\ announced' = announced \cup {a}
                /\ UNCHANGED connections
    BY <1>3, Zenon DEF HandleHandshake
  <2>2. CASE ShouldDrop(h, found)
    <3>1. /\ handler' = [ToldToClose(h) EXCEPT ![h].reported = FALSE]
          /\ connections' = [connections EXCEPT ![a] = None]
          /\ UNCHANGED <<handshaked, announced>>
      BY <2>1, <2>2
    <3>2. handler[h] \in HandlerRecord /\ handler \in [Handlers -> HandlerRecord]
      BY DEF IInv, HandlersOK
    <3>3. handler' = [handler EXCEPT ![h] =
                         [handler[h] EXCEPT !.closing = handler[h].open, !.reported = FALSE]]
      BY <3>1, <3>2 DEF ToldToClose
    <3>4. MovesOn(h) /\ (handler'[h].open => handler'[h].closing)
      BY <1>1, <3>2, <3>3 DEF MovesOn, HandlerRecord
    <3>5. a \in Connected /\ h \notin handshaked
      BY <1>1, <1>3, ConstantsOK DEF Connected, IInv, HandlersOK
    <3>6. LeavesMap(h) /\ Kept' = Kept \ {a}
      BY <1>3, <3>1, <3>4, <3>5, LeavesMapToClose
    <3>7. announced' = Kept'
      BY <1>3, <3>1, <3>5, <3>6 DEF IInv, Kept
    <3>8. QueuesShrink /\ MailOK'
      BY <1>1, SameQueues DEF mail, QueuesShrink, IInv, MailOK
    <3>. QED  BY <1>1, <3>1, <3>4, <3>6, <3>7, <3>8, HandlerStep DEF IInv
  <2>3. CASE ~ShouldDrop(h, found)
    <3>1. /\ handler' = Reported(h) /\ handshaked' = handshaked \cup {h}
          /\ announced' = announced \cup {a} /\ UNCHANGED connections
      BY <2>1, <2>3
    <3>2. Keeps(h, found)
      BY <1>1, <1>3, <2>1, <2>3 DEF Keeps
    <3>. QED  BY <1>1, <3>1, <3>2, HandshakeKept
  <2>. QED  BY <2>2, <2>3
<1>. QED  BY <1>2, <1>3

-----------------------------------------------------------------------------
(* The specification                                                       *)

\* The invariant holds at the start.
LEMMA InitIInv == Init => IInv
<1>. SUFFICES ASSUME Init
              PROVE  IInv
  OBVIOUS
<1>. USE DEF Init
<1>1. HandlersOK
  BY DEF HandlersOK, HandlerRecord, NoHandler
<1>2. Connected = {} /\ Kept = {} /\ \A d : HandshakedWith(d) = {}
  BY DEF Connected, Kept, HandshakedWith
<1>3. MapOK
  BY <1>2, FS_EmptySet DEF MapOK
<1>4. DialingOK /\ MailOK
  BY DEF DialingOK, MailOK
<1>5. \A m, n : ~Queued(m) /\ ~Precedes(m, n)
  BY DEF Queued, Precedes
<1>6. WaitingOK /\ InOrder /\ OvertakenIsDead
  BY <1>5 DEF WaitingOK, InOrder, OvertakenIsDead
<1>7. NoHandlerIsForgotten
  BY DEF NoHandlerIsForgotten, NoHandler
<1>8. announced = Kept /\ NamedAddressIsFree /\ KeptAreApart
  BY <1>2 DEF NamedAddressIsFree, KeptAreApart
<1>9. HandshakedFitIn
  <2>1. \A d : HandshakedWith(d) \ ForgerConnections = {}
    BY <1>2
  <2>2. \A d : Cardinality(HandshakedWith(d) \ ForgerConnections) = 0
    BY <2>1, FS_EmptySet
  <2>. QED  BY <2>2, ConstantsOK DEF HandshakedFitIn
<1>. QED  BY <1>1, <1>3, <1>4, <1>6, <1>7, <1>8, <1>9 DEF IInv

\* Every step keeps it.
LEMMA NextIInv == IInv /\ [Next]_vars => IInv'
<1>. SUFFICES ASSUME IInv, [Next]_vars
              PROVE  IInv'
  OBVIOUS
<1>1. CASE PeerManagerMailbox
  BY <1>1, ConfirmConnectionStep, PenalizeStep, ConnectionConfirmedStep, ConnectionDeniedStep,
     DisconnectFromAddressStep DEF PeerManagerMailbox
<1>2. ASSUME NEW n \in Nodes, ConnectTo(n) \/ RemoveFromBlacklist(n)
      PROVE  IInv'
  BY <1>2, ConnectToStep, RemoveFromBlacklistStep
<1>3. ASSUME NEW a \in Addresses,
             \/ ConnectFailed(a) \/ ConnectedRefused(a) \/ PenalizePeer(a)
             \/ ConnectedOutgoing(a) \/ ConnectedIncoming(a)
             \/ DisconnectFromNode(a) \/ DisconnectFrom(a)
      PROVE  IInv'
  BY <1>3, ConnectFailedStep, ConnectedRefusedStep, PenalizePeerStep, ConnectedOutgoingStep,
     ConnectedIncomingStep, DisconnectFromNodeStep, DisconnectFromStep
<1>4. ASSUME NEW h \in Handlers, HandlerMailbox(h) \/ ReceiveHandshake(h) \/ TcpClosed(h)
      PROVE  IInv'
  BY <1>4, HandleHandshakeStep, TerminatedStep, HandshakeTimeoutStep, ClosedStep,
     ConnectionClosedStep, ReceiveHandshakeStep DEF HandlerMailbox
<1>5. CASE UNCHANGED vars
  <2>1. UNCHANGED <<connections, handshaked, handler, mail, announced>> /\ DialingOK'
    BY <1>5 DEF vars, mail, IInv, DialingOK, Connected
  <2>. QED  BY <2>1, DialingStep
<1>. QED  BY <1>1, <1>2, <1>3, <1>4, <1>5 DEF Next

\* The inductive invariant holds in every behaviour.
THEOREM SpecIInv == Spec => []IInv
BY InitIInv, NextIInv, PTL DEF Spec

\* The connections that are kept, in either direction.
LEMMA KeptInEitherDirection ==
    ASSUME IInv
    PROVE  Kept = HandshakedWith("Incoming") \cup HandshakedWith("Outgoing")
<1>1. \A a \in Connected : handler[connections[a]].direction \in {"Incoming", "Outgoing"}
  BY ConstantsOK DEF IInv, MapOK, HandlersOK, HandlerRecord, Connected
<1>. QED  BY <1>1 DEF Kept, HandshakedWith

\* The variables have their types, and the entry of an address names a handler of that
\* address that is not gone, whatever the order of Terminated and of new connections.
THEOREM SpecTypeOK == Spec => []ConnectionsTypeOK
<1>1. ASSUME IInv
      PROVE  ConnectionsTypeOK
  <2>1. \A h \in Handlers : handler[h] \in HandlerRecord
    BY <1>1 DEF IInv, HandlersOK
  <2>2. announced \subseteq Addresses
    BY <1>1 DEF IInv, Kept, Connected
  <2>. QED  BY <1>1, <2>1, <2>2 DEF IInv, HandlersOK, HandlerRecord, MapOK, DialingOK, MailOK,
                                    ConnectionsTypeOK, Connected
<1>. QED  BY <1>1, SpecIInv, PTL

\* A handler whose TCP connection is open and that is in use is in the controller's map,
\* or has been told to close: an overwritten or removed entry never leaves a live handler.
THEOREM SpecNoHandlerIsForgotten == Spec => []NoHandlerIsForgotten
<1>1. IInv => NoHandlerIsForgotten
  BY DEF IInv
<1>. QED  BY <1>1, SpecIInv, PTL

\* HandshakedPeer and DisconnectedPeer tell subscribers exactly which connections are kept.
THEOREM SpecSubscribersAgree == Spec => []SubscribersAgree
<1>1. IInv => SubscribersAgree
  BY KeptInEitherDirection DEF IInv, SubscribersAgree
<1>. QED  BY <1>1, SpecIInv, PTL

\* The connections that are kept fit in the limits of their direction, whatever number of
\* connections were being confirmed or handshaking at once.
THEOREM SpecHandshakedFitIn == Spec => []HandshakedFitIn
<1>1. IInv => HandshakedFitIn
  BY DEF IInv
<1>. QED  BY <1>1, SpecIInv, PTL

\* Where every peer with several addresses names exactly one, handleHandshake keeps at
\* most one connection with a peer.
THEOREM SpecOneConnectionPerPeer ==
    ASSUME NamesOneAddress
    PROVE  Spec => []OneConnectionPerPeer
<1>1. ASSUME IInv
      PROVE  OneConnectionPerPeer
  <2>. SUFFICES ASSUME NEW a \in Kept, NEW b \in Kept, Owner[a] = Owner[b], a # b
                PROVE  FALSE
    BY <1>1, KeptInEitherDirection DEF OneConnectionPerPeer
  <2>1. a \in Addresses /\ b \in Addresses
    BY DEF Kept, Connected
  <2>2. Owner[a] # Self
    BY <1>1 DEF IInv, NamedAddressIsFree
  <2>3. /\ GetPeerAddress(Owner[a]) # None
        /\ SpecAddress(Owner[a]) = GetPeerAddress(Owner[a])
    BY <2>1, <2>2 DEF NamesOneAddress
  <2>. QED  BY <1>1, <2>3 DEF IInv, KeptAreApart
<1>. QED  BY <1>1, SpecIInv, PTL

-----------------------------------------------------------------------------
(* The limit of forgers, on a node that is one                             *)

\* Connections with forgers that the controller keeps.
KeptForgers == {a \in Kept : Owner[a] \in Forgers}

\* shouldDropForgerConnection counts before the new forger has its peerInfo, and with >.
ForgersFitIn == Cardinality(KeptForgers) <= MaxForger + 1

\* Sets with which the number of forgers does not grow.
LEMMA ForgersShrink ==
    ASSUME IInv, IInv', KeptForgers' \subseteq KeptForgers, ForgersFitIn
    PROVE  ForgersFitIn'
<1>1. IsFiniteSet(KeptForgers)
  BY FS_Subset DEF IInv, MapOK, KeptForgers, Kept
<1>2. /\ IsFiniteSet(KeptForgers') /\ Cardinality(KeptForgers') <= Cardinality(KeptForgers)
  BY <1>1, FS_Subset
<1>3. Cardinality(KeptForgers) \in Nat /\ Cardinality(KeptForgers') \in Nat
  BY <1>1, <1>2, FS_CardinalityType
<1>. QED  BY <1>2, <1>3, ConnectionsAssumption DEF ForgersFitIn

\* HandleHandshake counts the forgers that are kept already.
LEMMA ForgerAdded ==
    ASSUME IInv, IInv', NEW h \in Handlers, NEW found, handler[h].address \in Addresses,
           IsForgerNode, ~ShouldDrop(h, found), ForgersFitIn,
           announced' = announced \cup {handler[h].address}
    PROVE  ForgersFitIn'
<1>. DEFINE a == handler[h].address
<1>1. KeptForgers' = {b \in announced \cup {a} : Owner[b] \in Forgers}
  BY DEF IInv, KeptForgers
<1>2. KeptForgers = {b \in announced : Owner[b] \in Forgers}
  BY DEF IInv, KeptForgers
<1>3. CASE Owner[a] \notin Forgers
  BY <1>1, <1>2, <1>3, ForgersShrink
<1>4. CASE Owner[a] \in Forgers
  <2>1. KeptForgers' = KeptForgers \cup {a}
    BY <1>1, <1>2, <1>4
  <2>2. IsFiniteSet(KeptForgers)
    BY FS_Subset DEF IInv, MapOK, KeptForgers, Kept
  <2>3. ForgerConnectionsSize = Cardinality(KeptForgers)
    <3>1. KeptForgers = {b \in Connected : connections[b] \in handshaked /\ Owner[b] \in Forgers}
      BY DEF KeptForgers, Kept
    <3>. QED  BY <3>1 DEF ForgerConnectionsSize
  <2>4. ~(Cardinality(KeptForgers) > MaxForger)
    BY <1>4, <2>3 DEF ShouldDrop, IsConnectionLimitExhausted
  <2>5. Cardinality(KeptForgers) \in Nat
    BY <2>2, FS_CardinalityType
  <2>6. Cardinality(KeptForgers') \in {Cardinality(KeptForgers), Cardinality(KeptForgers) + 1}
    BY <2>1, <2>2, FS_AddElement
  <2>. QED  BY <2>4, <2>5, <2>6, ConnectionsAssumption DEF ForgersFitIn
<1>. QED  BY <1>3, <1>4

\* A handshake that is handled adds a forger, or no one.
LEMMA HandleHandshakeForgers ==
    ASSUME IInv, IInv', IsForgerNode, ForgersFitIn, NEW h \in Handlers, HandleHandshake(h)
    PROVE  ForgersFitIn'
<1>1. CASE UNCHANGED announced
  <2>1. KeptForgers' = KeptForgers
    BY <1>1 DEF IInv, KeptForgers
  <2>. QED  BY <2>1, ForgersShrink
<1>2. CASE ~UNCHANGED announced
  <2>1. PICK found : ~ShouldDrop(h, found) /\ announced' = announced \cup {handler[h].address}
    BY <1>2 DEF HandleHandshake
  <2>2. handler[h].address \in Addresses
    BY DEF HandleHandshake, IInv, HandlersOK
  <2>. QED  BY <2>1, <2>2, ForgerAdded
<1>. QED  BY <1>1, <1>2

\* No other step makes subscribers take a peer for connected.
LEMMA OthersAnnounceNobody ==
    ASSUME [Next]_vars, \A h \in Handlers : ~HandleHandshake(h)
    PROVE  announced' \subseteq announced
<1>1. CASE PeerManagerMailbox
  BY <1>1 DEF PeerManagerMailbox, ConfirmConnection, Penalize, PeerManagerMail,
              ConnectionConfirmed, ConnectionDenied, DisconnectFromAddress, CloseConnection
<1>2. ASSUME NEW n \in Nodes, ConnectTo(n) \/ RemoveFromBlacklist(n)
      PROVE  announced' \subseteq announced
  BY <1>2 DEF ConnectTo, RemoveFromBlacklist
<1>3. ASSUME NEW a \in Addresses,
             \/ ConnectFailed(a) \/ ConnectedRefused(a) \/ PenalizePeer(a)
             \/ ConnectedOutgoing(a) \/ ConnectedIncoming(a)
             \/ DisconnectFromNode(a) \/ DisconnectFrom(a)
      PROVE  announced' \subseteq announced
  BY <1>3 DEF ConnectFailed, ConnectedRefused, PenalizePeer, ConnectedOutgoing,
              ConnectedIncoming, DisconnectFromNode, DisconnectFrom, CloseConnection
<1>4. ASSUME NEW h \in Handlers, HandlerMailbox(h) \/ ReceiveHandshake(h) \/ TcpClosed(h)
      PROVE  announced' \subseteq announced
  BY <1>4 DEF HandlerMailbox, Terminated, HandshakeTimeout, Abort, ConnectionClosed,
              ReceiveHandshake, TcpClosed, HandlerOnly
<1>5. CASE UNCHANGED vars
  BY <1>5 DEF vars
<1>. QED  BY <1>1, <1>2, <1>3, <1>4, <1>5 DEF Next

\* On a forger node the connections with forgers that are kept are at most one more than
\* maxForgerConnections, however many of them were handshaking at once.
THEOREM SpecForgersFitIn ==
    ASSUME IsForgerNode
    PROVE  Spec => []ForgersFitIn
<1>1. Init /\ IInv => ForgersFitIn
  <2>. SUFFICES ASSUME Init, IInv
                PROVE  ForgersFitIn
    OBVIOUS
  <2>1. KeptForgers = {}
    BY DEF Init, IInv, KeptForgers
  <2>. QED  BY <2>1, FS_EmptySet, ConnectionsAssumption DEF ForgersFitIn
<1>2. IInv /\ IInv' /\ [Next]_vars /\ ForgersFitIn => ForgersFitIn'
  <2>. SUFFICES ASSUME IInv, IInv', [Next]_vars, ForgersFitIn
                PROVE  ForgersFitIn'
    OBVIOUS
  <2>1. CASE \E h \in Handlers : HandleHandshake(h)
    BY <2>1, HandleHandshakeForgers
  <2>2. CASE \A h \in Handlers : ~HandleHandshake(h)
    <3>1. announced' \subseteq announced
      BY <2>2, OthersAnnounceNobody
    <3>2. KeptForgers' \subseteq KeptForgers
      BY <3>1 DEF IInv, KeptForgers
    <3>. QED  BY <3>2, ForgersShrink
  <2>. QED  BY <2>1, <2>2
<1>. QED  BY <1>1, <1>2, SpecIInv, PTL DEF Spec

===========================================================================
