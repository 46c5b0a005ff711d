---------------------------- MODULE Connections ----------------------------
(***************************************************************************)
(* NetworkController.scala with the life of its PeerConnectionHandlers and *)
(* the part of the PeerManager that decides on incoming connections.       *)
(*                                                                         *)
(* A connection begins with Connected of the TCP manager, for a Connect of *)
(* the controller or for a peer that called.  An outgoing connection gets  *)
(* a handler at once, an incoming one after the PeerManager confirmed it.  *)
(* The handler exchanges handshakes and reports Handshaked; the controller *)
(* keeps the connection or closes it.  A handler stops when its TCP        *)
(* connection is closed, by either side, and the controller learns that    *)
(* from Terminated.                                                        *)
(*                                                                         *)
(* The controller, the PeerManager, every handler and every TCP connection *)
(* are actors: the model has one action per message they handle.  Messages *)
(* from different actors arrive in any order, those from one actor to      *)
(* another in the order they were sent.                                    *)
(***************************************************************************)
EXTENDS Integers, Sequences, FiniteSets, Functions

CONSTANTS
    Nodes, Self,            \* the nodes of the network, and this one
    Declared, Local,        \* [Nodes -> address or None]: what a node's PeerSpec says
    Listening, Sources,     \* addresses to dial, and addresses that peers call from
    Owner,                  \* the node behind an address
    Misbehaving,            \* nodes that draw penalties
    Forgers,                \* nodes with ForgerNodePeerFeature
    IsForgerNode,           \* settings.isForgerNode
    MaxIncoming, MaxOutgoing, MaxForger,    \* settings.max...Connections
    Handlers,               \* names for PeerConnectionHandlers; reused when one is gone
    MaxMail,                \* bound on the messages between controller and PeerManager
    None

Addresses == Listening \cup Sources

ASSUME ConnectionsAssumption ==
    /\ Self \in Nodes /\ Forgers \cup Misbehaving \subseteq Nodes
    /\ Listening \cap Sources = {} /\ None \notin Addresses \cup Handlers
    /\ {Declared, Local} \subseteq [Nodes -> Listening \cup {None}]
    /\ Owner \in [Addresses -> Nodes]
    /\ {MaxIncoming, MaxOutgoing, MaxForger, MaxMail} \subseteq Nat
    /\ IsForgerNode \in BOOLEAN

VARIABLES
    connections,        \* the controller's map: handler of an address, or None
    handshaked,         \* handlers whose entry in the map has a peerInfo
    unconfirmed,        \* unconfirmedConnections
    dialing,            \* Connect commands that the TCP manager has not answered
    handler,            \* PeerConnectionHandlers and their TCP connections
    toPeerManager, fromPeerManager,     \* messages between the two actors
    blacklist,          \* nodes whose IP address the peer database has banned
    announced           \* peers that subscribers of the event stream take for connected

vars == <<connections, handshaked, unconfirmed, dialing, handler, toPeerManager,
          fromPeerManager, blacklist, announced>>

mail == <<toPeerManager, fromPeerManager, blacklist>>

NoHandler == [phase |-> "free", address |-> None, direction |-> "Incoming",
              open |-> FALSE, closing |-> FALSE, reported |-> FALSE]

-----------------------------------------------------------------------------
(* Lookups in the map of connections                                       *)

Connected == {a \in Addresses : connections[a] # None}

\* PeerSpec.address and getPeerAddress prefer different addresses of a node.
SpecAddress(n) == IF Declared[n] # None THEN Declared[n] ELSE Local[n]
GetPeerAddress(n) == IF Local[n] # None THEN Local[n] ELSE Declared[n]

\* A peer that connects from, or can be dialled at, several addresses names exactly one
\* of them in its PeerSpec.  (handleHandshake looks a peer up by the one address, and
\* connectionForPeerAddress compares with the other.)
NamesOneAddress ==
    \A a, b \in Addresses : a # b /\ Owner[a] = Owner[b] /\ Owner[a] # Self
        => GetPeerAddress(Owner[a]) # None /\ SpecAddress(Owner[a]) = GetPeerAddress(Owner[a])

\* The entries that connectionForPeerAddress may find, by their keys.
ConnectionForPeerAddress(address) ==
    {a \in Connected : \/ a = address
                       \/ connections[a] \in handshaked /\ GetPeerAddress(Owner[a]) = address}

\* `find` returns the first one in an order the map does not define.
FoundIn(S) == IF S = {} THEN {None} ELSE S

ConnectionsSize(direction) ==
    Cardinality({a \in Connected : handler[connections[a]].direction = direction})
ForgerConnectionsSize ==
    Cardinality({a \in Connected : connections[a] \in handshaked /\ Owner[a] \in Forgers})

IsNewConnectionAndStillHaveRoom(a) ==
    /\ ConnectionForPeerAddress(a) = {}
    /\ Cardinality(Connected) < MaxIncoming + MaxOutgoing + MaxForger

-----------------------------------------------------------------------------
(* New connections                                                         *)

\* connectTo, for the API or for the periodic choice of a peer.
ConnectTo(n) ==
    LET remote == GetPeerAddress(n) IN
    /\ remote # None /\ ConnectionForPeerAddress(remote) = {} /\ remote \notin unconfirmed
    /\ unconfirmed' = unconfirmed \cup {remote}
    /\ dialing' = dialing \cup {remote}
    /\ UNCHANGED <<connections, handshaked, handler, mail, announced>>

ConnectFailed(a) ==
    /\ a \in dialing
    /\ dialing' = dialing \ {a}
    /\ unconfirmed' = unconfirmed \ {a}
    /\ UNCHANGED <<connections, handshaked, handler, mail, announced>>

\* A TCP connection with address a comes into being: the answer to a Connect, or a
\* call from a source that has no other connection open.
TcpConnected(a) ==
    \/ a \in dialing /\ dialing' = dialing \ {a}
    \/ /\ a \in Sources /\ ~ \E h \in Handlers : handler[h].address = a /\ handler[h].open
       /\ UNCHANGED dialing

NewHandler(phase, a, direction) ==
    [NoHandler EXCEPT !.phase = phase, !.address = a, !.direction = direction, !.open = TRUE]

\* A bound of the model, not of the code.
MailboxesHaveRoom == Len(toPeerManager) + Len(fromPeerManager) < MaxMail

\* The name of the next handler: they are interchangeable.
HandlersHaveRoom == \E h \in Handlers : handler[h] = NoHandler
NextHandler == CHOOSE h \in Handlers : handler[h] = NoHandler

Direction(a) == IF a \in unconfirmed THEN "Outgoing" ELSE "Incoming"

\* handleNewConnectionCreation: there is room in the direction of the connection.
HaveRoomFor(a) ==
    IF Direction(a) = "Outgoing"
    THEN ConnectionsSize("Outgoing") < MaxOutgoing \/ ForgerConnectionsSize < MaxForger
    ELSE ConnectionsSize("Incoming") < MaxIncoming

\* createPeerConnectionHandler for an outgoing connection.
ConnectedOutgoing(a) ==
    /\ HandlersHaveRoom /\ TcpConnected(a)
    /\ IsNewConnectionAndStillHaveRoom(a) /\ Direction(a) = "Outgoing" /\ HaveRoomFor(a)
    /\ handler' = [handler EXCEPT ![NextHandler] = NewHandler("handshaking", a, "Outgoing")]
    /\ connections' = [connections EXCEPT ![a] = NextHandler]
    /\ unconfirmed' = unconfirmed \ {a}
    /\ UNCHANGED <<handshaked, mail, announced>>

\* An incoming connection is put before the PeerManager.
ConnectedIncoming(a) ==
    /\ HandlersHaveRoom /\ MailboxesHaveRoom /\ TcpConnected(a)
    /\ IsNewConnectionAndStillHaveRoom(a) /\ Direction(a) = "Incoming" /\ HaveRoomFor(a)
    /\ handler' = [handler EXCEPT ![NextHandler] = NewHandler("confirming", a, "Incoming")]
    /\ toPeerManager' = Append(toPeerManager, [type |-> "ConfirmConnection", of |-> NextHandler])
    /\ UNCHANGED <<connections, handshaked, unconfirmed, fromPeerManager, blacklist, announced>>

\* Known already, or no room: the connection is closed and nothing else happens.
ConnectedRefused(a) ==
    /\ TcpConnected(a)
    /\ ~(IsNewConnectionAndStillHaveRoom(a) /\ HaveRoomFor(a))
    /\ UNCHANGED <<connections, handshaked, unconfirmed, handler, mail, announced>>

-----------------------------------------------------------------------------
(* The PeerManager                                                         *)

PeerManagerMail(type) ==
    /\ toPeerManager # <<>> /\ Head(toPeerManager).type = type
    /\ toPeerManager' = Tail(toPeerManager)
    /\ UNCHANGED <<connections, handshaked, unconfirmed, dialing, handler, announced>>

ConfirmConnection ==
    /\ PeerManagerMail("ConfirmConnection")
    /\ LET h == Head(toPeerManager).of
           denied == Owner[handler[h].address] \in blacklist
       IN  fromPeerManager' = Append(fromPeerManager,
              [type |-> IF denied THEN "ConnectionDenied" ELSE "ConnectionConfirmed", of |-> h])
    /\ UNCHANGED blacklist

\* A penalty is over the threshold or not: that is up to the peer database.
Penalize ==
    /\ PeerManagerMail("Penalize")
    /\ \/ UNCHANGED <<fromPeerManager, blacklist>>
       \/ /\ blacklist' = blacklist \cup {Owner[Head(toPeerManager).of]}
          /\ fromPeerManager' = Append(fromPeerManager,
                [type |-> "DisconnectFromAddress", of |-> Head(toPeerManager).of])

\* The ban expires, or the API lifts it.
RemoveFromBlacklist(n) ==
    /\ n \in blacklist /\ blacklist' = blacklist \ {n}
    /\ UNCHANGED <<connections, handshaked, unconfirmed, dialing, handler, toPeerManager,
                   fromPeerManager, announced>>

\* PenalizePeer: whoever heard from a peer complains about it, perhaps too late.
PenalizePeer(a) ==
    /\ Owner[a] \in Misbehaving
    /\ \E h \in Handlers : handler[h].address = a /\ handler[h].phase = "working"
    /\ MailboxesHaveRoom
    /\ toPeerManager' = Append(toPeerManager, [type |-> "Penalize", of |-> a])
    /\ UNCHANGED <<connections, handshaked, unconfirmed, dialing, handler, fromPeerManager,
                   blacklist, announced>>

-----------------------------------------------------------------------------
(* The controller's other messages                                         *)

Answer(type) ==
    /\ fromPeerManager # <<>> /\ Head(fromPeerManager).type = type
    /\ fromPeerManager' = Tail(fromPeerManager)
    /\ UNCHANGED <<dialing, toPeerManager, blacklist>>

ConnectionConfirmed ==
    LET h == Head(fromPeerManager).of
        a == handler[h].address
    IN  /\ Answer("ConnectionConfirmed")
        /\ handler' = [handler EXCEPT ![h].phase = "handshaking"]
        /\ connections' = [connections EXCEPT ![a] = h]
        /\ unconfirmed' = unconfirmed \ {a}
        /\ UNCHANGED <<handshaked, announced>>

ConnectionDenied ==
    /\ Answer("ConnectionDenied")
    /\ handler' = [handler EXCEPT ![Head(fromPeerManager).of] = NoHandler]
    /\ UNCHANGED <<connections, handshaked, unconfirmed, announced>>

\* CloseConnection is sent to a handler; it does something while the TCP connection is open.
ToldToClose(h) == [handler EXCEPT ![h].closing = handler[h].open]

\* Mistake: the connection is closed without an event.
CloseConnectionSilently(a) ==
    IF a \in Connected
    THEN /\ handler' = ToldToClose(connections[a])
         /\ connections' = [connections EXCEPT ![a] = None]
         /\ UNCHANGED announced
    ELSE UNCHANGED <<handler, connections, announced>>

\* closeConnection and closeConnectionFromNode: out of the map at once, although the
\* handler is only told to close.
CloseConnection(a) ==
    IF a \in Connected
    THEN /\ handler' = ToldToClose(connections[a])
         /\ connections' = [connections EXCEPT ![a] = None]
         /\ announced' = announced \ {a}
    ELSE UNCHANGED <<handler, connections, announced>>

DisconnectFromAddress ==
    /\ Answer("DisconnectFromAddress")
    /\ CloseConnection(Head(fromPeerManager).of)
    /\ UNCHANGED <<handshaked, unconfirmed>>

DisconnectFromNode(a) ==
    /\ a \in Connected
    /\ CloseConnection(a)
    /\ UNCHANGED <<handshaked, unconfirmed, dialing, mail>>

\* DisconnectFrom, and connections that seem dead: the entry stays until Terminated.
DisconnectFrom(a) ==
    /\ a \in Connected
    /\ handler' = ToldToClose(connections[a])
    /\ UNCHANGED <<connections, handshaked, unconfirmed, dialing, mail, announced>>

\* Mistake: the limits are checked when a connection is made, and not again.
LimitCheckedBefore(n, direction) == FALSE

IsConnectionLimitExhausted(n, direction) ==
    IF n \in Forgers /\ IsForgerNode
    THEN ForgerConnectionsSize > MaxForger
    ELSE \/ direction = "Incoming" /\ ConnectionsSize("Incoming") > MaxIncoming
         \/ direction = "Outgoing" /\ ConnectionsSize("Outgoing") > MaxOutgoing

\* Mistake: only connections that have handshaked count as connected.
ShouldDropHandshaked(h, found) ==
    \/ found # None /\ connections[found] \in handshaked
    \/ Owner[handler[h].address] = Self
    \/ IsConnectionLimitExhausted(Owner[handler[h].address], handler[h].direction)

ShouldDrop(h, found) ==
    LET n == Owner[handler[h].address]
    IN  \/ found # None /\ connections[found] # h
        \/ n = Self         \* the session id is ours
        \/ IsConnectionLimitExhausted(n, handler[h].direction)

\* The handler's message is taken out of the mailbox.
Reported(h) == [handler EXCEPT ![h].reported = FALSE]

HandleHandshake(h) ==
    LET a == handler[h].address
        spec == SpecAddress(Owner[a])
        peerAddress == IF spec # None THEN spec ELSE a
    IN  /\ handler[h].reported
        /\ UNCHANGED <<unconfirmed, dialing, mail>>
        /\ IF connections[a] # h
           THEN handler' = Reported(h) /\ UNCHANGED <<connections, handshaked, announced>>
           ELSE \E found \in FoundIn(ConnectionForPeerAddress(peerAddress)) :
                  IF ShouldDrop(h, found)
                  THEN /\ handler' = [ToldToClose(h) EXCEPT ![h].reported = FALSE]
                       /\ connections' = [connections EXCEPT ![a] = None]
                       /\ UNCHANGED <<handshaked, announced>>
                  ELSE /\ handler' = Reported(h)
                       /\ handshaked' = handshaked \cup {h}
                       /\ announced' = announced \cup {a}
                       /\ UNCHANGED connections

\* Mistake: the entry of the handler's address goes, whoever holds it now.
TerminatedByAddress(h) ==
    LET a == handler[h].address IN
    /\ handler[h].phase = "stopped" /\ ~handler[h].reported
    /\ handler' = [handler EXCEPT ![h] = NoHandler]
    /\ handshaked' = handshaked \ {h}
    /\ connections' = [connections EXCEPT ![a] = None]
    /\ unconfirmed' = unconfirmed \ {a}
    /\ announced' = announced \ {a}
    /\ UNCHANGED <<dialing, mail>>

\* Mistake: the entry stays in the map.
TerminatedIgnored(h) ==
    /\ handler[h].phase = "stopped" /\ ~handler[h].reported
    /\ handler' = [handler EXCEPT ![h] = NoHandler]
    /\ UNCHANGED <<handshaked, connections, unconfirmed, announced, dialing, mail>>

\* Terminated comes after the Handshaked of the same handler.
Terminated(h) ==
    LET a == handler[h].address IN
    /\ handler[h].phase = "stopped" /\ ~handler[h].reported
    /\ handler' = [handler EXCEPT ![h] = NoHandler]
    /\ handshaked' = handshaked \ {h}
    /\ IF connections[a] = h
       THEN /\ connections' = [connections EXCEPT ![a] = None]
            /\ unconfirmed' = unconfirmed \ {a}
            /\ announced' = announced \ {a}
       ELSE UNCHANGED <<connections, unconfirmed, announced>>
    /\ UNCHANGED <<dialing, mail>>

-----------------------------------------------------------------------------
(* PeerConnectionHandler                                                   *)

HandlerOnly == UNCHANGED <<connections, handshaked, unconfirmed, dialing, mail, announced>>

\* Of a handshake that cannot be parsed nothing comes; a handshake that can be makes
\* the handler report and start its working cycle.
ReceiveHandshake(h) ==
    /\ handler[h].phase = "handshaking" /\ handler[h].open
    /\ handler' = [handler EXCEPT ![h].phase = "working", ![h].reported = TRUE]
    /\ HandlerOnly

\* Mistake: the timeout is only logged.
HandshakeTimeoutLogged(h) ==
    /\ handler[h].phase = "handshaking"
    /\ UNCHANGED handler
    /\ HandlerOnly

\* The handler sends CloseConnection to itself.
HandshakeTimeout(h) ==
    /\ handler[h].phase = "handshaking"
    /\ handler' = ToldToClose(h)
    /\ HandlerOnly

\* CloseConnection: Abort, after which the TCP connection is closed.
Abort(h) ==
    /\ handler[h].phase \in {"handshaking", "working"}
    /\ handler[h].closing /\ handler[h].open
    /\ handler' = [handler EXCEPT ![h].open = FALSE, ![h].closing = FALSE]
    /\ HandlerOnly

\* The peer hangs up, or the network fails.
TcpClosed(h) ==
    /\ handler[h].open
    /\ handler' = [handler EXCEPT ![h].open = FALSE, ![h].closing = FALSE]
    /\ HandlerOnly

\* ConnectionClosed, or the death of the watched TCP connection.
ConnectionClosed(h) ==
    /\ handler[h].phase \in {"handshaking", "working"} /\ ~handler[h].open
    /\ handler' = [handler EXCEPT ![h].phase = "stopped"]
    /\ HandlerOnly

-----------------------------------------------------------------------------
Init ==
    /\ connections = [a \in Addresses |-> None]
    /\ handshaked = {} /\ unconfirmed = {} /\ dialing = {}
    /\ handler = [h \in Handlers |-> NoHandler]
    /\ toPeerManager = <<>> /\ fromPeerManager = <<>>
    /\ blacklist = {} /\ announced = {}

\* The PeerManager has mail, or answers of it are in the controller's mailbox.
PeerManagerMailbox ==
    \/ ConfirmConnection \/ Penalize
    \/ ConnectionConfirmed \/ ConnectionDenied \/ DisconnectFromAddress

\* A handler has mail (or its timer fires), or messages of it are in the controller's mailbox.
HandlerMailbox(h) ==
    \/ HandleHandshake(h) \/ Terminated(h)
    \/ HandshakeTimeout(h) \/ Abort(h) \/ ConnectionClosed(h)

Next ==
    \/ PeerManagerMailbox
    \/ \E n \in Nodes : ConnectTo(n) \/ RemoveFromBlacklist(n)
    \/ \E a \in Addresses :
          \/ ConnectFailed(a) \/ ConnectedRefused(a) \/ PenalizePeer(a)
          \/ ConnectedOutgoing(a) \/ ConnectedIncoming(a)
          \/ DisconnectFromNode(a) \/ DisconnectFrom(a)
    \/ \E h \in Handlers : HandlerMailbox(h) \/ ReceiveHandshake(h) \/ TcpClosed(h)

\* Akka empties every mailbox and fires every timer.
Fairness == WF_vars(PeerManagerMailbox) /\ \A h \in Handlers : WF_vars(HandlerMailbox(h))

Spec == Init /\ [][Next]_vars /\ Fairness

-----------------------------------------------------------------------------
(* Properties                                                              *)

\* The variables have their types, and an entry of the map names a handler of that
\* address that is not gone.
ConnectionsTypeOK ==
    /\ connections \in [Addresses -> Handlers \cup {None}]
    /\ \A a \in Connected : handler[connections[a]].address = a
    /\ unconfirmed \subseteq Listening /\ dialing \subseteq unconfirmed
    /\ announced \subseteq Addresses /\ blacklist \subseteq Nodes
    /\ \A h \in Handlers :
          /\ handler[h].phase \in {"free", "confirming", "handshaking", "working", "stopped"}
          /\ handler[h].phase = "free" <=> handler[h] = NoHandler
          /\ h \in handshaked => handler[h].phase \in {"working", "stopped"}

\* Connections that have handshaked: with forgers, and with others.
HandshakedWith(direction) ==
    {a \in Connected : connections[a] \in handshaked /\ handler[connections[a]].direction = direction}
ForgerConnections == {a \in Connected : IsForgerNode /\ Owner[a] \in Forgers}

\* "Drop connection if the peer does not fit in the limits": however many connections
\* were being confirmed or handshaking at once, those that are kept fit in.
HandshakedFitIn ==
    /\ Cardinality(HandshakedWith("Incoming") \ ForgerConnections) <= MaxIncoming
    /\ Cardinality(HandshakedWith("Outgoing") \ ForgerConnections) <= MaxOutgoing

\* "Drop connection (...) if (...) peer already connected": whoever calls
\* whom, and in whatever order, at most one connection with a peer is kept.
OneConnectionPerPeer ==
    \A a, b \in HandshakedWith("Incoming") \cup HandshakedWith("Outgoing") :
        Owner[a] = Owner[b] => a = b

\* No handler lives on without the controller knowing: one that is not in the map has
\* been told to close.  (An old handler's Terminated can come after its address has
\* been connected anew.)
NoHandlerIsForgotten ==
    \A h \in Handlers :
        handler[h].phase \in {"handshaking", "working"} /\ handler[h].open
            => handler[h].closing \/ connections[handler[h].address] = h

\* HandshakedPeer and DisconnectedPeer tell subscribers exactly which connections have
\* handshaked; a Handshaked that comes after its connection was closed changes nothing.
SubscribersAgree == announced = HandshakedWith("Incoming") \cup HandshakedWith("Outgoing")

\* A handler is gone, or serves a peer whose handshake it has got.
Settled(h) ==
    \/ handler[h].phase = "free"
    \/ handler[h].phase = "working" /\ handler[h].open /\ ~handler[h].closing

\* Every connection that waits for a confirmation or a handshake, that was closed by
\* the peer or that is told to close gets there; none lingers half-made or half-closed.
ConnectionsSettle == \A h \in Handlers : ~Settled(h) ~> Settled(h)

\* "Connection to peer $remote is already established", says connectTo of an address
\* that it will not dial: there is such a connection, or one is being made.
UndialableIsConnected ==
    \A a \in unconfirmed : a \in dialing \/ ConnectionForPeerAddress(a) # {}

=============================================================================
