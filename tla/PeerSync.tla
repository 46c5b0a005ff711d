------------------------------ MODULE PeerSync ------------------------------
(***************************************************************************)
(* Synchronization with the peers: network/SyncTracker.scala, a local      *)
(* field of the NodeViewSynchronizer, and the handlers of that actor which *)
(* use it (peerManagerEvents, getLocalSyncInfo, processSync,               *)
(* processSyncStatus).                                                     *)
(*                                                                         *)
(* Two ConnectedPeers are equal when their addresses are, so the maps have *)
(* one entry per address.  The entry keeps the ConnectedPeer it was first  *)
(* made with, and with it the handler that messages are sent to: Scala's   *)
(* mutable maps replace the value of an equal key and not the key.  A      *)
(* connection of the model is a ConnectedPeer with its handler; it is used *)
(* once.                                                                   *)
(*                                                                         *)
(* The network controller announces connections and forwards messages in   *)
(* order.  Whoever closes a connection, the controller or the peer, its    *)
(* handler may pass on a message after the controller gave it up.          *)
(***************************************************************************)
EXTENDS Integers, Sequences, FiniteSets

CONSTANTS
    Conns,              \* connections
    AddressOf,          \* connection -> address of the peer
    None,               \* no entry
    Comparisons,        \* results history.compare may have
    SyncInterval, SyncStatusRefresh,                \* networkSettings, in ticks
    SyncIntervalStable, SyncStatusRefreshStable,
    MaxMailbox          \* bound: messages of the controller in the mailbox

Addresses == {AddressOf[c] : c \in Conns}
MaxAge == (IF SyncStatusRefresh < SyncStatusRefreshStable
           THEN SyncStatusRefreshStable ELSE SyncStatusRefresh) + 1
Statuses == Comparisons \cup {"Unknown"}
StatusEntry == [conn : Conns, status : Statuses]
TimeEntry == [conn : Conns, age : 0..MaxAge]

ASSUME SyncAssumption ==
    /\ None \notin StatusEntry \cup TimeEntry
    /\ AddressOf \in [Conns -> Addresses]
    /\ Comparisons \subseteq {"Equal", "Younger", "Fork", "Older", "Nonsense", "Unknown"}
    /\ SyncInterval \in 0..SyncStatusRefresh
    /\ SyncIntervalStable \in 0..SyncStatusRefreshStable
    /\ SyncStatusRefresh \in Nat /\ SyncStatusRefreshStable \in Nat
    /\ MaxMailbox \in Nat

VARIABLES
    statuses,           \* address -> [conn, status], or None
    lastSyncSentTime,   \* address -> [conn, age in ticks], or None
    stableSyncRegime,
    schedule,           \* of SendLocalSyncInfo: "delayed" for 2 seconds, then "running"
    historyReader,      \* historyReaderOpt is defined
    mailbox,            \* of the NodeViewSynchronizer
    neighbour,          \* the event published last: "Better", or "NoBetter" as at the start
    sent,               \* connections the last SyncInfo was sent through
    life                \* connection -> "new", "live", "closed"

trackerVars == <<statuses, lastSyncSentTime, stableSyncRegime, neighbour, schedule>>
vars == <<trackerVars, historyReader, mailbox, sent, life>>

HandshakedPeer(c) == [kind |-> "HandshakedPeer", conn |-> c]
DisconnectedPeer(a) == [kind |-> "DisconnectedPeer", address |-> a]
SyncInfo(c) == [kind |-> "SyncInfo", conn |-> c]
OtherNodeSyncingStatus(c, status) ==
    [kind |-> "OtherNodeSyncingStatus", conn |-> c, status |-> status]

Message ==
    [kind : {"HandshakedPeer", "SyncInfo"}, conn : Conns]
      \cup [kind : {"DisconnectedPeer"}, address : Addresses]
      \cup [kind : {"OtherNodeSyncingStatus"}, conn : Conns, status : Comparisons]

-----------------------------------------------------------------------------
(* SyncTracker                                                             *)

MaxInterval == IF stableSyncRegime THEN SyncStatusRefreshStable ELSE SyncStatusRefresh
MinInterval == IF stableSyncRegime THEN SyncIntervalStable ELSE SyncInterval

Tracked(map) == {a \in Addresses : map[a] # None}
WithStatus(map, status) == {a \in Tracked(map) : map[a].status = status}
Seniors(map) == WithStatus(map, "Older")

\* The ConnectedPeer that is the key of c's entry once c is put into the map.
KeyFor(map, c) == LET e == map[AddressOf[c]] IN IF e = None THEN c ELSE e.conn

\* updateLastSyncSentTime for every connection of S, which have different addresses.
UpdateLastSyncSentTime(map, S) ==
    [a \in Addresses |->
        IF \E c \in S : AddressOf[c] = a
        THEN [conn |-> KeyFor(map, CHOOSE c \in S : AddressOf[c] = a), age |-> 0]
        ELSE map[a]]

\* Mistake: the time is not set when a peer is seen for the first time.
UpdateStatusUntimed(c, status) ==
    LET updated == [statuses EXCEPT ![AddressOf[c]] =
                      [conn |-> KeyFor(statuses, c), status |-> status]]
    IN  /\ statuses' = updated
        /\ neighbour' = IF Seniors(updated) # {} THEN "Better" ELSE neighbour
        /\ UNCHANGED <<lastSyncSentTime, stableSyncRegime, schedule>>

\* Mistake: the end of synchronization is announced when the peer itself is no senior.
UpdateStatusHasty(c, status) ==
    LET updated == [statuses EXCEPT ![AddressOf[c]] =
                      [conn |-> KeyFor(statuses, c), status |-> status]]
        done == Seniors(statuses) # {} /\ status # "Older"
    IN  /\ statuses' = updated
        /\ lastSyncSentTime' =
             IF lastSyncSentTime[AddressOf[c]] = None
             THEN UpdateLastSyncSentTime(lastSyncSentTime, {c}) ELSE lastSyncSentTime
        /\ stableSyncRegime' = (stableSyncRegime \/ done)
        /\ schedule' = IF done THEN "delayed" ELSE schedule
        /\ neighbour' = IF done THEN "NoBetter"
                        ELSE IF Seniors(updated) # {} THEN "Better" ELSE neighbour

\* updateStatus(peer, status).  Whenever the last senior stops being one, be the regime
\* stable already, scheduleSendSyncInfo cancels the schedule and starts it anew.
UpdateStatus(c, status) ==
    LET updated == [statuses EXCEPT ![AddressOf[c]] =
                      [conn |-> KeyFor(statuses, c), status |-> status]]
        done == Seniors(statuses) # {} /\ Seniors(updated) = {}
        appeared == Seniors(statuses) = {} /\ Seniors(updated) # {}
    IN  /\ statuses' = updated
        /\ lastSyncSentTime' =
             IF lastSyncSentTime[AddressOf[c]] = None
             THEN UpdateLastSyncSentTime(lastSyncSentTime, {c}) ELSE lastSyncSentTime
        /\ stableSyncRegime' = (stableSyncRegime \/ done)
        /\ schedule' = IF done THEN "delayed" ELSE schedule
        /\ neighbour' = IF done THEN "NoBetter" ELSE IF appeared THEN "Better" ELSE neighbour

\* clearStatus(remote): seniors are not counted again.
ClearStatus(a) ==
    /\ statuses' = [statuses EXCEPT ![a] = None]
    /\ lastSyncSentTime' = [lastSyncSentTime EXCEPT ![a] = None]
    /\ UNCHANGED <<stableSyncRegime, neighbour, schedule>>

Outdated == {a \in Tracked(lastSyncSentTime) : lastSyncSentTime[a].age > MaxInterval}

\* A peer that was never sent a SyncInfo counts as sent to at time 0.
IsDue(a) == lastSyncSentTime[a] = None \/ lastSyncSentTime[a].age >= MinInterval

\* Mistake: peers that are ahead go before those whose status is old.
PeersToSyncWithEldersFirst ==
    IF Seniors(statuses) # {}
    THEN {{statuses[a].conn} : a \in Seniors(statuses)}
    ELSE {{lastSyncSentTime[a].conn : a \in Outdated}}

\* peersToSyncWith(): the sets of connections it may return.  Without outdated peers,
\* all whose status is Unknown or Fork and one random Older one, if they are due.
PeersToSyncWith ==
    IF Outdated # {} THEN {{lastSyncSentTime[a].conn : a \in Outdated}}
    ELSE LET others == WithStatus(statuses, "Unknown") \cup WithStatus(statuses, "Fork")
             chosen == IF Seniors(statuses) = {} THEN {others}
                       ELSE {others \cup {elder} : elder \in Seniors(statuses)}
         IN  {{statuses[a].conn : a \in {b \in S : IsDue(b)}} : S \in chosen}

-----------------------------------------------------------------------------
(* The handlers of the NodeViewSynchronizer                                *)

\* SendLocalSyncInfo from the schedule, which fires every minInterval, or left in the
\* mailbox by a schedule that was cancelled since; sendSync needs a reader.
SendLocalSyncInfo ==
    /\ schedule = "running" \/ stableSyncRegime
    /\ historyReader
    /\ \E peers \in PeersToSyncWith :
          /\ sent' = peers
          /\ lastSyncSentTime' = UpdateLastSyncSentTime(lastSyncSentTime, peers)
    /\ UNCHANGED <<statuses, stableSyncRegime, neighbour, schedule, historyReader, mailbox, life>>

\* The first ChangedHistory answers GetNodeViewChanges.
ChangedHistory ==
    /\ ~historyReader
    /\ historyReader' = TRUE
    /\ sent' = {}
    /\ UNCHANGED <<trackerVars, mailbox, life>>

Handles(kind) ==
    /\ mailbox # <<>>
    /\ Head(mailbox).kind = kind
    /\ sent' = {}
    /\ UNCHANGED <<historyReader, life>>

HandleHandshakedPeer ==
    /\ Handles("HandshakedPeer")
    /\ UpdateStatus(Head(mailbox).conn, "Unknown")
    /\ mailbox' = Tail(mailbox)

HandleDisconnectedPeer ==
    /\ Handles("DisconnectedPeer")
    /\ ClearStatus(Head(mailbox).address)
    /\ mailbox' = Tail(mailbox)

\* processSync: the comparison is made now and sent to itself.
ProcessSync ==
    /\ Handles("SyncInfo")
    /\ IF historyReader
       THEN \E comparison \in Comparisons :
               mailbox' = Append(Tail(mailbox),
                                 OtherNodeSyncingStatus(Head(mailbox).conn, comparison))
       ELSE mailbox' = Tail(mailbox)
    /\ UNCHANGED trackerVars

\* processSyncStatus: a Younger or Fork peer is also sent an Inv of what it lacks,
\* through the very connection its SyncInfo came from.
ProcessSyncStatus ==
    /\ Handles("OtherNodeSyncingStatus")
    /\ UpdateStatus(Head(mailbox).conn, Head(mailbox).status)
    /\ mailbox' = Tail(mailbox)

Handle ==
    \/ HandleHandshakedPeer
    \/ HandleDisconnectedPeer
    \/ ProcessSync
    \/ ProcessSyncStatus

-----------------------------------------------------------------------------
(* The network controller, the peers and time                              *)

FromController(message) == mailbox' = Append(mailbox, message)
HasRoom == Len(mailbox) < MaxMailbox

\* A handshake is confirmed.  The controller has one connection per address.
Connect(c) ==
    /\ HasRoom
    /\ life[c] = "new"
    /\ \A d \in Conns : AddressOf[d] = AddressOf[c] => life[d] # "live"
    /\ life' = [life EXCEPT ![c] = "live"]
    /\ FromController(HandshakedPeer(c))
    /\ sent' = {}
    /\ UNCHANGED <<trackerVars, historyReader>>

\* The controller removes the connection, because it is told to or because the
\* handler has stopped.
Disconnect(c) ==
    /\ HasRoom
    /\ life[c] = "live"
    /\ life' = [life EXCEPT ![c] = "closed"]
    /\ FromController(DisconnectedPeer(AddressOf[c]))
    /\ sent' = {}
    /\ UNCHANGED <<trackerVars, historyReader>>

\* businessLogic: a message is forwarded even if its connection is not found.  When a
\* handler stops is left open: it may pass on what it reads, or nothing.
ForwardSyncInfo(c) ==
    /\ HasRoom
    /\ life[c] \in {"live", "closed"}
    /\ FromController(SyncInfo(c))
    /\ sent' = {}
    /\ UNCHANGED <<trackerVars, historyReader, life>>

Older(entry) ==
    IF entry = None THEN None
    ELSE [entry EXCEPT !.age = IF @ < MaxAge THEN @ + 1 ELSE MaxAge]

Tick ==
    /\ lastSyncSentTime' = [a \in Addresses |-> Older(lastSyncSentTime[a])]
    /\ lastSyncSentTime' # lastSyncSentTime
    /\ sent' = {}
    /\ UNCHANGED <<statuses, stableSyncRegime, neighbour, schedule, historyReader, mailbox, life>>

\* The initial delay of the schedule is over.
ScheduleStarts ==
    /\ schedule = "delayed"
    /\ schedule' = "running"
    /\ sent' = {}
    /\ UNCHANGED <<statuses, lastSyncSentTime, stableSyncRegime, neighbour, historyReader,
                   mailbox, life>>

-----------------------------------------------------------------------------
Init ==
    /\ statuses = [a \in Addresses |-> None]
    /\ lastSyncSentTime = [a \in Addresses |-> None]
    /\ stableSyncRegime = FALSE
    /\ schedule = "delayed"
    /\ historyReader = FALSE
    /\ mailbox = <<>>
    /\ neighbour = "NoBetter"
    /\ sent = {}
    /\ life = [c \in Conns |-> "new"]

Next ==
    \/ SendLocalSyncInfo
    \/ ChangedHistory
    \/ Handle
    \/ \E c \in Conns : Connect(c) \/ Disconnect(c) \/ ForwardSyncInfo(c)
    \/ Tick \/ ScheduleStarts

\* The actor works off its mailbox, the NodeViewHolder answers, time passes, and the
\* schedule fires unless it is cancelled before.  Peers owe nothing: they may make
\* updateStatus cancel it for ever.
Fairness ==
    /\ WF_vars(schedule = "running" /\ SendLocalSyncInfo)
    /\ WF_vars(ScheduleStarts)
    /\ WF_vars(ChangedHistory)
    /\ WF_vars(Handle)
    /\ WF_vars(Tick)

Spec == Init /\ [][Next]_vars /\ Fairness

-----------------------------------------------------------------------------
(* Properties                                                              *)

SyncTypeOK ==
    /\ statuses \in [Addresses -> StatusEntry \cup {None}]
    /\ lastSyncSentTime \in [Addresses -> TimeEntry \cup {None}]
    /\ stableSyncRegime \in BOOLEAN
    /\ schedule \in {"delayed", "running"}
    /\ historyReader \in BOOLEAN
    /\ mailbox \in Seq(Message)
    /\ neighbour \in {"Better", "NoBetter"}
    /\ sent \subseteq Conns
    /\ life \in [Conns -> {"new", "live", "closed"}]

\* Whatever comes late and however often a peer comes back: once its handshake was
\* heard of, a connected peer is tracked in both maps, which have the same peers.
ConnectedIsTracked ==
    /\ Tracked(statuses) = Tracked(lastSyncSentTime)
    /\ \A c \in Conns :
         life[c] = "live" /\ (\A i \in DOMAIN mailbox : mailbox[i] # HandshakedPeer(c))
           => AddressOf[c] \in Tracked(statuses)

\* As long as some peer is known to be ahead, the last the subscribers heard is that
\* there is a better neighbour: the end of synchronization is not announced too early.
SeniorsAreAnnounced == Seniors(statuses) # {} => neighbour = "Better"

SentTo(a) == \E c \in sent : AddressOf[c] = a

\* From some time on the last senior does not come and go any more.
ScheduleGoesOn == <>[](schedule = "running")

\* Unless the schedule is restarted again and again, no tracked peer is passed over for
\* ever, whatever its status and whoever else is tracked: a SyncInfo is sent to it, or it
\* is disconnected.
EveryPeerIsSynced ==
    ScheduleGoesOn =>
        \A a \in Addresses :
            a \in Tracked(statuses) ~> (SentTo(a) \/ a \notin Tracked(statuses))

\* A connected peer gets our SyncInfo through the connection it has.
SyncReachesTheConnection ==
    ScheduleGoesOn =>
        \A c \in Conns : life[c] = "live" ~> (c \in sent \/ life[c] # "live")

=============================================================================
