----------------------- MODULE NodeViewSynchronizer -----------------------
(***************************************************************************)
(* network/NodeViewSynchronizer.scala: the actor between the peers and the *)
(* NodeViewHolder.  One action per message it handles.                     *)
(*                                                                         *)
(* Its mailbox holds the messages whose order matters to it: the timers    *)
(* that fired (CheckDelivery, TransactionRebroadcast) and the events the   *)
(* NodeViewHolder published.  A peer may send Inv and Modifiers messages   *)
(* at any time and with any contents, so such a message is handled in the  *)
(* step in which it appears: it is as if it had reached the mailbox before *)
(* everything that is waiting there.                                       *)
(***************************************************************************)
EXTENDS DeliveryTracker

CONSTANTS
    Genesis,                        \* the block every history starts with
    Parent,                         \* block -> its parentId
    Malformed,                      \* blocks applicableTry rejects once their parent is known
    HandlingTransactionsEnabled,    \* networkSettings.handlingTransactionsEnabled
    Encodings,                      \* how the bytes of a modifier may come: see EncodingKinds
    MaxInvObjects,                  \* bound: ids in one Inv or Modifiers message
    MaxOrphans,                     \* bound: orphaned timers of a peer and an id
    MaxMailbox                      \* bound: a new request waits while more is in the mailbox

\* The outcomes of parsing one modifier of a message: it parses to the declared
\* id, it does so with bytes left over, or it does not.
EncodingKinds == {"good", "trailing", "broken"}

ASSUME SynchronizerAssumption ==
    /\ Genesis \notin Ids
    /\ Parent \in [Blocks -> Blocks \cup {Genesis}]
    /\ Malformed \subseteq Blocks
    /\ HandlingTransactionsEnabled \in BOOLEAN
    /\ Encodings \subseteq EncodingKinds
    /\ MaxInvObjects \in Nat /\ MaxOrphans \in Nat /\ MaxMailbox \in Nat

VARIABLES
    mailbox,            \* messages waiting for the synchronizer, oldest first
    nvhMailbox,         \* messages waiting for the NodeViewHolder, oldest first
    readers,            \* which of historyReaderOpt and mempoolReaderOpt are defined
    historyReader,      \* blocks in historyReaderOpt
    mempoolReader,      \* transactions in mempoolReaderOpt
    out                 \* messages sent to the network side in the last step

readerVars == <<readers, historyReader, mempoolReader>>
nvsVars == <<trackerVars, mailbox, nvhMailbox, readerVars, out>>

-----------------------------------------------------------------------------
(* Messages                                                                *)

CheckDelivery(peer, id) == [kind |-> "CheckDelivery", peer |-> peer, id |-> id]
TransactionRebroadcast == [kind |-> "TransactionRebroadcast"]
Event(kind, id) == [kind |-> kind, id |-> id]
FailedTransaction(id, immediate) ==
    [kind |-> "FailedTransaction", id |-> id, immediateFailure |-> immediate]
Changed(kind, contents) == [kind |-> kind, contents |-> contents]
ModifiersProcessingResult(cleared) ==
    [kind |-> "ModifiersProcessingResult", cleared |-> cleared]

\* Messages to the NodeViewHolder.
GetNodeViewChanges == [kind |-> "GetNodeViewChanges"]
ModifiersFromRemote(mods) == [kind |-> "ModifiersFromRemote", mods |-> mods]
TransactionsFromRemote(txs) == [kind |-> "TransactionsFromRemote", mods |-> txs]

BlockEvents ==
    {"SyntacticallySuccessfulModifier", "SyntacticallyFailedModification",
     "SemanticallySuccessfulModifier", "SemanticallyFailedModification"}

Message ==
    [kind : {"CheckDelivery"}, peer : Peers, id : Ids]
      \cup {TransactionRebroadcast}
      \cup [kind : BlockEvents, id : Blocks]
      \cup [kind : {"SuccessfulTransaction"}, id : Txs]
      \cup [kind : {"FailedTransaction"}, id : Txs, immediateFailure : BOOLEAN]
      \cup [kind : {"ChangedHistory"}, contents : SUBSET Blocks]
      \cup [kind : {"ChangedMempool"}, contents : SUBSET Txs]
      \cup [kind : {"ModifiersProcessingResult"}, cleared : SUBSET Blocks]

NvhMessage ==
    {GetNodeViewChanges}
      \cup [kind : {"ModifiersFromRemote"}, mods : Seq(Blocks)]
      \cup [kind : {"TransactionsFromRemote"}, mods : Seq(Txs)]

\* Messages to the network controller and to the peers' handlers.
Penalize(peer, penalty) == [kind |-> "PenalizePeer", peer |-> peer, penalty |-> penalty]
Request(peer, id) == [kind |-> "RequestModifier", peer |-> peer, id |-> id]
Announce(id) == [kind |-> "Inv", id |-> id]

PenalizeAll(peers, penalty) == {Penalize(p, penalty) : p \in peers}

\* history.applicableTry(modifier), where history holds the blocks h.
ApplicableTry(h, id) ==
    IF Parent[id] \notin h \cup {Genesis} THEN "recoverable"
    ELSE IF id \in Malformed THEN "malformed"
    ELSE "success"

-----------------------------------------------------------------------------
(* Messages from peers                                                     *)

IdSeqs(S) == UNION {[1..n -> S] : n \in 1..MaxInvObjects}

\* The positions of ids that processInv keeps: those of Unknown modifiers, as
\* many as the peer's limit allows.
NewModifierIds(ids, held, limit) ==
    LET unknown == {i \in DOMAIN ids : Status(ids[i], held) = "Unknown"}
    IN  {i \in unknown : Cardinality({j \in unknown : j <= i}) <= limit}

\* processInv for ids of one modifier type; `kept` are the positions requested.
RequestFrom(peer, ids, kept) ==
    LET new == {ids[i] : i \in kept}
        copies == [id \in new |-> Cardinality({i \in kept : ids[i] = id})]
    IN  /\ kept # {}
        /\ Len(mailbox) < MaxMailbox
        /\ \A id \in new : orphans[peer, id] + copies[id] - 1 <= MaxOrphans
        /\ SetRequested(copies, peer)
        /\ out' = {Request(peer, id) : id \in new}
        /\ UNCHANGED <<mailbox, nvhMailbox, readerVars>>

ProcessInvOfBlocks(peer, ids) ==
    /\ readers = {"history", "mempool"}
    /\ RequestFrom(peer, ids, NewModifierIds(ids, historyReader, GetPeerLimit(peer)))

ProcessInvOfTransactions(peer, ids) ==
    /\ readers = {"history", "mempool"}
    /\ CanRequestMoreTransactions
    /\ HandlingTransactionsEnabled
    /\ RequestFrom(peer, ids, NewModifierIds(ids, mempoolReader, GetPeerLimit(peer)))

\* Mistake: modifiers are taken in whether they were asked for or not.
AllPositions(ids) == DOMAIN ids

\* processSpam: the positions of a message that were asked for, of any peer.
RequestedPositions(ids) == {i \in DOMAIN ids : Status(ids[i], {}) = "Requested"}

\* The penalties processSpam and parseModifiers send to the network controller.
PenaltiesForContents(peer, ids, encoding) ==
    LET asked == RequestedPositions(ids)
    IN  {Penalize(peer, "Spam") : i \in DOMAIN ids \ asked}
          \cup {Penalize(peer, "Misbehavior") : i \in {j \in asked : encoding[j] # "good"}}

Parsed(ids, encoding) == {i \in RequestedPositions(ids) : encoding[i] # "broken"}

\* The positions of a message in increasing order (the set has one element), and
\* the ids at those positions.
Enumerations(positions) ==
    {f \in [1..Cardinality(positions) -> positions] :
        \A m, n \in DOMAIN f : m < n => f[m] < f[n]}
IdsAt(ids, f) == [n \in DOMAIN f |-> ids[f[n]]]

\* validateAndSetStatus, position by position: a block is rejected because its
\* parent is invalid, as it may just have become, or because it is malformed.
ParentRejected(ids, i, rejected) ==
    LET parent == Parent[ids[i]]
    IN  \/ parent \in Ids /\ Status(parent, {}) = "Invalid"
        \/ \E j \in rejected : j < i /\ ids[j] = parent
Unapplicable(id) ==
    "history" \in readers /\ ApplicableTry(historyReader, id) = "malformed"
IsRejected(ids, i, rejected) == ParentRejected(ids, i, rejected) \/ Unapplicable(ids[i])

\* modifiersFromRemote for persistent modifiers.
BlocksFromRemote(peer, ids, encoding) ==
    \E rejected \in SUBSET Parsed(ids, encoding) :
        LET parsed == Parsed(ids, encoding)
            valid == parsed \ rejected
            disconnect == {i \in rejected : ParentRejected(ids, i, rejected)}
        IN  /\ \A i \in parsed : i \in rejected <=> IsRejected(ids, i, rejected)
            /\ Len(nvhMailbox) < MaxMailbox
            /\ SetReceivedOrInvalid({ids[i] : i \in valid}, {ids[i] : i \in rejected}, peer)
            /\ \E f \in Enumerations(valid) :
                  nvhMailbox' = IF valid = {} THEN nvhMailbox
                                ELSE Append(nvhMailbox, ModifiersFromRemote(IdsAt(ids, f)))
            /\ out' = PenaltiesForContents(peer, ids, encoding)
                        \cup {Penalize(peer, "Disconnect") : i \in disconnect}
                        \cup {Penalize(peer, "Misbehavior") : i \in rejected \ disconnect}
            /\ UNCHANGED <<mailbox, readerVars>>

\* modifiersFromRemote for transactions, sent on even if none is left.
TxsFromRemote(peer, ids, encoding) ==
    LET parsed == Parsed(ids, encoding)
    IN  /\ Len(nvhMailbox) < MaxMailbox
        /\ SetReceivedOrInvalid({ids[i] : i \in parsed}, {}, peer)
        /\ \E f \in Enumerations(parsed) :
              nvhMailbox' = Append(nvhMailbox, TransactionsFromRemote(IdsAt(ids, f)))
        /\ out' = PenaltiesForContents(peer, ids, encoding)
        /\ UNCHANGED <<mailbox, readerVars>>

-----------------------------------------------------------------------------
(* Timers                                                                  *)

\* The timer of a RequestedInfo fires.
DeliveryTimeout(id) ==
    /\ id \in timers
    /\ timers' = timers \ {id}
    /\ mailbox' = Append(mailbox, CheckDelivery(requested[id], id))
    /\ out' = {}
    /\ UNCHANGED <<requested, checks, orphans, peerLimits, received, invalid, slowVars,
                   rebroadcastQueue, nvhMailbox, readerVars>>

\* A timer that was replaced fires all the same.
OrphanTimeout(peer, id) ==
    /\ orphans[peer, id] > 0
    /\ orphans' = [orphans EXCEPT ![<<peer, id>>] = @ - 1]
    /\ mailbox' = Append(mailbox, CheckDelivery(peer, id))
    /\ out' = {}
    /\ UNCHANGED <<requested, checks, timers, peerLimits, received, invalid, slowVars,
                   rebroadcastQueue, nvhMailbox, readerVars>>

RebroadcastTimeout ==
    /\ rebroadcastTimer
    /\ rebroadcastTimer' = FALSE
    /\ mailbox' = Append(mailbox, TransactionRebroadcast)
    /\ out' = {}
    /\ UNCHANGED <<requestVars, received, invalid, slowMode, rebroadcastQueue,
                   nvhMailbox, readerVars>>

-----------------------------------------------------------------------------
(* Messages from the mailbox                                               *)

Handles(kind) ==
    /\ mailbox # <<>>
    /\ Head(mailbox).kind = kind
    /\ mailbox' = Tail(mailbox)
    /\ UNCHANGED nvhMailbox

\* checkDelivery: a late transaction is forgotten; the peer named in the message
\* is penalized for a late block, and waited for again.
HandleCheckDelivery ==
    /\ Handles("CheckDelivery")
    /\ LET id == Head(mailbox).id
           peer == Head(mailbox).peer
       IN  \/ /\ Status(id, {}) # "Requested"
              /\ out' = {}
              /\ UNCHANGED trackerVars
           \/ /\ Status(id, {}) = "Requested"
              /\ id \in Txs
              /\ ClearStatus({id})
              /\ out' = {}
              /\ UNCHANGED <<invalid, rebroadcastQueue>>
           \/ /\ Status(id, {}) = "Requested"
              /\ id \in Blocks
              /\ OnStillWaiting(peer, id)
              /\ out' = {Penalize(peer, "NonDelivery")}
    /\ UNCHANGED readerVars

\* broadcastModifierInv for transactions: in slow mode they wait in the queue.
BroadcastTransactions(slow, queue, ids) ==
    /\ rebroadcastQueue' = IF slow THEN PutInRebroadcastQueue(queue, ids) ELSE queue
    /\ out' = IF slow THEN {} ELSE {Announce(ids[i]) : i \in DOMAIN ids}

HandleSuccessfulTransaction ==
    /\ Handles("SuccessfulTransaction")
    /\ IF HandlingTransactionsEnabled
       THEN /\ SetHeld(Head(mailbox).id)
            /\ BroadcastTransactions(slowMode', rebroadcastQueue, <<Head(mailbox).id>>)
       ELSE out' = {} /\ UNCHANGED trackerVars
    /\ UNCHANGED readerVars

HandleFailedTransaction ==
    /\ Handles("FailedTransaction")
    /\ IF HandlingTransactionsEnabled
       THEN /\ SetInvalid(Head(mailbox).id)
            /\ out' = IF Head(mailbox).immediateFailure
                      THEN PenalizeAll(SetInvalidReturns(Head(mailbox).id), "Misbehavior")
                      ELSE {}
       ELSE out' = {} /\ UNCHANGED trackerVars
    /\ UNCHANGED readerVars

HandleSyntacticallySuccessful ==
    /\ Handles("SyntacticallySuccessfulModifier")
    /\ SetHeld(Head(mailbox).id)
    /\ out' = {}
    /\ UNCHANGED <<rebroadcastQueue, readerVars>>

HandleFailedModification ==
    /\ \/ Handles("SyntacticallyFailedModification")
       \/ Handles("SemanticallyFailedModification")
    /\ SetInvalid(Head(mailbox).id)
    /\ out' = PenalizeAll(SetInvalidReturns(Head(mailbox).id), "Disconnect")
    /\ UNCHANGED readerVars

HandleSemanticallySuccessful ==
    /\ Handles("SemanticallySuccessfulModifier")
    /\ out' = {Announce(Head(mailbox).id)}
    /\ UNCHANGED <<trackerVars, readerVars>>

HandleChangedHistory ==
    /\ Handles("ChangedHistory")
    /\ readers' = readers \cup {"history"}
    /\ historyReader' = Head(mailbox).contents
    /\ out' = {}
    /\ UNCHANGED <<trackerVars, mempoolReader>>

HandleChangedMempool ==
    /\ Handles("ChangedMempool")
    /\ readers' = readers \cup {"mempool"}
    /\ mempoolReader' = Head(mailbox).contents
    /\ out' = {}
    /\ UNCHANGED <<trackerVars, historyReader>>

\* Mistake: what the cache threw out stays Received.
IgnoreModifiersProcessingResult ==
    /\ Handles("ModifiersProcessingResult")
    /\ out' = {}
    /\ UNCHANGED <<trackerVars, readerVars>>

HandleModifiersProcessingResult ==
    /\ Handles("ModifiersProcessingResult")
    /\ SetUnknown(Head(mailbox).cleared)
    /\ out' = {}
    /\ UNCHANGED readerVars

HandleTransactionRebroadcast ==
    /\ Handles("TransactionRebroadcast")
    /\ LET mods == GetRebroadcastModifiers
           present == IF "mempool" \in readers
                      THEN {i \in DOMAIN mods : mods[i] \in mempoolReader} ELSE {}
       IN  \E f \in Enumerations(present) :
              BroadcastTransactions(slowMode, AfterGetRebroadcastModifiers, IdsAt(mods, f))
    /\ rebroadcastTimer' = ScheduleRebroadcastIfNeeded(rebroadcastQueue', rebroadcastTimer)
    /\ UNCHANGED <<requestVars, received, invalid, slowMode, readerVars>>

-----------------------------------------------------------------------------
NvsInit ==
    /\ TrackerInit
    /\ mailbox = <<>>
    /\ nvhMailbox = <<GetNodeViewChanges>>
    /\ readers = {}
    /\ historyReader = {}
    /\ mempoolReader = {}
    /\ out = {}

\* The messages in the mailbox; those of the peers and the timers take parameters.
NvsHandle ==
    \/ HandleCheckDelivery
    \/ HandleSuccessfulTransaction
    \/ HandleFailedTransaction
    \/ HandleSyntacticallySuccessful
    \/ HandleFailedModification
    \/ HandleSemanticallySuccessful
    \/ HandleChangedHistory
    \/ HandleChangedMempool
    \/ HandleModifiersProcessingResult
    \/ HandleTransactionRebroadcast

=============================================================================
