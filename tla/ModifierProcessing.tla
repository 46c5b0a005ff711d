------------------------ MODULE ModifierProcessing ------------------------
(***************************************************************************)
(* The NodeViewSynchronizer and the NodeViewHolder together: modifiers are *)
(* requested, delivered, cached, applied or rejected, and the outcome is   *)
(* reported back through the event stream.                                 *)
(*                                                                         *)
(* The NodeViewHolder (NodeViewHolder.scala) is seen here through what the *)
(* synchronizer can tell of it: which modifiers it holds, which are in its *)
(* cache, and the events it publishes, in order.  It handles one message   *)
(* at a time; its loop over the cache takes one step per candidate, so     *)
(* that timers and messages of the synchronizer fall between them.         *)
(***************************************************************************)
EXTENDS NodeViewSynchronizer, ModifiersCache

CONSTANTS
    SyntInvalid,        \* blocks history.append fails for
    SemInvalid,         \* blocks the state rejects
    LocalModifiers      \* modifiers that may (also) be generated locally

ASSUME ProcessingAssumption ==
    /\ SyntInvalid \subseteq Blocks
    /\ SemInvalid \subseteq Blocks
    /\ LocalModifiers \subseteq Ids

VARIABLES
    history,            \* blocks in the history
    mempool,            \* transactions in the memory pool
    modifiersCache,     \* see module ModifiersCache
    applying            \* the NodeViewHolder is in the applyLoop

nvhVars == <<history, mempool, modifiersCache, applying>>
vars == <<nvsVars, nvhVars>>
nvsOwnVars == <<trackerVars, readerVars>>

-----------------------------------------------------------------------------
(* NodeViewHolder                                                          *)

\* The room the synchronizer's mailbox must have for a step to publish.
HasRoom == Len(mailbox) < MaxMailbox

Publish(events) == mailbox' = mailbox \o events

\* Mistake: the history is not published when the state did not change.
PmodModifyUnpublished(pmod) ==
    /\ pmod \notin history
    /\ history' = history \cup {pmod}
    /\ Publish(<<Event("SyntacticallySuccessfulModifier", pmod)>>)
    /\ UNCHANGED mempool

\* updateState publishes a verdict on every block it applies, or tries to.
VerdictOn(b) == Event(IF b \in SemInvalid THEN "SemanticallyFailedModification"
                      ELSE "SemanticallySuccessfulModifier", b)

\* The verdicts of one update of the state, which may switch chains and start again.
Verdicts(blocks) ==
    UNION {[1..n -> {VerdictOn(b) : b \in blocks}] : n \in 0..Cardinality(blocks)}

\* pmodModify: the events of one block, and what the node holds after it.  There may
\* be nothing to apply to the state, or a report to the history fails, perhaps after
\* some verdicts; otherwise blocks are applied.  The mempool after an application is
\* any subset: transactions of applied blocks and those that became invalid leave it.
PmodModify(pmod) ==
    LET grown == history \cup {pmod}
        appended == Event("SyntacticallySuccessfulModifier", pmod)
    IN  \/ /\ pmod \in history
           /\ UNCHANGED <<history, mempool, mailbox>>
        \/ /\ pmod \notin history
           /\ pmod \in SyntInvalid
           /\ Publish(<<Event("SyntacticallyFailedModification", pmod)>>)
           /\ UNCHANGED <<history, mempool>>
        \/ /\ pmod \notin history \cup SyntInvalid
           /\ history' = grown
           /\ \E verdicts \in Verdicts(grown) :
                 Publish(<<appended>> \o verdicts \o <<Changed("ChangedHistory", grown)>>)
           /\ UNCHANGED mempool
        \/ /\ pmod \notin history \cup SyntInvalid
           /\ history' = grown
           /\ mempool' \in SUBSET mempool
           /\ \E verdicts \in Verdicts(grown) \ {<<>>} :
                 Publish(<<appended>> \o verdicts \o <<Changed("ChangedHistory", grown),
                                                       Changed("ChangedMempool", mempool')>>)

\* Mistake: a transaction the pool refuses is not reported.
TxModifyUnreported(tx) ==
    \/ /\ mempool' = mempool \cup {tx}
       /\ Publish(<<Changed("ChangedMempool", mempool'), Event("SuccessfulTransaction", tx)>>)
    \/ UNCHANGED <<mempool, mailbox>>

\* txModify: validation or the pool may refuse a transaction.
TxModify(tx) ==
    \/ /\ mempool' = mempool \cup {tx}
       /\ Publish(<<Changed("ChangedMempool", mempool'), Event("SuccessfulTransaction", tx)>>)
    \/ /\ Publish(<<FailedTransaction(tx, TRUE)>>)
       /\ UNCHANGED mempool

NvhIdle == ~applying /\ HasRoom
NvhReceives(kind) == NvhIdle /\ nvhMailbox # <<>> /\ Head(nvhMailbox).kind = kind

\* getNodeViewChanges(history = true, mempool = true)
NvhGetNodeViewChanges ==
    /\ NvhReceives("GetNodeViewChanges")
    /\ nvhMailbox' = Tail(nvhMailbox)
    /\ Publish(<<Changed("ChangedHistory", history), Changed("ChangedMempool", mempool)>>)
    /\ out' = {}
    /\ UNCHANGED <<nvsOwnVars, nvhVars>>

\* processRemoteModifiers: put all modifiers in the cache ...
NvhModifiersFromRemote ==
    /\ NvhReceives("ModifiersFromRemote")
    /\ nvhMailbox' = Tail(nvhMailbox)
    /\ modifiersCache' = PutAll(modifiersCache, Head(nvhMailbox).mods)
    /\ applying' = TRUE
    /\ out' = {}
    /\ UNCHANGED <<nvsOwnVars, mailbox, history, mempool>>

Verdict == [id \in Blocks |-> ApplicableTry(history, id)]

\* ... apply one candidate after the other ...
NvhApplyCandidate ==
    /\ applying
    /\ HasRoom
    /\ \E pmod \in Blocks :
          pmod \in CandidateKey(modifiersCache, Verdict) /\ PmodModify(pmod)
    /\ modifiersCache' = PopCandidate(modifiersCache, Verdict)
    /\ out' = {}
    /\ UNCHANGED <<nvsOwnVars, nvhMailbox, applying>>

\* ... and when there is none, clear what does not fit and report.  The last
\* popCandidate may have dropped entries, of which the report does not tell.
NvhFinish ==
    /\ applying
    /\ HasRoom
    /\ CandidateKey(modifiersCache, Verdict) = {}
    /\ LET left == PopCandidate(modifiersCache, Verdict)
       IN  /\ modifiersCache' = CleanOverfull(left)
           /\ Publish(<<ModifiersProcessingResult({id \in Blocks : id \in ClearedKeys(left)})>>)
    /\ applying' = FALSE
    /\ out' = {}
    /\ UNCHANGED <<nvsOwnVars, nvhMailbox, history, mempool>>

\* transactionsProcessing for TransactionsFromRemote, one transaction per step.
NvhTransactionsFromRemote ==
    /\ NvhReceives("TransactionsFromRemote")
    /\ LET txs == Head(nvhMailbox).mods
       IN  \/ /\ txs = <<>>
              /\ nvhMailbox' = Tail(nvhMailbox)
              /\ UNCHANGED <<mempool, mailbox>>
           \/ /\ txs # <<>>
              /\ nvhMailbox' = <<TransactionsFromRemote(Tail(txs))>> \o Tail(nvhMailbox)
              /\ TxModify(Head(txs))
    /\ out' = {}
    /\ UNCHANGED <<nvsOwnVars, history, modifiersCache, applying>>

\* A modifier or a transaction that this node made itself, on top of its history.
NvhLocallyGeneratedModifier(pmod) ==
    /\ NvhIdle
    /\ Parent[pmod] \in history \cup {Genesis}
    /\ PmodModify(pmod)
    /\ out' = {}
    /\ UNCHANGED <<nvsOwnVars, nvhMailbox, modifiersCache, applying>>

NvhLocallyGeneratedTransaction(tx) ==
    /\ NvhIdle
    /\ IF HandlingTransactionsEnabled THEN TxModify(tx)
       ELSE Publish(<<FailedTransaction(tx, FALSE)>>) /\ UNCHANGED mempool
    /\ out' = {}
    /\ UNCHANGED <<nvsOwnVars, nvhMailbox, history, modifiersCache, applying>>

\* EliminateTransactions(ids), for one id.
NvhEliminateTransaction(tx) ==
    /\ NvhIdle
    /\ mempool' = mempool \ {tx}
    /\ Publish(<<Changed("ChangedMempool", mempool'), FailedTransaction(tx, FALSE)>>)
    /\ out' = {}
    /\ UNCHANGED <<nvsOwnVars, nvhMailbox, history, modifiersCache, applying>>

NvhNext ==
    \/ NvhGetNodeViewChanges
    \/ NvhModifiersFromRemote
    \/ NvhApplyCandidate
    \/ NvhFinish
    \/ NvhTransactionsFromRemote
    \/ \E pmod \in LocalModifiers \cap Blocks : NvhLocallyGeneratedModifier(pmod)
    \/ \E tx \in LocalModifiers \cap Txs :
          NvhLocallyGeneratedTransaction(tx) \/ NvhEliminateTransaction(tx)

-----------------------------------------------------------------------------
Init ==
    /\ NvsInit
    /\ history = {}
    /\ mempool = {}
    /\ modifiersCache = EmptyCache
    /\ applying = FALSE

NvsReceive ==
    \E peer \in Peers :
        \/ \E ids \in IdSeqs(Blocks) : ProcessInvOfBlocks(peer, ids) /\ UNCHANGED nvhVars
        \/ \E ids \in IdSeqs(Txs) : ProcessInvOfTransactions(peer, ids) /\ UNCHANGED nvhVars
        \/ \E ids \in IdSeqs(Blocks) : \E encoding \in [DOMAIN ids -> Encodings] :
              BlocksFromRemote(peer, ids, encoding) /\ UNCHANGED nvhVars
        \/ \E ids \in IdSeqs(Txs) : \E encoding \in [DOMAIN ids -> Encodings] :
              TxsFromRemote(peer, ids, encoding) /\ UNCHANGED nvhVars

NvsTimeout ==
    \/ \E id \in Ids : DeliveryTimeout(id) /\ UNCHANGED nvhVars
    \/ \E peer \in Peers, id \in Ids : OrphanTimeout(peer, id) /\ UNCHANGED nvhVars
    \/ RebroadcastTimeout /\ UNCHANGED nvhVars

NvsNext ==
    \/ NvsReceive
    \/ NvsTimeout
    \/ HandleCheckDelivery /\ UNCHANGED nvhVars
    \/ HandleSuccessfulTransaction /\ UNCHANGED nvhVars
    \/ HandleFailedTransaction /\ UNCHANGED nvhVars
    \/ HandleSyntacticallySuccessful /\ UNCHANGED nvhVars
    \/ HandleFailedModification /\ UNCHANGED nvhVars
    \/ HandleSemanticallySuccessful /\ UNCHANGED nvhVars
    \/ HandleChangedHistory /\ UNCHANGED nvhVars
    \/ HandleChangedMempool /\ UNCHANGED nvhVars
    \/ HandleModifiersProcessingResult /\ UNCHANGED nvhVars
    \/ HandleTransactionRebroadcast /\ UNCHANGED nvhVars

Next == NvsNext \/ NvhNext

\* Akka delivers what is in a mailbox, actors do not stop in the middle of a loop,
\* and the scheduler fires every timer; peers and local producers owe nothing.
Fairness ==
    /\ WF_vars(NvsHandle /\ UNCHANGED nvhVars)
    /\ \A id \in Ids : WF_vars(DeliveryTimeout(id) /\ UNCHANGED nvhVars)

Spec == Init /\ [][Next]_vars /\ Fairness

-----------------------------------------------------------------------------
(* Properties                                                              *)

TypeOK ==
    /\ TrackerTypeOK
    /\ mailbox \in Seq(Message)
    /\ nvhMailbox \in Seq(NvhMessage)
    /\ readers \subseteq {"history", "mempool"}
    /\ historyReader \subseteq Blocks
    /\ mempoolReader \subseteq Txs
    /\ history \subseteq Blocks
    /\ mempool \subseteq Txs
    /\ applying \in BOOLEAN

\* A modifier is in at most one of the maps `requested`, `received` and `invalid`,
\* so status() does not depend on the order in which it asks them.
StatusIsUnambiguous ==
    \A id \in Ids :
        /\ ~(IsRequested(id) /\ IsReceived(id))
        /\ id \in invalid => ~IsRequested(id) /\ ~IsReceived(id)

InMailbox(Test(_)) == \E i \in DOMAIN mailbox : Test(mailbox[i])

\* Whatever happens between a request and its answer, a modifier is Requested only
\* while a timer or a CheckDelivery message is left that will look at it again.
EveryRequestIsWatched ==
    \A id \in Ids :
        IsRequested(id) =>
            id \in timers \/ InMailbox(LAMBDA m : m.kind = "CheckDelivery" /\ m.id = id)

\* A request gives up before its checks reach maxDeliveryChecks, and a timer or a
\* number of checks is kept only for a modifier that is Requested.
ChecksAreBounded ==
    \A id \in Ids :
        IF IsRequested(id) THEN checks[id] < MaxDeliveryChecks \/ checks[id] = 0
        ELSE checks[id] = 0 /\ id \notin timers

\* The counters of all peers together never fall below the number of modifiers that
\* are Requested: a decrement that goes to the wrong peer cannot lose a request.
RequestsAreCounted ==
    Cardinality({id \in Ids : IsRequested(id)}) <= MapThenSumSet(LAMBDA p : peerLimits[p], Peers)

\* What the NodeViewHolder was sent and has not worked off yet.
Forwarded(id) ==
    \E i \in DOMAIN nvhMailbox :
        /\ nvhMailbox[i].kind \in {"ModifiersFromRemote", "TransactionsFromRemote"}
        /\ \E j \in DOMAIN nvhMailbox[i].mods : nvhMailbox[i].mods[j] = id

\* What was taken in and waits to be applied.
InHand(id) == Forwarded(id) \/ id \in Keys(modifiersCache)

\* The events by which the status Received ends.
OutcomeInMailbox(id) ==
    InMailbox(LAMBDA m :
        \/ m.kind \in {"SyntacticallySuccessfulModifier", "SyntacticallyFailedModification",
                       "SuccessfulTransaction", "FailedTransaction"} /\ m.id = id
        \/ m.kind = "ModifiersProcessingResult" /\ id \in m.cleared)

\* A modifier that is Received is in the cache or on the way to it, or the event that
\* settles its status is on the way back, unless the history has got it by another way.
ReceivedIsUnderWayOrHeld ==
    \A id \in Ids :
        IsReceived(id) =>
            InHand(id) \/ OutcomeInMailbox(id) \/ id \in history

\* A transaction, which is never cached or in the history, is on the way to the holder
\* or its verdict is on the way back.
ReceivedTxIsUnderWay ==
    \A tx \in Txs : IsReceived(tx) => InHand(tx) \/ OutcomeInMailbox(tx)

\* The other direction: a block that waits in the cache, or is on the way to it, is
\* Received, so that it is not requested a second time, unless the history has got it
\* by another way or it was found invalid in the meantime.
InHandIsReceived ==
    \A id \in Blocks : InHand(id) => IsReceived(id) \/ id \in history \cup invalid

\* Between two messages the cache holds no more than its maximal size, and every
\* modifier in it can still be found by eviction.
CacheIsBounded ==
    /\ ~applying => Cardinality(Keys(modifiersCache)) <= CacheMaxSize
    /\ Keys(modifiersCache) \subseteq Queued(modifiersCache)

\* When no change is waiting to be read, the synchronizer decides what to request
\* by what the node really holds.
ReadersCatchUp ==
    /\ "history" \in readers /\ ~InMailbox(LAMBDA m : m.kind = "ChangedHistory")
         => historyReader = history
    /\ "mempool" \in readers /\ ~InMailbox(LAMBDA m : m.kind = "ChangedMempool")
         => mempoolReader = mempool

\* Transactions held back in slow mode are not forgotten: out of slow mode, as long
\* as some are queued a rebroadcast is scheduled or about to be handled.
RebroadcastIsScheduled ==
    rebroadcastQueue # <<>> /\ ~slowMode =>
        rebroadcastTimer \/ InMailbox(LAMBDA m : m.kind = "TransactionRebroadcast")

Life == INSTANCE ModifierLife WITH
    Modifiers <- Ids, Local <- LocalModifiers,
    status <- [id \in Ids |-> Status(id, {})],
    inHand <- {id \in Ids : InHand(id)}, held <- history \cup mempool

\* Synchronizer, tracker, cache and NodeViewHolder together give every modifier the
\* life that module ModifierLife describes, whoever sends what and when.
LifeIsLegal == Life!LifeSpec

\* A modifier that was found invalid stays so: it is never requested again and never
\* sent to the NodeViewHolder again.
InvalidIsForEver ==
    [][\A id \in invalid :
          id \in invalid' /\ ~IsRequested(id)' /\ (Forwarded(id)' => Forwarded(id))]_vars

\* No modifier stays Requested for ever, however often peers announce it, whoever
\* answers, and whatever the node produces itself in the meantime.
RequestsEnd == \A id \in Ids : IsRequested(id) ~> ~IsRequested(id)

=============================================================================
