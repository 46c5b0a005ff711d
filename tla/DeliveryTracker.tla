-------------------------- MODULE DeliveryTracker --------------------------
(***************************************************************************)
(* network/DeliveryTracker.scala: what the node knows about the modifiers  *)
(* (blocks and transactions) that are on their way to it.                  *)
(*                                                                         *)
(* The class is a local field of the NodeViewSynchronizer actor, so its    *)
(* methods are written here as actions on its own variables, which the     *)
(* handlers of module NodeViewSynchronizer conjoin with their other        *)
(* effects.  A method that a handler calls in a `foreach` takes the set of *)
(* ids: the calls for different ids touch different entries of the maps,   *)
(* and the per-peer counters only add up.                                  *)
(*                                                                         *)
(* Scala's maps are total functions here: an id that is not in the map     *)
(* `requested` has the value NoPeer, an absent counter is 0.               *)
(***************************************************************************)
EXTENDS Integers, Sequences, FiniteSets

CONSTANTS
    Peers,                  \* connected peers
    NoPeer,                 \* "no entry" in `requested` and `received`
    Blocks, Txs,            \* ids of persistent modifiers and of transactions
    MaxDeliveryChecks,      \* networkSettings.maxDeliveryChecks
    MaxRequestedPerPeer,    \* networkSettings.maxRequestedPerPeer
    SlowModeFeatureFlag, SlowModeMaxRequested,
    RebroadcastEnabled, RebroadcastQueueSize, RebroadcastBatchSize

Ids == Blocks \cup Txs

ASSUME TrackerAssumption ==
    /\ NoPeer \notin Peers
    /\ IsFiniteSet(Peers) /\ IsFiniteSet(Ids)
    /\ Blocks \cap Txs = {}
    /\ MaxDeliveryChecks \in Nat /\ MaxRequestedPerPeer \in Nat
    /\ SlowModeFeatureFlag \in BOOLEAN /\ SlowModeMaxRequested \in Nat
    /\ RebroadcastEnabled \in BOOLEAN
    /\ RebroadcastQueueSize \in Nat /\ RebroadcastBatchSize \in Nat

VARIABLES
    requested,          \* id -> the peer asked for it (RequestedInfo.peer), or NoPeer
    checks,             \* id -> RequestedInfo.checks
    timers,             \* ids whose RequestedInfo.cancellable has not fired yet
    orphans,            \* <<peer, id>> -> timers that no RequestedInfo refers to any more
    received,           \* id -> the peer that sent it, or NoPeer
    invalid,            \* ids that are permanently invalid
    peerLimits,         \* peer -> modifiers counted as requested from it
    slowMode,           \* processing is slower than the threshold
    rebroadcastQueue,   \* transactions not announced while in slow mode
    rebroadcastTimer    \* transactionRebroadcastEvent is pending

requestVars == <<requested, checks, timers, orphans, peerLimits>>
slowVars == <<slowMode, rebroadcastTimer>>
trackerVars == <<requestVars, received, invalid, slowVars, rebroadcastQueue>>

TrackerTypeOK ==
    /\ requested \in [Ids -> Peers \cup {NoPeer}]
    /\ checks \in [Ids -> Nat]
    /\ timers \subseteq Ids
    /\ orphans \in [Peers \X Ids -> Nat]
    /\ received \in [Ids -> Peers \cup {NoPeer}]
    /\ invalid \subseteq Ids
    /\ peerLimits \in [Peers -> Nat]
    /\ slowMode \in BOOLEAN
    /\ rebroadcastQueue \in Seq(Txs)
    /\ rebroadcastTimer \in BOOLEAN

-----------------------------------------------------------------------------
(* The status of a modifier                                                *)

IsRequested(id) == requested[id] # NoPeer
IsReceived(id) == received[id] # NoPeer

\* Mistake: the map of invalid modifiers is not asked.
StatusWithoutInvalid(id, held) ==
    IF IsReceived(id) THEN "Received"
    ELSE IF IsRequested(id) THEN "Requested"
    ELSE IF id \in held THEN "Held"
    ELSE "Unknown"

\* status(modifierId, modifierKeepers); `held` is what the keepers contain.
Status(id, held) ==
    IF IsReceived(id) THEN "Received"
    ELSE IF IsRequested(id) THEN "Requested"
    ELSE IF id \in invalid THEN "Invalid"
    ELSE IF id \in held THEN "Held"
    ELSE "Unknown"

IsCorrectTransition(old, new) ==
    \/ old = new
    \/ new \in {"Invalid", "Held"}
    \/ old = "Unknown" /\ new = "Requested"
    \/ old = "Requested" /\ new \in {"Unknown", "Received"}
    \/ old = "Received" /\ new = "Unknown"

-----------------------------------------------------------------------------
(* The per-peer counters                                                   *)

GetPeerLimit(peer) == MaxRequestedPerPeer - peerLimits[peer]

\* Mistake: the counter is not removed when it gets to zero.
DecrementedBelowZero(counter, n) == counter - n

\* n calls of decrementPeerLimitCounter: an absent counter stays absent.
Decremented(counter, n) == IF n < counter THEN counter - n ELSE 0

\* The ids of S that are counted for `peer`.
AskedOf(peer, S) == {id \in S \cap Ids : requested[id] = peer}

CanRequestMoreTransactions ==
    ~ /\ SlowModeFeatureFlag
      /\ slowMode
      /\ Cardinality({id \in Ids : IsRequested(id)}) > SlowModeMaxRequested

-----------------------------------------------------------------------------
(* Slow mode and the rebroadcast of transactions                           *)

\* scheduleRebroadcastIfNeeded: a pending event is cancelled and replaced.
ScheduleRebroadcastIfNeeded(queue, timer) ==
    timer \/ (RebroadcastEnabled /\ queue # <<>>)

\* Mistake: leaving slow mode does not schedule the rebroadcast.
UpdateProcessingTimeOnly(n) ==
    \E crossings \in (IF SlowModeFeatureFlag THEN 0..n ELSE {0}) :
        /\ slowMode' = (slowMode = (crossings % 2 = 0))
        /\ rebroadcastTimer' = rebroadcastTimer

\* n calls of updateProcessingTime.  Each sample moves the running average by
\* an amount the model does not know, so each may carry it across the threshold;
\* leaving slow mode schedules the rebroadcast.
UpdateProcessingTime(n) ==
    \E crossings \in (IF SlowModeFeatureFlag THEN 0..n ELSE {0}) :
        /\ slowMode' = (slowMode = (crossings % 2 = 0))
        /\ rebroadcastTimer' =
             IF crossings >= (IF slowMode THEN 1 ELSE 2)
             THEN ScheduleRebroadcastIfNeeded(rebroadcastQueue, rebroadcastTimer)
             ELSE rebroadcastTimer

\* The last n elements of queue, the oldest are dequeued.
LastOf(queue, n) ==
    SubSeq(queue, IF Len(queue) > n THEN Len(queue) - n + 1 ELSE 1, Len(queue))

\* putInRebroadcastQueue for the ids of a sequence, in order.
PutInRebroadcastQueue(queue, ids) ==
    IF RebroadcastEnabled THEN LastOf(queue \o ids, RebroadcastQueueSize) ELSE queue

\* getRebroadcastModifiers: the batch, and what is left of the queue.
RebroadcastCount ==
    IF Len(rebroadcastQueue) < RebroadcastBatchSize
    THEN Len(rebroadcastQueue) ELSE RebroadcastBatchSize
GetRebroadcastModifiers == SubSeq(rebroadcastQueue, 1, RebroadcastCount)
AfterGetRebroadcastModifiers ==
    SubSeq(rebroadcastQueue, RebroadcastCount + 1, Len(rebroadcastQueue))

-----------------------------------------------------------------------------
(* The transitions                                                         *)

TrackerInit ==
    /\ requested = [id \in Ids |-> NoPeer]
    /\ checks = [id \in Ids |-> 0]
    /\ timers = {}
    /\ orphans = [pi \in Peers \X Ids |-> 0]
    /\ received = [id \in Ids |-> NoPeer]
    /\ invalid = {}
    /\ peerLimits = [p \in Peers |-> 0]
    /\ slowMode = FALSE
    /\ rebroadcastQueue = <<>>
    /\ rebroadcastTimer = FALSE

\* setRequested(ids, typeId, cp), for ids the caller found Unknown.  copies[id] is
\* how often id occurs in ids: the second call for an id (Requested -> Requested)
\* replaces its RequestedInfo, and with it the only reference to the first timer,
\* which nobody can cancel any more.
SetRequested(copies, cp) ==
    LET asked == {id \in DOMAIN copies : Status(id, {}) = "Unknown"}
    IN  /\ requested' = [id \in Ids |-> IF id \in asked THEN cp ELSE requested[id]]
        /\ checks' = [id \in Ids |-> IF id \in asked THEN 0 ELSE checks[id]]
        /\ timers' = timers \cup asked
        /\ orphans' = [pi \in Peers \X Ids |->
                         IF pi[1] = cp /\ pi[2] \in asked
                         THEN orphans[pi] + copies[pi[2]] - 1 ELSE orphans[pi]]
        /\ peerLimits' = [peerLimits EXCEPT ![cp] = @ + Cardinality(asked)]
        /\ UNCHANGED <<received, invalid, slowVars, rebroadcastQueue>>

\* clearStatusForModifier for every id of S, the body of setHeld and setUnknown.
\* An invalid or unknown id has nothing to clear.
ClearStatus(S) ==
    /\ requested' = [id \in Ids |-> IF id \in S THEN NoPeer ELSE requested[id]]
    /\ checks' = [id \in Ids |-> IF id \in S THEN 0 ELSE checks[id]]
    /\ timers' = timers \ S
    /\ peerLimits' = [p \in Peers |->
                        Decremented(peerLimits[p], Cardinality(AskedOf(p, S)))]
    /\ received' = [id \in Ids |-> IF id \in S THEN NoPeer ELSE received[id]]
    /\ UpdateProcessingTime(Cardinality({id \in S : IsReceived(id)}))
    /\ UNCHANGED orphans

SetHeld(id) == ClearStatus({id}) /\ UNCHANGED invalid

SetUnknown(S) ==
    /\ ClearStatus({id \in S : IsCorrectTransition(Status(id, {}), "Unknown")})
    /\ UNCHANGED <<invalid, rebroadcastQueue>>

SetInvalid(id) ==
    /\ ClearStatus({id})
    /\ invalid' = invalid \cup {id}
    /\ UNCHANGED rebroadcastQueue

\* The peer setInvalid(id) returns, as a set.
SetInvalidReturns(id) == {received[id], requested[id]} \ {NoPeer}

\* Mistakes in onStillWaiting: one check too many ...
OnStillWaitingOnceMore(cp, id) ==
    LET again == checks[id] + 1 <= MaxDeliveryChecks
        cleared == [peerLimits EXCEPT ![requested[id]] = Decremented(@, 1)]
    IN  /\ requested' = [requested EXCEPT ![id] = IF again THEN cp ELSE NoPeer]
        /\ checks' = [checks EXCEPT ![id] = IF again THEN @ + 1 ELSE 0]
        /\ timers' = IF again THEN timers \cup {id} ELSE timers \ {id}
        /\ peerLimits' = IF again THEN [cleared EXCEPT ![cp] = @ + 1] ELSE cleared
        /\ UNCHANGED <<orphans, received, invalid, slowVars, rebroadcastQueue>>

\* ... the number of checks is not carried over ...
OnStillWaitingAnew(cp, id) ==
    /\ requested' = [requested EXCEPT ![id] = cp]
    /\ checks' = [checks EXCEPT ![id] = 0]
    /\ timers' = timers \cup {id}
    /\ UNCHANGED <<peerLimits, orphans, received, invalid, slowVars, rebroadcastQueue>>

\* ... the request that is repeated is not counted ...
OnStillWaitingUncounted(cp, id) ==
    LET again == checks[id] + 1 < MaxDeliveryChecks
    IN  /\ requested' = [requested EXCEPT ![id] = IF again THEN cp ELSE NoPeer]
        /\ checks' = [checks EXCEPT ![id] = IF again THEN @ + 1 ELSE 0]
        /\ timers' = IF again THEN timers \cup {id} ELSE timers \ {id}
        /\ peerLimits' = [peerLimits EXCEPT ![requested[id]] = Decremented(@, 1)]
        /\ UNCHANGED <<orphans, received, invalid, slowVars, rebroadcastQueue>>

\* ... or has no timer.
OnStillWaitingUntimed(cp, id) ==
    LET again == checks[id] + 1 < MaxDeliveryChecks
    IN  /\ requested' = [requested EXCEPT ![id] = IF again THEN cp ELSE NoPeer]
        /\ checks' = [checks EXCEPT ![id] = IF again THEN @ + 1 ELSE 0]
        /\ timers' = timers \ {id}
        /\ UNCHANGED <<peerLimits, orphans, received, invalid, slowVars, rebroadcastQueue>>

\* onStillWaiting(cp, typeId, id), for an id that is Requested: setUnknown, and
\* setRequested with one more check unless the checks are used up.
OnStillWaiting(cp, id) ==
    LET n == checks[id] + 1
        again == n < MaxDeliveryChecks
        cleared == [peerLimits EXCEPT ![requested[id]] = Decremented(@, 1)]
    IN  /\ requested' = [requested EXCEPT ![id] = IF again THEN cp ELSE NoPeer]
        /\ checks' = [checks EXCEPT ![id] = IF again THEN n ELSE 0]
        /\ timers' = IF again THEN timers \cup {id} ELSE timers \ {id}
        /\ peerLimits' = IF again THEN [cleared EXCEPT ![cp] = @ + 1] ELSE cleared
        /\ UNCHANGED <<orphans, received, invalid, slowVars, rebroadcastQueue>>

\* Mistake: a modifier that is received stays in the map `requested`.
SetReceivedButRequested(good, bad, sender) ==
    /\ peerLimits' = [p \in Peers |->
                        Decremented(peerLimits[p], IF p = sender THEN Cardinality(good) ELSE 0)]
    /\ received' = [id \in Ids |-> IF id \in good \ bad THEN sender ELSE received[id]]
    /\ invalid' = invalid \cup bad
    /\ UNCHANGED <<requested, checks, timers, orphans, slowVars, rebroadcastQueue>>

\* setReceived(id, sender) for the ids of `good` and then setInvalid(id) for the
\* ids of `bad`, all of them Requested when the message came in.  setReceived
\* decrements the counter of the sender, setInvalid that of the peer asked.
SetReceivedOrInvalid(good, bad, sender) ==
    /\ requested' = [id \in Ids |-> IF id \in good \cup bad THEN NoPeer ELSE requested[id]]
    /\ checks' = [id \in Ids |-> IF id \in good \cup bad THEN 0 ELSE checks[id]]
    /\ timers' = timers \ (good \cup bad)
    /\ peerLimits' = [p \in Peers |->
                        Decremented(peerLimits[p],
                                    Cardinality(AskedOf(p, bad \ good))
                                      + (IF p = sender THEN Cardinality(good) ELSE 0))]
    /\ received' = [id \in Ids |-> IF id \in good \ bad THEN sender ELSE received[id]]
    /\ invalid' = invalid \cup bad
    /\ UpdateProcessingTime(Cardinality(good \cap bad))
    /\ UNCHANGED <<orphans, rebroadcastQueue>>

=============================================================================
