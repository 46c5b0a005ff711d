--------------------- MODULE ModifierProcessing_proofs ---------------------
(***************************************************************************)
(* Proofs about ModifierProcessing, for every set of peers, blocks and     *)
(* transactions and every setting.                                         *)
(***************************************************************************)
EXTENDS ModifierProcessing, FiniteSetTheorems, SequenceTheorems, TLAPS

-----------------------------------------------------------------------------
(* The counters                                                            *)

\* The number of a peer's requests among any ids is a natural number.
LEMMA AskedOfIsFinite ==
    ASSUME NEW p, NEW S
    PROVE  /\ IsFiniteSet(AskedOf(p, S))
           /\ Cardinality(AskedOf(p, S)) \in Nat
<1>1. IsFiniteSet(AskedOf(p, S))
  <2>1. AskedOf(p, S) \subseteq Ids
    BY DEF AskedOf
  <2>2. QED
    BY <2>1, TrackerAssumption, FS_Subset
<1>2. QED
  BY <1>1, FS_CardinalityType

\* A counter that is decremented stays a natural number.
LEMMA DecrementedIsNat ==
    ASSUME NEW c \in Nat, NEW n \in Nat
    PROVE  Decremented(c, n) \in Nat
BY DEF Decremented

\* updateProcessingTime changes slow mode and the rebroadcast timer only.
LEMMA UpdateProcessingTimeType ==
    ASSUME NEW n, slowMode \in BOOLEAN, rebroadcastTimer \in BOOLEAN, UpdateProcessingTime(n)
    PROVE  slowMode' \in BOOLEAN /\ rebroadcastTimer' \in BOOLEAN
BY DEF UpdateProcessingTime, ScheduleRebroadcastIfNeeded

-----------------------------------------------------------------------------
(* What the methods of the tracker preserve                                *)

\* The invariant of the tracker on its own.
TrackerInv == TrackerTypeOK /\ StatusIsUnambiguous /\ ChecksAreBounded

\* A modifier that is Requested after a step has its timer pending, or it was
\* Requested before, when its timer had already fired.
TimersKept ==
    \A id \in Ids : IsRequested(id)' =>
        id \in timers' \/ (IsRequested(id) /\ id \notin timers)

\* setRequested starts a timer for each request.
LEMMA SetRequestedPreserves ==
    ASSUME TrackerInv,
           NEW copies, DOMAIN copies \subseteq Ids, \A id \in DOMAIN copies : copies[id] \in Nat \ {0},
           NEW cp \in Peers, SetRequested(copies, cp)
    PROVE  TrackerInv' /\ TimersKept
<1> DEFINE asked == {id \in DOMAIN copies : Status(id, {}) = "Unknown"}
<1>1. asked \subseteq Ids /\ IsFiniteSet(asked) /\ Cardinality(asked) \in Nat
  <2>1. asked \subseteq Ids
    OBVIOUS
  <2>2. QED
    BY <2>1, TrackerAssumption, FS_Subset, FS_CardinalityType
<1>2. \A id \in asked : ~IsReceived(id) /\ ~IsRequested(id) /\ id \notin invalid
  BY DEF Status
<1>3. TrackerTypeOK'
  <2>1. orphans' \in [Peers \X Ids -> Nat]
    BY <1>1 DEF SetRequested, TrackerInv, TrackerTypeOK
  <2>2. peerLimits' \in [Peers -> Nat]
    BY <1>1 DEF SetRequested, TrackerInv, TrackerTypeOK
  <2>3. QED
    BY <1>1, <2>1, <2>2 DEF SetRequested, TrackerInv, TrackerTypeOK, slowVars
<1>4. StatusIsUnambiguous'
  BY <1>1, <1>2, TrackerAssumption
  DEF SetRequested, TrackerInv, TrackerTypeOK, StatusIsUnambiguous, IsRequested, IsReceived
<1>5. ChecksAreBounded'
  BY <1>1, <1>2, TrackerAssumption
  DEF SetRequested, TrackerInv, TrackerTypeOK, ChecksAreBounded, IsRequested, IsReceived
<1>6. TimersKept
  BY <1>1, <1>2
  DEF SetRequested, TrackerInv, TrackerTypeOK, ChecksAreBounded, TimersKept, IsRequested
<1>7. QED
  BY <1>3, <1>4, <1>5, <1>6 DEF TrackerInv

\* Clearing the status of modifiers, and declaring some of them invalid, preserves
\* the invariant: setHeld, setUnknown and setInvalid.
LEMMA ClearStatusPreserves ==
    ASSUME TrackerInv, NEW S, NEW bad, bad \subseteq S, bad \subseteq Ids,
           ClearStatus(S), invalid' = invalid \cup bad, rebroadcastQueue' \in Seq(Txs)
    PROVE  TrackerInv' /\ TimersKept
<1>1. peerLimits' \in [Peers -> Nat]
  <2>1. \A p \in Peers : Decremented(peerLimits[p], Cardinality(AskedOf(p, S))) \in Nat
    BY AskedOfIsFinite, DecrementedIsNat DEF TrackerInv, TrackerTypeOK
  <2>2. QED
    BY <2>1 DEF ClearStatus
<1>2. slowMode' \in BOOLEAN /\ rebroadcastTimer' \in BOOLEAN
  BY UpdateProcessingTimeType DEF ClearStatus, TrackerInv, TrackerTypeOK
<1>3. TrackerTypeOK'
  BY <1>1, <1>2 DEF ClearStatus, TrackerInv, TrackerTypeOK
<1>4. StatusIsUnambiguous'
  BY DEF ClearStatus, TrackerInv, TrackerTypeOK, StatusIsUnambiguous, IsRequested, IsReceived
<1>5. ChecksAreBounded'
  BY DEF ClearStatus, TrackerInv, TrackerTypeOK, ChecksAreBounded, IsRequested
<1>6. TimersKept
  BY DEF ClearStatus, TrackerInv, TrackerTypeOK, ChecksAreBounded, TimersKept, IsRequested
<1>7. QED
  BY <1>3, <1>4, <1>5, <1>6 DEF TrackerInv

\* A check that finds the modifier missing gives it another timer or gives it up.
LEMMA OnStillWaitingPreserves ==
    ASSUME TrackerInv, NEW cp \in Peers, NEW i \in Ids, IsRequested(i), ~IsReceived(i),
           OnStillWaiting(cp, i)
    PROVE  /\ TrackerInv' /\ TimersKept
           /\ IsRequested(i)' => i \in timers'
<1>1. requested[i] \in Peers /\ NoPeer \notin Peers /\ cp # NoPeer
  BY TrackerAssumption DEF TrackerInv, TrackerTypeOK, IsRequested
<1>2. i \notin invalid
  BY DEF TrackerInv, StatusIsUnambiguous
<1>3. peerLimits' \in [Peers -> Nat]
  <2> DEFINE cleared == [peerLimits EXCEPT ![requested[i]] = Decremented(@, 1)]
  <2>1. peerLimits \in [Peers -> Nat] /\ Decremented(peerLimits[requested[i]], 1) \in Nat
    BY <1>1, DecrementedIsNat DEF TrackerInv, TrackerTypeOK
  <2>2. cleared \in [Peers -> Nat]
    BY <2>1
  <2>3. peerLimits' \in {cleared, [cleared EXCEPT ![cp] = @ + 1]}
    BY DEF OnStillWaiting
  <2> HIDE DEF cleared
  <2>4. QED
    BY <2>2, <2>3
<1>4. TrackerTypeOK'
  BY <1>1, <1>3 DEF OnStillWaiting, TrackerInv, TrackerTypeOK, slowVars
<1>5. StatusIsUnambiguous'
  BY <1>1, <1>2
  DEF OnStillWaiting, TrackerInv, TrackerTypeOK, StatusIsUnambiguous, IsRequested, IsReceived
<1>6. ChecksAreBounded'
  BY <1>1, TrackerAssumption
  DEF OnStillWaiting, TrackerInv, TrackerTypeOK, ChecksAreBounded, IsRequested
<1>7. TimersKept /\ (IsRequested(i)' => i \in timers')
  BY <1>1
  DEF OnStillWaiting, TrackerInv, TrackerTypeOK, ChecksAreBounded, TimersKept, IsRequested
<1>8. QED
  BY <1>4, <1>5, <1>6, <1>7 DEF TrackerInv

\* The modifiers of a message leave `requested` for `received` or `invalid`.
LEMMA SetReceivedOrInvalidPreserves ==
    ASSUME TrackerInv, NEW sender \in Peers, NEW good, NEW bad,
           \A i \in good \cup bad : i \in Ids /\ IsRequested(i) /\ ~IsReceived(i),
           SetReceivedOrInvalid(good, bad, sender)
    PROVE  TrackerInv' /\ TimersKept
<1>1. \A i \in good \cup bad : i \notin invalid
  BY DEF TrackerInv, StatusIsUnambiguous
<1>2. peerLimits' \in [Peers -> Nat]
  <2>1. Cardinality(good) \in Nat
    BY TrackerAssumption, FS_Subset, FS_CardinalityType
  <2>2. \A p \in Peers : Cardinality(AskedOf(p, bad \ good)) \in Nat
    BY AskedOfIsFinite
  <2> DEFINE n(p) == Cardinality(AskedOf(p, bad \ good))
                       + (IF p = sender THEN Cardinality(good) ELSE 0)
  <2>3. \A p \in Peers : n(p) \in Nat /\ peerLimits[p] \in Nat
    <3>1. SUFFICES ASSUME NEW p \in Peers PROVE n(p) \in Nat /\ peerLimits[p] \in Nat
      OBVIOUS
    <3>2. peerLimits[p] \in Nat
      BY DEF TrackerInv, TrackerTypeOK
    <3>3. Cardinality(AskedOf(p, bad \ good)) \in Nat
      BY <2>2
    <3>4. (IF p = sender THEN Cardinality(good) ELSE 0) \in Nat
      BY <2>1
    <3>5. QED
      BY <3>2, <3>3, <3>4
  <2>4. peerLimits' = [p \in Peers |-> Decremented(peerLimits[p], n(p))]
    BY DEF SetReceivedOrInvalid
  <2> HIDE DEF n
  <2>5. QED
    BY <2>3, <2>4, DecrementedIsNat
<1>3. slowMode' \in BOOLEAN /\ rebroadcastTimer' \in BOOLEAN
  BY UpdateProcessingTimeType DEF SetReceivedOrInvalid, TrackerInv, TrackerTypeOK
<1>4. TrackerTypeOK'
  BY <1>2, <1>3 DEF SetReceivedOrInvalid, TrackerInv, TrackerTypeOK
<1>5. StatusIsUnambiguous'
  BY <1>1
  DEF SetReceivedOrInvalid, TrackerInv, TrackerTypeOK, StatusIsUnambiguous, IsRequested, IsReceived
<1>6. ChecksAreBounded'
  BY DEF SetReceivedOrInvalid, TrackerInv, TrackerTypeOK, ChecksAreBounded, IsRequested
<1>7. TimersKept
  BY DEF SetReceivedOrInvalid, TrackerInv, TrackerTypeOK, ChecksAreBounded, TimersKept, IsRequested
<1>8. QED
  BY <1>4, <1>5, <1>6, <1>7 DEF TrackerInv

-----------------------------------------------------------------------------
(* Mailboxes                                                               *)

\* Nothing leaves the synchronizer's mailbox; messages may be added at its end.
MailboxGrows ==
    /\ mailbox' \in Seq(Message)
    /\ Len(mailbox) <= Len(mailbox')
    /\ \A i \in 1..Len(mailbox) : mailbox'[i] = mailbox[i]

\* Publishing adds to the mailbox.
LEMMA PublishGrows ==
    ASSUME mailbox \in Seq(Message), NEW events \in Seq(Message), Publish(events)
    PROVE  MailboxGrows
<1>1. mailbox' = mailbox \o events
  BY DEF Publish
<1>2. QED
  BY <1>1, ConcatProperties DEF MailboxGrows

\* So does a single message.
LEMMA AppendGrows ==
    ASSUME mailbox \in Seq(Message), NEW m \in Message, mailbox' = Append(mailbox, m)
    PROVE  /\ MailboxGrows
           /\ Len(mailbox') = Len(mailbox) + 1
           /\ mailbox'[Len(mailbox')] = m
BY AppendProperties DEF MailboxGrows

\* And leaving it alone.
LEMMA UnchangedGrows ==
    ASSUME mailbox \in Seq(Message), UNCHANGED mailbox
    PROVE  MailboxGrows
BY DEF MailboxGrows

\* The messages that pmodModify and txModify publish are messages.
LEMMA BlockEventsAreMessages ==
    ASSUME NEW b \in Blocks, NEW kind \in BlockEvents, NEW h \in SUBSET Blocks,
           NEW m \in SUBSET Txs
    PROVE  /\ Event(kind, b) \in Message
           /\ Changed("ChangedHistory", h) \in Message
           /\ Changed("ChangedMempool", m) \in Message
           /\ ModifiersProcessingResult(h) \in Message
BY DEF Event, Changed, ModifiersProcessingResult, Message

\* The events about transactions are messages.
LEMMA TxEventsAreMessages ==
    ASSUME NEW t \in Txs, NEW flag \in BOOLEAN
    PROVE  /\ Event("SuccessfulTransaction", t) \in Message
           /\ FailedTransaction(t, flag) \in Message
BY DEF Event, FailedTransaction, Message

\* Both forms of FailedTransaction are.
LEMMA FailedTransactionsAreMessages ==
    ASSUME NEW t \in Txs
    PROVE  FailedTransaction(t, TRUE) \in Message /\ FailedTransaction(t, FALSE) \in Message
BY TRUE \in BOOLEAN, FALSE \in BOOLEAN, TxEventsAreMessages, Zenon

\* Sequences of one and two.
LEMMA ShortSequences ==
    ASSUME NEW S, NEW a \in S, NEW b \in S
    PROVE  <<a>> \in Seq(S) /\ <<a, b>> \in Seq(S)
OBVIOUS

\* The timers' messages are messages.
LEMMA TimerMessages ==
    ASSUME NEW p \in Peers, NEW i \in Ids
    PROVE  CheckDelivery(p, i) \in Message /\ TransactionRebroadcast \in Message
BY DEF CheckDelivery, TransactionRebroadcast, Message

-----------------------------------------------------------------------------
(* The requests stay watched                                               *)

IInv == TypeOK /\ StatusIsUnambiguous /\ ChecksAreBounded /\ EveryRequestIsWatched

\* While timers are kept and messages stay, requests stay watched.
LEMMA WatchedWhenMailboxGrows ==
    ASSUME IInv, TimersKept, MailboxGrows
    PROVE  EveryRequestIsWatched'
<1> SUFFICES ASSUME NEW i \in Ids, IsRequested(i)', i \notin timers'
             PROVE  \E k \in DOMAIN mailbox' :
                      mailbox'[k].kind = "CheckDelivery" /\ mailbox'[k].id = i
  BY DEF EveryRequestIsWatched, InMailbox
<1>1. IsRequested(i) /\ i \notin timers
  BY DEF TimersKept
<1>2. PICK k \in DOMAIN mailbox : mailbox[k].kind = "CheckDelivery" /\ mailbox[k].id = i
  BY <1>1 DEF IInv, EveryRequestIsWatched, InMailbox
<1>3. k \in 1..Len(mailbox) /\ k \in DOMAIN mailbox'
  BY <1>2 DEF IInv, TypeOK, MailboxGrows
<1>4. QED
  BY <1>2, <1>3 DEF MailboxGrows

\* When the message handled is no check, or its modifier has a timer again or is no
\* longer requested, the checks that others need are still in the mailbox.
LEMMA WatchedAfterHandling ==
    ASSUME IInv, TimersKept, mailbox # <<>>, mailbox' = Tail(mailbox),
           Head(mailbox).kind = "CheckDelivery" =>
             \/ requested'[Head(mailbox).id] = NoPeer
             \/ Head(mailbox).id \in timers'
    PROVE  EveryRequestIsWatched'
<1> SUFFICES ASSUME NEW i \in Ids, IsRequested(i)', i \notin timers'
             PROVE  \E k \in DOMAIN mailbox' :
                      mailbox'[k].kind = "CheckDelivery" /\ mailbox'[k].id = i
  BY DEF EveryRequestIsWatched, InMailbox
<1>1. IsRequested(i) /\ i \notin timers
  BY DEF TimersKept
<1>2. PICK k \in DOMAIN mailbox : mailbox[k].kind = "CheckDelivery" /\ mailbox[k].id = i
  BY <1>1 DEF IInv, EveryRequestIsWatched, InMailbox
<1>3. mailbox \in Seq(Message)
  BY DEF IInv, TypeOK
<1>4. k # 1
  BY <1>2, <1>3 DEF IsRequested
<1>5. k - 1 \in DOMAIN mailbox' /\ mailbox'[k - 1] = mailbox[k]
  BY <1>2, <1>3, <1>4
<1>6. QED
  BY <1>2, <1>5

-----------------------------------------------------------------------------
(* The steps of the synchronizer                                           *)

\* The kinds of messages tell which fields they have.
LEMMA MessageFields ==
    ASSUME NEW m \in Message
    PROVE  /\ m.kind = "CheckDelivery" => m.peer \in Peers /\ m.id \in Ids
           /\ m.kind \in BlockEvents => m.id \in Blocks
           /\ m.kind \in {"SuccessfulTransaction", "FailedTransaction"} => m.id \in Txs
           /\ m.kind = "ChangedHistory" => m.contents \subseteq Blocks
           /\ m.kind = "ChangedMempool" => m.contents \subseteq Txs
BY DEF Message, BlockEvents, TransactionRebroadcast

\* The parts of TypeOK that are not about the tracker and the mailbox.
RestTypeOK ==
    /\ nvhMailbox \in Seq(NvhMessage)
    /\ readers \subseteq {"history", "mempool"}
    /\ historyReader \subseteq Blocks
    /\ mempoolReader \subseteq Txs
    /\ history \subseteq Blocks
    /\ mempool \subseteq Txs
    /\ applying \in BOOLEAN

\* What a step has to show when it adds to the mailbox, or leaves it alone ...
LEMMA GrowingStep ==
    ASSUME IInv, TrackerInv', TimersKept, MailboxGrows, RestTypeOK'
    PROVE  IInv'
BY WatchedWhenMailboxGrows DEF IInv, TypeOK, TrackerInv, RestTypeOK, MailboxGrows

\* ... and when it handles the first message.
LEMMA HandlingStep ==
    ASSUME IInv, TrackerInv', TimersKept, RestTypeOK',
           mailbox # <<>>, mailbox' = Tail(mailbox),
           Head(mailbox).kind = "CheckDelivery" =>
             \/ requested'[Head(mailbox).id] = NoPeer
             \/ Head(mailbox).id \in timers'
    PROVE  IInv'
<1>1. mailbox' \in Seq(Message)
  BY DEF IInv, TypeOK
<1>2. QED
  BY <1>1, WatchedAfterHandling DEF IInv, TypeOK, TrackerInv, RestTypeOK

\* The parts of the invariant.
LEMMA IInvFacts ==
    ASSUME IInv
    PROVE  TrackerInv /\ RestTypeOK /\ mailbox \in Seq(Message)
BY DEF IInv, TypeOK, TrackerInv, RestTypeOK

\* A step that leaves the tracker alone keeps its parts.
LEMMA UnchangedTracker ==
    ASSUME TrackerInv, UNCHANGED trackerVars
    PROVE  TrackerInv' /\ TimersKept
BY DEF TrackerInv, TrackerTypeOK, StatusIsUnambiguous, ChecksAreBounded, TimersKept,
       IsRequested, IsReceived, trackerVars, requestVars, slowVars

\* processInv
LEMMA RequestFromPreserves ==
    ASSUME IInv, NEW p \in Peers, NEW ids, NEW kept, \A i \in kept : ids[i] \in Ids,
           IsFiniteSet(kept), RequestFrom(p, ids, kept), UNCHANGED nvhVars
    PROVE  IInv'
<1> DEFINE new == {ids[i] : i \in kept}
           copies == [id \in new |-> Cardinality({i \in kept : ids[i] = id})]
<1>1. SetRequested(copies, p) /\ UNCHANGED <<mailbox, nvhMailbox, readerVars>>
  BY DEF RequestFrom
<1>2. \A id \in new : copies[id] \in Nat \ {0}
  <2>1. SUFFICES ASSUME NEW id \in new PROVE Cardinality({i \in kept : ids[i] = id}) \in Nat \ {0}
    OBVIOUS
  <2>2. IsFiniteSet({i \in kept : ids[i] = id}) /\ {i \in kept : ids[i] = id} # {}
    BY FS_Subset
  <2>3. QED
    BY <2>2, FS_CardinalityType, FS_EmptySet
<1>3. DOMAIN copies \subseteq Ids
  OBVIOUS
<1>4. \A id \in DOMAIN copies : copies[id] \in Nat \ {0}
  BY <1>2
<1> HIDE DEF copies
<1>5. TrackerInv' /\ TimersKept
  BY <1>1, <1>3, <1>4, IInvFacts, SetRequestedPreserves
<1>6. MailboxGrows
  BY <1>1, IInvFacts, UnchangedGrows
<1>7. RestTypeOK'
  BY <1>1, IInvFacts DEF RestTypeOK, readerVars, nvhVars
<1>8. QED
  BY <1>5, <1>6, <1>7, GrowingStep

\* The positions of a message are finitely many.
LEMMA IdSeqsFacts ==
    ASSUME NEW S, NEW ids \in IdSeqs(S)
    PROVE  /\ IsFiniteSet(DOMAIN ids)
           /\ \A i \in DOMAIN ids : ids[i] \in S
<1>1. PICK n \in 1..MaxInvObjects : ids \in [1..n -> S]
  BY DEF IdSeqs
<1>2. IsFiniteSet(1..n)
  BY FS_Interval, SynchronizerAssumption
<1>3. QED
  BY <1>1, <1>2

\* Inv of blocks or transactions.
LEMMA ProcessInvPreserves ==
    ASSUME IInv, NEW p \in Peers, UNCHANGED nvhVars,
           \/ \E ids \in IdSeqs(Blocks) : ProcessInvOfBlocks(p, ids)
           \/ \E ids \in IdSeqs(Txs) : ProcessInvOfTransactions(p, ids)
    PROVE  IInv'
<1>1. PICK ids, held, limit :
        /\ ids \in IdSeqs(Blocks) \/ ids \in IdSeqs(Txs)
        /\ RequestFrom(p, ids, NewModifierIds(ids, held, limit))
  BY DEF ProcessInvOfBlocks, ProcessInvOfTransactions
<1>2. NewModifierIds(ids, held, limit) \subseteq DOMAIN ids
  BY DEF NewModifierIds
<1>3. IsFiniteSet(NewModifierIds(ids, held, limit))
  BY <1>1, <1>2, IdSeqsFacts, FS_Subset
<1>4. \A i \in NewModifierIds(ids, held, limit) : ids[i] \in Ids
  BY <1>1, <1>2, IdSeqsFacts DEF Ids
<1>5. QED
  BY <1>1, <1>3, <1>4, RequestFromPreserves

\* A message of modifiers in the order of its positions is a sequence.
LEMMA IdsAtIsSeq ==
    ASSUME NEW S, NEW ids, NEW P, IsFiniteSet(P), \A i \in P : ids[i] \in S,
           NEW f \in Enumerations(P)
    PROVE  IdsAt(ids, f) \in Seq(S)
<1>1. f \in [1..Cardinality(P) -> P] /\ Cardinality(P) \in Nat
  BY FS_CardinalityType DEF Enumerations
<1>2. QED
  BY <1>1 DEF IdsAt

\* Only what is Requested is parsed.
LEMMA ParsedFacts ==
    ASSUME NEW ids, NEW encoding, NEW i \in Parsed(ids, encoding)
    PROVE  i \in DOMAIN ids /\ IsRequested(ids[i]) /\ ~IsReceived(ids[i])
BY DEF Parsed, RequestedPositions, Status

\* modifiersFromRemote
LEMMA BlocksFromRemotePreserves ==
    ASSUME IInv, NEW p \in Peers, NEW ids \in IdSeqs(Blocks), NEW encoding,
           BlocksFromRemote(p, ids, encoding), UNCHANGED nvhVars
    PROVE  IInv'
<1>1. PICK rejected \in SUBSET Parsed(ids, encoding) :
        /\ SetReceivedOrInvalid({ids[i] : i \in Parsed(ids, encoding) \ rejected},
                                {ids[i] : i \in rejected}, p)
        /\ \E f \in Enumerations(Parsed(ids, encoding) \ rejected) :
              nvhMailbox' \in {nvhMailbox, Append(nvhMailbox, ModifiersFromRemote(IdsAt(ids, f)))}
        /\ UNCHANGED <<mailbox, readerVars>>
  BY DEF BlocksFromRemote
<1> DEFINE valid == Parsed(ids, encoding) \ rejected
<1>2. \A i \in Parsed(ids, encoding) :
        i \in DOMAIN ids /\ ids[i] \in Blocks /\ IsRequested(ids[i]) /\ ~IsReceived(ids[i])
  BY ParsedFacts, IdSeqsFacts
<1>3. TrackerInv' /\ TimersKept
  BY <1>1, <1>2, IInvFacts, SetReceivedOrInvalidPreserves DEF Ids
<1>4. MailboxGrows
  BY <1>1, IInvFacts, UnchangedGrows
<1>5. nvhMailbox' \in Seq(NvhMessage)
  <2>1. PICK f \in Enumerations(valid) :
          nvhMailbox' \in {nvhMailbox, Append(nvhMailbox, ModifiersFromRemote(IdsAt(ids, f)))}
    BY <1>1
  <2>2. IsFiniteSet(valid)
    <3>1. valid \subseteq DOMAIN ids
      BY <1>2
    <3>2. QED
      BY <3>1, IdSeqsFacts, FS_Subset
  <2>3. IdsAt(ids, f) \in Seq(Blocks)
    BY <1>2, <2>2, IdsAtIsSeq
  <2>4. ModifiersFromRemote(IdsAt(ids, f)) \in NvhMessage
    BY <2>3 DEF ModifiersFromRemote, NvhMessage
  <2>5. QED
    BY <2>1, <2>4, IInvFacts DEF RestTypeOK
<1>6. RestTypeOK'
  BY <1>1, <1>5, IInvFacts DEF RestTypeOK, readerVars, nvhVars
<1>7. QED
  BY <1>3, <1>4, <1>6, GrowingStep

\* Modifiers with transactions.
LEMMA TxsFromRemotePreserves ==
    ASSUME IInv, NEW p \in Peers, NEW ids \in IdSeqs(Txs), NEW encoding,
           TxsFromRemote(p, ids, encoding), UNCHANGED nvhVars
    PROVE  IInv'
<1> DEFINE parsed == Parsed(ids, encoding)
<1>1. PICK f \in Enumerations(parsed) :
        nvhMailbox' = Append(nvhMailbox, TransactionsFromRemote(IdsAt(ids, f)))
  BY DEF TxsFromRemote
<1>2. \A i \in parsed :
        i \in DOMAIN ids /\ ids[i] \in Txs /\ IsRequested(ids[i]) /\ ~IsReceived(ids[i])
  BY ParsedFacts, IdSeqsFacts
<1>3. TrackerInv' /\ TimersKept
  <2>1. SetReceivedOrInvalid({ids[i] : i \in parsed}, {}, p)
    BY DEF TxsFromRemote
  <2>2. QED
    BY <1>2, <2>1, IInvFacts, SetReceivedOrInvalidPreserves DEF Ids
<1>4. MailboxGrows
  BY IInvFacts, UnchangedGrows DEF TxsFromRemote
<1>5. nvhMailbox' \in Seq(NvhMessage)
  <2>1. parsed \subseteq DOMAIN ids
    BY <1>2
  <2>2. IsFiniteSet(parsed)
    BY <2>1, IdSeqsFacts, FS_Subset
  <2>3. IdsAt(ids, f) \in Seq(Txs)
    BY <1>2, <2>2, IdsAtIsSeq
  <2>4. TransactionsFromRemote(IdsAt(ids, f)) \in NvhMessage
    BY <2>3 DEF TransactionsFromRemote, NvhMessage
  <2>5. QED
    BY <1>1, <2>4, IInvFacts DEF RestTypeOK
<1>6. RestTypeOK'
  BY <1>5, IInvFacts DEF TxsFromRemote, RestTypeOK, readerVars, nvhVars
<1>7. QED
  BY <1>3, <1>4, <1>6, GrowingStep

\* Timers: the check takes the place of the timer.
LEMMA DeliveryTimeoutPreserves ==
    ASSUME IInv, NEW i \in Ids, DeliveryTimeout(i), UNCHANGED nvhVars
    PROVE  IInv'
<1>1. TrackerInv /\ RestTypeOK /\ mailbox \in Seq(Message)
  BY IInvFacts
<1>2. requested[i] \in Peers
  BY <1>1, TrackerAssumption
  DEF DeliveryTimeout, TrackerInv, TrackerTypeOK, ChecksAreBounded, IsRequested
<1>3. /\ MailboxGrows
      /\ Len(mailbox') = Len(mailbox) + 1
      /\ mailbox'[Len(mailbox')] = CheckDelivery(requested[i], i)
  BY <1>1, <1>2, TimerMessages, AppendGrows DEF DeliveryTimeout
<1>4. TrackerInv'
  BY <1>1
  DEF DeliveryTimeout, TrackerInv, TrackerTypeOK, StatusIsUnambiguous, ChecksAreBounded,
      IsRequested, IsReceived, slowVars
<1>5. RestTypeOK'
  BY <1>1 DEF DeliveryTimeout, RestTypeOK, readerVars, nvhVars
<1>6. EveryRequestIsWatched'
  <2> SUFFICES ASSUME NEW j \in Ids, IsRequested(j)', j \notin timers'
               PROVE  \E k \in DOMAIN mailbox' :
                        mailbox'[k].kind = "CheckDelivery" /\ mailbox'[k].id = j
    BY DEF EveryRequestIsWatched, InMailbox
  <2>1. CASE j = i
    <3>1. Len(mailbox') \in DOMAIN mailbox'
      BY <1>1, <1>3 DEF MailboxGrows
    <3>2. QED
      BY <1>3, <2>1, <3>1 DEF CheckDelivery
  <2>2. CASE j # i
    <3>1. IsRequested(j) /\ j \notin timers
      BY <2>2 DEF DeliveryTimeout, IsRequested
    <3>2. PICK k \in DOMAIN mailbox : mailbox[k].kind = "CheckDelivery" /\ mailbox[k].id = j
      BY <3>1 DEF IInv, EveryRequestIsWatched, InMailbox
    <3>3. QED
      BY <1>1, <1>3, <3>2 DEF MailboxGrows
  <2>3. QED
    BY <2>1, <2>2
<1>7. QED
  BY <1>3, <1>4, <1>5, <1>6 DEF IInv, TypeOK, TrackerInv, RestTypeOK, MailboxGrows

\* Timers that watch no request.
LEMMA OtherTimeoutsPreserve ==
    ASSUME IInv, UNCHANGED nvhVars,
           \/ \E p \in Peers, i \in Ids : OrphanTimeout(p, i)
           \/ RebroadcastTimeout
    PROVE  IInv'
<1>1. TrackerInv /\ RestTypeOK /\ mailbox \in Seq(Message)
  BY IInvFacts
<1>2. MailboxGrows
  <2>1. PICK m \in Message : mailbox' = Append(mailbox, m)
    BY TimerMessages DEF OrphanTimeout, RebroadcastTimeout, TransactionRebroadcast, Message
  <2>2. QED
    BY <1>1, <2>1, AppendGrows
<1>3. orphans' \in [Peers \X Ids -> Nat]
  <2>1. orphans \in [Peers \X Ids -> Nat]
    BY <1>1 DEF TrackerInv, TrackerTypeOK
  <2>2. CASE RebroadcastTimeout
    BY <2>1, <2>2 DEF RebroadcastTimeout, requestVars
  <2>3. ASSUME NEW p \in Peers, NEW i \in Ids, OrphanTimeout(p, i)
        PROVE  orphans' \in [Peers \X Ids -> Nat]
    <3> DEFINE pi == <<p, i>>
    <3>1. pi \in Peers \X Ids /\ orphans[pi] > 0 /\ orphans' = [orphans EXCEPT ![pi] = @ - 1]
      BY <2>3 DEF OrphanTimeout
    <3> HIDE DEF pi
    <3>2. orphans[pi] - 1 \in Nat
      BY <2>1, <3>1
    <3>3. QED
      BY <2>1, <3>1, <3>2
  <2>4. QED
    BY <2>2, <2>3
<1>4. TrackerInv' /\ TimersKept
  BY <1>1, <1>3
  DEF OrphanTimeout, RebroadcastTimeout, TrackerInv, TrackerTypeOK, StatusIsUnambiguous,
      ChecksAreBounded, TimersKept, IsRequested, IsReceived, slowVars, requestVars
<1>5. RestTypeOK'
  BY <1>1 DEF OrphanTimeout, RebroadcastTimeout, RestTypeOK, readerVars, nvhVars
<1>6. QED
  BY <1>2, <1>4, <1>5, GrowingStep

\* What every handler of a message in the mailbox starts with.
LEMMA HandlesFacts ==
    ASSUME IInv, NEW kind, Handles(kind)
    PROVE  /\ mailbox # <<>> /\ mailbox' = Tail(mailbox) /\ UNCHANGED nvhMailbox
           /\ Head(mailbox) \in Message /\ Head(mailbox).kind = kind
BY DEF Handles, IInv, TypeOK

\* CheckDelivery: the check is replaced by a timer, or the request ends.
LEMMA CheckDeliveryPreserves ==
    ASSUME IInv, HandleCheckDelivery, UNCHANGED nvhVars
    PROVE  IInv'
<1> DEFINE i == Head(mailbox).id
           p == Head(mailbox).peer
<1>1. /\ mailbox # <<>> /\ mailbox' = Tail(mailbox)
      /\ Head(mailbox).kind = "CheckDelivery" /\ i \in Ids /\ p \in Peers
  BY HandlesFacts, MessageFields DEF HandleCheckDelivery
<1>2. TrackerInv /\ RestTypeOK
  BY IInvFacts
<1>3. RestTypeOK'
  BY <1>2 DEF HandleCheckDelivery, Handles, RestTypeOK, readerVars, nvhVars
<1>4. /\ TrackerInv' /\ TimersKept
      /\ requested'[i] = NoPeer \/ i \in timers'
  <2>1. CASE Status(i, {}) # "Requested" /\ UNCHANGED trackerVars
    <3>1. ~IsRequested(i)
      BY <1>1, <1>2, <2>1 DEF Status, TrackerInv, StatusIsUnambiguous
    <3>2. QED
      BY <1>2, <2>1, <3>1, UnchangedTracker DEF IsRequested, trackerVars, requestVars
  <2>2. CASE ClearStatus({i}) /\ UNCHANGED <<invalid, rebroadcastQueue>>
    <3>1. TrackerInv' /\ TimersKept
      <4> DEFINE none == {}
      <4>1. none \subseteq {i} /\ none \subseteq Ids
        OBVIOUS
      <4>2. invalid' = invalid \cup none /\ rebroadcastQueue' \in Seq(Txs)
        BY <1>2, <2>2 DEF TrackerInv, TrackerTypeOK
      <4> HIDE DEF none, i
      <4>3. QED
        BY <1>2, <2>2, <4>1, <4>2, ClearStatusPreserves
    <3>2. requested'[i] = NoPeer
      BY <1>1, <2>2 DEF ClearStatus
    <3>3. QED
      BY <3>1, <3>2
  <2>3. CASE Status(i, {}) = "Requested" /\ OnStillWaiting(p, i)
    <3>1. IsRequested(i) /\ ~IsReceived(i)
      BY <2>3 DEF Status
    <3>2. /\ TrackerInv' /\ TimersKept
          /\ IsRequested(Head(mailbox).id) /\ OnStillWaiting(p, i)
          /\ requested'[i] # NoPeer => i \in timers'
      <4>1. ASSUME NEW cp \in Peers, NEW j \in Ids, IsRequested(j), ~IsReceived(j),
                   OnStillWaiting(cp, j)
            PROVE  TrackerInv' /\ TimersKept /\ (requested'[j] # NoPeer => j \in timers')
        BY <1>2, <4>1, OnStillWaitingPreserves DEF IsRequested
      <4>2. QED
        BY <1>1, <2>3, <3>1, <4>1
    <3>3. QED
      BY <3>2
  <2>4. QED
    BY <2>1, <2>2, <2>3 DEF HandleCheckDelivery
<1>5. QED
  BY <1>1, <1>3, <1>4, HandlingStep

\* setHeld, setUnknown and setInvalid from the events of the NodeViewHolder.
LEMMA ClearingEventPreserves ==
    ASSUME IInv, NEW kind, Handles(kind), kind # "CheckDelivery",
           NEW S, NEW bad, bad \subseteq S, bad \subseteq Ids,
           ClearStatus(S), invalid' = invalid \cup bad, rebroadcastQueue' \in Seq(Txs),
           UNCHANGED <<readerVars, nvhVars>>
    PROVE  IInv'
<1>1. TrackerInv' /\ TimersKept
  BY IInvFacts, ClearStatusPreserves
<1>2. RestTypeOK'
  BY IInvFacts, HandlesFacts DEF RestTypeOK, readerVars, nvhVars
<1>3. QED
  BY <1>1, <1>2, HandlesFacts, HandlingStep

\* The events that leave the tracker alone.
LEMMA TracklessEventPreserves ==
    ASSUME IInv, NEW kind, Handles(kind), kind # "CheckDelivery", UNCHANGED trackerVars,
           RestTypeOK'
    PROVE  IInv'
<1>1. TrackerInv' /\ TimersKept
  BY IInvFacts, UnchangedTracker
<1>2. QED
  BY <1>1, HandlesFacts, HandlingStep

\* The rebroadcast queue stays a sequence of transactions.
LEMMA LastOfIsSeq ==
    ASSUME NEW q \in Seq(Txs), NEW n \in Nat
    PROVE  LastOf(q, n) \in Seq(Txs)
BY DEF LastOf

\* The rebroadcast queue is a sequence of transactions.
LEMMA PutInRebroadcastQueueIsSeq ==
    ASSUME NEW q \in Seq(Txs), NEW ids \in Seq(Txs)
    PROVE  PutInRebroadcastQueue(q, ids) \in Seq(Txs)
<1>1. q \o ids \in Seq(Txs)
  OBVIOUS
<1>2. LastOf(q \o ids, RebroadcastQueueSize) \in Seq(Txs)
  BY <1>1, LastOfIsSeq, TrackerAssumption
<1>3. QED
  BY <1>2 DEF PutInRebroadcastQueue

\* It stays one when transactions are broadcast.
LEMMA BroadcastTransactionsType ==
    ASSUME NEW slow, NEW q \in Seq(Txs), NEW ids \in Seq(Txs), BroadcastTransactions(slow, q, ids)
    PROVE  rebroadcastQueue' \in Seq(Txs)
BY PutInRebroadcastQueueIsSeq DEF BroadcastTransactions

\* SuccessfulTransaction.
LEMMA SuccessfulTransactionPreserves ==
    ASSUME IInv, HandleSuccessfulTransaction, UNCHANGED nvhVars
    PROVE  IInv'
<1> DEFINE t == Head(mailbox).id
<1>1. Handles("SuccessfulTransaction") /\ t \in Txs /\ UNCHANGED readerVars
  BY HandlesFacts, MessageFields DEF HandleSuccessfulTransaction
<1>2. CASE HandlingTransactionsEnabled
  <2>1. SetHeld(t) /\ BroadcastTransactions(slowMode', rebroadcastQueue, <<t>>)
    BY <1>2 DEF HandleSuccessfulTransaction
  <2>2. rebroadcastQueue' \in Seq(Txs)
    <3>1. rebroadcastQueue \in Seq(Txs) /\ <<t>> \in Seq(Txs)
      BY <1>1, IInvFacts DEF TrackerInv, TrackerTypeOK
    <3>2. QED
      BY <2>1, <3>1, BroadcastTransactionsType
  <2> DEFINE none == {}
  <2>3. none \subseteq {t} /\ none \subseteq Ids /\ ClearStatus({t}) /\ invalid' = invalid \cup none
    BY <2>1 DEF SetHeld
  <2> HIDE DEF none, t
  <2>4. QED
    BY <1>1, <2>2, <2>3, ClearingEventPreserves
<1>3. CASE ~HandlingTransactionsEnabled
  <2>1. UNCHANGED trackerVars
    BY <1>3 DEF HandleSuccessfulTransaction
  <2>2. RestTypeOK'
    BY <1>1, IInvFacts, HandlesFacts DEF RestTypeOK, readerVars, nvhVars
  <2>3. QED
    BY <1>1, <2>1, <2>2, TracklessEventPreserves
<1>4. QED
  BY <1>2, <1>3

\* setInvalid of the modifier that the message names.
LEMMA SetInvalidEventPreserves ==
    ASSUME IInv, NEW kind, Handles(kind), kind # "CheckDelivery", NEW i \in Ids, SetInvalid(i),
           UNCHANGED <<readerVars, nvhVars>>
    PROVE  IInv'
<1> DEFINE one == {i}
<1>1. one \subseteq one /\ one \subseteq Ids /\ ClearStatus(one) /\ invalid' = invalid \cup one
  BY DEF SetInvalid
<1>2. rebroadcastQueue' \in Seq(Txs)
  BY IInvFacts DEF SetInvalid, TrackerInv, TrackerTypeOK
<1> HIDE DEF one
<1>3. QED
  BY <1>1, <1>2, ClearingEventPreserves

\* FailedTransaction.
LEMMA FailedTransactionPreserves ==
    ASSUME IInv, HandleFailedTransaction, UNCHANGED nvhVars
    PROVE  IInv'
<1>1. Handles("FailedTransaction") /\ Head(mailbox).id \in Ids /\ UNCHANGED readerVars
  BY HandlesFacts, MessageFields DEF HandleFailedTransaction, Ids
<1>2. CASE HandlingTransactionsEnabled
  <2>1. SetInvalid(Head(mailbox).id)
    BY <1>2 DEF HandleFailedTransaction
  <2>2. QED
    BY <1>1, <2>1, SetInvalidEventPreserves
<1>3. CASE ~HandlingTransactionsEnabled
  <2>1. UNCHANGED trackerVars
    BY <1>3 DEF HandleFailedTransaction
  <2>2. RestTypeOK'
    BY <1>1, IInvFacts, HandlesFacts DEF RestTypeOK, readerVars, nvhVars
  <2>3. QED
    BY <1>1, <2>1, <2>2, TracklessEventPreserves
<1>4. QED
  BY <1>2, <1>3

\* SyntacticallyFailedModification and SemanticallyFailedModification.
LEMMA FailedModificationPreserves ==
    ASSUME IInv, HandleFailedModification, UNCHANGED nvhVars
    PROVE  IInv'
<1>1. PICK kind \in BlockEvents : Handles(kind)
  BY DEF HandleFailedModification, BlockEvents
<1>2. kind # "CheckDelivery" /\ Head(mailbox).id \in Ids
  BY <1>1, HandlesFacts, MessageFields DEF BlockEvents, Ids
<1>3. SetInvalid(Head(mailbox).id) /\ UNCHANGED readerVars
  BY DEF HandleFailedModification
<1>4. QED
  BY <1>1, <1>2, <1>3, SetInvalidEventPreserves

\* SyntacticallySuccessfulModifier.
LEMMA SyntacticallySuccessfulPreserves ==
    ASSUME IInv, HandleSyntacticallySuccessful, UNCHANGED nvhVars
    PROVE  IInv'
<1> DEFINE one == {Head(mailbox).id}
           none == {}
<1>1. none \subseteq one /\ none \subseteq Ids /\ ClearStatus(one) /\ invalid' = invalid \cup none
  BY DEF HandleSyntacticallySuccessful, SetHeld
<1>2. rebroadcastQueue' \in Seq(Txs)
  BY IInvFacts DEF HandleSyntacticallySuccessful, TrackerInv, TrackerTypeOK
<1>3. Handles("SyntacticallySuccessfulModifier") /\ UNCHANGED readerVars
  BY DEF HandleSyntacticallySuccessful
<1> HIDE DEF one, none
<1>4. QED
  BY <1>1, <1>2, <1>3, ClearingEventPreserves

\* ModifiersProcessingResult.
LEMMA ModifiersProcessingResultPreserves ==
    ASSUME IInv, HandleModifiersProcessingResult, UNCHANGED nvhVars
    PROVE  IInv'
<1> DEFINE S == {id \in Head(mailbox).cleared : IsCorrectTransition(Status(id, {}), "Unknown")}
           none == {}
<1>1. none \subseteq S /\ none \subseteq Ids /\ ClearStatus(S) /\ invalid' = invalid \cup none
  BY DEF HandleModifiersProcessingResult, SetUnknown
<1>2. rebroadcastQueue' \in Seq(Txs)
  BY IInvFacts DEF HandleModifiersProcessingResult, SetUnknown, TrackerInv, TrackerTypeOK
<1>3. Handles("ModifiersProcessingResult") /\ UNCHANGED readerVars
  BY DEF HandleModifiersProcessingResult
<1> HIDE DEF S, none
<1>4. QED
  BY <1>1, <1>2, <1>3, ClearingEventPreserves

\* Events that only change readers.
LEMMA ReaderEventsPreserve ==
    ASSUME IInv, UNCHANGED nvhVars,
           HandleSemanticallySuccessful \/ HandleChangedHistory \/ HandleChangedMempool
    PROVE  IInv'
<1>1. CASE HandleSemanticallySuccessful
  <2>1. Handles("SemanticallySuccessfulModifier") /\ UNCHANGED <<trackerVars, readerVars>>
    BY <1>1 DEF HandleSemanticallySuccessful
  <2>2. RestTypeOK'
    BY <2>1, IInvFacts, HandlesFacts DEF RestTypeOK, readerVars, nvhVars
  <2>3. QED
    BY <2>1, <2>2, TracklessEventPreserves
<1>2. CASE HandleChangedHistory
  <2>1. Handles("ChangedHistory") /\ UNCHANGED trackerVars
    BY <1>2 DEF HandleChangedHistory
  <2>2. Head(mailbox).contents \subseteq Blocks /\ UNCHANGED nvhMailbox
    BY <2>1, HandlesFacts, MessageFields
  <2>3. RestTypeOK'
    BY <1>2, <2>2, IInvFacts DEF HandleChangedHistory, RestTypeOK, nvhVars
  <2>4. QED
    BY <2>1, <2>3, TracklessEventPreserves
<1>3. CASE HandleChangedMempool
  <2>1. Handles("ChangedMempool") /\ UNCHANGED trackerVars
    BY <1>3 DEF HandleChangedMempool
  <2>2. Head(mailbox).contents \subseteq Txs /\ UNCHANGED nvhMailbox
    BY <2>1, HandlesFacts, MessageFields
  <2>3. RestTypeOK'
    BY <1>3, <2>2, IInvFacts DEF HandleChangedMempool, RestTypeOK, nvhVars
  <2>4. QED
    BY <2>1, <2>3, TracklessEventPreserves
<1>4. QED
  BY <1>1, <1>2, <1>3

\* TransactionRebroadcast.
LEMMA TransactionRebroadcastPreserves ==
    ASSUME IInv, HandleTransactionRebroadcast, UNCHANGED nvhVars
    PROVE  IInv'
<1>1. /\ Handles("TransactionRebroadcast")
      /\ UNCHANGED <<requestVars, received, invalid, slowMode, readerVars>>
  BY DEF HandleTransactionRebroadcast
<1>2. TrackerInv /\ RestTypeOK
  BY IInvFacts
<1>3. rebroadcastQueue' \in Seq(Txs)
  <2> DEFINE mods == GetRebroadcastModifiers
             present == IF "mempool" \in readers
                        THEN {i \in DOMAIN mods : mods[i] \in mempoolReader} ELSE {}
  <2>1. rebroadcastQueue \in Seq(Txs) /\ RebroadcastCount \in 0..Len(rebroadcastQueue)
    BY <1>2, TrackerAssumption DEF TrackerInv, TrackerTypeOK, RebroadcastCount
  <2>2. mods \in Seq(Txs) /\ AfterGetRebroadcastModifiers \in Seq(Txs)
    BY <2>1 DEF GetRebroadcastModifiers, AfterGetRebroadcastModifiers
  <2>3. PICK f \in Enumerations(present) :
          BroadcastTransactions(slowMode, AfterGetRebroadcastModifiers, IdsAt(mods, f))
    BY DEF HandleTransactionRebroadcast
  <2> HIDE DEF mods
  <2>4. IsFiniteSet(present) /\ \A i \in present : mods[i] \in Txs
    <3>1. IsFiniteSet(1..Len(mods)) /\ DOMAIN mods = 1..Len(mods)
      BY <2>2, FS_Interval
    <3>2. present \subseteq 1..Len(mods)
      BY <3>1
    <3>3. QED
      BY <2>2, <3>1, <3>2, FS_Subset
  <2>5. IdsAt(mods, f) \in Seq(Txs)
    BY <2>4, IdsAtIsSeq
  <2>6. QED
    BY <2>2, <2>3, <2>5, BroadcastTransactionsType
<1>4. rebroadcastTimer' \in BOOLEAN
  BY <1>2, TrackerAssumption
  DEF HandleTransactionRebroadcast, ScheduleRebroadcastIfNeeded, TrackerInv, TrackerTypeOK
<1>5. TrackerInv' /\ TimersKept
  BY <1>1, <1>2, <1>3, <1>4
  DEF TrackerInv, TrackerTypeOK, StatusIsUnambiguous, ChecksAreBounded, TimersKept,
      IsRequested, IsReceived, requestVars
<1>6. RestTypeOK'
  BY <1>1, <1>2, HandlesFacts DEF RestTypeOK, readerVars, nvhVars
<1>7. QED
  BY <1>1, <1>5, <1>6, HandlesFacts, HandlingStep

-----------------------------------------------------------------------------
(* The steps of the NodeViewHolder: they only add to the mailbox           *)

\* A step of the NodeViewHolder that only adds to the mailbox.
LEMMA NvhStepPreserves ==
    ASSUME IInv, MailboxGrows, UNCHANGED trackerVars, RestTypeOK'
    PROVE  IInv'
BY IInvFacts, UnchangedTracker, GrowingStep

VerdictKinds == {"SemanticallyFailedModification", "SemanticallySuccessfulModifier"}

\* The verdicts of an update are messages of two kinds.
LEMMA VerdictsAreMessages ==
    ASSUME NEW blocks \in SUBSET Blocks, NEW v \in Verdicts(blocks)
    PROVE  v \in Seq(Message) /\ \A i \in 1..Len(v) : v[i].kind \in VerdictKinds
<1> DEFINE all == {VerdictOn(b) : b \in blocks}
<1>1. ASSUME NEW b \in blocks
      PROVE  VerdictOn(b) \in Message /\ VerdictOn(b).kind \in VerdictKinds
  <2>1. PICK kind \in VerdictKinds : VerdictOn(b) = Event(kind, b)
    BY DEF VerdictOn, VerdictKinds
  <2>2. Event(kind, b) \in Message
    BY BlockEventsAreMessages DEF BlockEvents, VerdictKinds
  <2>. QED  BY <2>1, <2>2 DEF Event
<1>2. Cardinality(blocks) \in Nat
  BY TrackerAssumption, FS_Subset, FS_CardinalityType DEF Ids
<1>3. PICK n \in 0..Cardinality(blocks) : v \in [1..n -> all]
  BY DEF Verdicts
<1> HIDE DEF all
<1>4. n \in Nat
  BY <1>2
<1>5. v \in Seq(all) /\ Len(v) = n
  BY <1>3, <1>4
<1>6. \A m \in all : m \in Message /\ m.kind \in VerdictKinds
  BY <1>1 DEF all
<1>. QED  BY <1>3, <1>4, <1>5, <1>6

\* Sequences of messages, with verdicts between the first one and the others.
LEMMA EventsAreMessages ==
    ASSUME NEW a \in Message, NEW v \in Seq(Message), NEW c \in Message, NEW d \in Message
    PROVE  /\ <<a>> \in Seq(Message) /\ <<c>> \in Seq(Message) /\ <<c, d>> \in Seq(Message)
           /\ <<a>> \o v \in Seq(Message)
           /\ <<a>> \o v \o <<c>> \in Seq(Message)
           /\ <<a>> \o v \o <<c, d>> \in Seq(Message)
<1>1. <<a>> \in Seq(Message) /\ <<c>> \in Seq(Message) /\ <<c, d>> \in Seq(Message)
  OBVIOUS
<1>2. <<a>> \o v \in Seq(Message)
  BY <1>1, ConcatProperties
<1>. QED  BY <1>1, <1>2, ConcatProperties

\* The events of pmodModify(b).
AppendedEvent(b) == Event("SyntacticallySuccessfulModifier", b)
FailedEvent(b) == Event("SyntacticallyFailedModification", b)
HistoryEvent(b) == Changed("ChangedHistory", history \cup {b})
PoolEvent(pool) == Changed("ChangedMempool", pool)

\* The verdicts v of an update are published between the first and the last of them.
HistoryChanges(b, v) == <<AppendedEvent(b)>> \o v \o <<HistoryEvent(b)>>
ViewChanges(b, v) == <<AppendedEvent(b)>> \o v \o <<HistoryEvent(b), PoolEvent(mempool')>>

PublishesUpdate(b, v) ==
    /\ v \in Seq(Message) /\ \A i \in 1..Len(v) : v[i].kind \in VerdictKinds
    /\ \/ Publish(HistoryChanges(b, v)) /\ UNCHANGED mempool
       \/ Publish(ViewChanges(b, v))
    /\ history' = history \cup {b}

\* These events are messages.
LEMMA PmodEventsAreMessages ==
    ASSUME IInv, NEW b \in Blocks, PmodModify(b)
    PROVE  /\ mailbox \in Seq(Message) /\ history \cup {b} \subseteq Blocks
           /\ mempool' \subseteq mempool /\ mempool \subseteq Txs
           /\ AppendedEvent(b) \in Message /\ FailedEvent(b) \in Message
           /\ HistoryEvent(b) \in Message /\ PoolEvent(mempool') \in Message
           /\ \A v \in Seq(Message) :
                 HistoryChanges(b, v) \in Seq(Message) /\ ViewChanges(b, v) \in Seq(Message)
<1>1. mailbox \in Seq(Message) /\ history \cup {b} \subseteq Blocks /\ mempool \subseteq Txs
  BY IInvFacts DEF RestTypeOK
<1>2. mempool' \subseteq mempool
  BY DEF PmodModify
<1>3. /\ AppendedEvent(b) \in Message /\ FailedEvent(b) \in Message
      /\ HistoryEvent(b) \in Message /\ PoolEvent(mempool') \in Message
  BY <1>1, <1>2, BlockEventsAreMessages DEF BlockEvents, AppendedEvent, FailedEvent, HistoryEvent, PoolEvent
<1>4. \A v \in Seq(Message) :
         HistoryChanges(b, v) \in Seq(Message) /\ ViewChanges(b, v) \in Seq(Message)
  BY <1>3, EventsAreMessages, Zenon DEF HistoryChanges, ViewChanges
<1>. QED  BY <1>1, <1>2, <1>3, <1>4, Zenon

\* What pmodModify publishes.
LEMMA PmodModifyCases ==
    ASSUME IInv, NEW b \in Blocks, PmodModify(b)
    PROVE  \/ UNCHANGED <<history, mempool, mailbox>> /\ b \in history
           \/ Publish(<<FailedEvent(b)>>) /\ UNCHANGED <<history, mempool>>
           \/ \E v : PublishesUpdate(b, v)
<1>1. \A v \in Verdicts(history \cup {b}) :
         v \in Seq(Message) /\ \A i \in 1..Len(v) : v[i].kind \in VerdictKinds
  BY PmodEventsAreMessages, VerdictsAreMessages
<1>2. ASSUME NEW v \in Verdicts(history \cup {b}), history' = history \cup {b},
             \/ Publish(HistoryChanges(b, v)) /\ UNCHANGED mempool
             \/ Publish(ViewChanges(b, v))
      PROVE  PublishesUpdate(b, v)
  BY <1>1, <1>2, Zenon DEF PublishesUpdate
<1>3. \/ UNCHANGED <<history, mempool, mailbox>> /\ b \in history
      \/ Publish(<<FailedEvent(b)>>) /\ UNCHANGED <<history, mempool>>
      \/ \E v \in Verdicts(history \cup {b}) :
            /\ history' = history \cup {b}
            /\ \/ Publish(HistoryChanges(b, v)) /\ UNCHANGED mempool
               \/ Publish(ViewChanges(b, v))
  BY Zenon DEF PmodModify, HistoryChanges, ViewChanges, AppendedEvent, FailedEvent, HistoryEvent, PoolEvent
<1>. QED  BY <1>2, <1>3, Zenon

\* pmodModify is such a step.
LEMMA PmodModifyGrows ==
    ASSUME IInv, NEW b \in Blocks, PmodModify(b)
    PROVE  MailboxGrows /\ history' \subseteq Blocks /\ mempool' \subseteq Txs
<1>1. /\ mailbox \in Seq(Message) /\ history \cup {b} \subseteq Blocks /\ mempool' \subseteq Txs
      /\ FailedEvent(b) \in Message
  BY PmodEventsAreMessages
<1>2. CASE UNCHANGED <<history, mempool, mailbox>>
  BY <1>1, <1>2, UnchangedGrows
<1>3. CASE Publish(<<FailedEvent(b)>>) /\ UNCHANGED <<history, mempool>>
  <2>1. <<FailedEvent(b)>> \in Seq(Message)
    BY <1>1
  <2>. QED  BY <1>1, <1>3, <2>1, PublishGrows
<1>4. ASSUME NEW v, PublishesUpdate(b, v)
      PROVE  MailboxGrows /\ history' \subseteq Blocks
  <2>1. HistoryChanges(b, v) \in Seq(Message) /\ ViewChanges(b, v) \in Seq(Message)
    BY <1>4, PmodEventsAreMessages, Zenon DEF PublishesUpdate
  <2>2. MailboxGrows
    BY <1>1, <1>4, <2>1, PublishGrows, Zenon DEF PublishesUpdate
  <2>3. history' \subseteq Blocks
    BY <1>1, <1>4, Zenon DEF PublishesUpdate
  <2>. QED  BY <2>2, <2>3
<1>. QED  BY <1>1, <1>2, <1>3, <1>4, PmodModifyCases

\* So is txModify.
LEMMA TxModifyGrows ==
    ASSUME IInv, NEW t \in Txs, TxModify(t)
    PROVE  MailboxGrows /\ mempool' \subseteq Txs
<1>1. mailbox \in Seq(Message) /\ mempool \subseteq Txs
  BY IInvFacts DEF RestTypeOK
<1>2. mempool' \subseteq Txs
  BY <1>1 DEF TxModify
<1>3. /\ Changed("ChangedMempool", mempool') \in Message
      /\ Event("SuccessfulTransaction", t) \in Message
      /\ FailedTransaction(t, TRUE) \in Message
  <2>1. Changed("ChangedMempool", mempool') \in Message
    BY <1>2 DEF Changed, Message
  <2>2. QED
    BY <2>1, TRUE \in BOOLEAN, TxEventsAreMessages, FailedTransactionsAreMessages
<1>4. PICK events \in Seq(Message) : Publish(events)
  <2>1. /\ <<Changed("ChangedMempool", mempool'), Event("SuccessfulTransaction", t)>> \in Seq(Message)
        /\ <<FailedTransaction(t, TRUE)>> \in Seq(Message)
    BY <1>3, ShortSequences, Zenon
  <2>2. QED
    BY <2>1 DEF TxModify
<1>5. QED
  BY <1>1, <1>2, <1>4, PublishGrows

\* And so is every step of the NodeViewHolder.
LEMMA NvhNextPreserves ==
    ASSUME IInv, NvhNext
    PROVE  IInv'
<1>1. mailbox \in Seq(Message) /\ RestTypeOK
  BY IInvFacts
<1>2. CASE NvhGetNodeViewChanges
  <2>1. <<Changed("ChangedHistory", history), Changed("ChangedMempool", mempool)>> \in Seq(Message)
    BY <1>1 DEF Changed, Message, RestTypeOK
  <2>2. MailboxGrows
    BY <1>1, <1>2, <2>1, PublishGrows DEF NvhGetNodeViewChanges
  <2>3. RestTypeOK'
    BY <1>1, <1>2
    DEF NvhGetNodeViewChanges, NvhReceives, RestTypeOK, nvsOwnVars, readerVars, nvhVars
  <2>4. QED
    BY <1>2, <2>2, <2>3, NvhStepPreserves DEF NvhGetNodeViewChanges, nvsOwnVars
<1>3. CASE NvhModifiersFromRemote
  <2>1. MailboxGrows
    BY <1>1, <1>3, UnchangedGrows DEF NvhModifiersFromRemote
  <2>2. RestTypeOK'
    BY <1>1, <1>3 DEF NvhModifiersFromRemote, NvhReceives, RestTypeOK, nvsOwnVars, readerVars
  <2>3. QED
    BY <1>3, <2>1, <2>2, NvhStepPreserves DEF NvhModifiersFromRemote, nvsOwnVars
<1>4. CASE NvhApplyCandidate
  <2>1. MailboxGrows /\ history' \subseteq Blocks /\ mempool' \subseteq Txs
    BY <1>4, PmodModifyGrows DEF NvhApplyCandidate
  <2>2. RestTypeOK'
    BY <1>1, <1>4, <2>1 DEF NvhApplyCandidate, RestTypeOK, nvsOwnVars, readerVars
  <2>3. QED
    BY <1>4, <2>1, <2>2, NvhStepPreserves DEF NvhApplyCandidate, nvsOwnVars
<1>5. CASE NvhFinish
  <2>1. PICK cleared \in SUBSET Blocks : Publish(<<ModifiersProcessingResult(cleared)>>)
    BY <1>5 DEF NvhFinish
  <2>2. <<ModifiersProcessingResult(cleared)>> \in Seq(Message)
    BY DEF ModifiersProcessingResult, Message
  <2>3. MailboxGrows
    BY <1>1, <2>1, <2>2, PublishGrows
  <2>4. RestTypeOK'
    BY <1>1, <1>5 DEF NvhFinish, RestTypeOK, nvsOwnVars, readerVars
  <2>5. QED
    BY <1>5, <2>3, <2>4, NvhStepPreserves DEF NvhFinish, nvsOwnVars
<1>6. CASE NvhTransactionsFromRemote
  <2> DEFINE txs == Head(nvhMailbox).mods
  <2>1. nvhMailbox # <<>> /\ txs \in Seq(Txs)
    BY <1>1, <1>6
    DEF NvhTransactionsFromRemote, NvhReceives, RestTypeOK, NvhMessage, GetNodeViewChanges
  <2>2. MailboxGrows /\ mempool' \subseteq Txs
    <3>1. CASE txs = <<>>
      BY <1>1, <1>6, <3>1, UnchangedGrows DEF NvhTransactionsFromRemote, RestTypeOK
    <3>2. CASE txs # <<>>
      <4>1. Head(txs) \in Txs /\ TxModify(Head(txs))
        BY <1>6, <2>1, <3>2 DEF NvhTransactionsFromRemote
      <4>2. QED
        BY <4>1, TxModifyGrows
    <3>3. QED
      BY <3>1, <3>2
  <2>3. nvhMailbox' \in Seq(NvhMessage)
    <3>1. Tail(nvhMailbox) \in Seq(NvhMessage)
      BY <1>1, <2>1 DEF RestTypeOK
    <3>2. CASE txs = <<>>
      BY <1>6, <3>1, <3>2 DEF NvhTransactionsFromRemote
    <3>3. CASE txs # <<>>
      <4>1. Tail(txs) \in Seq(Txs)
        BY <2>1, <3>3
      <4>2. <<TransactionsFromRemote(Tail(txs))>> \in Seq(NvhMessage)
        BY <4>1 DEF TransactionsFromRemote, NvhMessage
      <4>3. nvhMailbox' = <<TransactionsFromRemote(Tail(txs))>> \o Tail(nvhMailbox)
        BY <1>6, <3>3 DEF NvhTransactionsFromRemote
      <4>4. QED
        BY <3>1, <4>2, <4>3, ConcatProperties
    <3>4. QED
      BY <3>2, <3>3
  <2>4. RestTypeOK'
    BY <1>1, <1>6, <2>2, <2>3 DEF NvhTransactionsFromRemote, RestTypeOK, nvsOwnVars, readerVars
  <2>5. QED
    BY <1>6, <2>2, <2>4, NvhStepPreserves DEF NvhTransactionsFromRemote, nvsOwnVars
<1>7. ASSUME NEW b \in Blocks, NvhLocallyGeneratedModifier(b)
      PROVE  IInv'
  <2>1. MailboxGrows /\ history' \subseteq Blocks /\ mempool' \subseteq Txs
    BY <1>7, PmodModifyGrows DEF NvhLocallyGeneratedModifier
  <2>2. RestTypeOK'
    BY <1>1, <1>7, <2>1 DEF NvhLocallyGeneratedModifier, RestTypeOK, nvsOwnVars, readerVars
  <2>3. QED
    BY <1>7, <2>1, <2>2, NvhStepPreserves DEF NvhLocallyGeneratedModifier, nvsOwnVars
<1>8. ASSUME NEW t \in Txs, NvhLocallyGeneratedTransaction(t)
      PROVE  IInv'
  <2>1. MailboxGrows /\ mempool' \subseteq Txs
    <3>1. CASE HandlingTransactionsEnabled
      BY <1>8, <3>1, TxModifyGrows DEF NvhLocallyGeneratedTransaction
    <3>2. CASE ~HandlingTransactionsEnabled
      <4>1. <<FailedTransaction(t, FALSE)>> \in Seq(Message)
        BY FailedTransactionsAreMessages, ShortSequences, Zenon
      <4>2. QED
        BY <1>1, <1>8, <3>2, <4>1, PublishGrows DEF NvhLocallyGeneratedTransaction, RestTypeOK
    <3>3. QED
      BY <3>1, <3>2
  <2>2. RestTypeOK'
    BY <1>1, <1>8, <2>1 DEF NvhLocallyGeneratedTransaction, RestTypeOK, nvsOwnVars, readerVars
  <2>3. QED
    BY <1>8, <2>1, <2>2, NvhStepPreserves DEF NvhLocallyGeneratedTransaction, nvsOwnVars
<1>9. ASSUME NEW t \in Txs, NvhEliminateTransaction(t)
      PROVE  IInv'
  <2>1. mempool' \subseteq Txs
    BY <1>1, <1>9 DEF NvhEliminateTransaction, RestTypeOK
  <2>2. <<Changed("ChangedMempool", mempool'), FailedTransaction(t, FALSE)>> \in Seq(Message)
    <3>1. Changed("ChangedMempool", mempool') \in Message
      BY <2>1 DEF Changed, Message
    <3>2. QED
      BY <3>1, FailedTransactionsAreMessages, ShortSequences, Zenon
  <2>3. MailboxGrows
    BY <1>1, <1>9, <2>2, PublishGrows DEF NvhEliminateTransaction
  <2>4. RestTypeOK'
    BY <1>1, <1>9, <2>1 DEF NvhEliminateTransaction, RestTypeOK, nvsOwnVars, readerVars
  <2>5. QED
    BY <1>9, <2>3, <2>4, NvhStepPreserves DEF NvhEliminateTransaction, nvsOwnVars
<1>10. QED
  BY <1>2, <1>3, <1>4, <1>5, <1>6, <1>7, <1>8, <1>9 DEF NvhNext

-----------------------------------------------------------------------------
(* The invariant                                                           *)

\* The invariant holds at the start.
LEMMA InitEstablishesIInv == Init => IInv
<1> SUFFICES ASSUME Init PROVE IInv
  OBVIOUS
<1>1. TypeOK
  <2>1. <<GetNodeViewChanges>> \in Seq(NvhMessage)
    BY DEF NvhMessage
  <2>2. /\ requested \in [Ids -> Peers \cup {NoPeer}] /\ received \in [Ids -> Peers \cup {NoPeer}]
        /\ checks \in [Ids -> Nat] /\ peerLimits \in [Peers -> Nat]
        /\ orphans \in [Peers \X Ids -> Nat]
    BY DEF Init, NvsInit, TrackerInit
  <2>3. /\ timers \subseteq Ids /\ invalid \subseteq Ids
        /\ rebroadcastQueue \in Seq(Txs)
        /\ mailbox \in Seq(Message) /\ nvhMailbox \in Seq(NvhMessage)
    BY <2>1 DEF Init, NvsInit, TrackerInit
  <2>4. slowMode \in BOOLEAN /\ rebroadcastTimer \in BOOLEAN /\ applying \in BOOLEAN
    BY DEF Init, NvsInit, TrackerInit
  <2>5. /\ readers \subseteq {"history", "mempool"}
        /\ historyReader \subseteq Blocks /\ mempoolReader \subseteq Txs
        /\ history \subseteq Blocks /\ mempool \subseteq Txs
    BY DEF Init, NvsInit
  <2>6. QED
    BY <2>2, <2>3, <2>4, <2>5, Zenon DEF TypeOK, TrackerTypeOK
<1>2. \A i \in Ids : ~IsRequested(i) /\ ~IsReceived(i)
  BY DEF Init, NvsInit, TrackerInit, IsRequested, IsReceived
<1>3. QED
  BY <1>1, <1>2
  DEF Init, NvsInit, TrackerInit, IInv, StatusIsUnambiguous, ChecksAreBounded, EveryRequestIsWatched

\* Every step keeps it.
LEMMA NextPreservesIInv == IInv /\ [Next]_vars => IInv'
<1> SUFFICES ASSUME IInv, [Next]_vars PROVE IInv'
  OBVIOUS
<1>1. CASE UNCHANGED vars
  <2>1. UNCHANGED <<trackerVars, mailbox, nvhMailbox, readerVars, nvhVars>>
    BY <1>1 DEF vars, nvsVars
  <2>2. MailboxGrows
    BY <2>1, IInvFacts, UnchangedGrows
  <2>3. RestTypeOK'
    BY <2>1, IInvFacts DEF RestTypeOK, readerVars, nvhVars
  <2>4. QED
    BY <2>1, <2>2, <2>3, NvhStepPreserves
<1>2. CASE NvsReceive
  BY <1>2, ProcessInvPreserves, BlocksFromRemotePreserves, TxsFromRemotePreserves DEF NvsReceive
<1>3. CASE NvsTimeout
  BY <1>3, DeliveryTimeoutPreserves, OtherTimeoutsPreserve DEF NvsTimeout
<1>4. CASE NvhNext
  BY <1>4, NvhNextPreserves
<1>5. CASE (\/ HandleCheckDelivery \/ HandleSuccessfulTransaction \/ HandleFailedTransaction
            \/ HandleSyntacticallySuccessful \/ HandleFailedModification) /\ UNCHANGED nvhVars
  BY <1>5, CheckDeliveryPreserves, SuccessfulTransactionPreserves, FailedTransactionPreserves,
     SyntacticallySuccessfulPreserves, FailedModificationPreserves
<1>6. CASE (\/ HandleSemanticallySuccessful \/ HandleChangedHistory \/ HandleChangedMempool
            \/ HandleModifiersProcessingResult \/ HandleTransactionRebroadcast)
           /\ UNCHANGED nvhVars
  BY <1>6, ReaderEventsPreserve, ModifiersProcessingResultPreserves, TransactionRebroadcastPreserves
<1>7. QED
  BY <1>1, <1>2, <1>3, <1>4, <1>5, <1>6 DEF Next, NvsNext

\* The inductive invariant holds of every behaviour of the node.
THEOREM InductiveInvariant == Spec => []IInv
<1>1. Init => IInv
  BY InitEstablishesIInv
<1>2. IInv /\ [Next]_vars => IInv'
  BY NextPreservesIInv
<1>3. QED
  BY <1>1, <1>2, PTL DEF Spec

\* Type correctness of the synchronizer, the tracker and the mailboxes.
THEOREM TypeCorrect == Spec => []TypeOK
<1>1. IInv => TypeOK
  BY DEF IInv
<1>2. QED
  BY <1>1, InductiveInvariant, PTL

\* No modifier is Requested, Received and Invalid at the same time: whatever peers
\* send and in whatever order events arrive, its status is one of them at most.
THEOREM StatusNeverAmbiguous == Spec => []StatusIsUnambiguous
<1>1. IInv => StatusIsUnambiguous
  BY DEF IInv
<1>2. QED
  BY <1>1, InductiveInvariant, PTL

\* DeliveryTracker never forgets a request: as long as a modifier is Requested, a
\* timer is pending or a CheckDelivery message is waiting that will look at it.
THEOREM RequestsAlwaysWatched == Spec => []EveryRequestIsWatched
<1>1. IInv => EveryRequestIsWatched
  BY DEF IInv
<1>2. QED
  BY <1>1, InductiveInvariant, PTL

\* No modifier is waited for through more than maxDeliveryChecks checks, and timers
\* are pending only for modifiers that are Requested.
THEOREM ChecksAlwaysBounded == Spec => []ChecksAreBounded
<1>1. IInv => ChecksAreBounded
  BY DEF IInv
<1>2. QED
  BY <1>1, InductiveInvariant, PTL

=============================================================================
