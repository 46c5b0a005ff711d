# Sparkz: a TLA+ verification project

Sparkz (`src/`) is a framework for blockchain nodes in Scala: an Akka actor
system that keeps a *node view* (history, state, vault, memory pool), a
peer-to-peer network that exchanges *modifiers* (blocks and transactions), and
the code between them that decides what to ask for, from whom, and what to do
with the answer.  The project models that machinery in TLA+, checks it with TLC
on small instances and proves the central invariants with TLAPS for every
instance.

## 1. Inventory

Paths are relative to `src/src/main/scala/sparkz/core/`.

| component | state it keeps | operations | talks to |
|---|---|---|---|
| `network/DeliveryTracker` | `requested` (peer, timer, checks), `received`, `invalid`, `peerLimits`, slow mode, rebroadcast queue and timer | setRequested, setReceived, setHeld, setInvalid, setUnknown, onStillWaiting, rebroadcast queue | a local field of the synchronizer; Akka scheduler |
| `network/NodeViewSynchronizer` | readers of history and mempool, the tracker, the sync tracker | Inv, Modifiers, RequestModifier, SyncInfo messages; events of the NodeViewHolder; timers | NodeViewHolder, NetworkController, peers' handlers |
| `ModifiersCache` | cached blocks in insertion order, eviction queue | put, popCandidate, cleanOverfull | a local field of the NodeViewHolder; asks the history |
| `NodeViewHolder` | history, state, vault, mempool; the cache | ModifiersFromRemote, local modifiers, transactions, view queries; chain switching (`updateState`, `applyState`) | publishes events on the event stream |
| `network/SyncTracker` | status and last sync time of each peer | updateStatus, clearStatus, peersToSyncWith, sync schedule | a local field of the synchronizer |
| `network/NetworkController` | connections, unconfirmed connections, message handlers | connect, accept, handshake, disconnect, penalize, broadcast | TCP manager, PeerManager, PeerConnectionHandlers |
| `network/PeerConnectionHandler` | handshake state, input buffer, output buffer | handshake, read, write with and without back pressure, close | TCP connection, NetworkController |
| `network/peer/PeerManager`, `InMemoryPeerDatabase` | known peers, penalties, blacklist | add, remove, penalize, random peers | asked by NetworkController and PeerSynchronizer |
| `network/peer/PeerBucketStorage`, `BucketManager` | buckets of new and tried peers | add, makeTried, remove, random selection | a local field of the database |
| `network/PeerSynchronizer`, `RequestTracker` | requests for peers that are not answered yet | ask for peers, answer, verify delivery | NetworkController |
| `persistence/*` | backup files of peers and blacklist | periodic backup, restore at start | scheduler thread, file system |
| `consensus/*`, `transaction/*`, `validation/*` | interfaces (history, mempool, wallet), block chain helpers, validation of modifiers | - | implemented by applications |
| `api/http/*`, `app/Application`, `settings/*`, `utils/*` | routes, start and stop, configuration, time | - | ask the actors |
| `scrypto/`, `sparkz-util/`, `examples/`, `testkit/` | cryptography and authenticated dictionaries, serialization helpers, an example chain, property tests | - | libraries |

## 2. Hard behaviours

* The synchronizer and the NodeViewHolder are two actors: what one believes of
  the other is always a message old.  Readers lag behind, events of several
  modifiers interleave with messages of peers, and a modifier can also be made
  locally at any moment.
* A timer that is cancelled may have fired already: its `CheckDelivery` is in the
  mailbox.  A timer that was replaced cannot be cancelled at all.
* Peers answer late, twice, for others, with broken bytes, or never.
* Queues and counters at their limit: the cache, the per-peer request limit, the
  rebroadcast queue.
* Connections are confirmed, refused, timed out and terminated by different
  actors; the same address may be in several of their tables.  A peer that comes
  back looks equal to the one that left, and late messages of its old connection
  are still handled.
* TCP pushes back: a write fails while acknowledgements of earlier ones are still
  on their way, and the bytes of a peer arrive cut anywhere.
* Chain switches that fail half-way must leave state, vault and mempool in step
  with the history.

PROJECT.json lists each hazard with its line and the properties about it.

What makes the parts correct, in one line each: a request is always watched and
ends; a modifier has one status, and the status says where it is; the cache is
bounded and what leaves it may be asked for again; what is invalid stays so;
state, vault and mempool follow the history; the connections kept fit the limits,
one per peer, and everybody hears of their end; what is sent through a connection is
written, in order until a first message is repeated, and what comes in is forwarded in
order; no connected peer is left out of synchronization; a known peer can be found, a banned one stays out.

## 3. Modules

| module | models | composed of |
|---|---|---|
| `DeliveryTracker` | the tracker's maps, counters, timers, slow mode and rebroadcast queue; its methods are operators over that state | - |
| `NodeViewSynchronizer` | the actor's handlers, one action each, with its mailbox, its readers and its outgoing messages `out` | extends `DeliveryTracker` |
| `ModifiersCache` | `DefaultModifiersCache` and its LRU eviction, as operators on a value | - |
| `ModifierProcessing` | synchronizer and NodeViewHolder together, exchanging events through two mailboxes | extends the three above |
| `NodeViewUpdate` | `pmodModify`, `updateState`, `applyState`, `updateMemPool` step by step | - |
| `Connections` | NetworkController, PeerConnectionHandlers and the PeerManager's part in accepting connections | - |
| `PeerDatabase` | PeerManager, peer database, bucket storages, penalties, blacklist | - |
| `PeerConnectionHandler` | one handler and its TCP connection: handshake, reading, writing, buffering, closing | - |
| `PeerSync` | SyncTracker, the synchronizer's handlers that use it, the controller's announcements | - |
| `ModifierLife` | abstract: the life of a modifier | implemented by `ModifierProcessing` |
| `MessageStream` | abstract: what a connection promises to the sender | implemented by `PeerConnectionHandler` |
| `ModifierProcessing_proofs` | theorems: types, statuses, watched requests | extends `ModifierProcessing` |
| `ModifiersCache_proofs` | lemmas about the cache's operators | extends `ModifiersCache` |
| `ModifierLife_proofs` | theorems: readers, rebroadcast, cache, where a modifier is, refinement of `ModifierLife` | extends the two above |
| `NodeViewUpdate_proofs`, `Connections_proofs`, `PeerDatabase_proofs`, `PeerSync_proofs`, `PeerConnectionHandler_proofs` | theorems about the five | extend their modules |
| `MC...` | constants for TLC | extend their modules |

`PROJECT.json` maps every definition to the lines it stands for.  Operators whose
comment begins with *Mistake:* are wrong variants of the definition that follows
(a guard dropped, a step forgotten); no specification uses them.  Substituted for
the right one, each makes TLC report the property it is meant for, which shows
that the property can fail.

### ModifierProcessing

`requested`, `checks` and `timers` are the three fields of the map `requested`
(peer, checks, cancellable); `orphans` are timers whose entry was overwritten, which
happens when an Inv names a block twice, and which nobody can cancel any more.
`received`, `invalid`, `peerLimits`, `slowMode`, `rebroadcastQueue` and
`rebroadcastTimer` are fields of the tracker.  A scheduled message is put into the
mailbox when its timer fires (`DeliveryTimeout`, `OrphanTimeout`,
`RebroadcastTimeout`); cancelling a timer does not take the message back.

Peers are the environment: at any moment one may send an Inv or Modifiers with any
ids (`ProcessInvOf...`, `BlocksFromRemote`, `TxsFromRemote`), whether asked or not;
each modifier parses, parses with bytes left over, or does not parse.  What peers
send is handled at once rather than queued: a peer may send it at any other moment
too.  Messages of the NodeViewHolder and of timers go through the `mailbox` in order.

The NodeViewHolder works off its own mailbox one message at a time.  The loop over
the cache (`NvhApplyCandidate`, `NvhFinish`) takes a step per candidate, so that the
synchronizer runs in between.  One update of the state publishes a verdict on each block
it applies or tries to apply, which in a chain switch are several and not all new: in
`PmodModify` they are any sequence of verdicts on blocks of the history (`Verdicts`);
which blocks a switch applies is `NodeViewUpdate`'s matter.  Whether a block is malformed, rejected by the
history or by the state, is fixed per instance by constants.  The average of the
processing time is left open: every sample may or may not cross the threshold of
slow mode.

`ModifierLife` states what a modifier may go through: asked for when it is Unknown,
taken in when it is Requested, settled, rejected for good, and held only after it was
taken in or made locally.  `ModifierProcessing` implements it with `status` as the
tracker's `Status` (without the history, which answers Held), `inHand` as what was
forwarded to the NodeViewHolder or is in its cache, and `held` as the history and the
mempool.  The variables belong to two actors, so the promise relates what one believes to
what the other does.

### NodeViewUpdate

The recursion of `updateState` and the fold of `applyState` are steps with their
arguments as variables, so that a report to the history can fail at each of them.
The history is external: a tree whose longest valid chain is best, as a value; that no
block is its own ancestor is an assumption (`NodeViewAssumption`).  State and vault are the
sequences of blocks applied.  A state may or may not be a `TransactionValidation`
(`StateValidates`): one that is refuses a transaction of its chain, one that is not refuses
nothing, and then only the list of applied blocks keeps confirmed transactions out of the
memory pool.  `OneForkBelowRejected` says of a tree that below each block
that the state rejects it forks once at most; the properties about the vault and the memory
pool need it (see findings).

### Connections

One action per message handled by the controller, the PeerManager and the
handlers.  `toPeerManager` and `fromPeerManager` hold, in order, what is between
controller and PeerManager.  What a handler is to do or has to report is kept in its
record: `closing` (told to close), `reported` (Handshaked is in the controller's
mailbox), its `phase` and whether its TCP connection is `open`; it has stopped when
only its Terminated is left to handle.  `announced` is what a subscriber of the event
stream believes.  A node has a declared or a local address; peers declare addresses
that are theirs.

### PeerDatabase

A bucket storage is the pair of `table` and `reverseTable`; hashing is a pair of
constant functions from addresses to slots, so every pattern of collisions is an
instance.  Time is seen through its effects: `SafeIntervalEnds`, `BanExpires`.  An
expired ban stays in the map until a lookup meets it, as in the code.  A lookup that
throws restarts the actor, which keeps its database.  A batch of peers is handled as
one message per peer.  `bannedAddresses` is auxiliary: the addresses that were banned
and whose ban is in force.

### PeerConnectionHandler

`phase` is the behaviour the actor has become; `outMessagesCounter` and
`outMessagesBuffer` are its fields, a message being its number.  `chunksBuffer` is the
part of the peer's stream between `parsed` and `arrived`, in units that are smaller than
a message; `Deserialize` says what is found at a position.  The TCP connection is
Akka's and external: `TakesWrite`, `TakesResumeWriting`, `TakesAbort`, `TcpFlush` and
`TcpClosed` follow its documented protocol with `useResumeWriting = true`, which is what
the handler relies on.  `toTcp` and `fromTcp` are the two mailboxes.  With
`HandshakeAlone` the handshake is delivered in one piece and alone; `handshake_with_data`
shows what happens otherwise.

`MessageStream` accepts messages and writes each of them while the connection is open, in
their order and none left out as long as none was repeated.  Writing a message again is a
step of its own (`Repeat`): the handler does that, because an Ack of an older message starts
the next write although one is under way (see below), and a peer then receives a message
twice.  After a repetition the order is not promised any more.  `repeated` is auxiliary.

### PeerSync

The maps are per address, as `ConnectedPeer` is compared by its address; an entry holds
the connection that is its key, since Scala's mutable maps keep the key they have.  The
times are ages in ticks, up to the largest one that any comparison tells apart.  `sent`
is what the last step sent to, `neighbour` the last event published.  A handler may pass
on a message after the controller gave its connection up, which is why `ForwardSyncInfo`
is possible for closed connections.  The comparison with a peer's history is any of
`Comparisons`, computed when the SyncInfo is handled and applied when the synchronizer
handles its own message.  `schedule` is the periodic task of SendLocalSyncInfo:
`scheduleSendSyncInfo` cancels it and starts it again with a delay of two seconds, at the
start and each time the last senior peer stops being one; `ScheduleStarts` ends the delay.
A SendLocalSyncInfo of the cancelled task may still be in the mailbox, so after a restart
(`stableSyncRegime`) it may also be handled while the new one is delayed.

## 4. Runs

| run | result | instance | shows |
|---|---|---|---|
| `blocks` | pass | two peers, a fork of three blocks, one refused by the history, cache of one, broken bytes, b1 also made locally | one status per modifier, bounded checks, no request without a watcher, counters never too low in sum, Received means under way, what is in hand is Received and the cache bounded, readers catch up; refinement of `ModifierLife` |
| `rejections` | pass | one peer, Inv of two objects, an orphaned timer, malformed and rejected blocks, also local ones | invalid for ever; every request ends (liveness) |
| `transactions` | pass | two transactions, slow mode and rebroadcast on, a malformed block | a Received transaction has its outcome on the way; queued announcements stay scheduled |
| `chain_switch` | pass | six blocks on two branches, the longer one ends in an invalid block, reports may fail, the state does not validate transactions | state and vault follow the history; an update leaves no newly confirmed transaction in the mempool and loses none; updates end |
| `connections` | pass | two peers, three addresses, two handlers, limits of one | limits, one connection per peer, no handler forgotten, subscribers agree, everything settles |
| `peers` | pass | three ordinary addresses on two hosts that collide in both storages, a known peer, this node | storages stay consistent, tried peers are kept, bans hold |
| `handler` | pass | three messages out, two in, the second malformed, two units each | refinement of `MessageStream` with its liveness; the buffer is attended; messages are forwarded in order and nothing after the malformed one |
| `sync` | pass | three connections of two addresses, peers ahead or behind | the maps agree and hold every connected peer; no early end of synchronization; no peer passed over for ever once the schedule is left alone |
| `vault_after_failed_switch` | violation | a branch that forks inside the new branch | see findings |
| `already_established` | violation | as `connections` | see findings |
| `handshake_with_data` | violation | as `handler`, all messages right, TCP cuts anywhere | see findings |
| `sync_after_reconnect` | violation | two connections of one address | see findings |

*Bounds.*  `MaxMailbox` bounds the synchronizer's mailbox, and with it how far the two
actors drift apart: two or three messages are enough for an event to be overtaken by a
timer and by a peer's message.  In `sync` it is 1 (with 2 there are 937,478 states, and the
properties hold as well): the mailbox is first in first out, the handlers of `PeerSync` do
not look at `life`, and a SyncInfo or a status may come from a closed connection at any
time, so that a longer mailbox gives the tracker no order of events that the short one does
not; the two invariants are proved for any bound, and `sync_after_reconnect` has 2.  `MaxInvObjects` bounds an Inv, `MaxOrphans`
the timers nobody can cancel, `MaxMail` the messages between controller and PeerManager.
`MaxDeliveryChecks` is 2: one check that asks again and one that gives up.  The cache
holds one block, so that a second one overfills it.  `Handlers` are names that are
used again when a handler is gone; the connections of `sync` are used once each, two of
them for the same peer.  Limits of one connection make every second connection meet a
limit.  In `peers` two slots and three addresses give a collision in each storage, and
two penalties exceed the threshold.  `MaxOut` is 3: one message written, one refused, one
buffered meanwhile.  `Parts` is 2, so that a chunk can end inside a message.  The
intervals of `sync` are one tick, two in the stable regime.  `connections` has one source of
incoming connections and one message between controller and PeerManager, so two incoming
ones never wait for the PeerManager together; the theorem `SpecHandshakedFitIn` has no such
bound.

*Symmetry and views.*  Peers are symmetric in `blocks`, which has no liveness property.
The view drops `out`, the messages of the last step, where no property looks at it.

*Deadlock* is checked but for `chain_switch`, where the node may have seen all blocks, and
the handler's runs, where the connection is closed in the end.

*Fairness.*  ModifierProcessing: weak fairness of handling the synchronizer's mailbox
(Akka runs an actor with a non-empty mailbox) and of every delivery timer (the
scheduler fires what was scheduled and not cancelled).  Nothing is assumed of peers or
of orphaned timers.  NodeViewUpdate: weak fairness of the update itself, a method that
runs on one thread.  Connections: weak fairness of the mailboxes of PeerManager and
handlers, which include the handshake timeout.  PeerConnectionHandler: the two mailboxes,
and the socket takes what is pending, that is, the peer goes on reading; one that does
not is the network's matter, and the connection then stays as it is.  PeerSync: the
mailbox, the NodeViewHolder's first answer to GetNodeViewChanges, time, the end of the
schedule's delay and SendLocalSyncInfo while the schedule runs.  Nothing is assumed of
peers, who can have the schedule restarted again and again; `EveryPeerIsSynced` and
`SyncReachesTheConnection` therefore speak of behaviours in which that ends
(`ScheduleGoesOn`).

## 5. Findings

* `vault_after_failed_switch`: `trimChainSuffix` keeps the part after the rollback point
  instead of the part before.  In the run the vault then holds a block that was rolled back;
  with a longer branch it also misses blocks of the chain, the rollback of the vault may
  be impossible afterwards, transactions of the missed blocks are lost, and, where the state
  does not validate transactions, others stay in the memory pool although the chain has them.  It needs a tree
  that forks again inside the new branch: `chain_switch` has one branching point for that
  reason, and the theorems about the vault assume `OneForkBelowRejected`.
* `already_established`: an outgoing connection refused when it comes up leaves its
  address in `unconfirmedConnections`, and it is never dialled again.
* `handshake_with_data`: what TCP delivers together with the handshake is dropped, the
  rest of that message has wrong magic bytes, and the peer is penalized.  The passing run
  about reading therefore has the handshake alone.
* `sync_after_reconnect`: a SyncInfo of a closed connection that is handled after
  `clearStatus` puts the old ConnectedPeer back into the maps; the new connection is equal
  to it and does not replace the key, so the peer's SyncInfo goes to a stopped handler.
  `EveryPeerIsSynced` speaks of addresses for that reason.

Seen while modelling, kept in the models and covered by no property:

* `setReceived` takes a modifier off the counter of its sender, not of the peer that was
  asked (`DeliveryTracker.scala:195`); the counter of the sender then falls below its
  requests, and more than `maxRequestedPerPeer` may be asked of it.
  `RequestsAreCounted` is about the sum.
* A cached block that turns out malformed is dropped silently and stays Received
  (`ModifiersCache.scala:132`).  The run and the theorem about Received blocks have no
  such block (`Malformed = {}`).
* A Modifiers message may hold the same modifier twice, and both copies are Requested when
  they are filtered (`NodeViewSynchronizer.scala:307`).  With b2, b1, b2, of which b1 turns
  out invalid and is b2's parent, the first b2 is forwarded and the second one, looked at
  after b1, marked invalid in the same step.
* The sender of a block that the state rejects is no longer known when the verdict comes
  (`NodeViewSynchronizer.scala:135`), and is not penalized; `setInvalid` returns a peer that
  was merely asked (`DeliveryTracker.scala:144`).
* Between SyntacticallySuccessfulModifier and ChangedHistory a held block may be requested
  again (`NodeViewHolder.scala:315`); reports go to the history `updateState` was called
  with (`:257`).
* The forger limit is exceeded by one (`NetworkController.scala:289`).
* In buffering mode messages may be written twice (`PeerConnectionHandler.scala:177`): an
  Ack starts a write of the first buffered message, and so does WritingResumed.  The Ack of
  the second write takes the message out of a buffer in which it may be again, after its write
  had failed; with five messages under way one can so overtake another.  A wrong
  handshake is penalized only if `selfPeer` is set, which it never is then (`:104`).
* A peer that is Older and Younger in turns more often than every two seconds postpones
  SendLocalSyncInfo to all peers for ever: each time the last senior stops being one the
  schedule is cancelled and delayed anew, also when the regime is stable already
  (`SyncTracker.scala:37` and `:65`).
* When the last senior peer disconnects, NoBetterNeighbour is not published and the regime
  does not change (`SyncTracker.scala:81`).
* An expired ban that is still in the map swallows a new one, and a permanent penalty does
  not prolong a temporary ban (`InMemoryPeerDatabase.scala:91`); a DisconnectPenalty within
  the safe interval does not count (`:133`); a new peer that was overwritten stays in the
  reverse table (`PeerBucketStorage.scala:79`).  The slot (-1, -1), which the storage takes
  for "not found", is left out of the model's slots.

## 6. Proofs

The theorems hold for every value of the constants that satisfies the modules' ASSUMEs (sets
are disjoint, peers and modifiers are finitely many, limits are natural numbers, functions
have their domains, the tree has no cycle); TLC evaluates those in every run.  Where a theorem needs more, it says so, and the
MC module of the passing run assumes it too.

**ModifierProcessing_proofs**: for any peers, any finite set of modifiers, any block tree
and any limits, `TypeCorrect`, `StatusNeverAmbiguous`, `RequestsAlwaysWatched` and
`ChecksAlwaysBounded`.  They follow from `InductiveInvariant`, the conjunction of the
four: that a request is watched is not inductive without knowing that a timer exists only
for what is Requested (`ChecksAreBounded`), and a step that clears a status must know that
the modifier is in no other map (`StatusIsUnambiguous`).  Lemmas about the tracker's methods
say which parts each keeps; steps of the synchronizer are split into those that only add
to the mailbox and those that take a message from it, where the check taken out must be
replaced by a timer or the end of the request.

**ModifierLife_proofs** goes on from there.  Each step is first put into one of a few shapes
(`Asks`, `Takes`, `Settles`, or a step of the NodeViewHolder), and the invariants are shown
for the shapes.

* `ReadersAlwaysCatchUp` from `ReadersInv`: the last ChangedHistory in the mailbox, if there
  is one, carries the history as it is, and if there is none the reader has it.
* `RebroadcastAlwaysScheduled` from `RebroadcastInv`, which adds that a queue is filled only
  where rebroadcasting is enabled.
* `CacheAlwaysBounded` from `CacheInv`.  The eviction queue may hold keys that left the cache
  and came back; `ModifiersCache_proofs` shows that cleanOverfull still finds enough keys to
  evict, as every cached one is queued (`Climb`, `PutAll` and `KeepOnly`).
* `InHandAlwaysReceived` from `HandInv`: a block that is in neither history nor invalid is in
  one place only, the NodeViewHolder's mailbox, the cache or a ModifiersProcessingResult that
  is to clear it, there once, and while it is there it is Received.  Without the "once"
  a report could clear the status of a second copy.
* `ReceivedAlwaysUnderWayOrHeld` (for `Malformed = {}`, as a malformed cached block is dropped
  in silence) and `ReceivedTxAlwaysUnderWay` (for transactions, without that assumption) from
  `WayInv`, which is about every modifier that is not malformed.
* `InvalidStaysInvalid`, the action property, from the inductive invariant.
* `LifeIsAlwaysLegal`: the refinement.  Initial states map to initial states (`LifeStart`) and
  every step to a step of `ModifierLife` or a stutter (`LifeStep`).
* `RequestsAlwaysCounted`: the counters of all peers together never fall below the number of
  modifiers that are Requested, which no single counter promises (`setReceived` takes a
  modifier off the counter of its sender).  The sum is a function on sets of peers that is
  shown to exist and to be unique by an induction on sets (`PeersInduction`, which takes the
  induction formula as a set and so needs no operator parameter), and sums are compared
  summand by summand (`SumsCompare`).  A method that ends requests takes off all counters
  together no more than the number of requests it ends (`EndedCounts`, with `TotalShares` for
  what goes off the peers asked and `TotalAlone` for what goes off the sender); a counter that
  stops at zero only leaves the sum higher.

**NodeViewUpdate_proofs**: for any tree, any set of rejected blocks and any transactions.
`ChainTo` is a recursive function over the tree; its equation is proved from the absence of
cycles (a path to each block exists and is unique), so that a state can be treated as the
block it has last applied (`IsStateAt`), and a ProgressInfo as a path over the last common
block (`IsMeet`, `Rest`).  Then three invariants, one on top of the other:

* `BaseInv` (the history is closed under parents, its best chain has no invalid block, the
  state is a chain of accepted blocks) is what the others stand on, even when reports fail;
* `FollowInv` (while no report has failed, the state is where the blocks to apply begin, and
  they end in the best block of the history) gives `StateAlwaysFollowsHistory`,
  `OnlyInvalidAlwaysRejected`, and `RollbackNeverFails`: the branch of `updateState` that is
  not implemented (`???`) is out of reach unless a report to the history fails;
* `VaultInv` (on top of the base of the update, the state has what `suffix` says) gives
  `VaultAlwaysFollowsState`, `VaultCanAlwaysRollBack`, `NoTransactionIsEverLost` and
  `ConfirmedAlwaysLeavesMempool`.  These assume `OneForkBelowRejected`, without which
  `vault_after_failed_switch` refutes them.  The last two assume `HandlingTransactionsEnabled`:
  with transactions disabled updates leave the memory pool alone.  The very last one also
  assumes that no chain has a transaction twice (`OncePerChain`, true of the instances), and
  it does not lean on the state's validation: that the list of applied blocks has all that the
  new chain has and the old one had not is what `VaultInv` says of `suffix`.

**Connections_proofs**: for any nodes, addresses and limits, `SpecTypeOK`,
`SpecNoHandlerIsForgotten`, `SpecSubscribersAgree`, `SpecHandshakedFitIn` and
`SpecOneConnectionPerPeer`.  `IInv` adds what the two queues between controller and PeerManager
may hold (an incoming connection waits in one of them, once, in order: `WaitingOK`, `InOrder`),
that the entry which a confirmation replaces is of a dead handler (`OvertakenIsDead`), and that
two connections kept are of different peers, unless a peer names no address or two
(`NamedAddressIsFree`, `KeptAreApart`).  One connection per peer
is shown where a peer with several addresses names exactly one of them (`NamesOneAddress`):
`handleHandshake` has nothing else to tell that two connections are of one peer.
`SpecForgersFitIn` is about a node that is a forger (`IsForgerNode`): it keeps at most
`MaxForger + 1` connections with forgers.  The one more is real:
`shouldDropForgerConnection` counts before the new forger has its peerInfo and compares
with `>`.  It rests on `announced = Kept`, as only a handshake announces a peer.

**PeerDatabase_proofs**: for any addresses, hosts, hash functions and penalties, the
invariants `PeersTypeOK`, `StoredIsIndexed`, `TriedIsExact`, `BannedIsForgotten` and the
action properties `TriedAreKept` and `PermanentBansStay`.  The invariant `IInv` adds that
every index is the slot its address is hashed to (without it, removing through a stale
index could leave a stored peer without one) and that the host of a banned address is
blacklisted (which is why no message can store it again).  `Exact` of the tried peers
needs `makeTried` to free the slot first; the new peers are not exact.

**PeerSync_proofs**: for any connections, any sharing of addresses between them and any
settings, `ConnectedIsTracked` and `SeniorsAreAnnounced`.  `ConnectedIsTracked` is not
inductive: a DisconnectedPeer still in the mailbox will clear the entry of the new
connection.  `IInv` adds that such a message is always followed by the HandshakedPeer of
the connection that is live (`HandshakeFollows`), for which there must be one live
connection per address (`OneLivePerAddress`), and that an entry's key has the address it is
found under (`KeysFit`), as `peersToSyncWith` puts keys of one map into the other.

**PeerConnectionHandler_proofs**: for any number of messages and any stream,
`BufferIsAttended`.  `IInv` adds that at most one write is pending (the flush that answers
it must answer the one that asked for an acknowledgement), that the mailboxes are sequences
and the buffer finite, and that the handler stops only when the connection is closed.  Each
step either leaves what the connection owes (`Owed`) in place, turns one debt into another
(a command into an event, a pending write into its Ack), or pays it and incurs a new one.
`MessagesAlwaysForwarded` is about reading: however TCP cuts the stream, what was forwarded are
the messages before `parsed`, in order, and `parsed` stays at the beginning of a message
(`ReadingInv`).  It assumes `HandshakeAlone`; `handshake_with_data` refutes it otherwise.

`StreamAlwaysSafe` is about writing: for any number of messages the handler, the mailboxes
and the connection implement the safety part of `MessageStream` (`Stream!StreamSafety`), so
while the connection is open, and until a message has been written twice, messages reach
the peer in the order in which they were accepted, through every refused write, buffering
and resumption.  The invariant `StreamInv` is `BufferIsAttended` with `OrderInv`, twelve
parts that say where each accepted message is:

* the head of the connection's mailbox may be written only when all before it have been:
  `SentInOrder` says so of every write on its way (its predecessor is written, pending, ahead
  of it without a ResumeWriting in between, or has failed and writing is suspended until after
  this one), `LastSent` of the message accepted next, `FailedInOrder` and `BufferReady` of what
  comes back and is written again;
* nothing is lost (`Somewhere`) and nothing that is not buffered is in two places (`Once`),
  which is what an Ack that takes a message out of the buffer relies on;
* when the Ack of a buffered message ends the mode or starts the next write, every message
  that is not written is in the buffer, because the write was sent behind all others
  (`CoveredSent`, `CoveredPending`, `CoveredAcked`);
* when the connection is closing, pushAllWithNoAck writes the buffer without Acks, in the
  order of the numbers (`RankExists`, `PushAllWrites`); from then on no order is promised.

TLC checked `OrderInv` on the instance of the run `handler` before it was proved.  The lemmas
come in two layers: what a step does to the order, given what it does to the mailboxes
(`RefusedKeepsOrder` to `AckedKeepsOrder`), and that the steps of the code do that
(`OrderRefused` to `OrderCloseConnection`).

Only model-checked: liveness (`RequestsEnd`, `UpdatesEnd`, `ConnectionsSettle`,
`EveryPeerIsSynced` and the fairness in `StreamIsKept`), which is out of the prover's reach.
Every invariant and every action property that a run checks is proved as well.

## 7. Not modelled

`PROJECT.json` lists every component with its reason.  In short: byte formats, HTTP routes,
configuration and cryptography keep no protocol state; history, state, vault and mempool are
interfaces.  The JavaScript under `src/src/main/resources/swagger-ui/` is a vendored, minified
API browser that the node only serves as files: it is third-party code, and no definition
translates any of it.

*RequestTracker and PeerSynchronizer.*  The set of tracked requests is a mutable collection
that the callback of a future and the actor change on two threads without synchronization.
What it holds afterwards depends on the collection's internals and on the memory model; a
faithful model would have to allow anything.

*Persistence.*  Tables are serialized by a timer while another thread changes them, and each
file on its own; a crash may leave a truncated file.  What is read back is up to the
collection, the JVM and the file system, and `restore` takes it as it is.

*Answers to peers* (`modifiersReq`, `sendByParts`) change no state.  `sendByParts` loops for
ever when a single modifier exceeds the limit of a message, which is a hazard in the list.

Also left out: a peer with both a local and a declared address, peers that declare foreign
addresses, handlers that restart on other exceptions, a wrong checksum (the header is what
the model's malformed message gets wrong), `ResumeReading` (the peer may be silent at any
time), and the discarded result of `scanPersistent` (`NodeViewHolder.scala:296`).

## 8. Plan

Done: requests and deliveries, chain switching, connections, peers, synchronization, the
handler's reading and writing, two abstract specifications with their refinements, and
theorems for all invariants, all action properties and the safety of both refinements.

What is left is modelling: answers to peers, the RequestTracker once its set is confined to
one thread, and persistence once it has a format that says what a crash leaves behind.
