-------------------------- MODULE NodeViewUpdate --------------------------
(***************************************************************************)
(* NodeViewHolder.scala: how a new block moves the node view, the four     *)
(* components history, state, vault and memory pool.  pmodModify appends   *)
(* the block to the history; when the history answers with a ProgressInfo, *)
(* updateState rolls the state back to the branch point and applies the    *)
(* new chain block by block.  A block that the state rejects makes the     *)
(* history choose another chain, and updateState starts again from there.  *)
(* The node view itself is replaced in one assignment at the end.          *)
(*                                                                         *)
(* The recursion of updateState and the fold of applyState are steps here, *)
(* with their arguments and accumulators as variables.  A state and a      *)
(* vault are the sequences of the blocks applied to them on top of the     *)
(* genesis block.  The history, which applications implement, is a tree of *)
(* blocks whose longest chain is the best one; it is a value, as its       *)
(* methods return a modified history.                                      *)
(***************************************************************************)
EXTENDS Integers, Sequences, FiniteSets, SequencesExt

CONSTANTS
    Blocks, Genesis, Parent,    \* the tree of blocks: Parent[b] is b's parentId
    Txs, TxsOf,                 \* transactions; TxsOf[b] are those of block b
    SemInvalid,                 \* blocks the state rejects
    StateValidates,             \* the state is a TransactionValidation
    ReportsMayFail,             \* history.reportModifierIs... may return a Failure
    HandlingTransactionsEnabled \* networkSettings.handlingTransactionsEnabled

ASSUME NodeViewAssumption ==
    /\ Genesis \notin Blocks
    /\ Parent \in [Blocks -> Blocks \cup {Genesis}]
    /\ \A S \in SUBSET Blocks : S # {} => \E b \in S : Parent[b] \notin S  \* no cycle
    /\ TxsOf \in [Blocks -> SUBSET Txs]
    /\ SemInvalid \subseteq Blocks
    /\ StateValidates \in BOOLEAN
    /\ ReportsMayFail \in BOOLEAN /\ HandlingTransactionsEnabled \in BOOLEAN

VARIABLES
    history, state, vault, mempool,     \* the node view
    phase,          \* where pmodModify is: "idle", "rollback", "apply" or "failed"
    initialInfo,    \* the ProgressInfo of history.append
    outerHistory,   \* the argument `history` of updateState and applyState
    progressInfo,   \* the argument `progressInfo`; its toApply is what is left of the fold
    newHistory, newState, suffix,       \* UpdateInformation of the fold
    reportFailed    \* auxiliary: a report to the history has failed

viewVars == <<history, state, vault, mempool>>
updateVars == <<initialInfo, outerHistory, progressInfo, newHistory, newState, suffix>>
vars == <<viewVars, phase, updateVars, reportFailed>>

-----------------------------------------------------------------------------
(* Chains, and the history that applications provide                       *)

\* The blocks from the genesis block (excluded) to b.
ChainTo[b \in Blocks \cup {Genesis}] ==
    IF b = Genesis THEN <<>> ELSE Append(ChainTo[Parent[b]], b)

Height(b) == Len(ChainTo[b])
VersionOf(chain) == IF chain = <<>> THEN Genesis ELSE Last(chain)
TxsIn(chain) == UNION {TxsOf[chain[i]] : i \in DOMAIN chain}
Descends(b, a) == IsPrefix(ChainTo[a], ChainTo[b])

\* ProgressInfo to move a node view from one chain to another.
\* (branchPoint is None in the code when there is nothing to remove.)
NoProgress == [branchPoint |-> Genesis, toRemove |-> <<>>, toApply |-> <<>>]
ProgressBetween(from, to) ==
    LET common == LongestCommonPrefix({from, to})
    IN  [branchPoint |-> VersionOf(common),
         toRemove |-> SubSeq(from, Len(common) + 1, Len(from)),
         toApply |-> SubSeq(to, Len(common) + 1, Len(to))]
ChainSwitchingNeeded(info) == info.toRemove # <<>>

EmptyHistory == [blocks |-> {}, best |-> Genesis, valid |-> {}, invalid |-> {}]

OnInvalidChain(h, b) == \E i \in DOMAIN ChainTo[b] : ChainTo[b][i] \in h.invalid

\* history.append(pmod): a block that makes a longer chain than the best one, with
\* no invalid block in it, is the new best block.
IsNewBest(h, pmod) == Height(pmod) > Height(h.best) /\ ~OnInvalidChain(h, pmod)
Appended(h, pmod) ==
    [h EXCEPT !.blocks = @ \cup {pmod}, !.best = IF IsNewBest(h, pmod) THEN pmod ELSE @]
AppendProgress(h, pmod) ==
    IF IsNewBest(h, pmod) THEN ProgressBetween(ChainTo[h.best], ChainTo[pmod]) ELSE NoProgress

\* history.reportModifierIsInvalid(mod, ...): the history may fall back to any of
\* the longest chains that are left.  As updateState asks of it, the alternative does
\* not go back behind `base`, the rollback point of the first ProgressInfo.
BestBlocksWithout(h, mod, base) ==
    LET left == {b \in h.blocks \cup {Genesis} :
                    Descends(b, base) /\ ~OnInvalidChain([h EXCEPT !.invalid = @ \cup {mod}], b)}
    IN  {b \in left : \A other \in left : Height(other) <= Height(b)}
Invalidated(h, mod, best) == [h EXCEPT !.invalid = @ \cup {mod}, !.best = best]

\* state.rollbackTo(version) and vault.rollback(version).
CanRollBack(chain, version) == version = Genesis \/ version \in ToSet(chain)
RolledBack(chain, version) ==
    IF version = Genesis THEN <<>>
    ELSE SubSeq(chain, 1, CHOOSE i \in DOMAIN chain : chain[i] = version)

\* state.applyModifier(mod)
IsApplicable(chain, mod) == Parent[mod] = VersionOf(chain) /\ mod \notin SemInvalid

\* state.validate(tx) fails for what is in the chain already; a state without
\* TransactionValidation refuses nothing.
RefusedBy(chain) == IF StateValidates THEN TxsIn(chain) ELSE {}

-----------------------------------------------------------------------------
(* pmodModify                                                              *)

Idle == phase = "idle"

NoUpdate ==
    /\ phase' = "idle"
    /\ initialInfo' = NoProgress /\ progressInfo' = NoProgress
    /\ outerHistory' = EmptyHistory /\ newHistory' = EmptyHistory
    /\ newState' = <<>> /\ suffix' = <<>>

\* A call of updateState.
CallUpdateState(h, s, info, applied) ==
    /\ phase' = "rollback"
    /\ outerHistory' = h /\ newHistory' = h
    /\ newState' = s
    /\ progressInfo' = info
    /\ suffix' = applied

\* pmodModify up to the call of updateState.  The cache hands over, and a local
\* producer makes, only blocks whose parent is in the history.
PmodModify(pmod) ==
    /\ Idle
    /\ pmod \notin history.blocks
    /\ Parent[pmod] \in history.blocks \cup {Genesis}
    /\ LET appended == Appended(history, pmod)
           info == AppendProgress(history, pmod)
       IN  \/ /\ info.toApply = <<>>
              /\ history' = appended
              /\ UNCHANGED <<phase, updateVars, state, vault, mempool>>
           \/ /\ info.toApply # <<>>
              /\ initialInfo' = info
              /\ CallUpdateState(appended, state, info, <<>>)
              /\ UNCHANGED viewVars
    /\ UNCHANGED reportFailed

\* trimChainSuffix
TrimChainSuffix(applied, rollbackPoint) ==
    LET positions == {i \in DOMAIN applied : applied[i] = rollbackPoint}
    IN  IF positions = {} THEN <<>>
        ELSE SubSeq(applied, CHOOSE i \in positions : TRUE, Len(applied))

\* Mistake: the state is not rolled back.
UpdateStateWithoutRollback ==
    /\ phase = "rollback"
    /\ phase' = "apply"
    /\ UNCHANGED <<viewVars, updateVars, reportFailed>>

\* updateState: bring the state to the branch point.
UpdateState ==
    LET branchingPoint == progressInfo.branchPoint
        version == VersionOf(newState)
    IN  /\ phase = "rollback"
        /\ \/ /\ ~ChainSwitchingNeeded(progressInfo)
              /\ UNCHANGED <<newState, suffix>>
           \/ /\ ChainSwitchingNeeded(progressInfo)
              /\ version = branchingPoint
              /\ suffix' = <<>>
              /\ UNCHANGED newState
           \/ /\ ChainSwitchingNeeded(progressInfo)
              /\ version # branchingPoint
              /\ CanRollBack(newState, branchingPoint)
              /\ newState' = RolledBack(newState, branchingPoint)
              /\ suffix' = TrimChainSuffix(suffix, branchingPoint)
        /\ phase' = "apply"
        /\ UNCHANGED <<viewVars, initialInfo, outerHistory, progressInfo, newHistory, reportFailed>>

\* The rollback fails: RollbackFailed is published and `???` ends the actor.
RollbackFailed ==
    /\ phase = "rollback"
    /\ ChainSwitchingNeeded(progressInfo)
    /\ VersionOf(newState) # progressInfo.branchPoint
    /\ ~CanRollBack(newState, progressInfo.branchPoint)
    /\ phase' = "failed"
    /\ UNCHANGED <<viewVars, updateVars, reportFailed>>

Applying == phase = "apply" /\ progressInfo.toApply # <<>>
ModToApply == Head(progressInfo.toApply)

\* applyState: the state accepts the next block; it is reported as valid to the
\* history updateState was called with, not to the one of the reports before.
ApplyModifier ==
    /\ Applying
    /\ IsApplicable(newState, ModToApply)
    /\ newState' = Append(newState, ModToApply)
    /\ newHistory' = [outerHistory EXCEPT !.valid = @ \cup {ModToApply}]
    /\ suffix' = Append(suffix, ModToApply)
    /\ progressInfo' = [progressInfo EXCEPT !.toApply = Tail(@)]
    /\ UNCHANGED <<viewVars, phase, initialInfo, outerHistory, reportFailed>>

\* Mistakes after a rejection: the same chain is tried once more ...
RetryModifier ==
    /\ Applying
    /\ ~IsApplicable(newState, ModToApply)
    /\ \E best \in BestBlocksWithout(outerHistory, ModToApply, initialInfo.branchPoint) :
          CallUpdateState(Invalidated(outerHistory, ModToApply, best), newState, progressInfo, suffix)
    /\ UNCHANGED <<viewVars, initialInfo, reportFailed>>

\* ... or the alternative is not applied.
RejectAndStop ==
    /\ Applying
    /\ ~IsApplicable(newState, ModToApply)
    /\ \E best \in BestBlocksWithout(outerHistory, ModToApply, initialInfo.branchPoint) :
          newHistory' = Invalidated(outerHistory, ModToApply, best)
    /\ progressInfo' = [progressInfo EXCEPT !.toApply = <<>>]
    /\ UNCHANGED <<viewVars, phase, initialInfo, outerHistory, newState, suffix, reportFailed>>

\* applyState: the state rejects the next block, and updateState calls itself with
\* the history's alternative.
RejectModifier ==
    /\ Applying
    /\ ~IsApplicable(newState, ModToApply)
    /\ \E best \in BestBlocksWithout(outerHistory, ModToApply, initialInfo.branchPoint) :
          CallUpdateState(Invalidated(outerHistory, ModToApply, best), newState,
                          ProgressBetween(ChainTo[Parent[ModToApply]], ChainTo[best]), suffix)
    /\ UNCHANGED <<viewVars, initialInfo, reportFailed>>

\* A report to the history fails: only the history is updated, to the one this
\* call of updateState began with.
ReportFails ==
    /\ ReportsMayFail
    /\ Applying
    /\ history' = outerHistory
    /\ reportFailed' = TRUE
    /\ NoUpdate
    /\ UNCHANGED <<state, vault, mempool>>

\* Mistakes in updateMemPool: transactions of the blocks rolled back are not put
\* back, or they are put back after the filter.
UpdateMemPoolWithoutRolledBack(blocksRemoved, blocksApplied, pool, newMinState) ==
    pool \ (TxsIn(blocksApplied) \cup RefusedBy(newMinState))
UpdateMemPoolFilteredFirst(blocksRemoved, blocksApplied, pool, newMinState) ==
    (pool \ (TxsIn(blocksApplied) \cup RefusedBy(newMinState))) \cup TxsIn(blocksRemoved)

\* updateMemPool
UpdateMemPool(blocksRemoved, blocksApplied, pool, newMinState) ==
    IF HandlingTransactionsEnabled
    THEN (pool \cup TxsIn(blocksRemoved)) \ (TxsIn(blocksApplied) \cup RefusedBy(newMinState))
    ELSE pool

\* Mistakes: the vault is not rolled back, or starts from nothing.
VaultNotRolledBack == vault \o suffix
VaultFromScratch == (IF ChainSwitchingNeeded(initialInfo) THEN <<>> ELSE vault) \o suffix

\* The vault after a rollback to the first branch point and the scan of blocksApplied.
UpdatedVault ==
    (IF ChainSwitchingNeeded(initialInfo) THEN RolledBack(vault, initialInfo.branchPoint)
     ELSE vault) \o suffix

\* pmodModify after updateState: the node view is replaced.
UpdateNodeView ==
    /\ phase = "apply"
    /\ progressInfo.toApply = <<>>
    /\ history' = newHistory
    /\ state' = newState
    /\ mempool' = UpdateMemPool(initialInfo.toRemove, suffix, mempool, newState)
    /\ vault' = UpdatedVault
    /\ NoUpdate
    /\ UNCHANGED reportFailed

-----------------------------------------------------------------------------
(* Transactions                                                            *)

\* txModify, for a transaction the state does not refuse; others change nothing, and
\* so does every one when the handling of transactions is disabled.
TxModify(tx) ==
    /\ Idle
    /\ HandlingTransactionsEnabled
    /\ tx \notin RefusedBy(state) \cup mempool
    /\ mempool' = mempool \cup {tx}
    /\ UNCHANGED <<history, state, vault, phase, updateVars, reportFailed>>

EliminateTransactions(tx) ==
    /\ Idle
    /\ tx \in mempool
    /\ mempool' = mempool \ {tx}
    /\ UNCHANGED <<history, state, vault, phase, updateVars, reportFailed>>

-----------------------------------------------------------------------------
Init ==
    /\ history = EmptyHistory
    /\ state = <<>> /\ vault = <<>> /\ mempool = {}
    /\ phase = "idle"
    /\ initialInfo = NoProgress /\ progressInfo = NoProgress
    /\ outerHistory = EmptyHistory /\ newHistory = EmptyHistory
    /\ newState = <<>> /\ suffix = <<>>
    /\ reportFailed = FALSE

Update == UpdateState \/ RollbackFailed \/ ApplyModifier \/ RejectModifier \/ UpdateNodeView

Next ==
    \/ Update
    \/ ReportFails
    \/ \E pmod \in Blocks : PmodModify(pmod)
    \/ \E tx \in Txs : TxModify(tx) \/ EliminateTransactions(tx)

\* pmodModify does not stop half-way.
Spec == Init /\ [][Next]_vars /\ WF_vars(Update)

-----------------------------------------------------------------------------
(* Properties                                                              *)

\* Below a block that the state rejects, the tree forks once at most.  Where it forks
\* again, trimChainSuffix keeps blocks that were rolled back and drops some that were
\* not; the properties about the vault and those about the memory pool fail.
IsFork(b) == \E c, d \in Blocks : c # d /\ Parent[c] = b /\ Parent[d] = b
OneForkBelowRejected ==
    \A mod \in SemInvalid :
        \A x, y \in {Genesis} \cup ToSet(ChainTo[Parent[mod]]) :
            IsFork(x) /\ IsFork(y) => x = y

\* No chain carries a transaction twice.
OncePerChain == \A b \in Blocks : TxsOf[b] \cap TxsIn(ChainTo[Parent[b]]) = {}

\* However often an update had to start again, between two messages the state is
\* the result of the best chain of the history.
StateFollowsHistory ==
    Idle /\ ~reportFailed => state = ChainTo[history.best]

\* The vault has scanned exactly the blocks that the state has applied, in their
\* order, even when reports to the history have failed.
VaultFollowsState == vault = state

\* "we consider that vault always able to perform a rollback needed": when an update
\* that switches chains is about to end, the vault knows the branch point.
VaultCanRollBack ==
    phase = "apply" /\ progressInfo.toApply = <<>> /\ ChainSwitchingNeeded(initialInfo)
        => CanRollBack(vault, initialInfo.branchPoint)

\* After an update, be it a switch that fails half-way and takes another chain, the
\* memory pool has no transaction that the chain confirms, except one that was in the
\* pool and confirmed before, as a state without TransactionValidation lets happen.
ConfirmedLeavesMempool ==
    [][~Idle => (mempool \cap TxsIn(state))' \subseteq mempool \cap TxsIn(state)]_vars

\* No update, be it a switch to a chain that fails half-way, makes a transaction
\* disappear both from the chain and from the memory pool.
NoTransactionIsLost ==
    [][~Idle /\ ~reportFailed => mempool \cup TxsIn(state) \subseteq (mempool \cup TxsIn(state))']_vars

\* The history is told that a block is invalid only of blocks that are, not because
\* the state was asked to apply it in the wrong place.
OnlyInvalidIsRejected ==
    ~reportFailed => history.invalid \cup newHistory.invalid \subseteq SemInvalid

\* updateState comes to an end: every rejection leaves fewer chains to try.
UpdatesEnd == ~Idle ~> phase \in {"idle", "failed"}

=============================================================================
