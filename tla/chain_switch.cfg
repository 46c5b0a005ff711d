CONSTANTS
    r = r a1 = a1 a2 = a2 b1 = b1 b2 = b2 b3 = b3 c2 = c2
    t1 = t1 t2 = t2 t3 = t3
    Genesis = Genesis
    Blocks = {r, a1, a2, b1, b2, b3}
    Parent <- TwoBranches
    Txs = {t1, t2, t3}
    TxsOf <- TwoBranchesTxs
    SemInvalid = {b3}
    StateValidates = FALSE
    ReportsMayFail = TRUE
    HandlingTransactionsEnabled = TRUE
SPECIFICATION Spec
INVARIANTS StateFollowsHistory VaultFollowsState VaultCanRollBack
    OnlyInvalidIsRejected
PROPERTIES ConfirmedLeavesMempool NoTransactionIsLost UpdatesEnd
CHECK_DEADLOCK FALSE
