CONSTANTS
    r = r a1 = a1 a2 = a2 b1 = b1 b2 = b2 b3 = b3 c2 = c2
    t1 = t1 t2 = t2 t3 = t3
    Genesis = Genesis
    Blocks = {r, a1, a2, b1, b2, b3, c2}
    Parent <- BranchInBranch
    Txs = {t1, t2, t3}
    TxsOf <- BranchInBranchTxs
    SemInvalid = {b3}
    StateValidates = TRUE
    ReportsMayFail = FALSE
    HandlingTransactionsEnabled = TRUE
SPECIFICATION Spec
INVARIANT VaultFollowsState
CHECK_DEADLOCK FALSE
