------------------------- MODULE MCNodeViewUpdate -------------------------
(***************************************************************************)
(* Instances of NodeViewUpdate for TLC.                                    *)
(***************************************************************************)
EXTENDS NodeViewUpdate, TLC

CONSTANTS r, a1, a2, b1, b2, b3, c2, t1, t2, t3

\* Two branches on top of the block r; t2 is in both.
TwoBranches ==
    (r :> Genesis) @@ (a1 :> r) @@ (a2 :> a1) @@ (b1 :> r) @@ (b2 :> b1) @@ (b3 :> b2)
TwoBranchesTxs ==
    (r :> {}) @@ (a1 :> {t1}) @@ (a2 :> {t2}) @@ (b1 :> {t2}) @@ (b2 :> {t3}) @@ (b3 :> {})

\* The second branch forks again.
BranchInBranch == TwoBranches @@ (c2 :> b1)
BranchInBranchTxs == TwoBranchesTxs @@ (c2 :> {})

ASSUME EachOnce == OncePerChain
ASSUME ForksOnce == c2 \notin Blocks => OneForkBelowRejected

=============================================================================
