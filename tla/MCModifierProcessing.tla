----------------------- MODULE MCModifierProcessing -----------------------
(***************************************************************************)
(* Instances of ModifierProcessing for TLC.                                *)
(***************************************************************************)
EXTENDS ModifierProcessing, TLC

CONSTANTS p1, p2, b1, b2, b3, t1, t2

\* Block trees: b1 is on top of the genesis block, b2 and b3 on b1.
Chain1 == [b \in {b1} |-> Genesis]
Chain2 == (b1 :> Genesis) @@ (b2 :> b1)
Fork3 == (b1 :> Genesis) @@ (b2 :> b1) @@ (b3 :> b1)
\* Peers differ in nothing but their name, and no invariant here looks at `out`.
PeerSymmetry == Permutations(Peers)
WithoutOut == <<trackerVars, mailbox, nvhMailbox, readerVars, nvhVars>>

=============================================================================
