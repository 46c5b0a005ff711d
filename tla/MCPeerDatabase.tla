-------------------------- MODULE MCPeerDatabase --------------------------
(***************************************************************************)
(* Instances of PeerDatabase for TLC: a1 and a2 on one host and b on       *)
(* another, next to a known peer k and this node.  a1 and b share a slot   *)
(* among the new peers, a2 and b share one among the tried peers.          *)
(***************************************************************************)
EXTENDS PeerDatabase, TLC

CONSTANTS a1, a2, b, k, self, hostA, hostB, s1, s2, Spam, Disconnect, Permanent

MCHost == (a1 :> hostA) @@ (a2 :> hostA) @@ (b :> hostB) @@ (k :> hostB) @@ (self :> hostB)
MCNewSlot == (a1 :> s1) @@ (a2 :> s2) @@ (b :> s1) @@ (k :> s2) @@ (self :> s2)
MCTriedSlot == (a1 :> s1) @@ (a2 :> s2) @@ (b :> s2) @@ (k :> s1) @@ (self :> s1)

\* The threshold is 3: two penalties for spam exceed it, or one that disconnects.
MCPenaltyScore == (Spam :> 2) @@ (Disconnect :> 4) @@ (Permanent :> 100)

=============================================================================
