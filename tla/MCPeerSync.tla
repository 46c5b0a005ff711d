---------------------------- MODULE MCPeerSync ----------------------------
(***************************************************************************)
(* Instances of PeerSync for TLC: a peer that may come back, and another.  *)
(***************************************************************************)
EXTENDS PeerSync, TLC

CONSTANTS a1, a2, c1, c2, c3

Reconnecting == (c1 :> a1) @@ (c2 :> a1)
ReconnectingAndOther == Reconnecting @@ (c3 :> a2)

=============================================================================
