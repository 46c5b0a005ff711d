--------------------------- MODULE MCConnections ---------------------------
(***************************************************************************)
(* Instances of Connections for TLC: the peer p, which can be dialled and  *)
(* calls from p1, and the forger q, which can be dialled.                  *)
(***************************************************************************)
EXTENDS Connections, TLC

CONSTANTS p, q, pAddr, qAddr, p1, h1, h2

MCDeclared == (p :> pAddr) @@ (q :> None) @@ (Self :> None)
MCLocal == (p :> None) @@ (q :> qAddr) @@ (Self :> None)
MCOwner == (pAddr :> p) @@ (p1 :> p) @@ (qAddr :> q)

\* The hypothesis under which OneConnectionPerPeer is proved.
ASSUME PeersNameOneAddress == NamesOneAddress

=============================================================================
