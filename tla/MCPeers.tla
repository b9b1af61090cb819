------------------------------- MODULE MCPeers -------------------------------
(* Instances of Peers for TLC.                                             *)
EXTENDS Peers
=============================================================================
