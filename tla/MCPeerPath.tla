----------------------------- MODULE MCPeerPath -----------------------------
(***************************************************************************)
(* PeerPath on small instances.                                             *)
(***************************************************************************)
EXTENDS PeerPath, TLC
=============================================================================
