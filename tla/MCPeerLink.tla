----------------------------- MODULE MCPeerLink -----------------------------
(* Instance of PeerLink for TLC: two routes, one user of the link.         *)
EXTENDS PeerLink
=============================================================================
