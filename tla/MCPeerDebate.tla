--------------------------- MODULE MCPeerDebate ---------------------------
(* Two orders at a time over one round of debate.                          *)
EXTENDS PeerDebate
=============================================================================
