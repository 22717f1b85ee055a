------------------------------ MODULE MCPeers ------------------------------
EXTENDS Peers, TLC
============================================================================
