--------------------------- MODULE MCTunnelSession ---------------------------
EXTENDS TunnelSession
==============================================================================
