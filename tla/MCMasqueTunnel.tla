--------------------------- MODULE MCMasqueTunnel ---------------------------
EXTENDS MasqueTunnel
==============================================================================
