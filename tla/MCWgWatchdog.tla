---------------------------- MODULE MCWgWatchdog ----------------------------
EXTENDS WgWatchdog
==============================================================================
