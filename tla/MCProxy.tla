------------------------------- MODULE MCProxy -------------------------------
(***************************************************************************)
(* Proxy for TLC: one connection of any kind, or two plain requests side   *)
(* by side, with two messages per peer, and two DNS servers.               *)
(***************************************************************************)
EXTENDS Proxy

CONSTANTS c1, c2, v1, v2
MCConns == {c1, c2}
MCServers == {v1, v2}
MCAsks == {k \in [MCConns -> Kinds] : k[c2] = "none" \/ \A c \in MCConns : k[c] = "plain"}
MCBuffers == 1 .. 4
==============================================================================
