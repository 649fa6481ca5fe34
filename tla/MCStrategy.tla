----------------------------- MODULE MCStrategy -----------------------------
(***************************************************************************)
(* Strategy for TLC: two callers, two networks, two ports, one WireGuard   *)
(* endpoint, two SNIs, latencies on both sides of the limit and none.      *)
(***************************************************************************)
EXTENDS Strategy

CONSTANTS c1, c2, n1, n2, p1, p2, e1, s1, s2
MCCallers == {c1, c2}
MCNetworks == {n1, n2}
MCPorts == {p1, p2}
MCEndpoints == {e1}
MCSnis == {s1, s2}
M(torn, rtt) == [proto |-> "masque", torn |-> torn, rtt |-> rtt, loss |-> 0]
W(torn, rtt, loss) == [proto |-> "wg", torn |-> torn, rtt |-> rtt, loss |-> loss]
MCMasque == {M(FALSE, 0), M(FALSE, 100), M(FALSE, 700), M(TRUE, 50)}
MCWg == {W(FALSE, 50, 0), W(FALSE, 800, 0), W(FALSE, 50, 20), W(TRUE, 50, 0)}
==============================================================================
