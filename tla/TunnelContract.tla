---------------------------- MODULE TunnelContract ----------------------------
(***************************************************************************)
(* What becomes of the connections behind the reports of MaintainTunnel    *)
(* (api/tunnel.go 159-162 and 188-282).  The order of the reports is that  *)
(* of StatusReports.  The loop holds one connection at a time, from the    *)
(* success or the refusal of an attempt until it has reported it and then  *)
(* closed it.  Of an attempt that fails it closes nothing: the socket that *)
(* ConnectTunnel returns with its error, and perhaps a QUIC connection on  *)
(* it, is left behind (lines 188-194; masque.go 119, 144, 146).  The       *)
(* contract bounds that: one for each attempt that failed, and never a     *)
(* connection that was established or refused.                             *)
(***************************************************************************)
EXTENDS Naturals

VARIABLES
    status,     \* the last report, "none" before the first
    held,       \* is a connection held?
    left        \* how many sockets failed attempts have left behind

cvars == <<status, held, left>>

Init == status = "none" /\ held = FALSE /\ left = 0

Attempt ==
    /\ status \in {"none", "error", "disconnected"} /\ ~held
    /\ status' = "connecting" /\ held' = FALSE /\ left' = left

Establish == status = "connecting" /\ status' = "connected" /\ held' = TRUE /\ left' = left

\* The attempt failed; ConnectTunnel may have returned a socket all the same.
Fail ==
    /\ status = "connecting" /\ status' = "error" /\ held' = FALSE
    /\ left' \in {left, left + 1}

\* The server refused: an "error" that is reported while the connection is held.
Refuse == status = "connecting" /\ status' = "error" /\ held' = TRUE /\ left' = left

Lose == status = "connected" /\ status' = "disconnected" /\ held' = held /\ left' = left

Release ==
    /\ status \in {"error", "disconnected"} /\ held /\ held' = FALSE
    /\ status' = status /\ left' = left

Next == Attempt \/ Establish \/ Fail \/ Refuse \/ Lose \/ Release

Spec == Init /\ [][Next]_cvars
==============================================================================
