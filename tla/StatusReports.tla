----------------------------- MODULE StatusReports -----------------------------
(***************************************************************************)
(* The order in which a maintain loop reports, as StatusCallback documents *)
(* it (api/tunnel.go 146-156).                                             *)
(*                                                                         *)
(*   "connecting"    a new connection attempt is starting;                 *)
(*   "connected"     the tunnel is up;                                     *)
(*   "error"         the connection attempt failed;                        *)
(*   "disconnected"  a previously established tunnel was lost.             *)
(***************************************************************************)
VARIABLE status     \* the last report, "none" before the first

Init == status = "none"

Attempt == status \in {"none", "error", "disconnected"} /\ status' = "connecting"

Establish == status = "connecting" /\ status' = "connected"

Fail == status = "connecting" /\ status' = "error"

Lose == status = "connected" /\ status' = "disconnected"

Next == Attempt \/ Establish \/ Fail \/ Lose

Spec == Init /\ [][Next]_status
==============================================================================
