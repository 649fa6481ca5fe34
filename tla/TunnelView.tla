------------------------------ MODULE TunnelView ------------------------------
(***************************************************************************)
(* What the bridge promises an app that only polls: the machine behind the *)
(* "status|lastError" string of GetTunnelStatus, with its goroutines, locks*)
(* and contexts abstracted away.                                           *)
(*                                                                         *)
(* The view leaves "stopped" only through a start, which shows a fresh     *)
(* "connecting"; from then on reports replace each other until the view    *)
(* falls back to "stopped".  A report never surfaces in a stopped view.    *)
(***************************************************************************)
VARIABLE view       \* <<status, lastError>>

Stopped == <<"stopped", "none">>

Init == view = Stopped

Start == view = Stopped /\ view' = <<"connecting", "none">>

End == view # Stopped /\ view' = Stopped

\* A new attempt keeps the last error on display.
Connecting == view # Stopped /\ view' = <<"connecting", view[2]>>

Connected == view # Stopped /\ view' = <<"connected", "none">>

Failed == view # Stopped /\ view' \in {<<"error", "cause">>, <<"disconnected", "cause">>}

Next == Start \/ End \/ Connecting \/ Connected \/ Failed

Spec == Init /\ [][Next]_view
==============================================================================
