----------------------------- MODULE TunnelBridge -----------------------------
(***************************************************************************)
(* The gomobile bridge as its one caller, UsqueVpnService, sees it: which  *)
(* session StopTunnel would cancel, which sessions are alive, and when a   *)
(* session calls back with OnDisconnected (the callback the service acts   *)
(* on).  Dialling, statuses and errors are abstracted away: TunnelSession  *)
(* implements this module (TunnelSession!ImplementsBridge), and VpnService *)
(* is composed with it.                                                    *)
(***************************************************************************)
EXTENDS Naturals

CONSTANT MaxSessions    \* bound: StartTunnel calls that get past the running check

VARIABLES
    running,    \* state.running
    latest,     \* the session whose cancel and callback the record holds, 0: none
    ctxDone,    \* sessions whose context has been cancelled
    calls,      \* StartTunnel calls that got past the running check
    proto,      \* per session: its protocol
    at,         \* per session: where its goroutine is
    to          \* per session: whose callback it is calling with OnDisconnected

bvars == <<running, latest, ctxDone, calls, proto, at, to>>

Sessions == 1 .. MaxSessions
NoSession == 0
Protocols == {"masque", "wg"}

Points ==
    { "idle", "failed",
      "live",       \* maintaining a tunnel, or on its way out
      "event",      \* inside cb.OnDisconnected, the tunnel having been lost
      "clear",      \* file closed, about to lock state.mu
      "notify",     \* inside callback.OnDisconnected("Tunnel closed")
      "done" }

BridgeTypeOK ==
    /\ running \in BOOLEAN
    /\ latest \in 0 .. MaxSessions
    /\ ctxDone \subseteq Sessions
    /\ calls \in 0 .. MaxSessions
    /\ proto \in [Sessions -> Protocols]
    /\ at \in [Sessions -> Points]
    /\ to \in [Sessions -> 0 .. MaxSessions]

Init ==
    /\ running = FALSE /\ latest = NoSession /\ ctxDone = {} /\ calls = 0
    /\ proto = [s \in Sessions |-> "masque"]
    /\ at = [s \in Sessions |-> "idle"]
    /\ to = [s \in Sessions |-> NoSession]

StartTunnel(p) ==
    LET s == calls + 1 IN
    /\ ~running /\ s \in Sessions
    /\ running' = TRUE /\ latest' = s /\ calls' = s
    /\ proto' = [proto EXCEPT ![s] = p]
    /\ at' = [at EXCEPT ![s] = "live"]
    /\ UNCHANGED <<ctxDone, to>>

StartTunnelFails ==
    LET s == calls + 1 IN
    /\ ~running /\ s \in Sessions
    /\ calls' = s
    /\ at' = [at EXCEPT ![s] = "failed"]
    /\ UNCHANGED <<running, latest, ctxDone, proto, to>>

StopTunnel ==
    /\ running
    /\ running' = FALSE /\ ctxDone' = ctxDone \cup {latest}
    /\ UNCHANGED <<latest, calls, proto, at, to>>

\* A MASQUE connection was lost: the callback is the latest session's.
Lose(s) ==
    /\ at[s] = "live" /\ proto[s] = "masque"
    /\ at' = [at EXCEPT ![s] = "event"] /\ to' = [to EXCEPT ![s] = latest]
    /\ UNCHANGED <<running, latest, ctxDone, calls, proto>>

\* The callback has returned: MaintainTunnel goes on to reconnect.
Return(s) ==
    /\ at[s] = "event"
    /\ at' = [at EXCEPT ![s] = "live"] /\ to' = [to EXCEPT ![s] = NoSession]
    /\ UNCHANGED <<running, latest, ctxDone, calls, proto>>

\* Only a WireGuard session ends: cancelled, or because its setup failed.
CloseDevice(s) ==
    /\ at[s] = "live" /\ proto[s] = "wg"
    /\ at' = [at EXCEPT ![s] = "clear"]
    /\ UNCHANGED <<running, latest, ctxDone, calls, proto, to>>

ClearRunning(s) ==
    /\ at[s] = "clear"
    /\ running' = FALSE /\ at' = [at EXCEPT ![s] = "notify"]
    /\ UNCHANGED <<latest, ctxDone, calls, proto, to>>

NotifyClosed(s) ==
    /\ at[s] = "notify"
    /\ at' = [at EXCEPT ![s] = "done"]
    /\ UNCHANGED <<running, latest, ctxDone, calls, proto, to>>

Next ==
    \/ \E p \in Protocols : StartTunnel(p)
    \/ StartTunnelFails \/ StopTunnel
    \/ \E s \in Sessions :
         \/ Lose(s) \/ Return(s) \/ CloseDevice(s) \/ ClearRunning(s) \/ NotifyClosed(s)

Spec == Init /\ [][Next]_bvars
==============================================================================
