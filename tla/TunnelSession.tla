---------------------------- MODULE TunnelSession ----------------------------
(***************************************************************************)
(* The tunnel state machine of the gomobile bridge (android/               *)
(* usque_android.go): the package-level `state` record guarded by state.mu,*)
(* the StartTunnel / StopTunnel calls the app makes, and the goroutine each*)
(* successful StartTunnel leaves behind.  A goroutine ("session") runs     *)
(* api.MaintainTunnel (MASQUE) or api.MaintainWGTunnel (WireGuard), reports*)
(* through statusCb and, when that returns, cleans up the shared record.   *)
(*                                                                         *)
(* Nothing in the code waits for a session to end before the next one is   *)
(* started, so sessions overlap; this module keeps every interleaving of   *)
(* their lock sections, callback deliveries and exits.                     *)
(*                                                                         *)
(* A lock section of state.mu is one action.  What is abstracted: endpoint,*)
(* TLS and configuration contents (a StartTunnel either gets through them  *)
(* or returns an error), packets (MasqueTunnel) and time (WgWatchdog).     *)
(***************************************************************************)
EXTENDS Naturals, FiniteSets

CONSTANT MaxSessions    \* bound: how many StartTunnel calls get past the running check

ASSUME MaxSessionsAssumption == MaxSessions \in Nat

VARIABLES
    state,      \* the package-level tunnelState record
    ctxDone,    \* sessions whose context has been cancelled
    calls,      \* StartTunnel calls so far that got past the running check
    sess,       \* per session: where its goroutine is (see Session)
    tun,        \* per session: its AndroidTunDevice file
    cleanStart  \* history, read by properties only: sessions that were started
                \* when every earlier session's goroutine had ended

vars == <<state, ctxDone, calls, sess, tun, cleanStart>>

Sessions == 1 .. MaxSessions
NoSession == 0                 \* a nil cancel function or callback

Protocols == {"masque", "wg"}
Statuses == {"connecting", "connected", "error", "disconnected"}
Details == {"none", "cause"}   \* the empty detail string, or one that says why

\* Where a session's goroutine is.
Points ==
    { "idle",       \* StartTunnel not called yet for this number
      "failed",     \* StartTunnel returned an error: no goroutine
      "say",        \* about to enter statusCb's lock section
      "fire",       \* past the lock section, about to call the callback
      "attempt",    \* MASQUE: inside ConnectTunnel
      "up",         \* MASQUE: forwarding, waiting on errChan
      "sleep",      \* MASQUE: time.Sleep(reconnectDelay)
      "configure",  \* WG: keys, IpcSet, Up
      "watch",      \* WG: the watchdog's select
      "poll",       \* WG: the watchdog's tick was selected
      "closing",    \* the Maintain function is returning
      "clear",      \* tunDevice.Close() done, about to lock state.mu
      "notify",     \* about to call the captured callback's OnDisconnected
      "done" }

Session == [at: Points, proto: Protocols, say: Statuses, then: Points,
            to: 0 .. MaxSessions, wgUp: BOOLEAN]

IdleSession == [at |-> "idle", proto |-> "masque", say |-> "connecting",
                then |-> "idle", to |-> NoSession, wgUp |-> FALSE]

Ended == {"idle", "failed", "done"}
Live(s) == sess[s].at \notin Ended          \* s's goroutine exists
Cancelled(s) == s \in ctxDone

\* GetTunnelStatus: what the app's polling sees.
GetTunnelStatus ==
    IF state.running THEN <<state.status, state.lastError>> ELSE <<"stopped", "none">>

------------------------------------------------------------------------------
Init ==
    /\ state = [running |-> FALSE, cancel |-> NoSession, callback |-> NoSession,
                status |-> "none", lastError |-> "none"]
    /\ ctxDone = {}
    /\ calls = 0
    /\ sess = [s \in Sessions |-> IdleSession]
    /\ tun = [s \in Sessions |-> "none"]
    /\ cleanStart = {}

(***************************************************************************)
(* The calls of the app.                                                   *)
(***************************************************************************)

\* Seeded bug: the new session inherits the last error of the previous one.
StartTunnelKeepsError(proto) ==
    LET s == calls + 1 IN
    /\ ~state.running
    /\ s \in Sessions
    /\ calls' = s
    /\ state' = [state EXCEPT !.running = TRUE, !.cancel = s, !.callback = s,
                             !.status = "connecting"]
    /\ tun' = [tun EXCEPT ![s] = "open"]
    /\ sess' = [sess EXCEPT ![s] =
                  [IdleSession EXCEPT !.at = "say", !.proto = proto,
                     !.then = IF proto = "wg" THEN "configure" ELSE "attempt"]]
    /\ cleanStart' = IF \E t \in Sessions : Live(t) THEN cleanStart
                                                    ELSE cleanStart \cup {s}
    /\ UNCHANGED ctxDone

\* StartTunnel succeeds: refused while running; otherwise the record is reset
\* for the new session and its goroutine starts, with the "connecting" report
\* both Maintain functions make first.
StartTunnel(proto) ==
    LET s == calls + 1 IN
    /\ ~state.running
    /\ s \in Sessions
    /\ calls' = s
    /\ state' = [running |-> TRUE, cancel |-> s, callback |-> s,
                 status |-> "connecting", lastError |-> "none"]
    /\ tun' = [tun EXCEPT ![s] = "open"]
    /\ sess' = [sess EXCEPT ![s] =
                  [IdleSession EXCEPT !.at = "say", !.proto = proto,
                     !.then = IF proto = "wg" THEN "configure" ELSE "attempt"]]
    /\ cleanStart' = IF \E t \in Sessions : Live(t) THEN cleanStart
                                                    ELSE cleanStart \cup {s}
    /\ UNCHANGED ctxDone

\* StartTunnel returns an error (configuration, WireGuard device, endpoint,
\* key or TLS): the record is untouched.  A failure after newAndroidTunDevice
\* leaves the wrapped file open; nothing in the code closes it.
StartTunnelFails(file) ==
    LET s == calls + 1 IN
    /\ ~state.running
    /\ s \in Sessions
    /\ calls' = s
    /\ tun' = [tun EXCEPT ![s] = file]
    /\ sess' = [sess EXCEPT ![s].at = "failed"]
    /\ UNCHANGED <<state, ctxDone, cleanStart>>

\* Seeded bug: it clears the flag without cancelling.
StopTunnelOnlyClears ==
    /\ state.running
    /\ state' = [state EXCEPT !.running = FALSE]
    /\ UNCHANGED <<ctxDone, calls, sess, tun, cleanStart>>

\* StopTunnel: cancels the context it holds and clears the flag; it does not
\* wait for the goroutine.
StopTunnel ==
    /\ state.running
    /\ ctxDone' = ctxDone \cup {state.cancel}
    /\ state' = [state EXCEPT !.running = FALSE]
    /\ UNCHANGED <<calls, sess, tun, cleanStart>>

(***************************************************************************)
(* statusCb.                                                               *)
(***************************************************************************)

\* The record after a report: "error" and "disconnected" carry a detail,
\* "connected" clears it, "connecting" leaves it.
Reported(status) ==
    [state EXCEPT !.status = status,
                  !.lastError = CASE status \in {"error", "disconnected"} -> "cause"
                                  [] status = "connected" -> "none"
                                  [] OTHER -> @]

\* The lock section.  The callback is read from the shared record, so it is
\* the callback of the latest session, whichever session is reporting.
StatusCb(s) ==
    /\ sess[s].at = "say"
    /\ state' = Reported(sess[s].say)
    /\ sess' = IF sess[s].say = "connecting" \/ state.callback = NoSession
                 THEN [sess EXCEPT ![s].at = sess[s].then, ![s].then = "idle"]
                 ELSE [sess EXCEPT ![s].at = "fire", ![s].to = state.callback]
    /\ UNCHANGED <<ctxDone, calls, tun, cleanStart>>

\* cb.OnConnected / OnError / OnDisconnected, outside the lock.
FireCallback(s) ==
    /\ sess[s].at = "fire"
    /\ sess' = [sess EXCEPT ![s].at = sess[s].then, ![s].then = "idle",
                            ![s].to = NoSession]
    /\ UNCHANGED <<state, ctxDone, calls, tun, cleanStart>>

\* Session s goes to make a report and continues at `next` afterwards.
Say(s, status, next) ==
    sess' = [sess EXCEPT ![s].at = "say", ![s].say = status, ![s].then = next]

Goto(s, point) == sess' = [sess EXCEPT ![s].at = point]

SharedUnchanged == UNCHANGED <<state, ctxDone, calls, tun, cleanStart>>

(***************************************************************************)
(* api.MaintainTunnel, reduced to its reports (MasqueTunnel has the rest). *)
(* The context only reaches ConnectTunnel: the loop never looks at it.     *)
(***************************************************************************)

\* ConnectTunnel failed, or the server answered with a status other than 200.
AttemptFails(s) ==
    /\ sess[s].at = "attempt"
    /\ Say(s, "error", "sleep")
    /\ SharedUnchanged

\* quic.Dial and connectip.Dial return an error once their context is done.
AttemptSucceeds(s) ==
    /\ sess[s].at = "attempt"
    /\ ~Cancelled(s)
    /\ Say(s, "connected", "up")
    /\ SharedUnchanged

ConnectionLost(s) ==
    /\ sess[s].at = "up"
    /\ Say(s, "disconnected", "sleep")
    /\ SharedUnchanged

\* Seeded bug: a new attempt starts without its "connecting".
RetrySilently(s) ==
    /\ sess[s].at = "sleep"
    /\ Goto(s, "attempt")
    /\ SharedUnchanged

Retry(s) ==
    /\ sess[s].at = "sleep"
    /\ Say(s, "connecting", "attempt")
    /\ SharedUnchanged

(***************************************************************************)
(* api.MaintainWGTunnel, reduced to its reports (WgWatchdog has the time). *)
(***************************************************************************)

\* A bad key or endpoint, or IpcSet or Up failed: one report, then return.
WgSetupFails(s) ==
    /\ sess[s].at = "configure"
    /\ Say(s, "error", "closing")
    /\ SharedUnchanged

WgSetupDone(s) ==
    /\ sess[s].at = "configure"
    /\ Goto(s, "watch")
    /\ SharedUnchanged

\* The watchdog's select: the tick, or the cancelled context; either when both
\* are ready.
WgTick(s) ==
    /\ sess[s].at = "watch"
    /\ Goto(s, "poll")
    /\ SharedUnchanged

WgCancelled(s) ==
    /\ sess[s].at = "watch"
    /\ Cancelled(s)
    /\ Goto(s, "closing")
    /\ SharedUnchanged

\* IpcGet returned an error: return if the context is done, else report it.
WgStatusUnavailable(s) ==
    /\ sess[s].at = "poll"
    /\ IF Cancelled(s) THEN Goto(s, "closing") ELSE Say(s, "error", "watch")
    /\ SharedUnchanged

\* IpcGet answered: the first handshake is announced, a stale one is an error,
\* and otherwise nothing is said.
WgPolled(s) ==
    /\ sess[s].at = "poll"
    /\ \/ Goto(s, "watch")
       \/ /\ ~sess[s].wgUp
          /\ sess' = [sess EXCEPT ![s].at = "say", ![s].say = "connected",
                                  ![s].then = "watch", ![s].wgUp = TRUE]
       \/ /\ sess[s].wgUp
          /\ sess' = [sess EXCEPT ![s].at = "say", ![s].say = "error",
                                  ![s].then = "watch", ![s].wgUp = FALSE]
    /\ SharedUnchanged

(***************************************************************************)
(* The end of the goroutine.                                               *)
(***************************************************************************)

\* Seeded bugs of the goroutine's end: the file is left to the owner of the fd;
\* the flag is left to StopTunnel.
CloseDeviceForgotten(s) ==
    /\ sess[s].at = "closing"
    /\ Goto(s, "clear")
    /\ SharedUnchanged

ClearOnlyStatus(s) ==
    /\ sess[s].at = "clear"
    /\ state' = [state EXCEPT !.status = "disconnected"]
    /\ Goto(s, "notify")
    /\ UNCHANGED <<ctxDone, calls, tun, cleanStart>>

\* The Maintain function has returned (for WireGuard after wg.Close(), which
\* may take arbitrarily long) and the file is closed.
CloseDevice(s) ==
    /\ sess[s].at = "closing"
    /\ tun' = [tun EXCEPT ![s] = "closed"]
    /\ Goto(s, "clear")
    /\ UNCHANGED <<state, ctxDone, calls, cleanStart>>

\* The lock section: whatever session the record now belongs to.
ClearRunning(s) ==
    /\ sess[s].at = "clear"
    /\ state' = [state EXCEPT !.running = FALSE, !.status = "disconnected"]
    /\ Goto(s, "notify")
    /\ UNCHANGED <<ctxDone, calls, tun, cleanStart>>

\* callback.OnDisconnected("Tunnel closed"), the session's own callback.
NotifyClosed(s) ==
    /\ sess[s].at = "notify"
    /\ Goto(s, "done")
    /\ SharedUnchanged

------------------------------------------------------------------------------
MasqueStep(s) == AttemptFails(s) \/ AttemptSucceeds(s) \/ ConnectionLost(s) \/ Retry(s)

WgStep(s) ==
    \/ WgSetupFails(s) \/ WgSetupDone(s) \/ WgTick(s) \/ WgCancelled(s)
    \/ WgStatusUnavailable(s) \/ WgPolled(s)

ExitStep(s) == CloseDevice(s) \/ ClearRunning(s) \/ NotifyClosed(s)

SessionStep(s) ==
    StatusCb(s) \/ FireCallback(s) \/ MasqueStep(s) \/ WgStep(s) \/ ExitStep(s)

Api ==
    \/ \E proto \in Protocols : StartTunnel(proto)
    \/ \E file \in {"none", "open"} : StartTunnelFails(file)
    \/ StopTunnel

Next == Api \/ \E s \in Sessions : SessionStep(s)

Spec == Init /\ [][Next]_vars

\* Every goroutine keeps taking steps; the app need not call anything.  A
\* MASQUE connection that is up is not forced to break.  CloseDevice gets no
\* fairness: it waits for wg.Close(), which the library may hold back.
RunningStep(s) ==
    \/ StatusCb(s) \/ FireCallback(s) \/ AttemptFails(s) \/ AttemptSucceeds(s)
    \/ Retry(s) \/ WgStep(s) \/ ClearRunning(s) \/ NotifyClosed(s)

FairSpec == Spec /\ \A s \in Sessions : WF_vars(RunningStep(s))

------------------------------------------------------------------------------
(***************************************************************************)
(* Properties.                                                             *)
(***************************************************************************)

TypeOK ==
    /\ state \in [running: BOOLEAN, cancel: 0 .. MaxSessions,
                  callback: 0 .. MaxSessions, status: Statuses \cup {"none"},
                  lastError: Details]
    /\ ctxDone \subseteq Sessions
    /\ calls \in 0 .. MaxSessions
    /\ sess \in [Sessions -> Session]
    /\ tun \in [Sessions -> {"none", "open", "closed"}]
    /\ cleanStart \subseteq Sessions

\* While the record says "running", the cancel function it holds belongs to a
\* goroutine that exists, has not begun its exit's lock section and has not
\* been cancelled: a StopTunnel now would reach a live context.  (The check of
\* state.running in StartTunnel, the clearing in StopTunnel and in the exit.)
RunningIsStoppable ==
    state.running =>
        /\ state.cancel \in Sessions
        /\ sess[state.cancel].at \notin Ended \cup {"notify"}
        /\ ~Cancelled(state.cancel)

\* What the app's poll shows is coherent: "connected" and the first
\* "connecting" come without an error, "error" and "disconnected" never come
\* without their cause, whichever sessions wrote the record and in what order.
StatusIsCoherent ==
    LET view == GetTunnelStatus IN
    /\ view[1] = "connected" => view[2] = "none"
    /\ view[1] \in {"error", "disconnected"} => view[2] = "cause"

\* A tunnel that was started after the previous goroutine had ended stays in
\* control until it is stopped or ends: the record is its own, StopTunnel would
\* cancel it, and nobody else's event is on its way to its callback.
CleanStartKeepsControl ==
    \A s \in cleanStart :
        /\ Live(s) /\ ~Cancelled(s) /\ sess[s].at # "notify" =>
              state.running /\ state.cancel = s /\ state.callback = s
        /\ \A t \in Sessions : sess[t].at = "fire" /\ sess[t].to = s => t = s

\* ... and the status the app polls is then the true one: for such a tunnel,
\* "connected" is shown while MASQUE forwards, "connecting" while it dials.
CleanStatusIsTrue ==
    \A s \in cleanStart :
        ~Cancelled(s) =>
            /\ sess[s].at = "up" => GetTunnelStatus = <<"connected", "none">>
            /\ sess[s].at = "attempt" => GetTunnelStatus[1] = "connecting"
            /\ sess[s].at = "sleep" => GetTunnelStatus[1] \in {"error", "disconnected"}

\* A session's file is open exactly as long as its goroutine may use it: never
\* closed under a Maintain function, never left open by an ended goroutine.
FileMatchesGoroutine ==
    \A s \in Sessions :
        /\ Live(s) /\ sess[s].at \notin {"clear", "notify"} => tun[s] = "open"
        /\ sess[s].at = "done" => tun[s] = "closed"

\* The bridge implements the app's view of it: whatever overlapping goroutines
\* write, a poll sees "stopped" until a StartTunnel, then a fresh "connecting",
\* and never a report while the record says it is not running.
View == INSTANCE TunnelView WITH view <- GetTunnelStatus

ImplementsView == View!Spec

\* ... and the service's view of it (TunnelBridge): only a StopTunnel cancels,
\* only a lost MASQUE connection or an ended session calls OnDisconnected, a
\* MASQUE session never ends, and the exit clears the flag whoever owns it.
InEvent(s) == sess[s].at = "fire" /\ sess[s].say = "disconnected"
BridgeAt(s) ==
    IF sess[s].at \in Ended \cup {"clear", "notify"} THEN sess[s].at
    ELSE IF InEvent(s) THEN "event" ELSE "live"
BridgeTo(s) == IF InEvent(s) THEN sess[s].to ELSE NoSession

bridgeAt == [s \in Sessions |-> BridgeAt(s)]
bridgeTo == [s \in Sessions |-> BridgeTo(s)]
bridgeProto == [s \in Sessions |-> sess[s].proto]

Bridge == INSTANCE TunnelBridge WITH
    running <- state.running, latest <- state.cancel,
    proto <- bridgeProto, at <- bridgeAt, to <- bridgeTo

ImplementsBridge == Bridge!Spec

\* Each MASQUE session reports in the documented order (StatusReports): what it
\* last said, or is about to say.  What becomes of the connections behind the
\* reports is MasqueTunnel's part (TunnelContract).
LoopStatus(s) == IF sess[s].proto = "masque" /\ Live(s) THEN sess[s].say ELSE "none"

Reports(s) == INSTANCE StatusReports WITH status <- LoopStatus(s)

\* "Tunnel exited (context cancelled or unrecoverable error)" (usque_android.go
\* line 408), "until ctx is cancelled. It mirrors the contract of MaintainTunnel"
\* (wgtunnel.go line 166): a cancelled MASQUE session ends.  It does not.
MasqueStopEnds ==
    \A s \in Sessions :
        Cancelled(s) /\ sess[s].proto = "masque" ~> sess[s].at = "done"
==============================================================================
