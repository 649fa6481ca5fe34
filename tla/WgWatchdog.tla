------------------------------ MODULE WgWatchdog ------------------------------
(***************************************************************************)
(* api.wgWatchHandshakes (api/wgtunnel.go): the loop that turns the device's*)
(* last_handshake_time_sec into "connected" and "error" reports, from the  *)
(* moment MaintainWGTunnel has configured the device until the context is  *)
(* cancelled.                                                              *)
(*                                                                         *)
(* Time advances in units.  Timestamps are kept as ages, and an age is only*)
(* told apart up to the first value over StaleAfter: nothing in the code   *)
(* distinguishes older ones, so behaviours of any length are covered.      *)
(* The scheduler is taken to be timely: the loop runs when its timer fires.*)
(* The names leave room for MasqueTunnel, the loop of the other tunnel.    *)
(***************************************************************************)
EXTENDS Naturals

CONSTANTS
    Tick,           \* wgWatchdogTick
    StaleAfter      \* wgRekeyInterval + wgStaleGrace

ASSUME TimesAssumption ==
    /\ Tick \in Nat \ {0}
    /\ StaleAfter \in Nat
    /\ Tick <= StaleAfter

VARIABLES
    at,             \* the loop: in its select, past the tick, or returned
    timer,          \* units until time.After fires
    peerAge,        \* age of the device's last completed handshake
    lastHandshake,  \* age of the timestamp the loop has stored
    wgState,        \* the loop's own state
    cancelled,      \* ctx is done
    wgReported,     \* the last report made
    plain           \* history: no poll has failed and no report was "stale" so far

watchVars == <<at, timer, peerAge, lastHandshake, wgState, cancelled, wgReported, plain>>

TooOld == StaleAfter + Tick + 1     \* every older age is the same
Never == TooOld + 1                 \* timestamp 0: no handshake yet
Ages == 0 .. Never

Older(age) == IF age < TooOld THEN age + 1 ELSE age

Reports == {"connecting", "connected", "stale", "unavailable"}

------------------------------------------------------------------------------
\* MaintainWGTunnel has reported "connecting" and brought the device up.
WatchInit ==
    /\ at = "select"
    /\ timer = Tick
    /\ peerAge = Never
    /\ lastHandshake = Never
    /\ wgState = "connecting"
    /\ cancelled = FALSE
    /\ wgReported = "connecting"
    /\ plain = TRUE

\* One unit passes, unless the loop has something to do now.
TimePasses ==
    /\ at = "select" /\ timer > 0 /\ ~cancelled
    /\ timer' = timer - 1
    /\ peerAge' = Older(peerAge)
    /\ lastHandshake' = Older(lastHandshake)
    /\ UNCHANGED <<at, wgState, cancelled, wgReported, plain>>

\* The device completes a handshake: on its own schedule, or never again.
Handshake ==
    /\ at # "returned"
    /\ peerAge' = 0
    /\ UNCHANGED <<at, timer, lastHandshake, wgState, cancelled, wgReported, plain>>

Cancel ==
    /\ ~cancelled
    /\ cancelled' = TRUE
    /\ UNCHANGED <<at, timer, peerAge, lastHandshake, wgState, wgReported, plain>>

SelectDone ==
    /\ at = "select" /\ cancelled
    /\ at' = "returned"
    /\ UNCHANGED <<timer, peerAge, lastHandshake, wgState, cancelled, wgReported, plain>>

\* When both are ready the select may pick either.
SelectTick ==
    /\ at = "select" /\ timer = 0
    /\ at' = "poll"
    /\ UNCHANGED <<timer, peerAge, lastHandshake, wgState, cancelled, wgReported, plain>>

\* IpcGet failed: the end if the context is done, else an error and another round.
PollFails ==
    /\ at = "poll"
    /\ IF cancelled
         THEN at' = "returned" /\ UNCHANGED <<timer, wgReported>>
         ELSE at' = "select" /\ timer' = Tick /\ wgReported' = "unavailable"
    /\ plain' = FALSE
    /\ UNCHANGED <<peerAge, lastHandshake, wgState, cancelled>>

\* The configuration read has no peer section.
PollFindsNoPeer ==
    /\ at = "poll"
    /\ at' = "select" /\ timer' = Tick
    /\ plain' = FALSE
    /\ UNCHANGED <<peerAge, lastHandshake, wgState, cancelled, wgReported>>

\* Seeded bugs: the stale test is off by one; the state moves but nothing is
\* reported.
JudgeLate(age) ==
    CASE wgState = "connecting" /\ age # Never ->
            wgState' = "connected" /\ wgReported' = "connected"
      [] wgState = "connected" /\ age # Never /\ age > StaleAfter + 1 ->
            wgState' = "connecting" /\ wgReported' = "stale"
      [] OTHER -> UNCHANGED <<wgState, wgReported>>

JudgeSilently(age) ==
    CASE wgState = "connecting" /\ age # Never ->
            wgState' = "connected" /\ UNCHANGED wgReported
      [] wgState = "connected" /\ age # Never /\ age > StaleAfter ->
            wgState' = "connecting" /\ wgReported' = "stale"
      [] OTHER -> UNCHANGED <<wgState, wgReported>>

\* The state after a poll that stored a timestamp of this age, and the report.
Judge(age) ==
    CASE wgState = "connecting" /\ age # Never ->
            wgState' = "connected" /\ wgReported' = "connected"
      [] wgState = "connected" /\ age # Never /\ age > StaleAfter ->
            wgState' = "connecting" /\ wgReported' = "stale"
      [] OTHER -> UNCHANGED <<wgState, wgReported>>

\* Seeded bug: the time of the poll is stored instead of the handshake's.
PollStoresNow ==
    /\ at = "poll"
    /\ at' = "select" /\ timer' = Tick
    /\ lastHandshake' = IF peerAge # Never THEN 0 ELSE lastHandshake
    /\ Judge(lastHandshake')
    /\ plain' = (plain /\ wgReported' # "stale")
    /\ UNCHANGED <<peerAge, cancelled>>

PollAnswers ==
    /\ at = "poll"
    /\ at' = "select" /\ timer' = Tick
    /\ lastHandshake' = IF peerAge # Never THEN peerAge ELSE lastHandshake
    /\ Judge(lastHandshake')
    /\ plain' = (plain /\ wgReported' # "stale")
    /\ UNCHANGED <<peerAge, cancelled>>

WatchLoop == SelectDone \/ SelectTick \/ PollFails \/ PollFindsNoPeer \/ PollAnswers

WatchNext == TimePasses \/ Handshake \/ Cancel \/ WatchLoop

WatchSpec == WatchInit /\ [][WatchNext]_watchVars

\* Time passes, the loop runs, and IpcGet, which only reads the device's own
\* memory, does not fail for ever.
FairWatchSpec == WatchSpec /\ WF_watchVars(TimePasses) /\ WF_watchVars(WatchLoop) /\ SF_watchVars(PollAnswers)

------------------------------------------------------------------------------
WatchTypeOK ==
    /\ at \in {"select", "poll", "returned"}
    /\ timer \in 0 .. Tick
    /\ peerAge \in Ages /\ lastHandshake \in Ages
    /\ wgState \in {"connecting", "connected"}
    /\ cancelled \in BOOLEAN
    /\ wgReported \in Reports
    /\ plain \in BOOLEAN

\* A peer that stops rekeying is not believed connected for more than one tick
\* beyond StaleAfter.  (Up to the first stale report: the next
\* tick announces a stale peer as connected again.)
StaleNoticedWithinTick ==
    plain /\ wgState = "connected" => peerAge <= StaleAfter + Tick

\* The first handshake is picked up within one tick of its completion.
HandshakeNoticedWithinTick ==
    plain /\ lastHandshake = Never /\ peerAge # Never => peerAge <= Tick

\* A handshake completed while the peer is not believed connected (the first, or
\* one after a stale report) is announced, unless the tunnel is being stopped.
HandshakeIsAnnounced ==
    (peerAge = 0 /\ wgState = "connecting") ~> (wgReported = "connected" \/ cancelled)

\* A connected peer that never handshakes again is reported stale.
LossIsReported ==
    (wgState = "connected" /\ peerAge = TooOld) ~> (wgReported = "stale" \/ peerAge # TooOld \/ cancelled)
==============================================================================
