------------------------------ MODULE ProbeTunnel ------------------------------
(***************************************************************************)
(* The MASQUE probes (internal/scanner/masque.go, and the fetch and the    *)
(* echo bursts of tunnel.go).  ProbeMasqueSni gives every SNI a tunnel of  *)
(* its own, one after the other; ProbeMasquePorts gives one tunnel to all  *)
(* workers of its pool, so that each handshake swaps the connection under  *)
(* the fetch and the echoes of the others.                                 *)
(*                                                                         *)
(* A target is an SNI or a port, and it has at most one connection, which  *)
(* bears its name.  Abstracted: the credentials, the text of the exit      *)
(* metadata, round trip times and loss figures, and that an answer may     *)
(* arrive on a connection that has been replaced.                          *)
(***************************************************************************)
EXTENDS Integers, FiniteSets

CONSTANTS
    Targets,    \* the SNIs or the ports to probe
    Workers,    \* probeParallel
    PingCount,  \* probePings
    TornTail,   \* tornTailFails
    MaxLost,    \* bound of the model: echoes the network loses per target
    None        \* no target

ASSUME ProbeTunnelAssumption ==
    /\ None \notin Targets /\ Workers # {}
    /\ PingCount \in Nat /\ TornTail \in 1 .. PingCount /\ MaxLost \in Nat

VARIABLES
    mode,       \* "sni" or "ports": which of the two functions runs
    quality,    \* per target: the endpoint does not answer in time ("dead"), answers
                \* but carries nothing ("dials"), carries data ("passes"), or does so
                \* until the censor tears it down ("cut")
    cancelled,  \* the context of the probe is done
    pending,    \* targets no worker has taken
    conn,       \* per target: its connection is "none", "up", "cut" or "closed"
    installed,  \* t.conn with its t.drop: whose connection the tunnel carries, or None
    at,         \* per worker: where it is
    target,     \* per worker: what it probes
    burst,      \* per worker: its echoes and what came of them
    verdict,    \* per worker: what it will report
    reported,   \* per target: reports made
    shared,     \* history, per worker: another one has swapped the connection meanwhile
    overwritten \* history: connections whose drop function was lost

work == <<at, target, burst, verdict, shared>>
vars == <<mode, quality, cancelled, pending, conn, installed, reported, overwritten, work>>

NoEchoes == [number |-> 1, sent |-> 0, silent |-> 0, lost |-> 0, down |-> "never"]

Init ==
    /\ mode \in {"sni", "ports"} /\ quality \in [Targets -> {"dead", "dials", "passes", "cut"}]
    /\ cancelled = FALSE /\ pending = Targets
    /\ conn = [t \in Targets |-> "none"] /\ installed = None
    /\ at = [w \in Workers |-> "idle"] /\ target = [w \in Workers |-> None]
    /\ burst = [w \in Workers |-> NoEchoes] /\ verdict = [w \in Workers |-> "none"]
    /\ reported = [t \in Targets |-> 0]
    /\ shared = [w \in Workers |-> FALSE] /\ overwritten = {}

Goto(w, place) == at' = [at EXCEPT ![w] = place]

\* Whether a packet sent through the tunnel now comes back: every connection
\* lives in the context of the probe.
Passes ==
    /\ installed # None /\ ~cancelled
    /\ conn[installed] = "up" /\ quality[installed] \in {"passes", "cut"}

\* ConnectTunnel has a connection and status 200 for the target in time.
Connects(t) == quality[t] # "dead" /\ ~cancelled

\* teardown: the echoes at the end of the burst have no answer.
Teardown(b) == b.silent = TornTail

\* A swap by w is felt by every other worker that is measuring.
Disturb(w) == [v \in Workers |-> shared[v] \/ (v # w /\ at[v] \in {"fetch", "ping"})]

\* Seeded bug: a port sweep that is stopped skips the ports it has not begun.
TakeUnlessCancelled(w) ==
    /\ at[w] = "idle" /\ ~cancelled
    /\ mode = "sni" => \A v \in Workers : at[v] = "idle"
    /\ \E t \in pending : pending' = pending \ {t} /\ target' = [target EXCEPT ![w] = t]
    /\ Goto(w, "drop")
    /\ burst' = [burst EXCEPT ![w] = NoEchoes] /\ shared' = [shared EXCEPT ![w] = FALSE]
    /\ UNCHANGED <<mode, quality, cancelled, conn, installed, reported, overwritten, verdict>>

\* runPool starts the next port; ProbeMasqueSni takes the next SNI, unless the
\* context is done, and makes a tunnel for it.
Take(w) ==
    /\ at[w] = "idle"
    /\ mode = "sni" => ~cancelled /\ \A v \in Workers : at[v] = "idle"
    /\ \E t \in pending : pending' = pending \ {t} /\ target' = [target EXCEPT ![w] = t]
    /\ Goto(w, "drop")
    /\ burst' = [burst EXCEPT ![w] = NoEchoes] /\ shared' = [shared EXCEPT ![w] = FALSE]
    /\ UNCHANGED <<mode, quality, cancelled, conn, installed, reported, overwritten, verdict>>

\* newMasqueProbeTunnel fails for one SNI.
NewTunnelFails(w) ==
    /\ mode = "sni" /\ at[w] = "drop" /\ Goto(w, "report")
    /\ verdict' = [verdict EXCEPT ![w] = "untried"]
    /\ UNCHANGED <<mode, quality, cancelled, pending, conn, installed, reported, overwritten, target, burst, shared>>

Dropped == IF installed = None THEN conn ELSE [conn EXCEPT ![installed] = "closed"]

DropPeer(w) ==
    /\ at[w] = "drop" /\ Goto(w, "dial")
    /\ conn' = Dropped /\ installed' = None /\ shared' = Disturb(w)
    /\ UNCHANGED <<mode, quality, cancelled, pending, reported, overwritten, target, burst, verdict>>

\* No connection, not in time, or another status than 200: all is closed again.
DialFails(w) ==
    /\ at[w] = "dial" /\ ~Connects(target[w])
    /\ Goto(w, "close") /\ verdict' = [verdict EXCEPT ![w] = "fail"]
    /\ UNCHANGED <<mode, quality, cancelled, pending, conn, installed, reported, overwritten, target, burst, shared>>

\* The new connection takes the place of whatever another worker has installed
\* since the drop, and that one's drop function is lost.
Install(w) ==
    /\ at[w] = "dial" /\ Connects(target[w])
    /\ Goto(w, "fetch")
    /\ conn' = [conn EXCEPT ![target[w]] = "up"] /\ installed' = target[w]
    /\ overwritten' = overwritten \cup ({installed} \ {None})
    /\ shared' = Disturb(w)
    /\ UNCHANGED <<mode, quality, cancelled, pending, reported, target, burst, verdict>>

FetchFails(w) ==
    /\ at[w] = "fetch" /\ ~Passes
    /\ Goto(w, "close") /\ verdict' = [verdict EXCEPT ![w] = "fail"]
    /\ UNCHANGED <<mode, quality, cancelled, pending, conn, installed, reported, overwritten, target, burst, shared>>

FetchWorks(w) ==
    /\ at[w] = "fetch" /\ Passes /\ Goto(w, "ping")
    /\ UNCHANGED <<mode, quality, cancelled, pending, conn, installed, reported, overwritten, target, burst, verdict, shared>>

\* tunnelPing has no ping socket for a burst, the first or the second: it says
\* "not torn", with every echo lost and no round trip time.
PingFails(w) ==
    /\ at[w] = "ping" /\ burst[w].sent = 0 /\ Goto(w, "close")
    /\ verdict' = [verdict EXCEPT ![w] = "unmeasured"]
    /\ burst' = [burst EXCEPT ![w] = [NoEchoes EXCEPT !.down = burst[w].down]]
    /\ UNCHANGED <<mode, quality, cancelled, pending, conn, installed, reported, overwritten, target, shared>>

\* One echo of tunnelPing.  A late answer counts like an early one, and of a
\* burst only the number of unanswered echoes at its end matters.
Echo(w) ==
    LET b == burst[w]
        early == b.number = 1 /\ b.sent <= PingCount - TornTail
        answered == [b EXCEPT !.sent = @ + 1, !.silent = 0]
        unanswered == [b EXCEPT !.sent = @ + 1, !.silent = IF @ < TornTail THEN @ + 1 ELSE @]
    IN /\ at[w] = "ping" /\ b.sent < PingCount
       /\ \/ Passes /\ burst' = [burst EXCEPT ![w] = answered]
          \/ Passes /\ b.lost < MaxLost /\ burst' = [burst EXCEPT ![w] = [unanswered EXCEPT !.lost = @ + 1]]
          \/ ~Passes /\ burst' = [burst EXCEPT ![w] = 
                 [unanswered EXCEPT !.down = IF @ # "never" THEN @ ELSE IF early THEN "early" ELSE "late"]]
       /\ UNCHANGED <<mode, quality, cancelled, pending, conn, installed, reported, overwritten, at, target, verdict, shared>>

\* Seeded bug: one silent burst is enough.
DurabilityOneBurst(w) ==
    LET b == burst[w] IN
    /\ at[w] = "ping" /\ b.sent = PingCount /\ Goto(w, "close")
    /\ verdict' = [verdict EXCEPT ![w] = IF Teardown(b) THEN "torn" ELSE "ok"]
    /\ burst' = [burst EXCEPT ![w] = [NoEchoes EXCEPT !.down = b.down]]
    /\ UNCHANGED <<mode, quality, cancelled, pending, conn, installed, reported, overwritten, target, shared>>

\* teardown, and a second burst when the first one says torn.
Durability(w) ==
    LET b == burst[w] IN
    /\ at[w] = "ping" /\ b.sent = PingCount
    /\ \/ /\ Teardown(b) /\ b.number = 1
          /\ burst' = [burst EXCEPT ![w] = [b EXCEPT !.number = 2, !.sent = 0, !.silent = 0]]
          /\ UNCHANGED <<at, verdict>>
       \/ /\ ~Teardown(b) \/ b.number = 2
          /\ verdict' = [verdict EXCEPT ![w] = IF Teardown(b) THEN "torn" ELSE "ok"]
          /\ burst' = [burst EXCEPT ![w] = [NoEchoes EXCEPT !.down = b.down]]
          /\ Goto(w, "close")
    /\ UNCHANGED <<mode, quality, cancelled, pending, conn, installed, reported, overwritten, target, shared>>

\* Seeded bug: Close forgets the connection instead of dropping it.
CloseForgets(w) ==
    /\ at[w] = "close" /\ Goto(w, "report") /\ installed' = None
    /\ UNCHANGED <<mode, quality, cancelled, pending, conn, reported, overwritten, target, burst, verdict, shared>>

\* ProbeMasqueSni closes the tunnel of each SNI; the shared one stays.
CloseTunnel(w) ==
    /\ at[w] = "close" /\ Goto(w, "report")
    /\ IF mode = "sni" THEN conn' = Dropped /\ installed' = None ELSE UNCHANGED <<conn, installed>>
    /\ UNCHANGED <<mode, quality, cancelled, pending, reported, overwritten, target, burst, verdict, shared>>

Report(w) ==
    /\ at[w] = "report" /\ Goto(w, "idle")
    /\ reported' = [reported EXCEPT ![target[w]] = @ + 1]
    /\ target' = [target EXCEPT ![w] = None] /\ verdict' = [verdict EXCEPT ![w] = "none"]
    /\ burst' = [burst EXCEPT ![w] = NoEchoes] /\ shared' = [shared EXCEPT ![w] = FALSE]
    /\ UNCHANGED <<mode, quality, cancelled, pending, conn, installed, overwritten>>

WorkDone ==
    /\ \A w \in Workers : at[w] = "idle"
    /\ pending = {} \/ (mode = "sni" /\ cancelled)

\* The deferred Close of ProbeMasquePorts, after wg.Wait.
CloseShared ==
    /\ WorkDone /\ installed # None
    /\ conn' = Dropped /\ installed' = None
    /\ UNCHANGED <<mode, quality, cancelled, pending, reported, overwritten, work>>

Cancel ==
    /\ ~cancelled /\ ~WorkDone /\ cancelled' = TRUE
    /\ UNCHANGED <<mode, quality, pending, conn, installed, reported, overwritten, work>>

TearDown(t) ==
    /\ quality[t] = "cut" /\ conn[t] = "up" /\ conn' = [conn EXCEPT ![t] = "cut"]
    /\ UNCHANGED <<mode, quality, cancelled, pending, installed, reported, overwritten, work>>

Work(w) ==
    \/ Take(w) \/ NewTunnelFails(w) \/ DropPeer(w) \/ DialFails(w) \/ Install(w) \/ FetchFails(w)
    \/ FetchWorks(w) \/ PingFails(w) \/ Echo(w) \/ Durability(w) \/ CloseTunnel(w) \/ Report(w)

Next ==
    \/ \E w \in Workers : Work(w)
    \/ CloseShared \/ Cancel \/ \E t \in Targets : TearDown(t)

Spec == Init /\ [][Next]_vars

\* Dials, fetches and bursts all end by a timeout of their own.
FairSpec == Spec /\ WF_vars(CloseShared) /\ \A w \in Workers : WF_vars(Work(w))

-----------------------------------------------------------------------------
\* A verdict is about the target it is reported for, as long as no other
\* worker has swapped the connection: "works" was measured on a connection of
\* this target, "failed" means that it carries nothing or that the probe was
\* stopped, and "torn" is said of a connection that is dead by the end of the
\* first burst and of no connection that merely loses fewer echoes than two
\* tails (tunnel.go:290-302: "transient loss does not").  A burst without a ping
\* socket says nothing of the connection but that it has carried the fetch, even
\* when the burst before it found the connection dead.
VerdictIsOwn ==
    \A w \in Workers : (at[w] \in {"close", "report"} /\ ~shared[w]) =>
        LET q == quality[target[w]]
            down == burst[w].down
        IN /\ verdict[w] \in {"ok", "torn", "unmeasured"} => q \in {"passes", "cut"}
           /\ verdict[w] = "fail" => q # "passes" \/ cancelled
           /\ verdict[w] \in {"ok", "torn"} /\ down = "early" => verdict[w] = "torn"
           /\ verdict[w] = "torn" => down # "never"

IsOpen(t) == conn[t] \in {"up", "cut"}

\* An SNI probe holds one connection at a time and leaves none, however it
\* ends ("sequential to keep the memory profile flat", line 264).  A port
\* sweep leaves only those that a worker has overwritten.
ConnectionsAreClosed ==
    /\ mode = "sni" => overwritten = {} /\ Cardinality({t \in Targets : IsOpen(t)}) <= 1
    /\ \A t \in Targets : IsOpen(t) => installed = t \/ t \in overwritten
    /\ WorkDone /\ mode = "sni" => \A t \in Targets : ~IsOpen(t)

\* A probe ends, with one report for each target: the caller's progress reaches
\* its total, also when the probe is stopped in a port sweep.
RunEnds ==
    <>(/\ WorkDone /\ installed = None
       /\ \A t \in Targets : reported[t] = IF t \in pending THEN 0 ELSE 1)
================================================================================
