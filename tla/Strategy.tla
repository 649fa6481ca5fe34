-------------------------------- MODULE Strategy --------------------------------
(***************************************************************************)
(* The connection strategy engine (internal/strategy): the slot that       *)
(* ProbeNetwork and TestSni share, the MASQUE and the WireGuard stage, the *)
(* ladder that chooses a candidate, the profile store and StopProbe.       *)
(*                                                                         *)
(* The variables after slot are the locals of the probe that holds the     *)
(* slot; one copy is enough because probes do not overlap, which           *)
(* ImplementsProbeSlot states.  A call that is refused, or finds no        *)
(* config, changes nothing and is no step.  Abstracted: API check and the  *)
(* stages' progress reports, how a port or an endpoint is measured (see    *)
(* ProbeTunnel and Scanner), and the numbers but for the few that the      *)
(* ranking tells apart.  A torn copy of two candidates that are appended   *)
(* at the same moment is left out; the lost one is not.                    *)
(***************************************************************************)
EXTENDS Integers, Sequences, FiniteSets, Functions

CONSTANTS
    Callers,    \* the threads that call ProbeNetwork or TestSni
    Networks,   \* the networks that have profiles
    Ports,      \* MasqueEndpointPorts
    Sweeps,     \* how many SNIs the MASQUE stage sweeps the ports with
    Endpoints,  \* the WireGuard endpoints of the sampled scan
    Snis,       \* SniTestCandidates
    Masque, Wg, \* what a probe may measure: the candidates of each protocol
    MaxProbes,  \* bound of the model: probes in all
    None        \* no caller, no candidate

\* Latency in ms, zero if unmeasured, and bounded by the timeouts, which are far
\* below what the ranking takes for infinite; loss in percent, which only the
\* WireGuard scan passes on.
Slowest == 1000000000
Measurements(proto, losses) ==
    [proto : {proto}, torn : BOOLEAN, rtt : 0 .. Slowest - 1, loss : losses]

ASSUME StrategyAssumption ==
    /\ None \notin Callers /\ Sweeps \in Nat /\ MaxProbes \in Nat
    /\ Masque \subseteq Measurements("masque", {0}) /\ Wg \subseteq Measurements("wg", 0 .. 100)
    /\ None \notin Masque \cup Wg

VARIABLES
    at,         \* per caller: where its call is
    slot,       \* probeCancel: the caller whose probe it would cancel
    stopped,    \* the context of that probe is done
    job,        \* its arguments: kind, network, preferSpeed, and its number
    sweep,      \* MASQUE sweeps begun
    left,       \* what the stage has not reported yet
    appending,  \* appends to decision.Candidates under way, each with the slice it read
    candidates, \* decision.Candidates
    shown,      \* what OnCandidate has told the application
    chosen,     \* decision.Chosen, or the best SNI
    profiles,   \* network_profiles.json: per network the number of the probe it stores
    announced,  \* history: per network the probe whose OnDone came last
    forgotten,  \* history: per network the last probe whose profile was forgotten
    spoilt      \* history: a write of the profiles was cut short

run == <<job, sweep, left, appending, candidates, shown, chosen>>
store == <<profiles, announced, forgotten, spoilt>>
vars == <<at, slot, stopped, run, store>>

ProbeRTTLimit == 600

NoJob == [kind |-> "none", network |-> None, preferSpeed |-> FALSE, number |-> 0]
NoProfiles == [n \in Networks |-> 0]

-----------------------------------------------------------------------------
(* Ranking.  Measured r: unmeasured counts as slowest.                     *)

Measured(r) == IF r = 0 THEN Slowest ELSE r

\* Seeded bug: the ranking looks at the latency before the teardown.
LessLatencyFirst(a, b) ==
    Measured(a.rtt) < Measured(b.rtt) \/ (a.rtt = b.rtt /\ b.torn /\ ~a.torn)

LessCandidate(a, b) ==
    \/ ~a.torn /\ b.torn
    \/ a.torn = b.torn /\ a.loss < b.loss
    \/ a.torn = b.torn /\ a.loss = b.loss /\ Measured(a.rtt) < Measured(b.rtt)

\* The first of the least, in the order of the list.
BestCandidate(list, proto) ==
    LET of == {i \in DOMAIN list : list[i].proto = proto}
        least == {i \in of : \A j \in of : /\ ~LessCandidate(list[j], list[i])
                                           /\ j < i => LessCandidate(list[i], list[j])}
    IN IF of = {} THEN None ELSE list[CHOOSE i \in least : TRUE]

PassesLadder(c) == c # None /\ ~c.torn /\ c.rtt <= ProbeRTTLimit

Decision(list, preferSpeed) ==
    LET m == BestCandidate(list, "masque")
        w == BestCandidate(list, "wg")
    IN CASE preferSpeed /\ m # None /\ w # None ->
              IF w.rtt > 0 /\ (m.rtt = 0 \/ w.rtt < m.rtt) THEN w ELSE m
         [] PassesLadder(m) /\ ~(preferSpeed /\ w # None) -> m
         [] PassesLadder(w) /\ ~PassesLadder(m) /\ ~(preferSpeed /\ m # None) -> w
         [] OTHER -> IF m # None THEN m ELSE w

\* ScanActivity's order of the rows it shows (all of them working).
RowBefore(a, b) ==
    \/ ~a.torn /\ b.torn
    \/ a.torn = b.torn /\ a.loss < b.loss
    \/ a.torn = b.torn /\ a.loss = b.loss /\ a.rtt > 0 /\ (b.rtt = 0 \/ a.rtt < b.rtt)

-----------------------------------------------------------------------------
Goto(c, place) == at' = [at EXCEPT ![c] = place]

\* The locals before a probe has set them, and when it has returned.
Fresh == /\ sweep' = 0 /\ appending' = {}
         /\ candidates' = <<>> /\ shown' = {} /\ chosen' = None

Init ==
    /\ at = [c \in Callers |-> "idle"] /\ slot = None /\ stopped = FALSE
    /\ job = NoJob /\ sweep = 0 /\ left = {} /\ appending = {}
    /\ candidates = <<>> /\ shown = {} /\ chosen = None
    /\ profiles = NoProfiles /\ announced = NoProfiles /\ forgotten = NoProfiles /\ spoilt = FALSE

\* The lock section of ProbeNetwork and TestSni.
Enter(c, j) ==
    /\ at[c] = "idle" /\ slot = None /\ j.number <= MaxProbes
    /\ slot' = c /\ stopped' = FALSE /\ job' = j
    /\ Goto(c, IF j.kind = "probe" THEN "masque" ELSE "sni")
    /\ left' = (IF j.kind = "probe" THEN {} ELSE Snis)
    /\ Fresh
    /\ UNCHANGED store

\* The function returns; its locals are gone.
Leave(c) ==
    /\ Goto(c, "release") /\ left' = {} /\ Fresh
    /\ job' = [NoJob EXCEPT !.number = job.number]

\* Seeded bug: StopProbe also gives the slot back.
StopProbeFreesSlot ==
    /\ slot # None /\ slot' = None /\ stopped' = TRUE
    /\ UNCHANGED <<at, run, store>>

StopProbe ==
    /\ slot # None /\ ~stopped /\ stopped' = TRUE
    /\ UNCHANGED <<at, slot, run, store>>

\* StopScan, which the application calls before StopProbe: the scan of the stage
\* begins with no other endpoint.  One it is measuring may still succeed.
StopScan ==
    /\ \E c \in Callers : at[c] = "wg"
    /\ \E begun \in SUBSET left : left' = begun
    /\ UNCHANGED <<at, slot, stopped, job, sweep, appending, candidates, shown, chosen, store>>

StageOver == left = {} /\ appending = {}

\* The next sweep of the ports, one per SNI; none when the config carries no
\* MASQUE device or the context is done.
SweepPorts(c) ==
    /\ at[c] = "masque" /\ StageOver /\ sweep < Sweeps /\ ~stopped
    /\ sweep' = sweep + 1 /\ left' = Ports
    /\ UNCHANGED <<at, slot, stopped, job, appending, candidates, shown, chosen, store>>

\* Seeded bug: an error of the MASQUE stage returns without the deferred release.
FailKeepsSlot(c) ==
    /\ at[c] = "masque" /\ StageOver /\ Goto(c, "idle")
    /\ UNCHANGED <<slot, stopped, run, store>>

\* OnError: the credentials cannot be parsed, or no tunnel can be made.
MasqueFails(c) ==
    /\ \/ at[c] = "masque" /\ StageOver /\ sweep < Sweeps /\ (sweep = 0 \/ ~stopped)
       \/ at[c] = "sni" /\ left = Snis
    /\ Leave(c) /\ UNCHANGED <<slot, stopped, store>>

\* The WireGuard stage does not look at the context.
StartScan(c) ==
    /\ at[c] = "masque" /\ StageOver /\ (sweep \in {0, Sweeps} \/ stopped)
    /\ Goto(c, "wg") /\ left' = Endpoints
    /\ UNCHANGED <<slot, stopped, job, sweep, appending, candidates, shown, chosen, store>>

\* No WireGuard device, a scan already running, or no port reachable.
SkipScan(c) ==
    /\ at[c] = "masque" /\ StageOver /\ (sweep \in {0, Sweeps} \/ stopped)
    /\ Goto(c, "check")
    /\ UNCHANGED <<slot, stopped, run, store>>

\* A worker reports: a target that failed (or was skipped), or a candidate
\* whose append to the shared slice takes two steps without a lock.
TargetFails(c, t) ==
    /\ at[c] \in {"masque", "wg"} /\ t \in left /\ left' = left \ {t}
    /\ UNCHANGED <<at, slot, stopped, job, sweep, appending, candidates, shown, chosen, store>>

ReadSlice(c, t) ==
    /\ at[c] \in {"masque", "wg"} /\ t \in left /\ left' = left \ {t}
    /\ \E x \in IF at[c] = "masque" THEN Masque ELSE Wg :
           appending' = appending \cup {[target |-> t, new |-> x, slice |-> candidates]}
    /\ UNCHANGED <<at, slot, stopped, job, sweep, candidates, shown, chosen, store>>

\* ... and then OnCandidate.
WriteSlice(c) ==
    /\ at[c] \in {"masque", "wg"}
    /\ \E x \in appending :
        /\ appending' = appending \ {x}
        /\ candidates' = Append(x.slice, x.new) /\ shown' = shown \cup {x.new}
    /\ UNCHANGED <<at, slot, stopped, job, sweep, left, chosen, store>>

ScanOver(c) ==
    /\ at[c] = "wg" /\ StageOver /\ Goto(c, "check")
    /\ UNCHANGED <<slot, stopped, run, store>>

\* TestSni: one SNI after the other, none once the context is done.
SniFails(c, s) ==
    /\ at[c] = "sni" /\ ~stopped /\ s \in left /\ left' = left \ {s}
    /\ UNCHANGED <<at, slot, stopped, job, sweep, appending, candidates, shown, chosen, store>>

\* Seeded bug: the best SNI is the last one that works.
SniWorksLastWins(c, s, x) ==
    /\ at[c] = "sni" /\ ~stopped /\ s \in left /\ left' = left \ {s}
    /\ shown' = shown \cup {x} /\ chosen' = x
    /\ UNCHANGED <<at, slot, stopped, job, sweep, appending, candidates, store>>

SniWorks(c, s, x) ==
    /\ at[c] = "sni" /\ ~stopped /\ s \in left /\ left' = left \ {s}
    /\ shown' = shown \cup {x}
    /\ chosen' = IF chosen = None \/ LessCandidate(x, chosen) THEN x ELSE chosen
    /\ UNCHANGED <<at, slot, stopped, job, sweep, appending, candidates, store>>

\* A probe that was stopped returns without OnDone and without OnError.
Cancelled(c) ==
    /\ at[c] \in {"check", "sni"} /\ stopped /\ Leave(c)
    /\ UNCHANGED <<slot, stopped, store>>

SniOver(c) ==
    /\ at[c] = "sni" /\ left = {} /\ ~stopped /\ Goto(c, "done")
    /\ UNCHANGED <<slot, stopped, run, store>>

Decide(c) ==
    /\ at[c] = "check" /\ ~stopped
    /\ chosen' = Decision(candidates, job.preferSpeed)
    /\ Goto(c, IF job.network = None THEN "done" ELSE "save")
    /\ UNCHANGED <<slot, stopped, job, sweep, left, appending, candidates, shown, store>>

\* SaveNetworkProfile, under profilesMu: the file is read (a corrupt one as
\* empty) and rewritten in place.  An error may leave nothing of it.
SaveProfile(c) ==
    /\ at[c] = "save" /\ Goto(c, "done")
    /\ profiles' = [profiles EXCEPT ![job.network] = job.number]
    /\ UNCHANGED <<slot, stopped, run, announced, forgotten, spoilt>>

\* Seeded bug: OnDone is called whatever becomes of the profile.
SaveFailsIgnored(c) ==
    /\ at[c] = "save" /\ Goto(c, "done")
    /\ UNCHANGED <<slot, stopped, run, store>>

SaveFails(c) ==
    /\ at[c] = "save" /\ Leave(c)
    /\ \/ UNCHANGED <<profiles, spoilt>>
       \/ profiles' = NoProfiles /\ spoilt' = TRUE
    /\ UNCHANGED <<slot, stopped, announced, forgotten>>

OnDone(c) ==
    /\ at[c] = "done" /\ Leave(c)
    /\ announced' = IF job.kind = "probe" /\ job.network # None
                    THEN [announced EXCEPT ![job.network] = job.number] ELSE announced
    /\ UNCHANGED <<slot, stopped, profiles, forgotten, spoilt>>

\* The deferred function.
Release(c) ==
    /\ at[c] = "release" /\ Goto(c, "idle") /\ slot' = None
    /\ stopped' = FALSE /\ UNCHANGED <<run, store>>

\* The service does not trust the profile of a network it could not start on.
ForgetNetworkProfile(n) ==
    /\ profiles[n] # 0
    /\ profiles' = [profiles EXCEPT ![n] = 0]
    /\ forgotten' = [forgotten EXCEPT ![n] = profiles[n]]
    /\ UNCHANGED <<at, slot, stopped, run, announced, spoilt>>

\* Its write fails too: the file is as it was, which is no step, or is lost.
ForgetFails(n) ==
    /\ profiles[n] # 0
    /\ profiles' = NoProfiles /\ spoilt' = TRUE
    /\ UNCHANGED <<at, slot, stopped, run, announced, forgotten>>

\* The process is killed, perhaps while it rewrites the file, to save a profile
\* or to forget one.
Kill ==
    /\ \E c \in Callers : at[c] # "idle"
    /\ at' = [c \in Callers |-> "idle"] /\ slot' = None
    /\ \/ UNCHANGED <<profiles, spoilt>>
       \/ /\ profiles # NoProfiles \/ \E c \in Callers : at[c] = "save"
          /\ profiles' = NoProfiles /\ spoilt' = TRUE
    /\ stopped' = FALSE /\ left' = {} /\ Fresh
    /\ job' = [NoJob EXCEPT !.number = job.number]
    /\ UNCHANGED <<announced, forgotten>>

Jobs == [kind : {"probe"}, network : Networks \cup {None}, preferSpeed : BOOLEAN, number : {job.number + 1}]
        \cup [kind : {"sni"}, network : {None}, preferSpeed : {FALSE}, number : {job.number + 1}]

Stages(c) ==
    \/ SweepPorts(c) \/ StartScan(c) \/ SkipScan(c) \/ MasqueFails(c) \/ WriteSlice(c) \/ ScanOver(c)
    \/ \E t \in left : TargetFails(c, t) \/ ReadSlice(c, t) \/ SniFails(c, t)
                       \/ \E x \in Masque : SniWorks(c, t, x)

Proceed(c) ==
    \/ Stages(c)
    \/ Cancelled(c) \/ SniOver(c) \/ Decide(c) \/ SaveProfile(c) \/ SaveFails(c) \/ OnDone(c) \/ Release(c)

Next ==
    \/ \E c \in Callers : Proceed(c) \/ \E j \in Jobs : Enter(c, j)
    \/ StopProbe \/ StopScan \/ Kill
    \/ \E n \in Networks : ForgetNetworkProfile(n) \/ ForgetFails(n)

Spec == Init /\ [][Next]_vars

\* Every measurement ends by itself or by its timeout, so a probe goes on.
FairSpec == Spec /\ \A c \in Callers : WF_vars(Proceed(c))

-----------------------------------------------------------------------------
\* One probe runs at a time and the slot is the one StopProbe would cancel:
\* the callbacks, the MASQUE credentials (a package variable) and the one
\* copy of the locals in this module rely on it (lines 93-105, snitest.go:47).
OneProbeAtATime == \A c \in Callers : at[c] # "idle" => slot = c

Slot == INSTANCE Slot WITH
    holder <- slot,
    active <- {c \in Callers : at[c] # "idle"},
    helpers <- appending,
    cancelled <- slot # None /\ stopped

\* Until the process is killed, ProbeNetwork and TestSni implement the slot they
\* share: whichever stage fails and whenever StopProbe comes, no call is let in
\* while one runs or its appends are under way, only the call itself frees the
\* slot, and a StopProbe is neither forgotten between the stages nor inherited by
\* the next call (strategy.go 64-106, snitest.go 47-60).
ImplementsProbeSlot == Slot!Init /\ [][Kill \/ Slot!Next]_(Slot!slotVars)

\* "Decided AND saved" (line 195): the decision OnDone has announced for a
\* network is in the store, or a later one is, unless it has been forgotten;
\* neither a failed or cancelled probe nor one for another network loses it.
\* Excepted: a write of the one file that is cut short, which loses all.
DecidedAndSaved ==
    ~spoilt => \A n \in Networks : announced[n] <= profiles[n] \/ announced[n] <= forgotten[n]

\* a answered faster than b; a's tunnel was the steadier one.
Faster(a, b) == a.rtt > 0 /\ (b.rtt = 0 \/ a.rtt < b.rtt)
Steadier(a, b) == (~a.torn /\ b.torn) \/ (a.torn = b.torn /\ a.loss < b.loss)

\* What can be said for the choice, over every list the stages can leave behind,
\* lost appends included.  Something is chosen if anything works, and it has
\* been shown.  Without preferSpeed: if a candidate is measured, stable, lossless
\* and under the limit, what is chosen passes the ladder, and it is of MASQUE if
\* such a candidate is (lines 90-91).  With preferSpeed: not that "the lowest-RTT
\* working candidate wins regardless of protocol", as lines 88-89 say, for the
\* code compares the two champions of a ranking by teardown and loss first; but
\* whatever is faster than the choice was passed over for a steadier candidate
\* of its own protocol, and for no other reason.
ChoiceIsJustified ==
    \A c \in Callers : (at[c] \in {"save", "done"} /\ job.kind = "probe") =>
        LET listed == Range(candidates)
            good == {x \in listed : ~x.torn /\ x.loss = 0 /\ x.rtt \in 1 .. ProbeRTTLimit}
        IN /\ (chosen = None) <=> (listed = {})
           /\ chosen = None \/ chosen \in shown
           /\ ~job.preferSpeed /\ good # {} => PassesLadder(chosen)
           /\ ~job.preferSpeed /\ (\E x \in good : x.proto = "masque") => chosen.proto = "masque"
           /\ job.preferSpeed =>
                  \A x \in listed : Faster(x, chosen) =>
                      \E y \in listed : y.proto = x.proto /\ Steadier(y, x)

\* The SNI that TestSni announces as best heads the list the application
\* shows: no row it has been told of sorts before it, although Go and Kotlin
\* each have a ranking of their own (snitest.go:101, ScanActivity.kt:440-448).
BestSniHeadsTheList ==
    \A c \in Callers : (at[c] = "done" /\ job.kind = "sni") =>
        /\ (chosen = None) <=> (shown = {})
        /\ \A x \in shown : ~RowBefore(x, chosen)

\* Every probe gives the slot back, whichever stage fails and whenever it is
\* stopped: otherwise each later one is refused until the process ends.
ProbeEnds == \A c \in Callers : (slot = c) ~> (slot # c)
================================================================================
