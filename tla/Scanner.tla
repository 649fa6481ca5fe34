-------------------------------- MODULE Scanner --------------------------------
(***************************************************************************)
(* The endpoint scan (internal/scanner): the slot that admits one scan at a*)
(* time, the two sweeps that find the ports a network lets through, the    *)
(* verification of every address, the worker pool they run on, and         *)
(* StopScan.                                                               *)
(*                                                                         *)
(* The variables after slot are the locals of the scan that holds the slot *)
(* and the package's globals.  One copy of them is enough because scans do *)
(* not overlap, which ImplementsScanSlot states.  Abstracted:              *)
(* what a tunnel does inside a handshake or a probe (it may succeed, time  *)
(* out, or be cut short by the context), the measured numbers, progress    *)
(* reports.  A tunnel that could not be created is a worker that takes no  *)
(* job.  The addresses of both phases are the same (sampleAddrs returns    *)
(* all of a short list).                                                   *)
(***************************************************************************)
EXTENDS Naturals, Sequences, FiniteSets

CONSTANTS
    Callers,    \* the threads that call Scan, once each
    Workers,    \* the tunnels of the pool
    Addresses,  \* how many addresses are scanned
    Primary,    \* primaryWarpPorts, numbered in the order of the list
    Extended,   \* extendedWarpPorts, likewise
    None        \* no caller

ASSUME ScannerAssumption ==
    /\ None \notin Callers
    /\ Workers # {} /\ Addresses \in Nat \ {0}
    /\ Primary \subseteq Nat /\ Primary # {}
    /\ Extended \subseteq Nat /\ Extended # {}

VARIABLES
    at,         \* per caller: where it is in Scan
    outcome,    \* per caller: what Scan returned
    final,      \* per caller: the final callbacks it has received
    slot,       \* scanCancel: the caller whose scan it would cancel
    stopped,    \* ctx of that scan is done
    fed,        \* how many jobs the pool has handed out
    worker,     \* per worker: its place, its job, the port it tries and those left
    found,      \* per worker: the endpoints that answered in its walk
    raceOver,   \* probePorts: the sweep's own context is done
    open,       \* probePorts: the published answer
    openPorts,  \* what the first phase found
    results,    \* the outcome of every address
    rows,       \* per address and verdict: how often OnResult was called
    cut         \* history: the endpoints whose handshake a context cut short

scanVars == <<at, outcome, final, slot, openPorts>>
walkVars == <<found, raceOver, open, cut>>
verifyVars == <<results, rows>>
vars == <<scanVars, stopped, fed, worker, walkVars, verifyVars>>

Jobs == 1 .. Addresses
Endpoints == Jobs \X Nat
Sweeps == {"primary", "extended"}
Active == {"setup", "release"} \cup Sweeps \cup {"verify"}

Free == [at |-> "free", job |-> 0, port |-> 0, left |-> {}]
AllFree == \A w \in Workers : worker[w] = Free
PoolDone == fed = Addresses /\ AllFree
Verdicts == {"ok", "failed"}
NoRows == [r \in Jobs \X Verdicts |-> 0]
PortsOf(endpoints) == {e[2] : e \in endpoints}
First(p, ports) == p \in ports /\ \A q \in ports : p <= q

------------------------------------------------------------------------------
Init ==
    /\ at = [c \in Callers |-> "idle"]
    /\ outcome = [c \in Callers |-> "none"]
    /\ final = [c \in Callers |-> << >>]
    /\ slot = None /\ stopped = FALSE
    /\ fed = 0 /\ worker = [w \in Workers |-> Free]
    /\ found = [w \in Workers |-> {}]
    /\ raceOver = FALSE /\ open = {} /\ cut = {}
    /\ openPorts = Primary
    /\ results = [j \in Jobs |-> "none"] /\ rows = NoRows

(***************************************************************************)
(* Scan, up to the pools.                                                  *)
(***************************************************************************)
Go(c, place) == at' = [at EXCEPT ![c] = place]

Enter(c) ==
    /\ at[c] = "idle" /\ slot = None
    /\ slot' = c /\ stopped' = FALSE
    /\ Go(c, "setup")
    /\ UNCHANGED <<outcome, final, openPorts, fed, worker, walkVars, verifyVars>>

\* Seeded bug: the deferred release is registered before the test.
RefuseReleases(c) ==
    /\ at[c] = "idle" /\ slot # None
    /\ Go(c, "returned")
    /\ outcome' = [outcome EXCEPT ![c] = "busy"]
    /\ slot' = None
    /\ UNCHANGED <<final, openPorts, stopped, fed, worker, walkVars, verifyVars>>

\* "a scan is already running": an error, and no callback.
Refuse(c) ==
    /\ at[c] = "idle" /\ slot # None
    /\ Go(c, "returned")
    /\ outcome' = [outcome EXCEPT ![c] = "busy"]
    /\ UNCHANGED <<final, slot, openPorts, stopped, fed, worker, walkVars, verifyVars>>

\* StopScan does nothing unless a scan holds the slot.
StopScan ==
    /\ slot # None
    /\ stopped' = TRUE
    /\ UNCHANGED <<scanVars, fed, worker, walkVars, verifyVars>>

\* Scan is about to return: its deferred release comes next.
Conclude(c, result, callbacks) ==
    /\ Go(c, "release")
    /\ outcome' = [outcome EXCEPT ![c] = result]
    /\ final' = [final EXCEPT ![c] = @ \o callbacks]

\* A bad key, bad targets, no route, no address; or, later, no tunnel at all.
Fails(c) ==
    /\ \/ at[c] = "setup"
       \/ at[c] \in Sweeps \cup {"verify"} /\ fed = 0 /\ AllFree
    /\ Conclude(c, "error", <<"OnError">>)
    /\ UNCHANGED <<slot, openPorts, stopped, fed, worker, walkVars, verifyVars>>

\* A new pool, over a new context that is done if the scan's is.
StartSweep(c, sweep) ==
    /\ Go(c, sweep)
    /\ fed' = 0 /\ raceOver' = FALSE /\ open' = {}
    /\ UNCHANGED <<outcome, final, slot, stopped, worker, found>>

SetupDone(c) ==
    /\ at[c] = "setup"
    /\ StartSweep(c, "primary")
    /\ openPorts' = Primary /\ cut' = {}
    /\ UNCHANGED verifyVars

(***************************************************************************)
(* The first phase: probePorts.                                            *)
(***************************************************************************)
SweepPorts == IF \E c \in Callers : at[c] = "primary" THEN Primary ELSE Extended
Sweeping == \E c \in Callers : at[c] \in Sweeps
Verifying == \E c \in Callers : at[c] = "verify"

Endpoint(w) == <<worker[w].job, worker[w].port>>
WalkOver == stopped \/ raceOver

\* A worker receives the next job of the pool.
TakeJob(w, place, ports) ==
    /\ worker[w] = Free /\ fed < Addresses
    /\ fed' = fed + 1
    /\ worker' = [worker EXCEPT ![w] =
                    [at |-> place, job |-> fed + 1, port |-> 0, left |-> ports]]

\* It turns to its next port.
TakePort(w, place) ==
    \E p \in worker[w].left :
        /\ First(p, worker[w].left)
        /\ worker' = [worker EXCEPT ![w].at = place, ![w].port = p, ![w].left = @ \ {p}]

TakeWalk(w) ==
    /\ Sweeping
    /\ TakeJob(w, "walk", SweepPorts)
    /\ found' = [found EXCEPT ![w] = {}]
    /\ UNCHANGED <<scanVars, stopped, raceOver, open, cut, verifyVars>>

\* Before each port the worker looks at the context.
GiveUpWalk(w) ==
    /\ worker[w].at = "walk" /\ WalkOver
    /\ worker' = [worker EXCEPT ![w] = Free]
    /\ UNCHANGED <<scanVars, stopped, fed, walkVars, verifyVars>>

TryPort(w) ==
    /\ worker[w].at = "walk" /\ ~WalkOver
    /\ TakePort(w, "handshake")
    /\ UNCHANGED <<scanVars, stopped, fed, walkVars, verifyVars>>

\* The walk goes on to the next port, or is complete.
NextPort(w, answers) ==
    worker' = [worker EXCEPT ![w] =
        IF @.left # {} THEN [@ EXCEPT !.at = "walk"]
        ELSE IF answers = {} THEN Free
        ELSE [@ EXCEPT !.at = "publish"]]

\* The handshake is seen to be done, perhaps just after the context ended.
PortAnswers(w) ==
    /\ worker[w].at = "handshake"
    /\ found' = [found EXCEPT ![w] = @ \cup {Endpoint(w)}]
    /\ NextPort(w, found'[w])
    /\ UNCHANGED <<scanVars, stopped, fed, raceOver, open, cut, verifyVars>>

PortTimesOut(w) ==
    /\ worker[w].at = "handshake"
    /\ NextPort(w, found[w])
    /\ UNCHANGED <<scanVars, stopped, fed, walkVars, verifyVars>>

\* The same result, but the port was not given its time.
PortIsCut(w) ==
    /\ worker[w].at = "handshake" /\ WalkOver
    /\ cut' = cut \cup {Endpoint(w)}
    /\ NextPort(w, found[w])
    /\ UNCHANGED <<scanVars, stopped, fed, found, raceOver, open, verifyVars>>

\* Seeded bug: the answers are merged.
PublishMerges(w) ==
    /\ worker[w].at = "publish"
    /\ open' = open \cup found[w]
    /\ raceOver' = TRUE
    /\ worker' = [worker EXCEPT ![w] = Free]
    /\ UNCHANGED <<scanVars, stopped, fed, found, cut, verifyVars>>

\* The lock section, and the cancel() that follows it: in between no other
\* worker could change open.
Publish(w) ==
    /\ worker[w].at = "publish"
    /\ open' = IF open = {} THEN found[w] ELSE open
    /\ raceOver' = TRUE
    /\ worker' = [worker EXCEPT ![w] = Free]
    /\ UNCHANGED <<scanVars, stopped, fed, found, cut, verifyVars>>

\* No primary port got through: the alternates, also when the scan is stopped.
SweepAgain(c) ==
    /\ at[c] = "primary" /\ PoolDone /\ open = {}
    /\ StartSweep(c, "extended")
    /\ UNCHANGED <<openPorts, cut, verifyVars>>

SweepOver(c) ==
    \/ at[c] = "primary" /\ PoolDone /\ open # {}
    \/ at[c] = "extended" /\ PoolDone

PhaseOver(c) == SweepOver(c) \/ (at[c] = "verify" /\ PoolDone)

\* Seeded bug: the early return misses the release.
CancelledKeepsSlot(c) ==
    /\ PhaseOver(c) /\ stopped
    /\ Go(c, "returned")
    /\ outcome' = [outcome EXCEPT ![c] = "cancelled"]
    /\ UNCHANGED <<final, slot, openPorts, stopped, fed, worker, walkVars, verifyVars>>

\* After either phase, if the context is done: no callback.
Cancelled(c) ==
    /\ PhaseOver(c) /\ stopped
    /\ Conclude(c, "cancelled", << >>)
    /\ UNCHANGED <<slot, openPorts, stopped, fed, worker, walkVars, verifyVars>>

NoPortReachable(c) ==
    /\ SweepOver(c) /\ ~stopped /\ open = {}
    /\ Conclude(c, "error", <<"OnError">>)
    /\ UNCHANGED <<slot, openPorts, stopped, fed, worker, walkVars, verifyVars>>

(***************************************************************************)
(* The second phase.                                                       *)
(***************************************************************************)

StartVerify(c) ==
    /\ SweepOver(c) /\ ~stopped /\ open # {}
    /\ Go(c, "verify")
    /\ openPorts' = PortsOf(open)
    /\ fed' = 0
    /\ results' = [j \in Jobs |-> "none"] /\ rows' = NoRows
    /\ UNCHANGED <<outcome, final, slot, stopped, worker, walkVars>>

\* tunnelProbe walks over the ports that were found.
TakeTarget(w) ==
    /\ Verifying
    /\ TakeJob(w, "target", openPorts)
    /\ UNCHANGED <<scanVars, stopped, walkVars, verifyVars>>

TryEndpoint(w) ==
    /\ worker[w].at = "target" /\ ~stopped
    /\ TakePort(w, "probe")
    /\ UNCHANGED <<scanVars, stopped, fed, walkVars, verifyVars>>

\* results[i] = r, under the lock; OnResult comes after the unlock.
Store(w, verdict) ==
    /\ results' = [results EXCEPT ![worker[w].job] = verdict]
    /\ worker' = [worker EXCEPT ![w].at = verdict, ![w].left = {}]
    /\ UNCHANGED <<scanVars, stopped, fed, walkVars, rows>>

\* The context is done: the target is given up, and reported like a failure.
GiveUpTarget(w) == worker[w].at = "target" /\ stopped /\ Store(w, "failed")

ProbeSucceeds(w) == worker[w].at = "probe" /\ Store(w, "ok")

\* A timeout, a fetch without an answer, or the context.
ProbeFails(w) ==
    /\ worker[w].at = "probe"
    /\ IF worker[w].left = {} THEN Store(w, "failed")
       ELSE /\ worker' = [worker EXCEPT ![w].at = "target"]
            /\ UNCHANGED <<scanVars, stopped, fed, walkVars, verifyVars>>

OnResult(w) ==
    /\ worker[w].at \in Verdicts
    /\ rows' = [rows EXCEPT ![<<worker[w].job, worker[w].at>>] = @ + 1]
    /\ worker' = [worker EXCEPT ![w] = Free]
    /\ UNCHANGED <<scanVars, stopped, fed, walkVars, results>>

\* Seeded bug: the pool returns when the last job has been handed out.
SummaryEarly(c) ==
    /\ at[c] = "verify" /\ fed = Addresses /\ ~stopped
    /\ Conclude(c, "done", <<"OnDone">>)
    /\ UNCHANGED <<slot, openPorts, stopped, fed, worker, walkVars, verifyVars>>

\* bestResult over results; the summary goes to OnDone.
Summary(c) ==
    /\ at[c] = "verify" /\ PoolDone /\ ~stopped
    /\ Conclude(c, "done", <<"OnDone">>)
    /\ UNCHANGED <<slot, openPorts, stopped, fed, worker, walkVars, verifyVars>>

\* The deferred function, and the return.
Release(c) ==
    /\ at[c] = "release"
    /\ slot' = None
    /\ Go(c, "returned")
    /\ UNCHANGED <<outcome, final, openPorts, stopped, fed, worker, walkVars, verifyVars>>

------------------------------------------------------------------------------
Scan(c) ==
    \/ Fails(c) \/ SetupDone(c) \/ SweepAgain(c) \/ Cancelled(c) \/ NoPortReachable(c)
    \/ StartVerify(c) \/ Summary(c) \/ Release(c)

Work(w) ==
    \/ TakeWalk(w) \/ GiveUpWalk(w) \/ TryPort(w)
    \/ PortAnswers(w) \/ PortTimesOut(w) \/ PortIsCut(w) \/ Publish(w)
    \/ TakeTarget(w) \/ TryEndpoint(w) \/ GiveUpTarget(w)
    \/ ProbeSucceeds(w) \/ ProbeFails(w) \/ OnResult(w)

Next ==
    \/ \E c \in Callers : Enter(c) \/ Refuse(c) \/ Scan(c)
    \/ \E w \in Workers : Work(w)
    \/ StopScan

Spec == Init /\ [][Next]_vars

\* A scan that was called runs on, and every handshake and probe has a timeout;
\* nobody has to call Scan or StopScan.
FairSpec ==
    /\ Spec
    /\ \A c \in Callers : WF_vars(Scan(c))
    /\ \A w \in Workers : WF_vars(Work(w))

------------------------------------------------------------------------------
WorkerPlaces ==
    {"free", "walk", "handshake", "publish", "target", "probe", "ok", "failed"}

TypeOK ==
    /\ at \in [Callers -> Active \cup {"idle", "returned"}]
    /\ outcome \in [Callers -> {"none", "busy", "error", "cancelled", "done"}]
    /\ final \in [Callers -> {<< >>, <<"OnDone">>, <<"OnError">>}]
    /\ slot \in Callers \cup {None} /\ stopped \in BOOLEAN
    /\ fed \in 0 .. Addresses
    /\ worker \in [Workers -> [at : WorkerPlaces, job : Jobs \cup {0},
                               port : Nat, left : SUBSET Nat]]
    /\ found \in [Workers -> SUBSET Endpoints] /\ raceOver \in BOOLEAN
    /\ open \subseteq Endpoints /\ cut \subseteq Endpoints /\ openPorts \subseteq Nat
    /\ results \in [Jobs -> Verdicts \cup {"none"}]
    /\ rows \in [Jobs \X Verdicts -> Nat]

\* "a scan holds scanMu for its whole lifetime, so plain vars are safe"
\* (tunnel.go lines 39-40): whatever callers are refused or return meanwhile,
\* the scan that runs is the one in the slot, and no worker outlives it: the
\* next scan finds the globals to itself.
OneScanAtATime ==
    /\ \A c \in Callers : at[c] \in Active => slot = c
    /\ slot # None => at[slot] \in Active
    /\ slot = None => AllFree

Slot == INSTANCE Slot WITH
    holder <- slot,
    active <- {c \in Callers : at[c] \in Active},
    helpers <- {w \in Workers : worker[w] # Free},
    cancelled <- slot # None /\ stopped

\* Scan implements the slot: a call that is refused, a StopScan at any moment and
\* an early return included, nobody is let in while a scan or one of its workers
\* still runs, only the scan's own return frees the slot, and a StopScan is
\* neither forgotten nor inherited by the next scan (scanner.go 79-106).
ImplementsScanSlot == Slot!Spec

\* "the answer stays one address's port list rather than a mix" (discovery.go
\* lines 70-72), and all of it: no scan verifies with ports of two addresses, or
\* with a walk that the race or StopScan has cut short.
AnswerIsOneWholeWalk ==
    Verifying =>
        \E j \in Jobs :
            /\ \A e \in open : e[1] = j
            /\ \A e \in cut : e[1] # j
            /\ open # {} /\ openPorts = PortsOf(open)

Reported(j) ==
    /\ results[j] \in Verdicts
    /\ \A v \in Verdicts : rows[<<j, v>>] = IF v = results[j] THEN 1 ELSE 0

\* Workers take jobs, lose the context and finish in any order; when OnDone is
\* called every address has had its OnResult, exactly one, with the verdict that
\* the summary counts.
SummaryMatchesRows ==
    [][\A c \in Callers :
        outcome'[c] = "done" /\ outcome[c] # "done" => \A j \in Jobs : Reported(j)]_vars

\* A scan ends, with success, failure or a StopScan at any moment, and then
\* another can start: the slot is never lost.
ScanEnds == \A c \in Callers : at[c] = "setup" ~> at[c] = "returned" /\ slot # c
==============================================================================
