--------------------------- MODULE ProbeTunnel_proofs ---------------------------
(***************************************************************************)
(* Proofs about ProbeTunnel, for any targets, workers and bursts.          *)
(***************************************************************************)
EXTENDS ProbeTunnel, FiniteSetTheorems, TLAPS

Places == {"idle", "drop", "dial", "fetch", "ping", "close", "report"}

Types ==
    /\ mode \in {"sni", "ports"} /\ pending \subseteq Targets
    /\ conn \in [Targets -> {"none", "up", "cut", "closed"}]
    /\ installed \in Targets \cup {None} /\ overwritten \subseteq Targets
    /\ at \in [Workers -> Places] /\ target \in [Workers -> Targets \cup {None}]

\* A worker that is not idle has a target.
TargetFits == \A w \in Workers : at[w] # "idle" => target[w] \in Targets

\* An open connection is installed, or its drop function was lost.
OpenIsHeld == \A t \in Targets : IsOpen(t) => installed = t \/ t \in overwritten

\* The SNIs are probed one after the other,
OneAtATime ==
    mode = "sni" => \A v, w \in Workers : at[v] # "idle" /\ at[w] # "idle" => v = w

\* and a tunnel has a connection only between the handshake and its Close.
HeldWhileMeasuring ==
    mode = "sni" =>
        /\ overwritten = {}
        /\ (\A w \in Workers : at[w] \notin {"fetch", "ping", "close"}) => installed = None

IInv == Types /\ TargetFits /\ OpenIsHeld /\ OneAtATime /\ HeldWhileMeasuring

\* What dropping the peer does to the connections.
LEMMA DroppedFacts ==
    ASSUME Types, OpenIsHeld, conn' = Dropped, installed' = None
    PROVE  /\ conn' \in [Targets -> {"none", "up", "cut", "closed"}]
           /\ \A t \in Targets : IsOpen(t)' => t \in overwritten
<1>1. CASE installed = None
  BY <1>1, ProbeTunnelAssumption DEF Types, OpenIsHeld, Dropped, IsOpen
<1>2. CASE installed # None
  <2>1. installed \in Targets /\ conn' = [conn EXCEPT ![installed] = "closed"]
    BY <1>2 DEF Types, Dropped
  <2>2. ASSUME NEW t \in Targets, IsOpen(t)' PROVE t \in overwritten
    <3>1. t # installed /\ conn'[t] = conn[t]
      BY <2>1, <2>2 DEF Types, IsOpen
    <3> QED
      BY <2>2, <3>1 DEF OpenIsHeld, IsOpen
  <2> QED
    BY <2>1, <2>2 DEF Types
<1> QED
  BY <1>1, <1>2

LEMMA InitIInv == Init => IInv
<1> SUFFICES ASSUME Init PROVE IInv
  OBVIOUS
<1>1. Types /\ TargetFits
  BY DEF Init, Types, TargetFits, Places
<1>2. OpenIsHeld
  BY DEF Init, OpenIsHeld, IsOpen
<1>3. OneAtATime /\ HeldWhileMeasuring
  BY DEF Init, OneAtATime, HeldWhileMeasuring
<1> QED
  BY <1>1, <1>2, <1>3 DEF IInv

\* A worker that goes on to another place and leaves the tunnel alone.
LEMMA MoveKeeps ==
    ASSUME IInv, NEW w \in Workers, NEW place \in Places,
           at[w] # "idle", at' = [at EXCEPT ![w] = place],
           UNCHANGED <<mode, pending, conn, installed, overwritten>>,
           target' = target \/ (place = "idle" /\ target' = [target EXCEPT ![w] = None]),
           mode = "sni" /\ at[w] \in {"fetch", "ping", "close"} => place \in {"fetch", "ping", "close"}
    PROVE  IInv'
<1>1. Types'
  BY DEF IInv, Types
<1>2. TargetFits'
  BY DEF IInv, Types, TargetFits
<1>3. OpenIsHeld'
  BY DEF IInv, OpenIsHeld, IsOpen
<1>4. OneAtATime'
  BY DEF IInv, Types, OneAtATime
<1>5. HeldWhileMeasuring'
  <2> SUFFICES ASSUME mode = "sni", \A v \in Workers : at'[v] \notin {"fetch", "ping", "close"}
               PROVE  installed = None
    BY DEF IInv, HeldWhileMeasuring
  <2>1. at[w] \notin {"fetch", "ping", "close"}
    BY DEF IInv, Types
  <2>2. \A v \in Workers : at[v] \notin {"fetch", "ping", "close"}
    BY <2>1 DEF IInv, Types
  <2> QED
    BY <2>2 DEF IInv, HeldWhileMeasuring
<1> QED
  BY <1>1, <1>2, <1>3, <1>4, <1>5 DEF IInv

LEMMA TakeKeeps == ASSUME IInv, NEW w \in Workers, Take(w) PROVE IInv'
<1>1. /\ at[w] = "idle" /\ at' = [at EXCEPT ![w] = "drop"]
      /\ mode = "sni" => \A v \in Workers : at[v] = "idle"
      /\ UNCHANGED <<mode, conn, installed, overwritten>>
  BY DEF Take, Goto
<1>2. PICK t \in pending : pending' = pending \ {t} /\ target' = [target EXCEPT ![w] = t]
  BY DEF Take
<1>3. Types' /\ TargetFits'
  BY <1>1, <1>2 DEF IInv, Types, TargetFits, Places
<1>4. OpenIsHeld'
  BY <1>1 DEF IInv, OpenIsHeld, IsOpen
<1>5. OneAtATime' /\ HeldWhileMeasuring'
  BY <1>1 DEF IInv, Types, OneAtATime, HeldWhileMeasuring
<1> QED
  BY <1>3, <1>4, <1>5 DEF IInv

\* Closing what is installed: at the beginning of a handshake and by Close.
LEMMA DropKeeps ==
    ASSUME IInv, NEW w \in Workers, NEW place \in {"dial", "report"},
           at[w] # "idle", at' = [at EXCEPT ![w] = place],
           conn' = Dropped, installed' = None,
           UNCHANGED <<mode, pending, overwritten, target>>
    PROVE  IInv'
<1>1. /\ conn' \in [Targets -> {"none", "up", "cut", "closed"}]
      /\ \A t \in Targets : IsOpen(t)' => t \in overwritten
  BY DroppedFacts DEF IInv
<1>2. Types' /\ TargetFits'
  BY <1>1 DEF IInv, Types, TargetFits, Places
<1>3. OpenIsHeld'
  BY <1>1 DEF OpenIsHeld
<1>4. OneAtATime' /\ HeldWhileMeasuring'
  BY DEF IInv, Types, OneAtATime, HeldWhileMeasuring
<1> QED
  BY <1>2, <1>3, <1>4 DEF IInv

LEMMA InstallKeeps == ASSUME IInv, NEW w \in Workers, Install(w) PROVE IInv'
<1>1. /\ at[w] = "dial" /\ at' = [at EXCEPT ![w] = "fetch"]
      /\ conn' = [conn EXCEPT ![target[w]] = "up"] /\ installed' = target[w]
      /\ overwritten' = overwritten \cup ({installed} \ {None})
      /\ UNCHANGED <<mode, pending, target>>
  BY DEF Install, Goto
<1>2. target[w] \in Targets
  BY <1>1 DEF IInv, TargetFits
<1>3. Types' /\ TargetFits'
  BY <1>1, <1>2 DEF IInv, Types, TargetFits, Places
<1>4. OpenIsHeld'
  <2> SUFFICES ASSUME NEW t \in Targets, IsOpen(t)', t # target[w] PROVE t \in overwritten'
    BY <1>1 DEF OpenIsHeld
  <2>1. IsOpen(t)
    BY <1>1, <1>2 DEF IInv, Types, IsOpen
  <2>2. installed = t \/ t \in overwritten
    BY <2>1 DEF IInv, OpenIsHeld
  <2> QED
    BY <1>1, <2>2, ProbeTunnelAssumption
<1>5. OneAtATime'
  BY <1>1 DEF IInv, Types, OneAtATime
<1>6. HeldWhileMeasuring'
  <2> SUFFICES ASSUME mode = "sni" PROVE overwritten' = {}
    BY <1>1 DEF IInv, Types, HeldWhileMeasuring
  <2>1. \A v \in Workers : at[v] \notin {"fetch", "ping", "close"}
    BY <1>1 DEF IInv, OneAtATime
  <2> QED
    BY <1>1, <2>1 DEF IInv, HeldWhileMeasuring
<1> QED
  BY <1>3, <1>4, <1>5, <1>6 DEF IInv

LEMMA WorkKeeps == ASSUME IInv, NEW w \in Workers, Work(w) PROVE IInv'
<1>1. CASE Take(w)
  BY <1>1, TakeKeeps
<1>2. CASE DropPeer(w)
  BY <1>2, DropKeeps DEF DropPeer, Goto
<1>3. CASE Install(w)
  BY <1>3, InstallKeeps
<1>4. CASE CloseTunnel(w)
  <2>1. CASE mode = "sni"
    BY <1>4, <2>1, DropKeeps DEF CloseTunnel, Goto
  <2>2. CASE mode # "sni"
    BY <1>4, <2>2, MoveKeeps DEF CloseTunnel, Goto, Places
  <2> QED
    BY <2>1, <2>2
<1>5. CASE NewTunnelFails(w)
  BY <1>5, MoveKeeps DEF NewTunnelFails, Goto, Places
<1>6. CASE DialFails(w)
  BY <1>6, MoveKeeps DEF DialFails, Goto, Places
<1>7. CASE FetchFails(w)
  BY <1>7, MoveKeeps DEF FetchFails, Goto, Places
<1>8. CASE FetchWorks(w)
  BY <1>8, MoveKeeps DEF FetchWorks, Goto, Places
<1>9. CASE Report(w)
  BY <1>9, MoveKeeps DEF Report, Goto, Places
<1>10. CASE Durability(w)
  <2>1. /\ at[w] = "ping"
        /\ UNCHANGED <<mode, pending, conn, installed, overwritten, target>>
        /\ UNCHANGED at \/ at' = [at EXCEPT ![w] = "close"]
    BY <1>10 DEF Durability, Goto
  <2>2. CASE UNCHANGED at
    BY <2>1, <2>2 DEF IInv, Types, TargetFits, OpenIsHeld, IsOpen, OneAtATime, HeldWhileMeasuring
  <2>3. CASE at' = [at EXCEPT ![w] = "close"]
    BY <2>1, <2>3, MoveKeeps DEF Places
  <2> QED
    BY <2>1, <2>2, <2>3
<1>11. CASE Echo(w)
  <2>1. UNCHANGED <<mode, pending, conn, installed, overwritten, target, at>>
    BY <1>11 DEF Echo
  <2> QED
    BY <2>1 DEF IInv, Types, TargetFits, OpenIsHeld, IsOpen, OneAtATime, HeldWhileMeasuring
<1>12. CASE PingFails(w)
  BY <1>12, MoveKeeps DEF PingFails, Goto, Places
<1> QED
  BY <1>1, <1>2, <1>3, <1>4, <1>5, <1>6, <1>7, <1>8, <1>9, <1>10, <1>11, <1>12 DEF Work

LEMMA NextKeeps == IInv /\ [Next]_vars => IInv'
<1> SUFFICES ASSUME IInv, [Next]_vars PROVE IInv'
  OBVIOUS
<1>1. ASSUME NEW w \in Workers, Work(w) PROVE IInv'
  BY <1>1, WorkKeeps
<1>2. CASE CloseShared
  <2>1. /\ conn' = Dropped /\ installed' = None
        /\ UNCHANGED <<mode, pending, overwritten, at, target>>
    BY <1>2 DEF CloseShared, work
  <2>2. /\ conn' \in [Targets -> {"none", "up", "cut", "closed"}]
        /\ \A t \in Targets : IsOpen(t)' => t \in overwritten
    BY <2>1, DroppedFacts DEF IInv
  <2> QED
    BY <2>1, <2>2 DEF IInv, Types, TargetFits, OpenIsHeld, OneAtATime, HeldWhileMeasuring
<1>3. CASE Cancel
  BY <1>3 DEF Cancel, work, IInv, Types, TargetFits, OpenIsHeld, IsOpen, OneAtATime, HeldWhileMeasuring
<1>4. ASSUME NEW t \in Targets, TearDown(t) PROVE IInv'
  <2>1. /\ conn[t] = "up" /\ conn' = [conn EXCEPT ![t] = "cut"]
        /\ UNCHANGED <<mode, pending, installed, overwritten, at, target>>
    BY <1>4 DEF TearDown, work
  <2>2. OpenIsHeld'
    BY <2>1 DEF IInv, Types, OpenIsHeld, IsOpen
  <2> QED
    BY <2>1, <2>2 DEF IInv, Types, TargetFits, OneAtATime, HeldWhileMeasuring
<1>5. CASE UNCHANGED vars
  BY <1>5 DEF vars, work, IInv, Types, TargetFits, OpenIsHeld, IsOpen, OneAtATime, HeldWhileMeasuring
<1> QED
  BY <1>1, <1>2, <1>3, <1>4, <1>5 DEF Next

\* The inductive invariant holds throughout: targets fit their workers, every
\* open connection is held or counted as lost, the SNI test is sequential.
THEOREM Invariant == Spec => []IInv
BY InitIInv, NextKeeps, PTL DEF Spec

LEMMA ClosedFromIInv == IInv => ConnectionsAreClosed
<1> SUFFICES ASSUME IInv PROVE ConnectionsAreClosed
  OBVIOUS
<1>1. ASSUME mode = "sni" PROVE overwritten = {} /\ Cardinality({t \in Targets : IsOpen(t)}) <= 1
  <2>1. overwritten = {}
    BY <1>1 DEF IInv, HeldWhileMeasuring
  <2>2. {t \in Targets : IsOpen(t)} \in SUBSET {installed}
    BY <2>1 DEF IInv, OpenIsHeld
  <2>3. IsFiniteSet({installed}) /\ Cardinality({installed}) = 1
    BY FS_Singleton
  <2>4. Cardinality({t \in Targets : IsOpen(t)}) <= Cardinality({installed})
    BY <2>2, <2>3, FS_Subset
  <2> QED
    BY <2>1, <2>3, <2>4
<1>2. \A t \in Targets : IsOpen(t) => installed = t \/ t \in overwritten
  BY DEF IInv, OpenIsHeld
<1>3. ASSUME WorkDone, mode = "sni" PROVE \A t \in Targets : ~IsOpen(t)
  <2>1. installed = None /\ overwritten = {}
    BY <1>3 DEF IInv, HeldWhileMeasuring, WorkDone
  <2> QED
    BY <2>1, <1>2, ProbeTunnelAssumption
<1> QED
  BY <1>1, <1>2, <1>3 DEF ConnectionsAreClosed

\* An SNI test holds at most one connection and leaves none; a port sweep
\* leaves only those a worker has overwritten (masque.go:262-315).
THEOREM ConnectionsClosed == Spec => []ConnectionsAreClosed
BY Invariant, ClosedFromIInv, PTL

-----------------------------------------------------------------------------
(* Verdicts, for any bursts, tails and losses.                             *)

Echoes == [number : {1, 2}, sent : Nat, silent : 0 .. TornTail, lost : 0 .. MaxLost,
           down : {"never", "early", "late"}]

MoreTypes ==
    /\ quality \in [Targets -> {"dead", "dials", "passes", "cut"}] /\ cancelled \in BOOLEAN
    /\ burst \in [Workers -> Echoes] /\ shared \in [Workers -> BOOLEAN]
    /\ verdict \in [Workers -> {"none", "untried", "fail", "ok", "torn", "unmeasured"}]

\* Only a connection of that quality is torn down.
CutFits == \A t \in Targets : conn[t] = "cut" => quality[t] = "cut"

\* Nothing has been measured before the first burst.
Fresh(w) == at[w] \in {"drop", "dial", "fetch"} => burst[w] = NoEchoes

\* A worker nobody has disturbed measures its own connection,
OwnConnection(w) ==
    at[w] \in {"fetch", "ping"} /\ ~shared[w] =>
        installed = target[w] /\ conn[target[w]] \in {"up", "cut"}

\* and its burst says how that connection is: once down, it stays down, so that
\* the echoes at the end have no answer; while it is up, only losses are silent.
BurstFits(w) ==
    LET b == burst[w] IN
    at[w] = "ping" /\ ~shared[w] =>
        /\ quality[target[w]] \in {"passes", "cut"}
        /\ b.down # "never" => cancelled \/ conn[target[w]] = "cut"
        /\ b.number = 1 /\ b.down = "early" =>
               b.silent = TornTail \/ b.silent + (PingCount - TornTail) >= b.sent
        /\ b.number = 2 /\ b.down = "early" => b.silent = TornTail \/ b.silent = b.sent
        /\ b.number = 1 /\ b.down = "never" => b.silent <= b.lost
        /\ b.number = 2 /\ b.down = "never" => b.silent + TornTail <= b.lost

\* What VerdictIsOwn says of one worker.
VerdictFits(w) ==
    (at[w] \in {"close", "report"} /\ ~shared[w]) =>
        /\ verdict[w] \in {"ok", "torn", "unmeasured"} => quality[target[w]] \in {"passes", "cut"}
        /\ verdict[w] = "fail" => quality[target[w]] # "passes" \/ cancelled
        /\ verdict[w] \in {"ok", "torn"} /\ burst[w].down = "early" => verdict[w] = "torn"
        /\ verdict[w] = "torn" => burst[w].down # "never"

Fits(w) == Fresh(w) /\ OwnConnection(w) /\ BurstFits(w) /\ VerdictFits(w)
VerdictInv == MoreTypes /\ CutFits /\ \A w \in Workers : Fits(w)

LEMMA InitVerdictInv == Init => VerdictInv
<1> SUFFICES ASSUME Init PROVE VerdictInv
  OBVIOUS
<1>1. NoEchoes \in Echoes
  BY ProbeTunnelAssumption DEF NoEchoes, Echoes
<1>2. MoreTypes /\ CutFits
  BY <1>1 DEF Init, MoreTypes, CutFits
<1>3. \A w \in Workers : Fits(w)
  BY DEF Init, Fits, Fresh, OwnConnection, BurstFits, VerdictFits
<1> QED
  BY <1>2, <1>3 DEF VerdictInv

\* What a worker may rely on is left alone: its own variables, and, while it
\* measures undisturbed, its connection, but for a tear-down.
LeftAlone(w) ==
    /\ at'[w] = at[w] /\ target'[w] = target[w] /\ burst'[w] = burst[w] /\ verdict'[w] = verdict[w]
    /\ quality' = quality /\ (cancelled => cancelled') /\ (shared[w] => shared'[w])
    /\ (at[w] \in {"fetch", "ping"} /\ ~shared'[w]) =>
           installed' = installed /\ conn'[target[w]] \in {conn[target[w]], "cut"}

LEMMA OthersFit ==
    ASSUME NEW w \in Workers, Fits(w), LeftAlone(w)
    PROVE  Fits(w)'
<1>1. Fresh(w)' /\ VerdictFits(w)'
  BY DEF LeftAlone, Fits, Fresh, VerdictFits
<1>2. OwnConnection(w)'
  BY DEF LeftAlone, Fits, OwnConnection
<1>3. BurstFits(w)'
  BY DEF LeftAlone, Fits, BurstFits
<1> QED
  BY <1>1, <1>2, <1>3 DEF Fits

\* A worker that only moves on, at the same place or past it.
LEMMA QuietStepFits ==
    ASSUME IInv, VerdictInv, NEW w \in Workers, Fits(w)',
           UNCHANGED <<mode, quality, cancelled, conn, installed>>,
           \A v \in Workers \ {w} :
               /\ at'[v] = at[v] /\ target'[v] = target[v] /\ burst'[v] = burst[v]
               /\ verdict'[v] = verdict[v] /\ shared'[v] = shared[v],
           burst' \in [Workers -> Echoes], shared' \in [Workers -> BOOLEAN],
           verdict' \in [Workers -> {"none", "untried", "fail", "ok", "torn", "unmeasured"}]
    PROVE  VerdictInv'
<1>1. MoreTypes' /\ CutFits'
  BY DEF VerdictInv, MoreTypes, CutFits
<1>2. \A v \in Workers \ {w} : Fits(v)'
  BY OthersFit DEF VerdictInv, LeftAlone
<1> QED
  BY <1>1, <1>2 DEF VerdictInv

LEMMA TakeFits == ASSUME IInv, VerdictInv, NEW w \in Workers, Take(w) PROVE VerdictInv'
<1>1. NoEchoes \in Echoes
  BY ProbeTunnelAssumption DEF NoEchoes, Echoes
<1>2. PICK t \in pending : target' = [target EXCEPT ![w] = t]
  BY DEF Take
<1>3. /\ at' = [at EXCEPT ![w] = "drop"] /\ burst' = [burst EXCEPT ![w] = NoEchoes]
      /\ shared' = [shared EXCEPT ![w] = FALSE]
      /\ UNCHANGED <<mode, quality, cancelled, conn, installed, verdict>>
  BY DEF Take, Goto
<1>4. at'[w] = "drop" /\ burst'[w] = NoEchoes
  BY <1>3 DEF IInv, Types, VerdictInv, MoreTypes
<1>5. Fits(w)'
  BY <1>4 DEF Fits, Fresh, OwnConnection, BurstFits, VerdictFits
<1> QED
  BY <1>1, <1>2, <1>3, <1>5, QuietStepFits DEF IInv, Types, VerdictInv, MoreTypes

LEMMA NewTunnelFailsFits == ASSUME IInv, VerdictInv, NEW w \in Workers, NewTunnelFails(w) PROVE VerdictInv'
<1>1. /\ at' = [at EXCEPT ![w] = "report"] /\ verdict' = [verdict EXCEPT ![w] = "untried"]
      /\ UNCHANGED <<mode, quality, cancelled, conn, installed, target, burst, shared>>
  BY DEF NewTunnelFails, Goto
<1>2. at'[w] = "report" /\ verdict'[w] = "untried"
  BY <1>1 DEF IInv, Types, VerdictInv, MoreTypes
<1>3. Fits(w)'
  BY <1>2 DEF Fits, Fresh, OwnConnection, BurstFits, VerdictFits
<1> QED
  BY <1>1, <1>3, QuietStepFits DEF IInv, Types, VerdictInv, MoreTypes

LEMMA DialFailsFits == ASSUME IInv, VerdictInv, NEW w \in Workers, DialFails(w) PROVE VerdictInv'
<1>1. /\ at[w] = "dial" /\ at' = [at EXCEPT ![w] = "close"] /\ verdict' = [verdict EXCEPT ![w] = "fail"]
      /\ quality[target[w]] = "dead" \/ cancelled
      /\ UNCHANGED <<mode, quality, cancelled, conn, installed, target, burst, shared>>
  BY DEF DialFails, Goto, Connects
<1>2. at'[w] = "close" /\ verdict'[w] = "fail"
  BY <1>1 DEF IInv, Types, VerdictInv, MoreTypes
<1>3. Fits(w)'
  BY <1>1, <1>2 DEF Fits, Fresh, OwnConnection, BurstFits, VerdictFits
<1> QED
  BY <1>1, <1>3, QuietStepFits DEF IInv, Types, VerdictInv, MoreTypes

LEMMA FetchFailsFits == ASSUME IInv, VerdictInv, NEW w \in Workers, FetchFails(w) PROVE VerdictInv'
<1>1. /\ at[w] = "fetch" /\ ~Passes /\ at' = [at EXCEPT ![w] = "close"]
      /\ verdict' = [verdict EXCEPT ![w] = "fail"]
      /\ UNCHANGED <<mode, quality, cancelled, conn, installed, target, burst, shared>>
  BY DEF FetchFails, Goto
<1>2. at'[w] = "close" /\ verdict'[w] = "fail"
  BY <1>1 DEF IInv, Types, VerdictInv, MoreTypes
<1>3. ~shared[w] => quality[target[w]] # "passes" \/ cancelled
  <2> SUFFICES ASSUME ~shared[w], ~cancelled PROVE quality[target[w]] # "passes"
    OBVIOUS
  <2>1. target[w] \in Targets
    BY <1>1 DEF IInv, TargetFits
  <2>2. installed = target[w] /\ conn[target[w]] \in {"up", "cut"} /\ installed # None
    BY <1>1, <2>1, ProbeTunnelAssumption DEF VerdictInv, Fits, OwnConnection
  <2> QED
    BY <1>1, <2>1, <2>2 DEF Passes, VerdictInv, CutFits
<1>4. Fits(w)'
  BY <1>1, <1>2, <1>3 DEF Fits, Fresh, OwnConnection, BurstFits, VerdictFits
<1> QED
  BY <1>1, <1>4, QuietStepFits DEF IInv, Types, VerdictInv, MoreTypes

LEMMA FetchWorksFits == ASSUME IInv, VerdictInv, NEW w \in Workers, FetchWorks(w) PROVE VerdictInv'
<1>1. /\ at[w] = "fetch" /\ Passes /\ at' = [at EXCEPT ![w] = "ping"]
      /\ UNCHANGED <<mode, quality, cancelled, conn, installed, target, burst, verdict, shared>>
  BY DEF FetchWorks, Goto
<1>2. at'[w] = "ping" /\ burst[w] = NoEchoes
  BY <1>1 DEF IInv, Types, VerdictInv, Fits, Fresh
<1>3. OwnConnection(w)'
  BY <1>1, <1>2 DEF VerdictInv, Fits, OwnConnection
<1>4. BurstFits(w)'
  <2> SUFFICES ASSUME ~shared[w] PROVE quality[target[w]] \in {"passes", "cut"}
    BY <1>1, <1>2, ProbeTunnelAssumption DEF BurstFits, NoEchoes, VerdictInv, MoreTypes, Echoes
  <2> QED
    BY <1>1 DEF Passes, VerdictInv, Fits, OwnConnection
<1>5. Fits(w)'
  BY <1>2, <1>3, <1>4 DEF Fits, Fresh, VerdictFits
<1> QED
  BY <1>1, <1>5, QuietStepFits DEF IInv, Types, VerdictInv, MoreTypes

\* While its own connection carries the tunnel, an echo is answered unless the
\* connection is down or the echo is lost.
LEMMA PassesFacts ==
    ASSUME IInv, VerdictInv, NEW w \in Workers, at[w] = "ping", ~shared[w]
    PROVE  Passes <=> ~(cancelled \/ conn[target[w]] = "cut")
<1>1. target[w] \in Targets
  BY DEF IInv, TargetFits
<1>2. installed = target[w] /\ conn[target[w]] \in {"up", "cut"} /\ installed # None
  BY <1>1, ProbeTunnelAssumption DEF VerdictInv, Fits, OwnConnection
<1>3. quality[target[w]] \in {"passes", "cut"}
  BY DEF VerdictInv, Fits, BurstFits
<1> QED
  BY <1>2, <1>3 DEF Passes

LEMMA PingFailsFits == ASSUME IInv, VerdictInv, NEW w \in Workers, PingFails(w) PROVE VerdictInv'
<1>1. /\ at[w] = "ping" /\ at' = [at EXCEPT ![w] = "close"]
      /\ verdict' = [verdict EXCEPT ![w] = "unmeasured"]
      /\ burst' = [burst EXCEPT ![w] = [NoEchoes EXCEPT !.down = burst[w].down]]
      /\ UNCHANGED <<mode, quality, cancelled, conn, installed, target, shared>>
  BY DEF PingFails, Goto
<1>2. [NoEchoes EXCEPT !.down = burst[w].down] \in Echoes
  BY ProbeTunnelAssumption DEF VerdictInv, MoreTypes, Echoes, NoEchoes
<1>3. burst' \in [Workers -> Echoes]
  BY <1>1, <1>2 DEF VerdictInv, MoreTypes
<1>4. at'[w] = "close" /\ verdict'[w] = "unmeasured"
  BY <1>1 DEF IInv, Types, VerdictInv, MoreTypes
<1>5. ~shared[w] => quality[target[w]] \in {"passes", "cut"}
  BY <1>1 DEF VerdictInv, Fits, BurstFits
<1>6. Fits(w)'
  BY <1>1, <1>4, <1>5 DEF Fits, Fresh, OwnConnection, BurstFits, VerdictFits
<1> QED
  BY <1>1, <1>3, <1>6, QuietStepFits DEF IInv, Types, VerdictInv, MoreTypes

LEMMA EchoesWith ==
    ASSUME NEW b \in Echoes
    PROVE  /\ \A k \in {1, 2} : [b EXCEPT !.number = k] \in Echoes
           /\ \A k \in Nat : [b EXCEPT !.sent = k] \in Echoes
           /\ \A k \in 0 .. TornTail : [b EXCEPT !.silent = k] \in Echoes
           /\ \A k \in 0 .. MaxLost : [b EXCEPT !.lost = k] \in Echoes
           /\ \A k \in {"never", "early", "late"} : [b EXCEPT !.down = k] \in Echoes
BY DEF Echoes

LEMMA EchoFits == ASSUME IInv, VerdictInv, NEW w \in Workers, Echo(w) PROVE VerdictInv'
<1> DEFINE b == burst[w]
           n == burst'[w]
           early == b.number = 1 /\ b.sent <= PingCount - TornTail
           more == IF b.silent < TornTail THEN b.silent + 1 ELSE b.silent
<1>1. /\ at[w] = "ping" /\ b.sent < PingCount
      /\ UNCHANGED <<mode, quality, cancelled, conn, installed, at, target, verdict, shared>>
  BY DEF Echo
<1>2. b \in Echoes /\ PingCount \in Nat /\ TornTail \in 1 .. PingCount /\ MaxLost \in Nat
  BY ProbeTunnelAssumption DEF VerdictInv, MoreTypes
<1>3. /\ burst' = [burst EXCEPT ![w] = n] /\ n \in Echoes
      /\ n.number = b.number /\ n.sent = b.sent + 1
      /\ \/ Passes /\ n.silent = 0 /\ n.lost = b.lost /\ n.down = b.down
         \/ Passes /\ n.silent = more /\ n.lost = b.lost + 1 /\ n.down = b.down
         \/ /\ ~Passes /\ n.silent = more /\ n.lost = b.lost
            /\ n.down = IF b.down # "never" THEN b.down ELSE IF early THEN "early" ELSE "late"
  <2> DEFINE sent == [b EXCEPT !.sent = b.sent + 1]
             answered == [b EXCEPT !.sent = @ + 1, !.silent = 0]
             unanswered == [b EXCEPT !.sent = @ + 1, !.silent = more]
             down == [unanswered EXCEPT !.down = IF @ # "never" THEN @ ELSE IF early THEN "early" ELSE "late"]
             lost == [unanswered EXCEPT !.lost = @ + 1]
  <2>1. burst \in [Workers -> Echoes]
    BY DEF VerdictInv, MoreTypes
  <2>2. /\ b.sent + 1 \in Nat /\ more \in 0 .. TornTail /\ 0 \in 0 .. TornTail
        /\ b.lost < MaxLost => b.lost + 1 \in 0 .. MaxLost
    BY <1>2 DEF Echoes
  <2>3. sent \in Echoes
    BY <1>2, <2>2, EchoesWith
  <2>4. answered = [sent EXCEPT !.silent = 0] /\ unanswered = [sent EXCEPT !.silent = more]
    OBVIOUS
  <2>5. answered \in Echoes /\ unanswered \in Echoes /\ unanswered.lost = b.lost
    BY <1>2, <2>2, <2>3, <2>4, EchoesWith DEF Echoes
  <2>6. CASE Passes /\ burst' = [burst EXCEPT ![w] = answered]
    <3>1. n = answered /\ burst' = [burst EXCEPT ![w] = n]
      BY <2>1, <2>6
    <3>2. answered \in Echoes
      BY <2>5
    <3> HIDE DEF n
    <3> QED
      BY <1>2, <2>6, <3>1, <3>2 DEF Echoes
  <2>7. CASE Passes /\ b.lost < MaxLost /\ burst' = [burst EXCEPT ![w] = lost]
    <3>1. n = lost /\ burst' = [burst EXCEPT ![w] = n]
      BY <2>1, <2>7
    <3>2. lost \in Echoes
      BY <2>2, <2>5, <2>7, EchoesWith
    <3> HIDE DEF n
    <3> QED
      BY <1>2, <2>7, <3>1, <3>2 DEF Echoes
  <2>8. CASE ~Passes /\ burst' = [burst EXCEPT ![w] = down]
    <3>1. n = down /\ burst' = [burst EXCEPT ![w] = n]
      BY <2>1, <2>8
    <3> DEFINE how == IF unanswered.down # "never" THEN unanswered.down
                      ELSE IF early THEN "early" ELSE "late"
    <3>2. down \in Echoes
      <4>1. how \in {"never", "early", "late"}
        BY <2>5 DEF Echoes
      <4> HIDE DEF how, unanswered
      <4>2. [unanswered EXCEPT !.down = how] \in Echoes
        BY <2>5, <4>1, EchoesWith
      <4> QED
        BY <4>2 DEF how
    <3>3. /\ down.number = b.number /\ down.sent = b.sent + 1
          /\ down.silent = more /\ down.lost = b.lost
          /\ down.down = IF b.down # "never" THEN b.down ELSE IF early THEN "early" ELSE "late"
      BY <1>2 DEF Echoes
    <3> HIDE DEF n, down, more, early
    <3> QED
      BY <2>8, <3>1, <3>2, <3>3
  <2> QED
    BY <2>6, <2>7, <2>8 DEF Echo
<1>4. BurstFits(w)'
  <2> SUFFICES ASSUME ~shared[w] PROVE BurstFits(w)'
    BY <1>1 DEF BurstFits
  <2>1. BurstFits(w)
    BY DEF VerdictInv, Fits
  <2>2. Passes <=> ~(cancelled \/ conn[target[w]] = "cut")
    BY <1>1, PassesFacts
  <2>3. quality[target[w]] \in {"passes", "cut"} /\ (b.down # "never" => ~Passes)
    BY <1>1, <2>1, <2>2 DEF BurstFits
  <2>4. n.down # "never" => ~Passes
    BY <1>3, <2>3
  <2>5. n.number = 1 /\ n.down = "early" =>
            n.silent = TornTail \/ n.silent + (PingCount - TornTail) >= n.sent
    BY <1>1, <1>2, <1>3, <2>1, <2>3 DEF BurstFits, Echoes
  <2>6. n.number = 2 /\ n.down = "early" => n.silent = TornTail \/ n.silent = n.sent
    BY <1>1, <1>2, <1>3, <2>1, <2>3 DEF BurstFits, Echoes
  <2>7. /\ n.number = 1 /\ n.down = "never" => n.silent <= n.lost
        /\ n.number = 2 /\ n.down = "never" => n.silent + TornTail <= n.lost
    BY <1>1, <1>2, <1>3, <2>1, <2>3 DEF BurstFits, Echoes
  <2> QED
    BY <1>1, <2>2, <2>3, <2>4, <2>5, <2>6, <2>7 DEF BurstFits
<1>5. Fits(w)'
  BY <1>1, <1>4 DEF VerdictInv, Fits, Fresh, OwnConnection, VerdictFits
<1> QED
  BY <1>1, <1>3, <1>5, QuietStepFits DEF VerdictInv, MoreTypes

\* Fewer losses than two tails do not look like a teardown.
LEMMA DurabilityFits ==
    ASSUME MaxLost < 2 * TornTail, IInv, VerdictInv, NEW w \in Workers, Durability(w)
    PROVE  VerdictInv'
<1> DEFINE b == burst[w]
<1>1. /\ at[w] = "ping" /\ b.sent = PingCount
      /\ UNCHANGED <<mode, quality, cancelled, conn, installed, target, shared>>
  BY DEF Durability
<1>2. /\ b \in Echoes /\ burst \in [Workers -> Echoes] /\ at \in [Workers -> Places]
      /\ PingCount \in Nat /\ TornTail \in 1 .. PingCount /\ MaxLost \in Nat
  BY ProbeTunnelAssumption DEF VerdictInv, MoreTypes, IInv, Types
<1>3. BurstFits(w)
  BY DEF VerdictInv, Fits
<1>4. CASE Teardown(b) /\ b.number = 1
  <2>1. /\ burst' = [burst EXCEPT ![w] = [b EXCEPT !.number = 2, !.sent = 0, !.silent = 0]]
        /\ UNCHANGED <<at, verdict>>
    BY <1>4 DEF Durability
  <2>2. /\ burst'[w] = [b EXCEPT !.number = 2, !.sent = 0, !.silent = 0]
        /\ burst' \in [Workers -> Echoes]
    <3> DEFINE second == [b EXCEPT !.number = 2]
               restarted == [second EXCEPT !.sent = 0]
    <3>1. second \in Echoes
      BY <1>2, EchoesWith
    <3> HIDE DEF second
    <3>2. restarted \in Echoes
      BY <3>1, EchoesWith
    <3> HIDE DEF restarted
    <3>3. 0 \in 0 .. TornTail
      BY <1>2
    <3>4. [b EXCEPT !.number = 2, !.sent = 0, !.silent = 0] \in Echoes
      <4>1. [restarted EXCEPT !.silent = 0] \in Echoes
        BY <3>2, <3>3, EchoesWith
      <4> QED
        BY <4>1 DEF second, restarted
    <3> QED
      BY <1>2, <2>1, <3>4
  <2>3. BurstFits(w)'
    BY <1>1, <1>2, <1>3, <1>4, <2>1, <2>2 DEF BurstFits, Echoes, Teardown
  <2>4. Fits(w)'
    BY <1>1, <2>1, <2>3 DEF VerdictInv, Fits, Fresh, OwnConnection, VerdictFits
  <2> QED
    BY <1>1, <2>1, <2>2, <2>4, QuietStepFits DEF VerdictInv, MoreTypes
<1>5. CASE ~Teardown(b) \/ b.number = 2
  <2>1. /\ verdict' = [verdict EXCEPT ![w] = IF Teardown(b) THEN "torn" ELSE "ok"]
        /\ burst' = [burst EXCEPT ![w] = [NoEchoes EXCEPT !.down = b.down]]
        /\ at' = [at EXCEPT ![w] = "close"]
    BY <1>5 DEF Durability, Goto
  <2>2. /\ verdict'[w] = (IF Teardown(b) THEN "torn" ELSE "ok") /\ at'[w] = "close"
        /\ burst'[w] = [NoEchoes EXCEPT !.down = b.down] /\ burst'[w].down = b.down
        /\ burst' \in [Workers -> Echoes]
    BY <1>2, <2>1 DEF VerdictInv, MoreTypes, Echoes, NoEchoes
  <2>3. VerdictFits(w)'
    <3> SUFFICES ASSUME ~shared[w] PROVE VerdictFits(w)'
      BY <1>1 DEF VerdictFits
    <3>1. quality[target[w]] \in {"passes", "cut"}
      BY <1>1, <1>3 DEF BurstFits
    <3>2. b.down = "early" => Teardown(b)
      BY <1>1, <1>2, <1>3 DEF BurstFits, Teardown, Echoes
    <3>3. b.down = "never" => ~Teardown(b)
      BY <1>1, <1>2, <1>3, <1>5 DEF BurstFits, Teardown, Echoes
    <3> QED
      BY <1>1, <2>2, <3>1, <3>2, <3>3 DEF VerdictFits
  <2>4. Fits(w)'
    BY <2>2, <2>3 DEF Fits, Fresh, OwnConnection, BurstFits
  <2> QED
    BY <1>1, <1>2, <2>1, <2>2, <2>4, QuietStepFits DEF VerdictInv, MoreTypes
<1> QED
  BY <1>4, <1>5 DEF Durability

LEMMA ReportFits == ASSUME IInv, VerdictInv, NEW w \in Workers, Report(w) PROVE VerdictInv'
<1>1. /\ at' = [at EXCEPT ![w] = "idle"] /\ target' = [target EXCEPT ![w] = None]
      /\ verdict' = [verdict EXCEPT ![w] = "none"] /\ burst' = [burst EXCEPT ![w] = NoEchoes]
      /\ shared' = [shared EXCEPT ![w] = FALSE]
      /\ UNCHANGED <<mode, quality, cancelled, conn, installed>>
  BY DEF Report, Goto
<1>2. at'[w] = "idle" /\ NoEchoes \in Echoes
  BY <1>1, ProbeTunnelAssumption DEF IInv, Types, NoEchoes, Echoes
<1>3. Fits(w)'
  BY <1>2 DEF Fits, Fresh, OwnConnection, BurstFits, VerdictFits
<1> QED
  BY <1>1, <1>2, <1>3, QuietStepFits DEF IInv, Types, VerdictInv, MoreTypes

\* A worker that swaps the connection: those that measure through it notice.
LEMMA SwapFits ==
    ASSUME IInv, VerdictInv, NEW w \in Workers, NEW place \in Places,
           at' = [at EXCEPT ![w] = place], shared' = Disturb(w), CutFits', Fits(w)',
           UNCHANGED <<mode, quality, cancelled, target, burst, verdict>>
    PROVE  VerdictInv'
<1>1. MoreTypes'
  BY DEF VerdictInv, MoreTypes, Disturb
<1>2. ASSUME NEW v \in Workers \ {w} PROVE Fits(v)'
  BY <1>2, OthersFit DEF VerdictInv, MoreTypes, IInv, Types, LeftAlone, Disturb
<1> QED
  BY <1>1, <1>2 DEF VerdictInv

LEMMA DropPeerFits == ASSUME IInv, VerdictInv, NEW w \in Workers, DropPeer(w) PROVE VerdictInv'
<1>1. /\ at[w] = "drop" /\ at' = [at EXCEPT ![w] = "dial"] /\ conn' = Dropped /\ shared' = Disturb(w)
      /\ UNCHANGED <<mode, quality, cancelled, target, burst, verdict>>
  BY DEF DropPeer, Goto
<1>2. CutFits'
  BY <1>1 DEF IInv, Types, VerdictInv, CutFits, Dropped
<1>3. Fits(w)'
  BY <1>1 DEF IInv, Types, VerdictInv, Fits, Fresh, OwnConnection, BurstFits, VerdictFits
<1> QED
  BY <1>1, <1>2, <1>3, SwapFits DEF Places

LEMMA InstallFits == ASSUME IInv, VerdictInv, NEW w \in Workers, Install(w) PROVE VerdictInv'
<1>1. /\ at[w] = "dial" /\ at' = [at EXCEPT ![w] = "fetch"] /\ shared' = Disturb(w)
      /\ conn' = [conn EXCEPT ![target[w]] = "up"] /\ installed' = target[w]
      /\ UNCHANGED <<mode, quality, cancelled, target, burst, verdict>>
  BY DEF Install, Goto
<1>2. target[w] \in Targets
  BY <1>1 DEF IInv, TargetFits
<1>3. CutFits'
  BY <1>1, <1>2 DEF IInv, Types, VerdictInv, CutFits
<1>4. at'[w] = "fetch" /\ conn'[target[w]] = "up"
  BY <1>1, <1>2 DEF IInv, Types
<1>5. Fits(w)'
  BY <1>1, <1>4 DEF VerdictInv, Fits, Fresh, OwnConnection, BurstFits, VerdictFits
<1> QED
  BY <1>1, <1>3, <1>5, SwapFits DEF Places

LEMMA CloseTunnelFits == ASSUME IInv, VerdictInv, NEW w \in Workers, CloseTunnel(w) PROVE VerdictInv'
<1>1. /\ at[w] = "close" /\ at' = [at EXCEPT ![w] = "report"]
      /\ UNCHANGED <<mode, quality, cancelled, target, burst, verdict, shared>>
      /\ mode # "sni" => UNCHANGED <<conn, installed>>
      /\ mode = "sni" => conn' = Dropped
  BY DEF CloseTunnel, Goto
<1>2. MoreTypes' /\ CutFits'
  BY <1>1 DEF IInv, Types, VerdictInv, MoreTypes, CutFits, Dropped
<1>3. Fits(w)'
  BY <1>1 DEF IInv, Types, VerdictInv, Fits, Fresh, OwnConnection, BurstFits, VerdictFits
<1>4. ASSUME NEW v \in Workers \ {w} PROVE Fits(v)'
  <2>1. mode = "sni" => at[v] = "idle"
    BY <1>1 DEF IInv, OneAtATime
  <2>2. LeftAlone(v)
    BY <1>1, <2>1 DEF IInv, Types, LeftAlone
  <2> QED
    BY <2>2, OthersFit DEF VerdictInv
<1> QED
  BY <1>2, <1>3, <1>4 DEF VerdictInv

LEMMA NextFits ==
    ASSUME MaxLost < 2 * TornTail PROVE IInv /\ VerdictInv /\ [Next]_vars => VerdictInv'
<1> SUFFICES ASSUME IInv, VerdictInv, [Next]_vars PROVE VerdictInv'
  OBVIOUS
<1>1. ASSUME NEW w \in Workers, Work(w) PROVE VerdictInv'
  BY <1>1, TakeFits, NewTunnelFailsFits, DropPeerFits, DialFailsFits, InstallFits, FetchFailsFits,
     FetchWorksFits, PingFailsFits, EchoFits, DurabilityFits, CloseTunnelFits, ReportFits DEF Work
<1>2. CASE CloseShared
  <2>1. conn' = Dropped /\ UNCHANGED <<mode, quality, cancelled, at, target, burst, verdict, shared>>
    BY <1>2 DEF CloseShared, work
  <2>2. MoreTypes' /\ CutFits'
    BY <2>1 DEF IInv, Types, VerdictInv, MoreTypes, CutFits, Dropped
  <2>3. \A w \in Workers : Fits(w)'
    BY <1>2, <2>1 DEF CloseShared, WorkDone, Fits, Fresh, OwnConnection, BurstFits, VerdictFits
  <2> QED
    BY <2>2, <2>3 DEF VerdictInv
<1>3. CASE Cancel
  <2>1. MoreTypes' /\ CutFits'
    BY <1>3 DEF Cancel, work, VerdictInv, MoreTypes, CutFits
  <2>2. \A w \in Workers : LeftAlone(w)
    BY <1>3 DEF Cancel, work, LeftAlone
  <2> QED
    BY <2>1, <2>2, OthersFit DEF VerdictInv
<1>4. ASSUME NEW t \in Targets, TearDown(t) PROVE VerdictInv'
  <2>1. /\ quality[t] = "cut" /\ conn' = [conn EXCEPT ![t] = "cut"]
        /\ UNCHANGED <<mode, quality, cancelled, installed, work>>
    BY <1>4 DEF TearDown
  <2>2. MoreTypes' /\ CutFits'
    BY <2>1 DEF work, IInv, Types, VerdictInv, MoreTypes, CutFits
  <2>3. ASSUME NEW w \in Workers PROVE LeftAlone(w)
    <3>1. at[w] \in {"fetch", "ping"} => target[w] \in Targets
      BY DEF IInv, TargetFits
    <3> QED
      BY <2>1, <3>1 DEF work, IInv, Types, LeftAlone
  <2> QED
    BY <2>2, <2>3, OthersFit DEF VerdictInv
<1>5. CASE UNCHANGED vars
  BY <1>5 DEF vars, work, VerdictInv, MoreTypes, CutFits, Fits, Fresh, OwnConnection, BurstFits, VerdictFits
<1> QED
  BY <1>1, <1>2, <1>3, <1>4, <1>5 DEF Next

\* A verdict is about the target it is reported for unless another worker has
\* swapped the connection meanwhile (masque.go:98-131, tunnel.go:290-302), for
\* any bursts and tails and any number of losses below two tails.
THEOREM VerdictIsAboutItsTarget ==
    ASSUME MaxLost < 2 * TornTail PROVE Spec => []VerdictIsOwn
<1>1. VerdictInv => VerdictIsOwn
  BY DEF VerdictInv, Fits, VerdictFits, VerdictIsOwn
<1>2. IInv /\ VerdictInv /\ [Next]_vars => VerdictInv'
  BY NextFits
<1> QED
  BY <1>1, <1>2, Invariant, InitVerdictInv, PTL DEF Spec
================================================================================
