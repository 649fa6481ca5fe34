---------------------------- MODULE Scanner_proofs ----------------------------
(***************************************************************************)
(* Proofs about Scanner, for any callers, workers, addresses and ports.    *)
(***************************************************************************)
EXTENDS Scanner, SequenceTheorems, TLAPS

WalkPlaces == {"walk", "handshake", "publish"}
TargetPlaces == {"target", "probe", "ok", "failed"}

SlotFits == \A c \in Callers : at[c] \in Active <=> slot = c

\* No final callback before the scan concludes.
FinalFits ==
    \A c \in Callers :
        at[c] \in Sweeps \cup {"idle", "setup", "verify"} => final[c] = << >>

\* A busy worker belongs to the phase the running scan is in.
PlaceFits ==
    \A w \in Workers :
        /\ worker[w].at = "free" => worker[w] = Free
        /\ worker[w].at \in WalkPlaces => Sweeping
        /\ worker[w].at \in TargetPlaces => Verifying

\* No two workers hold the same job, and none holds one not handed out.
JobsFit ==
    \A w \in Workers : worker[w] # Free =>
        /\ worker[w].job \in 1 .. fed
        /\ \A v \in Workers : worker[v].job = worker[w].job => v = w

\* A walk collects endpoints of its own address.
WalkFits ==
    \A w \in Workers : worker[w].at \in WalkPlaces =>
        /\ \A e \in found[w] : e[1] = worker[w].job
        /\ worker[w].at = "publish" => found[w] # {}

Whole(j) == (\A e \in open : e[1] = j) /\ (\A e \in cut : e[1] # j)

\* Until a StopScan only the race cuts walks short, and the address that has won
\* is nobody's job any more.
RaceFits ==
    Sweeping =>
        /\ raceOver <=> open # {}
        /\ ~stopped =>
              /\ cut # {} => open # {}
              /\ open # {} =>
                    \E j \in 1 .. fed : Whole(j) /\ \A w \in Workers : worker[w].job # j

\* A job is reported when it has been handed out and is nobody's any more.
RowsFit ==
    Verifying => \A j \in Jobs :
        /\ j > fed => \A v \in Verdicts : rows[<<j, v>>] = 0
        /\ \A w \in Workers : worker[w].job = j =>
              /\ \A v \in Verdicts : rows[<<j, v>>] = 0
              /\ worker[w].at \in Verdicts => results[j] = worker[w].at
        /\ j <= fed /\ (\A w \in Workers : worker[w].job # j) => Reported(j)

PoolFits == PlaceFits /\ JobsFit /\ WalkFits

IInv ==
    /\ TypeOK /\ SlotFits /\ FinalFits /\ PoolFits
    /\ RaceFits /\ AnswerIsOneWholeWalk /\ RowsFit

------------------------------------------------------------------------------
LEMMA InitIInv == Init => IInv
<1> SUFFICES ASSUME Init PROVE IInv
  OBVIOUS
<1> USE DEF Init
<1>1. ~Sweeping /\ ~Verifying
  BY DEF Sweeping, Verifying, Sweeps
<1>2. TypeOK
  <2>1. worker \in [Workers -> [at : WorkerPlaces, job : Jobs \cup {0},
                               port : Nat, left : SUBSET Nat]]
    BY DEF Free, WorkerPlaces
  <2>2. rows \in [Jobs \X Verdicts -> Nat] /\ results \in [Jobs -> Verdicts \cup {"none"}]
    BY DEF NoRows
  <2>3. fed \in 0 .. Addresses /\ openPorts \subseteq Nat
    BY ScannerAssumption
  <2>4. final \in [Callers -> {<< >>, <<"OnDone">>, <<"OnError">>}]
    OBVIOUS
  <2> QED
    BY <2>1, <2>2, <2>3, <2>4 DEF TypeOK
<1>3. SlotFits /\ FinalFits
  BY ScannerAssumption DEF SlotFits, FinalFits, Active, Sweeps
<1>4. PoolFits
  BY DEF PoolFits, PlaceFits, JobsFit, WalkFits, WalkPlaces, TargetPlaces, Free
<1> QED
  BY <1>1, <1>2, <1>3, <1>4 DEF IInv, RaceFits, AnswerIsOneWholeWalk, RowsFit

(***************************************************************************)
(* Who is in which phase.                                                  *)
(***************************************************************************)
LEMMA OnePhase ==
    ASSUME IInv, NEW c \in Callers, at[c] \in Active
    PROVE  /\ \A d \in Callers : at[d] \in Active => d = c
           /\ Sweeping <=> at[c] \in Sweeps
           /\ Verifying <=> at[c] = "verify"
BY DEF IInv, SlotFits, Sweeping, Verifying, Active, Sweeps

\* Outside the phases every worker is free.
LEMMA NobodyWorks ==
    ASSUME IInv, ~Sweeping, ~Verifying
    PROVE  AllFree
<1>1. \A w \in Workers : worker[w].at \in {"free"} \cup WalkPlaces \cup TargetPlaces
  BY DEF IInv, TypeOK, WorkerPlaces, WalkPlaces, TargetPlaces
<1> QED
  BY <1>1 DEF IInv, PoolFits, PlaceFits, AllFree

LEMMA FreePool ==
    ASSUME AllFree
    PROVE  PoolFits
BY DEF AllFree, Free, PoolFits, PlaceFits, JobsFit, WalkFits, WalkPlaces, TargetPlaces

LEMMA ConcludeTypes ==
    ASSUME IInv, NEW c \in Callers, at[c] \in Sweeps \cup {"setup", "verify"},
           NEW result \in {"error", "cancelled", "done"},
           NEW callbacks \in {<< >>, <<"OnDone">>, <<"OnError">>},
           Conclude(c, result, callbacks)
    PROVE  /\ at' \in [Callers -> Active \cup {"idle", "returned"}]
           /\ outcome' \in [Callers -> {"none", "busy", "error", "cancelled", "done"}]
           /\ final' \in [Callers -> {<< >>, <<"OnDone">>, <<"OnError">>}]
<1>1. final[c] \o callbacks = callbacks
  <2>1. final[c] = << >> /\ callbacks \in Seq({"OnDone", "OnError"})
    <3>1. final[c] = << >>
      BY DEF IInv, FinalFits
    <3>2. /\ << >> \in Seq({"OnDone", "OnError"})
          /\ <<"OnDone">> \in Seq({"OnDone", "OnError"})
          /\ <<"OnError">> \in Seq({"OnDone", "OnError"})
      OBVIOUS
    <3> QED
      BY <3>1, <3>2
  <2> QED
    BY <2>1, ConcatEmptySeq
<1> QED
  BY <1>1 DEF Conclude, Go, IInv, TypeOK, Active

(***************************************************************************)
(* The scan's own steps.                                                   *)
(***************************************************************************)

\* Every return of Scan after its setup leaves free workers behind.
LEMMA ConcludeKeeps ==
    ASSUME IInv, NEW c \in Callers, at[c] \in Sweeps \cup {"setup", "verify"}, AllFree,
           NEW result \in {"error", "cancelled", "done"},
           NEW callbacks \in {<< >>, <<"OnDone">>, <<"OnError">>},
           Conclude(c, result, callbacks),
           UNCHANGED <<slot, openPorts, stopped, fed, worker, walkVars, verifyVars>>
    PROVE  IInv'
<1> USE DEF walkVars, verifyVars
<1>1. /\ at' = [at EXCEPT ![c] = "release"] /\ at \in [Callers -> Active \cup {"idle", "returned"}]
      /\ \A d \in Callers : at[d] \in Active => d = c
  BY OnePhase DEF Conclude, Go, Active, IInv, TypeOK
<1>2. ~Sweeping' /\ ~Verifying'
  BY <1>1 DEF Sweeping, Verifying, Sweeps, Active
<1>3. TypeOK'
  BY ConcludeTypes DEF IInv, TypeOK
<1>4. SlotFits'
  BY <1>1 DEF IInv, SlotFits, Active, Sweeps
<1>5. FinalFits'
  BY <1>1 DEF IInv, TypeOK, FinalFits, Conclude, Sweeps, Active
<1>6. PoolFits'
  <2>1. AllFree'
    BY DEF AllFree, Free
  <2> QED
    BY <2>1, <1>2 DEF AllFree, Free, PoolFits, PlaceFits, JobsFit, WalkFits, WalkPlaces, TargetPlaces
<1> QED
  BY <1>2, <1>3, <1>4, <1>5, <1>6 DEF IInv, RaceFits, AnswerIsOneWholeWalk, RowsFit

LEMMA ReturnsKeep ==
    ASSUME IInv, NEW c \in Callers,
           Fails(c) \/ Cancelled(c) \/ NoPortReachable(c) \/ Summary(c)
    PROVE  IInv'
<1>1. CASE Fails(c)
  <2>1. at[c] \in Sweeps \cup {"setup", "verify"}
    BY <1>1 DEF Fails
  <2>2. AllFree
    <3>1. CASE at[c] = "setup"
      BY <3>1, OnePhase, NobodyWorks DEF Active, Sweeps
    <3> QED
      BY <3>1, <1>1 DEF Fails
  <2> QED
    BY <1>1, <2>1, <2>2, ConcludeKeeps DEF Fails
<1>2. CASE Cancelled(c)
  BY <1>2, ConcludeKeeps DEF Cancelled, PhaseOver, SweepOver, PoolDone, Sweeps
<1>3. CASE NoPortReachable(c)
  BY <1>3, ConcludeKeeps DEF NoPortReachable, SweepOver, PoolDone, Sweeps
<1>4. CASE Summary(c)
  BY <1>4, ConcludeKeeps DEF Summary, PoolDone, Sweeps
<1> QED
  BY <1>1, <1>2, <1>3, <1>4

\* A caller comes or goes while no scan, or another scan, runs.
LEMMA EnterKeeps == ASSUME IInv, NEW c \in Callers, Enter(c) PROVE IInv'
<1> USE DEF Enter, Go, walkVars, verifyVars
<1>1. \A d \in Callers : at[d] \notin Active
  BY ScannerAssumption DEF IInv, SlotFits
<1>2. ~Sweeping /\ ~Verifying /\ ~Sweeping' /\ ~Verifying'
  BY <1>1 DEF IInv, TypeOK, Sweeping, Verifying, Sweeps, Active
<1>3. TypeOK'
  BY DEF IInv, TypeOK, Active
<1>4. SlotFits' /\ FinalFits'
  BY <1>1 DEF IInv, TypeOK, SlotFits, FinalFits, Active, Sweeps
<1>5. PoolFits'
  <2>1. AllFree
    BY <1>2, NobodyWorks
  <2> QED
    BY <2>1, <1>2 DEF AllFree, Free, PoolFits, PlaceFits, JobsFit, WalkFits, WalkPlaces, TargetPlaces
<1> QED
  BY <1>2, <1>3, <1>4, <1>5 DEF IInv, RaceFits, AnswerIsOneWholeWalk, RowsFit

LEMMA LeaveKeeps ==
    ASSUME IInv, NEW c \in Callers, Refuse(c) \/ Release(c)
    PROVE  IInv'
<1> USE DEF Refuse, Release, Go, walkVars, verifyVars
<1>1. /\ at' = [at EXCEPT ![c] = "returned"] /\ at[c] \in {"idle", "release"}
      /\ UNCHANGED <<final, stopped, fed, worker, found, raceOver, open, cut, openPorts, results, rows>>
  OBVIOUS
<1>2. (Sweeping' <=> Sweeping) /\ (Verifying' <=> Verifying)
  BY <1>1 DEF IInv, TypeOK, Sweeping, Verifying, Sweeps
<1>3. TypeOK'
  BY DEF IInv, TypeOK, Active
<1>4. SlotFits'
  BY ScannerAssumption DEF IInv, TypeOK, SlotFits, Active, Sweeps
<1>5. FinalFits'
  BY <1>1 DEF IInv, TypeOK, FinalFits, Sweeps
<1>6. PoolFits'
  BY <1>1, <1>2 DEF IInv, PoolFits, PlaceFits, JobsFit, WalkFits, Free
<1>7. RaceFits' /\ AnswerIsOneWholeWalk' /\ RowsFit'
  BY <1>1, <1>2 DEF IInv, RaceFits, Whole, AnswerIsOneWholeWalk, RowsFit, Reported
<1> QED
  BY <1>3, <1>4, <1>5, <1>6, <1>7 DEF IInv

LEMMA StopKeeps == ASSUME IInv, StopScan PROVE IInv'
<1> USE DEF StopScan, scanVars, walkVars, verifyVars
<1>1. (Sweeping' <=> Sweeping) /\ (Verifying' <=> Verifying)
  BY DEF Sweeping, Verifying
<1>2. TypeOK' /\ SlotFits' /\ FinalFits'
  BY DEF IInv, TypeOK, SlotFits, FinalFits
<1>3. PoolFits'
  BY <1>1 DEF IInv, PoolFits, PlaceFits, JobsFit, WalkFits, Free
<1>4. RaceFits' /\ AnswerIsOneWholeWalk' /\ RowsFit'
  BY <1>1 DEF IInv, RaceFits, Whole, AnswerIsOneWholeWalk, RowsFit, Reported
<1> QED
  BY <1>2, <1>3, <1>4 DEF IInv

LEMMA SweepKeeps ==
    ASSUME IInv, NEW c \in Callers, SetupDone(c) \/ SweepAgain(c)
    PROVE  IInv'
<1> USE DEF SetupDone, SweepAgain, StartSweep, Go, walkVars, verifyVars
<1>1. /\ at[c] \in {"setup", "primary"} /\ at'[c] \in Sweeps /\ at' = [at EXCEPT ![c] = at'[c]]
      /\ fed' = 0 /\ ~raceOver' /\ open' = {}
      /\ UNCHANGED <<outcome, final, slot, stopped, worker, found, results, rows>>
  BY DEF IInv, TypeOK, Sweeps
<1>2. Sweeping' /\ ~Verifying'
  BY <1>1, OnePhase DEF IInv, TypeOK, Sweeping, Verifying, Sweeps, Active
<1>3. AllFree
  <2>1. CASE at[c] = "setup"
    BY <2>1, OnePhase, NobodyWorks DEF Active, Sweeps
  <2> QED
    BY <2>1 DEF PoolDone
<1>4. TypeOK'
  <2>1. fed' \in 0 .. Addresses
    BY <1>1, ScannerAssumption
  <2>4. openPorts' \subseteq Nat
    BY ScannerAssumption DEF IInv, TypeOK
  <2>2. at' \in [Callers -> Active \cup {"idle", "returned"}]
    BY <1>1 DEF IInv, TypeOK, Active, Sweeps
  <2>3. cut' \subseteq Endpoints /\ open' \subseteq Endpoints /\ raceOver' \in BOOLEAN
    BY DEF IInv, TypeOK
  <2> QED
    BY <1>1, <2>1, <2>2, <2>3, <2>4 DEF IInv, TypeOK
<1>5. SlotFits' /\ FinalFits'
  BY <1>1 DEF IInv, TypeOK, SlotFits, FinalFits, Active, Sweeps
<1>6. PoolFits'
  BY <1>1, <1>3 DEF AllFree, Free, PoolFits, PlaceFits, JobsFit, WalkFits, WalkPlaces, TargetPlaces
<1>7. RaceFits'
  <2>1. ~stopped' => cut' = {}
    <3>1. CASE SetupDone(c)
      BY <3>1
    <3>2. CASE SweepAgain(c)
      BY <3>2 DEF IInv, RaceFits, Sweeping, Sweeps
    <3> QED
      BY <3>1, <3>2
  <2> QED
    BY <1>1, <2>1 DEF RaceFits
<1> QED
  BY <1>2, <1>4, <1>5, <1>6, <1>7 DEF IInv, AnswerIsOneWholeWalk, RowsFit

LEMMA VerifyKeeps == ASSUME IInv, NEW c \in Callers, StartVerify(c) PROVE IInv'
<1> USE DEF StartVerify, Go, walkVars, SweepOver, PoolDone
<1>1. Sweeping /\ ~Sweeping' /\ Verifying'
  BY OnePhase DEF IInv, TypeOK, Sweeping, Verifying, Sweeps, Active
<1>2. TypeOK'
  <2>1. PortsOf(open) \subseteq Nat
    BY DEF IInv, TypeOK, PortsOf, Endpoints
  <2>2. fed' \in 0 .. Addresses
    BY ScannerAssumption
  <2>3. rows' \in [Jobs \X Verdicts -> Nat] /\ results' \in [Jobs -> Verdicts \cup {"none"}]
    BY DEF NoRows
  <2> QED
    BY <2>1, <2>2, <2>3 DEF IInv, TypeOK, Active
<1>3. SlotFits' /\ FinalFits'
  BY DEF IInv, TypeOK, SlotFits, FinalFits, Active, Sweeps
<1>4. PoolFits'
  BY DEF AllFree, Free, PoolFits, PlaceFits, JobsFit, WalkFits, WalkPlaces, TargetPlaces
<1>5. AnswerIsOneWholeWalk'
  <2>1. PICK j \in 1 .. fed : Whole(j)
    BY <1>1 DEF IInv, RaceFits
  <2>2. j \in Jobs
    BY <2>1, ScannerAssumption DEF IInv, TypeOK, Jobs
  <2> QED
    BY <2>1, <2>2 DEF AnswerIsOneWholeWalk, Whole, PortsOf
<1>6. RowsFit'
  BY ScannerAssumption DEF RowsFit, NoRows, Jobs, AllFree, Free, Verdicts
<1> QED
  BY <1>1, <1>2, <1>3, <1>4, <1>5, <1>6 DEF IInv, RaceFits

(***************************************************************************)
(* The workers.                                                            *)
(***************************************************************************)
Entry == [at : WorkerPlaces, job : Jobs \cup {0}, port : Nat, left : SUBSET Nat]

LEMMA PhaseStays ==
    ASSUME IInv, UNCHANGED scanVars
    PROVE  /\ Sweeping' <=> Sweeping
           /\ Verifying' <=> Verifying
           /\ ~(Sweeping /\ Verifying)
           /\ SlotFits' /\ FinalFits'
BY DEF scanVars, IInv, Sweeping, Verifying, SlotFits, FinalFits, Active, Sweeps

\* w's entry changes, but its job does not unless w becomes free.
LEMMA EntryChanges ==
    ASSUME IInv, NEW w \in Workers, NEW r \in Entry, worker[w] # Free,
           r = Free \/ (r # Free /\ r.job = worker[w].job),
           worker' = [worker EXCEPT ![w] = r], UNCHANGED fed
    PROVE  /\ worker' \in [Workers -> Entry]
           /\ worker'[w] = r
           /\ \A v \in Workers \ {w} : worker'[v] = worker[v] /\ worker[v].job # worker[w].job
           /\ JobsFit'
<1>1. worker \in [Workers -> Entry] /\ fed \in 0 .. Addresses
  BY DEF IInv, TypeOK, Entry
<1>2. worker[w].job \in 1 .. fed /\ \A v \in Workers : worker[v].job = worker[w].job => v = w
  BY DEF IInv, PoolFits, JobsFit
<1>3. JobsFit'
  <2> SUFFICES ASSUME NEW v \in Workers, worker'[v] # Free
               PROVE  /\ worker'[v].job \in 1 .. fed
                      /\ \A u \in Workers : worker'[u].job = worker'[v].job => u = v
    BY DEF JobsFit, Free
  <2>1. worker[v] # Free /\ worker'[v].job = worker[v].job
    BY <1>1
  <2>2. \A u \in Workers : worker'[u].job \in {0, worker[u].job}
    BY <1>1 DEF Free
  <2>3. worker[v].job \in 1 .. fed /\ \A u \in Workers : worker[u].job = worker[v].job => u = v
    BY <2>1 DEF IInv, PoolFits, JobsFit
  <2> QED
    BY <1>1, <2>1, <2>2, <2>3
<1> QED
  BY <1>1, <1>2, <1>3

\* A step in a walk, as far as it is alike for all of them.
LEMMA WalkStep ==
    ASSUME IInv, NEW w \in Workers, NEW r \in Entry, worker[w].at \in WalkPlaces,
           r = Free \/ (r.at \in WalkPlaces /\ r.job = worker[w].job),
           worker' = [worker EXCEPT ![w] = r],
           UNCHANGED <<scanVars, stopped, fed, verifyVars>>
    PROVE  /\ worker' \in [Workers -> Entry] /\ worker'[w] = r
           /\ \A v \in Workers \ {w} : worker'[v] = worker[v] /\ worker[v].job # worker[w].job
           /\ Sweeping /\ Sweeping' /\ SlotFits' /\ FinalFits' /\ PlaceFits' /\ JobsFit'
           /\ AnswerIsOneWholeWalk' /\ RowsFit'
<1>1. worker[w] # Free /\ (r # Free => r.at # "free")
  BY DEF Free, WalkPlaces
<1>2. r = Free \/ (r # Free /\ r.job = worker[w].job)
  OBVIOUS
<1>3. /\ worker' \in [Workers -> Entry] /\ worker'[w] = r /\ JobsFit'
      /\ \A v \in Workers \ {w} : worker'[v] = worker[v] /\ worker[v].job # worker[w].job
  BY <1>1, <1>2, EntryChanges
<1>4. Sweeping /\ Sweeping' /\ ~Verifying' /\ SlotFits' /\ FinalFits'
  BY PhaseStays DEF IInv, PoolFits, PlaceFits
<1>5. PlaceFits'
  <2>1. ASSUME NEW v \in Workers
        PROVE  /\ worker'[v].at = "free" => worker'[v] = Free
               /\ worker'[v].at \notin TargetPlaces
    <3>1. CASE v = w
      BY <3>1, <1>1, <1>3 DEF Free, WalkPlaces, TargetPlaces
    <3>2. CASE v # w
      BY <3>2, <1>3, <1>4, PhaseStays DEF IInv, PoolFits, PlaceFits
    <3> QED
      BY <3>1, <3>2
  <2> QED
    BY <2>1, <1>4 DEF PlaceFits, Free
<1> QED
  BY <1>3, <1>4, <1>5 DEF AnswerIsOneWholeWalk, RowsFit

\* A walk that goes on or is given up, and nothing is published or cut.
LEMMA QuietWalk ==
    ASSUME IInv, NEW w \in Workers, GiveUpWalk(w) \/ TryPort(w) \/ PortTimesOut(w)
    PROVE  IInv'
<1>1. worker[w].at \in {"walk", "handshake"} /\ worker[w] \in Entry
  BY DEF GiveUpWalk, TryPort, PortTimesOut, IInv, TypeOK, Entry
<1>2. UNCHANGED <<scanVars, stopped, fed, walkVars, verifyVars>>
  BY DEF GiveUpWalk, TryPort, PortTimesOut
<1>3. PICK r \in Entry :
        /\ worker' = [worker EXCEPT ![w] = r]
        /\ \/ r = Free
           \/ /\ r.at \in WalkPlaces /\ r.job = worker[w].job
              /\ r.at = "publish" => found[w] # {}
  <2>1. CASE GiveUpWalk(w)
    <3>1. Free \in Entry
      BY DEF Free, Entry, WorkerPlaces
    <3> QED
      BY <2>1, <3>1 DEF GiveUpWalk
  <2>2. CASE TryPort(w)
    <3>1. PICK p \in worker[w].left :
            worker' = [worker EXCEPT ![w].at = "handshake", ![w].port = p, ![w].left = @ \ {p}]
      BY <2>2 DEF TryPort, TakePort
    <3> DEFINE r == [worker[w] EXCEPT !.at = "handshake", !.port = p, !.left = @ \ {p}]
    <3>2. r \in Entry /\ r.at = "handshake" /\ r.job = worker[w].job
      BY <1>1 DEF Entry, WorkerPlaces
    <3>3. worker' = [worker EXCEPT ![w] = r]
      BY <3>1, <1>1 DEF IInv, TypeOK, Entry
    <3> QED
      BY <3>2, <3>3 DEF WalkPlaces
  <2>3. CASE PortTimesOut(w)
    <3> DEFINE r == IF worker[w].left # {} THEN [worker[w] EXCEPT !.at = "walk"]
                    ELSE IF found[w] = {} THEN Free ELSE [worker[w] EXCEPT !.at = "publish"]
    <3>1. r \in Entry
      BY <1>1 DEF Entry, WorkerPlaces, Free
    <3>2. worker' = [worker EXCEPT ![w] = r]
      BY <2>3 DEF PortTimesOut, NextPort
    <3>3. r = Free \/ (r.at \in WalkPlaces /\ r.job = worker[w].job
                       /\ (r.at = "publish" => found[w] # {}))
      BY <1>1 DEF Entry, WalkPlaces
    <3> QED
      BY <3>1, <3>2, <3>3
  <2> QED
    BY <2>1, <2>2, <2>3
<1>4. /\ worker' \in [Workers -> Entry] /\ worker'[w] = r
      /\ \A v \in Workers \ {w} : worker'[v] = worker[v] /\ worker[v].job # worker[w].job
      /\ Sweeping /\ Sweeping' /\ SlotFits' /\ FinalFits' /\ PlaceFits' /\ JobsFit'
      /\ AnswerIsOneWholeWalk' /\ RowsFit'
  BY <1>1, <1>2, <1>3, WalkStep DEF WalkPlaces
<1>5. TypeOK'
  BY <1>2, <1>4 DEF IInv, TypeOK, Entry, scanVars, walkVars, verifyVars
<1>6. WalkFits'
  <2> SUFFICES ASSUME NEW v \in Workers, worker'[v].at \in WalkPlaces
               PROVE  /\ \A e \in found'[v] : e[1] = worker'[v].job
                      /\ worker'[v].at = "publish" => found'[v] # {}
    BY DEF WalkFits
  <2>1. found' = found
    BY <1>2 DEF walkVars
  <2>2. CASE v = w
    BY <2>1, <2>2, <1>1, <1>3, <1>4 DEF IInv, PoolFits, WalkFits, WalkPlaces, Free
  <2>3. CASE v # w
    BY <2>1, <2>3, <1>4 DEF IInv, PoolFits, WalkFits
  <2> QED
    BY <2>2, <2>3
<1>7. RaceFits'
  <2>1. UNCHANGED <<stopped, fed, raceOver, open, cut>> /\ fed \in Nat
    BY <1>2, ScannerAssumption DEF walkVars, IInv, TypeOK
  <2>2. \A v \in Workers : worker'[v].job \in {0, worker[v].job}
    BY <1>3, <1>4 DEF Free
  <2> QED
    BY <1>4, <2>1, <2>2 DEF IInv, RaceFits, Whole
<1> QED
  BY <1>4, <1>5, <1>6, <1>7 DEF IInv, PoolFits

\* The entry of a worker whose handshake has come to its end.
LEMMA NextPortEntry ==
    ASSUME IInv, NEW w \in Workers, worker[w].at = "handshake", NEW answers,
           NextPort(w, answers)
    PROVE  \E r \in Entry :
              /\ worker' = [worker EXCEPT ![w] = r]
              /\ \/ r = Free
                 \/ /\ r.at \in WalkPlaces /\ r.job = worker[w].job
                    /\ r.at = "publish" => answers # {}
<1> DEFINE r == IF worker[w].left # {} THEN [worker[w] EXCEPT !.at = "walk"]
                ELSE IF answers = {} THEN Free ELSE [worker[w] EXCEPT !.at = "publish"]
<1>1. worker[w] \in Entry
  BY DEF IInv, TypeOK, Entry
<1>2. r \in Entry
  BY <1>1 DEF Entry, WorkerPlaces, Free
<1>3. worker' = [worker EXCEPT ![w] = r]
  BY DEF NextPort
<1>4. r = Free \/ (r.at \in WalkPlaces /\ r.job = worker[w].job
                   /\ (r.at = "publish" => answers # {}))
  BY <1>1 DEF Entry, WalkPlaces
<1> QED
  BY <1>2, <1>3, <1>4

LEMMA PortAnswersKeeps == ASSUME IInv, NEW w \in Workers, PortAnswers(w) PROVE IInv'
<1>1. /\ worker[w].at = "handshake" /\ worker[w].at \in WalkPlaces
      /\ found' = [found EXCEPT ![w] = @ \cup {Endpoint(w)}] /\ NextPort(w, found'[w])
      /\ UNCHANGED <<scanVars, stopped, fed, verifyVars>> /\ UNCHANGED <<raceOver, open, cut>>
  BY DEF PortAnswers, WalkPlaces
<1>2. PICK r \in Entry :
        /\ worker' = [worker EXCEPT ![w] = r]
        /\ r = Free \/ (r.at \in WalkPlaces /\ r.job = worker[w].job)
  BY <1>1, NextPortEntry
<1>3. /\ worker' \in [Workers -> Entry] /\ worker'[w] = r
      /\ \A v \in Workers \ {w} : worker'[v] = worker[v] /\ worker[v].job # worker[w].job
      /\ Sweeping /\ Sweeping' /\ SlotFits' /\ FinalFits' /\ PlaceFits' /\ JobsFit'
      /\ AnswerIsOneWholeWalk' /\ RowsFit'
  BY <1>1, <1>2, WalkStep
<1>4. Endpoint(w) \in Endpoints /\ Endpoint(w)[1] = worker[w].job
  BY <1>1 DEF Endpoint, Endpoints, IInv, TypeOK, PoolFits, JobsFit, Free, Jobs
<1>5. TypeOK'
  <2>1. found' \in [Workers -> SUBSET Endpoints]
    <3>1. found \in [Workers -> SUBSET Endpoints]
      BY DEF IInv, TypeOK
    <3>2. found[w] \cup {Endpoint(w)} \in SUBSET Endpoints
      BY <1>4, <3>1
    <3> QED
      BY <1>1, <3>1, <3>2
  <2>2. worker' \in [Workers -> [at : WorkerPlaces, job : Jobs \cup {0},
                                 port : Nat, left : SUBSET Nat]]
    BY <1>3 DEF Entry
  <2> QED
    BY <1>1, <2>1, <2>2 DEF IInv, TypeOK, scanVars, verifyVars
<1>6. WalkFits'
  <2> SUFFICES ASSUME NEW v \in Workers, worker'[v].at \in WalkPlaces
               PROVE  /\ \A e \in found'[v] : e[1] = worker'[v].job
                      /\ worker'[v].at = "publish" => found'[v] # {}
    BY DEF WalkFits
  <2>1. CASE v = w
    <3>1. found'[w] = found[w] \cup {Endpoint(w)} /\ worker'[w].job = worker[w].job
      BY <2>1, <1>1, <1>2, <1>3 DEF IInv, TypeOK, Free, WalkPlaces
    <3> QED
      BY <2>1, <3>1, <1>1, <1>4 DEF IInv, PoolFits, WalkFits
  <2>2. CASE v # w
    BY <2>2, <1>1, <1>3 DEF IInv, TypeOK, PoolFits, WalkFits
  <2> QED
    BY <2>1, <2>2
<1>7. RaceFits'
  <2>1. fed \in Nat
    BY ScannerAssumption DEF IInv, TypeOK
  <2>2. \A v \in Workers : worker'[v].job \in {0, worker[v].job}
    BY <1>2, <1>3 DEF Free
  <2> QED
    BY <1>1, <1>3, <2>1, <2>2 DEF IInv, RaceFits, Whole
<1> QED
  BY <1>3, <1>5, <1>6, <1>7 DEF IInv, PoolFits

\* The context that cuts a handshake is the race's, which somebody else's address
\* has won, or the scan has been stopped.
LEMMA PortIsCutKeeps == ASSUME IInv, NEW w \in Workers, PortIsCut(w) PROVE IInv'
<1>1. /\ worker[w].at = "handshake" /\ worker[w].at \in WalkPlaces
      /\ stopped \/ raceOver
      /\ cut' = cut \cup {Endpoint(w)} /\ NextPort(w, found[w])
      /\ UNCHANGED <<scanVars, stopped, fed, verifyVars>> /\ UNCHANGED <<found, raceOver, open>>
  BY DEF PortIsCut, WalkPlaces, WalkOver
<1>2. PICK r \in Entry :
        /\ worker' = [worker EXCEPT ![w] = r]
        /\ \/ r = Free
           \/ /\ r.at \in WalkPlaces /\ r.job = worker[w].job
              /\ r.at = "publish" => found[w] # {}
  BY <1>1, NextPortEntry
<1>3. /\ worker' \in [Workers -> Entry] /\ worker'[w] = r
      /\ \A v \in Workers \ {w} : worker'[v] = worker[v] /\ worker[v].job # worker[w].job
      /\ Sweeping /\ Sweeping' /\ SlotFits' /\ FinalFits' /\ PlaceFits' /\ JobsFit'
      /\ AnswerIsOneWholeWalk' /\ RowsFit'
  BY <1>1, <1>2, WalkStep
<1>4. Endpoint(w) \in Endpoints /\ Endpoint(w)[1] = worker[w].job
  BY <1>1 DEF Endpoint, Endpoints, IInv, TypeOK, PoolFits, JobsFit, Free, Jobs
<1>5. TypeOK'
  BY <1>1, <1>3, <1>4 DEF IInv, TypeOK, Entry, scanVars, verifyVars
<1>6. WalkFits'
  <2> SUFFICES ASSUME NEW v \in Workers, worker'[v].at \in WalkPlaces
               PROVE  /\ \A e \in found'[v] : e[1] = worker'[v].job
                      /\ worker'[v].at = "publish" => found'[v] # {}
    BY DEF WalkFits
  <2>1. CASE v = w
    BY <2>1, <1>1, <1>2, <1>3 DEF IInv, PoolFits, WalkFits, WalkPlaces, Free
  <2>2. CASE v # w
    BY <2>2, <1>1, <1>3 DEF IInv, PoolFits, WalkFits
  <2> QED
    BY <2>1, <2>2
<1>7. RaceFits'
  <2> SUFFICES ASSUME ~stopped
               PROVE  /\ raceOver /\ open # {}
                      /\ \E j \in 1 .. fed : Whole(j)' /\ \A v \in Workers : worker'[v].job # j
    BY <1>1, <1>3 DEF IInv, RaceFits
  <2>1. fed \in Nat
    BY ScannerAssumption DEF IInv, TypeOK
  <2>2. raceOver /\ open # {}
    BY <1>1, <1>3 DEF IInv, RaceFits
  <2>3. PICK j \in 1 .. fed : Whole(j) /\ \A v \in Workers : worker[v].job # j
    BY <1>3, <2>2 DEF IInv, RaceFits
  <2>4. Whole(j)'
    BY <1>1, <1>4, <2>3 DEF Whole
  <2>5. \A v \in Workers : worker'[v].job \in {0, worker[v].job}
    BY <1>2, <1>3 DEF Free
  <2> QED
    BY <2>1, <2>2, <2>3, <2>4, <2>5
<1> QED
  BY <1>3, <1>5, <1>6, <1>7 DEF IInv, PoolFits

\* The first answer is published while no handshake has been cut short.
LEMMA PublishKeeps == ASSUME IInv, NEW w \in Workers, Publish(w) PROVE IInv'
<1>1. /\ worker[w].at = "publish" /\ worker[w].at \in WalkPlaces
      /\ open' = IF open = {} THEN found[w] ELSE open
      /\ raceOver' /\ raceOver' \in BOOLEAN /\ worker' = [worker EXCEPT ![w] = Free]
      /\ UNCHANGED <<scanVars, stopped, fed, verifyVars>> /\ UNCHANGED <<found, cut>>
  BY DEF Publish, WalkPlaces
<1>2. /\ found[w] # {} /\ \A e \in found[w] : e[1] = worker[w].job
      /\ worker[w].job \in 1 .. fed
  BY <1>1 DEF IInv, PoolFits, WalkFits, JobsFit, Free
<1>3. /\ worker' \in [Workers -> Entry] /\ worker'[w] = Free
      /\ \A v \in Workers \ {w} : worker'[v] = worker[v] /\ worker[v].job # worker[w].job
      /\ Sweeping /\ Sweeping' /\ SlotFits' /\ FinalFits' /\ PlaceFits' /\ JobsFit'
      /\ AnswerIsOneWholeWalk' /\ RowsFit'
  <2>1. Free \in Entry
    BY DEF Free, Entry, WorkerPlaces
  <2> QED
    BY <1>1, <2>1, WalkStep
<1>4. TypeOK'
  BY <1>1, <1>3 DEF IInv, TypeOK, Entry, scanVars, verifyVars
<1>5. WalkFits'
  BY <1>1, <1>3 DEF IInv, PoolFits, WalkFits, WalkPlaces, Free
<1>6. open' # {}
  BY <1>1, <1>2
<1>7. ~stopped => \E j \in 1 .. fed : Whole(j)' /\ \A v \in Workers : worker'[v].job # j
  <2> SUFFICES ASSUME ~stopped
               PROVE  \E j \in 1 .. fed : Whole(j)' /\ \A v \in Workers : worker'[v].job # j
    OBVIOUS
  <2>1. fed \in Nat
    BY ScannerAssumption DEF IInv, TypeOK
  <2>2. CASE open = {}
    <3>1. cut = {}
      BY <2>2, <1>3 DEF IInv, RaceFits
    <3>2. /\ \A e \in open' : e[1] = worker[w].job
          /\ \A e \in cut' : e[1] # worker[w].job
      BY <2>2, <3>1, <1>1, <1>2
    <3>3. \A v \in Workers : worker'[v].job # worker[w].job
      BY <1>2, <1>3, <2>1 DEF Free
    <3> QED
      BY <1>2, <3>2, <3>3 DEF Whole
  <2>3. CASE open # {}
    <3>1. PICK j \in 1 .. fed : Whole(j) /\ \A v \in Workers : worker[v].job # j
      BY <1>3, <2>3 DEF IInv, RaceFits
    <3>2. Whole(j)'
      BY <1>1, <2>3, <3>1 DEF Whole
    <3>3. \A v \in Workers : worker'[v].job # j
      BY <1>3, <2>1, <3>1 DEF Free
    <3> QED
      BY <3>2, <3>3
  <2> QED
    BY <2>2, <2>3
<1>8. RaceFits'
  BY <1>1, <1>6, <1>7 DEF RaceFits
<1> QED
  BY <1>3, <1>4, <1>5, <1>8 DEF IInv, PoolFits

\* A job is handed out: it is new, so nobody holds it and nothing has been
\* reported about it.
LEMMA JobTaken ==
    ASSUME IInv, NEW w \in Workers, NEW place \in {"walk", "target"}, NEW ports \in SUBSET Nat,
           TakeJob(w, place, ports), UNCHANGED scanVars
    PROVE  /\ worker' \in [Workers -> Entry] /\ fed' \in 0 .. Addresses
           /\ fed \in Nat /\ fed' = fed + 1 /\ fed' \in Jobs
           /\ worker'[w].at = place /\ worker'[w].job = fed'
           /\ \A v \in Workers \ {w} : worker'[v] = worker[v]
           /\ \A v \in Workers : worker[v].job # fed'
           /\ worker[w] = Free
           /\ JobsFit'
<1> DEFINE r == [at |-> place, job |-> fed + 1, port |-> 0, left |-> ports]
<1>1. /\ worker' = [worker EXCEPT ![w] = r] /\ fed' = fed + 1 /\ worker[w] = Free
      /\ fed \in Nat /\ fed < Addresses /\ Addresses \in Nat /\ worker \in [Workers -> Entry]
  BY ScannerAssumption DEF TakeJob, IInv, TypeOK, Entry
<1>2. fed' \in 0 .. Addresses /\ fed' \in Jobs
  BY <1>1 DEF Jobs
<1>3. r \in Entry
  BY <1>1, <1>2 DEF Entry, WorkerPlaces
<1>4. /\ worker' \in [Workers -> Entry] /\ worker'[w] = r
      /\ \A v \in Workers \ {w} : worker'[v] = worker[v]
  BY <1>1, <1>3
<1>5. \A v \in Workers : worker[v].job \in 0 .. fed
  BY <1>1 DEF IInv, PoolFits, JobsFit, Free
<1>6. \A v \in Workers : worker[v].job # fed'
  BY <1>1, <1>5
<1>7. JobsFit'
  <2> SUFFICES ASSUME NEW v \in Workers, worker'[v] # Free
               PROVE  /\ worker'[v].job \in 1 .. fed'
                      /\ \A u \in Workers : worker'[u].job = worker'[v].job => u = v
    BY DEF JobsFit, Free
  <2>1. CASE v = w
    BY <2>1, <1>1, <1>4, <1>6
  <2>2. CASE v # w
    <3>1. /\ worker[v].job \in 1 .. fed
          /\ \A u \in Workers : worker[u].job = worker[v].job => u = v
      BY <2>2, <1>4 DEF IInv, PoolFits, JobsFit
    <3> QED
      BY <2>2, <3>1, <1>1, <1>4, <1>6
  <2> QED
    BY <2>1, <2>2
<1> QED
  BY <1>1, <1>2, <1>4, <1>6, <1>7

LEMMA TakeWalkKeeps == ASSUME IInv, NEW w \in Workers, TakeWalk(w) PROVE IInv'
<1>1. /\ Sweeping /\ found' = [found EXCEPT ![w] = {}]
      /\ TakeJob(w, "walk", SweepPorts) /\ SweepPorts \in SUBSET Nat
      /\ UNCHANGED <<scanVars, stopped, raceOver, open, cut, verifyVars>>
  BY ScannerAssumption DEF TakeWalk, SweepPorts
<1>2. /\ worker' \in [Workers -> Entry] /\ fed' \in 0 .. Addresses
      /\ fed \in Nat /\ fed' = fed + 1
      /\ worker'[w].at = "walk" /\ worker'[w].job = fed'
      /\ \A v \in Workers \ {w} : worker'[v] = worker[v]
      /\ JobsFit'
  BY <1>1, JobTaken
<1>3. Sweeping' /\ ~Verifying' /\ ~Verifying /\ SlotFits' /\ FinalFits'
  BY <1>1, PhaseStays
<1>4. TypeOK'
  BY <1>1, <1>2 DEF IInv, TypeOK, Entry, scanVars, verifyVars
<1>5. PlaceFits'
  <2>1. ASSUME NEW v \in Workers
        PROVE  /\ worker'[v].at = "free" => worker'[v] = Free
               /\ worker'[v].at \notin TargetPlaces
    <3>1. CASE v = w
      BY <3>1, <1>2 DEF TargetPlaces
    <3>2. CASE v # w
      BY <3>2, <1>2, <1>3 DEF IInv, PoolFits, PlaceFits
    <3> QED
      BY <3>1, <3>2
  <2> QED
    BY <2>1, <1>3 DEF PlaceFits, Free
<1>6. WalkFits'
  <2> SUFFICES ASSUME NEW v \in Workers, worker'[v].at \in WalkPlaces
               PROVE  /\ \A e \in found'[v] : e[1] = worker'[v].job
                      /\ worker'[v].at = "publish" => found'[v] # {}
    BY DEF WalkFits
  <2>1. CASE v = w
    BY <2>1, <1>1, <1>2 DEF IInv, TypeOK
  <2>2. CASE v # w
    BY <2>2, <1>1, <1>2 DEF IInv, TypeOK, PoolFits, WalkFits
  <2> QED
    BY <2>1, <2>2
<1>7. RaceFits'
  BY <1>1, <1>2, <1>3 DEF IInv, RaceFits, Whole
<1>8. AnswerIsOneWholeWalk' /\ RowsFit'
  BY <1>3 DEF AnswerIsOneWholeWalk, RowsFit
<1> QED
  BY <1>2, <1>3, <1>4, <1>5, <1>6, <1>7, <1>8 DEF IInv, PoolFits

LEMMA TakeTargetKeeps == ASSUME IInv, NEW w \in Workers, TakeTarget(w) PROVE IInv'
<1>1. /\ Verifying /\ TakeJob(w, "target", openPorts) /\ openPorts \in SUBSET Nat
      /\ UNCHANGED <<scanVars, stopped, walkVars, verifyVars>>
      /\ UNCHANGED <<found, raceOver, open, cut, openPorts, results, rows>>
  BY DEF TakeTarget, IInv, TypeOK, scanVars, walkVars, verifyVars
<1>2. /\ worker' \in [Workers -> Entry] /\ fed' \in 0 .. Addresses
      /\ fed \in Nat /\ fed' = fed + 1 /\ fed' \in Jobs
      /\ worker'[w].at = "target" /\ worker'[w].job = fed' /\ worker[w] = Free
      /\ \A v \in Workers \ {w} : worker'[v] = worker[v]
      /\ \A v \in Workers : worker[v].job # fed'
      /\ JobsFit'
  BY <1>1, JobTaken
<1>3. Verifying' /\ ~Sweeping' /\ ~Sweeping /\ SlotFits' /\ FinalFits'
  BY <1>1, PhaseStays
<1>4. TypeOK'
  BY <1>1, <1>2 DEF IInv, TypeOK, Entry, scanVars
<1>5. PlaceFits'
  <2>1. ASSUME NEW v \in Workers
        PROVE  /\ worker'[v].at = "free" => worker'[v] = Free
               /\ worker'[v].at \notin WalkPlaces
    <3>1. CASE v = w
      BY <3>1, <1>2 DEF WalkPlaces
    <3>2. CASE v # w
      BY <3>2, <1>2, <1>3 DEF IInv, PoolFits, PlaceFits
    <3> QED
      BY <3>1, <3>2
  <2> QED
    BY <2>1, <1>3 DEF PlaceFits, Free
<1>6. WalkFits'
  BY <1>3, <1>5 DEF PlaceFits, WalkFits
<1>7. AnswerIsOneWholeWalk' /\ RaceFits'
  BY <1>1, <1>3 DEF IInv, AnswerIsOneWholeWalk, RaceFits
<1>8. RowsFit'
  <2> SUFFICES ASSUME NEW j \in Jobs
               PROVE  /\ j > fed' => \A v \in Verdicts : rows[<<j, v>>] = 0
                      /\ \A u \in Workers : worker'[u].job = j =>
                            /\ \A v \in Verdicts : rows[<<j, v>>] = 0
                            /\ worker'[u].at \in Verdicts => results[j] = worker'[u].at
                      /\ j <= fed' /\ (\A u \in Workers : worker'[u].job # j) => Reported(j)
    BY <1>1 DEF RowsFit, Reported
  <2>1. j \in Nat
    BY ScannerAssumption DEF Jobs
  <2>2. CASE j = fed'
    <3>1. \A v \in Verdicts : rows[<<j, v>>] = 0
      BY <2>1, <2>2, <1>1, <1>2 DEF IInv, RowsFit
    <3> QED
      BY <2>1, <2>2, <3>1, <1>2 DEF Verdicts
  <2>3. CASE j # fed'
    <3>1. (\A u \in Workers : worker'[u].job # j) => (\A u \in Workers : worker[u].job # j)
      BY <2>1, <1>2 DEF Free, Jobs
    <3> QED
      BY <2>1, <2>3, <3>1, <1>1, <1>2 DEF IInv, RowsFit
  <2> QED
    BY <2>2, <2>3
<1> QED
  BY <1>2, <1>3, <1>4, <1>5, <1>6, <1>7, <1>8 DEF IInv, PoolFits

\* A step in the second phase, as far as it is alike for all of them.
LEMMA TargetStep ==
    ASSUME IInv, NEW w \in Workers, NEW r \in Entry, worker[w].at \in TargetPlaces,
           r = Free \/ (r.at \in TargetPlaces /\ r.job = worker[w].job),
           worker' = [worker EXCEPT ![w] = r],
           UNCHANGED <<scanVars, stopped, fed, walkVars>>
    PROVE  /\ worker' \in [Workers -> Entry] /\ worker'[w] = r
           /\ \A v \in Workers \ {w} : worker'[v] = worker[v] /\ worker[v].job # worker[w].job
           /\ worker[w].job \in 1 .. fed /\ worker[w].job \in Jobs
           /\ Verifying /\ Verifying' /\ SlotFits' /\ FinalFits' /\ PoolFits'
           /\ AnswerIsOneWholeWalk' /\ RaceFits'
<1>1. worker[w] # Free /\ (r # Free => r.at # "free")
  BY DEF Free, TargetPlaces
<1>2. r = Free \/ (r # Free /\ r.job = worker[w].job)
  BY <1>1 DEF Free, TargetPlaces
<1>3. /\ worker' \in [Workers -> Entry] /\ worker'[w] = r /\ JobsFit'
      /\ \A v \in Workers \ {w} : worker'[v] = worker[v] /\ worker[v].job # worker[w].job
  BY <1>1, <1>2, EntryChanges
<1>4. Verifying /\ Verifying' /\ ~Sweeping /\ ~Sweeping' /\ SlotFits' /\ FinalFits'
  BY PhaseStays DEF IInv, PoolFits, PlaceFits
<1>5. \A v \in Workers : /\ worker'[v].at = "free" => worker'[v] = Free
                         /\ worker'[v].at \notin WalkPlaces
  <2> TAKE v \in Workers
  <2>1. CASE v = w
    BY <2>1, <1>1, <1>3 DEF Free, WalkPlaces, TargetPlaces
  <2>2. CASE v # w
    BY <2>2, <1>3, <1>4 DEF IInv, PoolFits, PlaceFits
  <2> QED
    BY <2>1, <2>2
<1>6. PoolFits'
  BY <1>3, <1>4, <1>5 DEF PoolFits, PlaceFits, WalkFits, Free
<1>7. AnswerIsOneWholeWalk' /\ RaceFits'
  BY <1>4 DEF IInv, AnswerIsOneWholeWalk, RaceFits, scanVars, walkVars
<1>8. worker[w].job \in 1 .. fed /\ worker[w].job \in Jobs
  <2>1. worker[w].job \in 1 .. fed
    BY <1>1 DEF IInv, PoolFits, JobsFit
  <2> QED
    BY <2>1, ScannerAssumption DEF IInv, TypeOK, Jobs
<1> QED
  BY <1>3, <1>4, <1>6, <1>7, <1>8

\* The next endpoint is tried, or one has failed and others are left.
LEMMA QuietTarget ==
    ASSUME IInv, NEW w \in Workers,
           TryEndpoint(w) \/ (ProbeFails(w) /\ worker[w].left # {})
    PROVE  IInv'
<1>1. /\ worker[w].at \in {"target", "probe"} /\ worker[w] \in Entry
      /\ UNCHANGED <<scanVars, stopped, fed, walkVars>> /\ UNCHANGED <<results, rows>>
  BY DEF TryEndpoint, ProbeFails, IInv, TypeOK, Entry, verifyVars
<1>2. PICK r \in Entry : /\ worker' = [worker EXCEPT ![w] = r]
                         /\ r.at \in {"target", "probe"} /\ r.job = worker[w].job
  <2>1. CASE TryEndpoint(w)
    <3>1. PICK p \in worker[w].left :
            worker' = [worker EXCEPT ![w].at = "probe", ![w].port = p, ![w].left = @ \ {p}]
      BY <2>1 DEF TryEndpoint, TakePort
    <3> DEFINE r == [worker[w] EXCEPT !.at = "probe", !.port = p, !.left = @ \ {p}]
    <3>2. r \in Entry /\ r.at = "probe" /\ r.job = worker[w].job
      BY <1>1 DEF Entry, WorkerPlaces
    <3>3. worker' = [worker EXCEPT ![w] = r]
      BY <3>1, <1>1 DEF IInv, TypeOK, Entry
    <3> QED
      BY <3>2, <3>3
  <2>2. CASE ProbeFails(w) /\ worker[w].left # {}
    <3> DEFINE r == [worker[w] EXCEPT !.at = "target"]
    <3>1. r \in Entry /\ r.at = "target" /\ r.job = worker[w].job
      BY <1>1 DEF Entry, WorkerPlaces
    <3>2. worker' = [worker EXCEPT ![w] = r]
      BY <2>2, <1>1 DEF ProbeFails, IInv, TypeOK, Entry
    <3> QED
      BY <3>1, <3>2
  <2> QED
    BY <2>1, <2>2
<1>3. /\ worker' \in [Workers -> Entry] /\ worker'[w] = r
      /\ \A v \in Workers \ {w} : worker'[v] = worker[v]
      /\ Verifying /\ SlotFits' /\ FinalFits' /\ PoolFits'
      /\ AnswerIsOneWholeWalk' /\ RaceFits'
  BY <1>1, <1>2, TargetStep DEF TargetPlaces
<1>4. TypeOK'
  BY <1>1, <1>3 DEF IInv, TypeOK, Entry, scanVars, walkVars
<1>5. \A v \in Workers : /\ worker'[v].job = worker[v].job
                         /\ worker'[v].at \in Verdicts => worker'[v] = worker[v]
  BY <1>2, <1>3 DEF Verdicts
<1>6. RowsFit'
  BY <1>1, <1>3, <1>5 DEF IInv, RowsFit, Reported
<1> QED
  BY <1>3, <1>4, <1>6 DEF IInv

LEMMA StoreKeeps ==
    ASSUME IInv, NEW w \in Workers, NEW verdict \in Verdicts,
           worker[w].at \in {"target", "probe"}, Store(w, verdict)
    PROVE  IInv'
<1> DEFINE r == [worker[w] EXCEPT !.at = verdict, !.left = {}]
<1>1. /\ worker[w] \in Entry
      /\ UNCHANGED <<scanVars, stopped, fed, walkVars>> /\ UNCHANGED rows
      /\ results' = [results EXCEPT ![worker[w].job] = verdict]
  BY DEF Store, IInv, TypeOK, Entry
<1>2. r \in Entry /\ r.at = verdict /\ r.job = worker[w].job /\ r.at \in TargetPlaces
  BY <1>1 DEF Entry, WorkerPlaces, TargetPlaces, Verdicts
<1>3. worker' = [worker EXCEPT ![w] = r]
  BY <1>1 DEF Store, IInv, TypeOK, Entry
<1>4. /\ worker' \in [Workers -> Entry] /\ worker'[w] = r
      /\ \A v \in Workers \ {w} : worker'[v] = worker[v] /\ worker[v].job # worker[w].job
      /\ worker[w].job \in 1 .. fed /\ worker[w].job \in Jobs
      /\ Verifying /\ SlotFits' /\ FinalFits' /\ PoolFits'
      /\ AnswerIsOneWholeWalk' /\ RaceFits'
  <2> HIDE DEF r
  <2> QED
    BY <1>1, <1>2, <1>3, TargetStep DEF TargetPlaces
<1>5. /\ results \in [Jobs -> Verdicts \cup {"none"}]
      /\ results' \in [Jobs -> Verdicts \cup {"none"}]
      /\ results'[worker[w].job] = verdict
      /\ \A j \in Jobs : j # worker[w].job => results'[j] = results[j]
  BY <1>1, <1>4 DEF IInv, TypeOK
<1>6. TypeOK'
  BY <1>1, <1>4, <1>5 DEF IInv, TypeOK, Entry, scanVars, walkVars
<1>7. \A v \in Workers : worker'[v].job = worker[v].job
  BY <1>2, <1>4
<1>8. RowsFit'
  <2> SUFFICES ASSUME NEW j \in Jobs
               PROVE  /\ j > fed => \A v \in Verdicts : rows[<<j, v>>] = 0
                      /\ \A u \in Workers : worker'[u].job = j =>
                            /\ \A v \in Verdicts : rows[<<j, v>>] = 0
                            /\ worker'[u].at \in Verdicts => results'[j] = worker'[u].at
                      /\ j <= fed /\ (\A u \in Workers : worker'[u].job # j) => Reported(j)'
    BY <1>1 DEF RowsFit
  <2>1. CASE j = worker[w].job
    <3>1. j \in 1 .. fed /\ worker'[w].job = j /\ worker'[w].at = verdict /\ results'[j] = verdict
      BY <2>1, <1>2, <1>4, <1>5
    <3>2. \A u \in Workers \ {w} : worker'[u].job # j
      BY <2>1, <1>4
    <3>3. \A v \in Verdicts : rows[<<j, v>>] = 0
      BY <2>1, <1>4 DEF IInv, RowsFit
    <3> QED
      BY <3>1, <3>2, <3>3
  <2>2. CASE j # worker[w].job
    <3>1. \A u \in Workers : worker'[u].job = j => worker'[u] = worker[u]
      BY <2>2, <1>4, <1>7
    <3> QED
      BY <2>2, <3>1, <1>1, <1>4, <1>5, <1>7 DEF IInv, RowsFit, Reported
  <2> QED
    BY <2>1, <2>2
<1> QED
  BY <1>4, <1>6, <1>8 DEF IInv

LEMMA OnResultKeeps == ASSUME IInv, NEW w \in Workers, OnResult(w) PROVE IInv'
<1>1. /\ worker[w].at \in Verdicts /\ worker[w].at \in TargetPlaces
      /\ worker' = [worker EXCEPT ![w] = Free] /\ UNCHANGED results
      /\ UNCHANGED <<scanVars, stopped, fed, walkVars>>
      /\ rows' = [rows EXCEPT ![<<worker[w].job, worker[w].at>>] = @ + 1]
  BY DEF OnResult, Verdicts, TargetPlaces
<1>2. /\ worker' \in [Workers -> Entry] /\ worker'[w] = Free
      /\ \A v \in Workers \ {w} : worker'[v] = worker[v] /\ worker[v].job # worker[w].job
      /\ worker[w].job \in 1 .. fed /\ worker[w].job \in Jobs
      /\ Verifying /\ SlotFits' /\ FinalFits' /\ PoolFits'
      /\ AnswerIsOneWholeWalk' /\ RaceFits'
  <2>1. Free \in Entry
    BY DEF Free, Entry, WorkerPlaces
  <2> QED
    BY <1>1, <2>1, TargetStep
<1>3. /\ rows \in [Jobs \X Verdicts -> Nat] /\ rows' \in [Jobs \X Verdicts -> Nat]
      /\ \A j \in Jobs, v \in Verdicts :
            rows'[<<j, v>>] = IF j = worker[w].job /\ v = worker[w].at
                              THEN rows[<<j, v>>] + 1 ELSE rows[<<j, v>>]
  <2> DEFINE mine == <<worker[w].job, worker[w].at>>
  <2>1. rows \in [Jobs \X Verdicts -> Nat] /\ mine \in Jobs \X Verdicts
    BY <1>1, <1>2 DEF IInv, TypeOK
  <2>2. \A j \in Jobs, v \in Verdicts :
          <<j, v>> \in Jobs \X Verdicts /\ (<<j, v>> = mine <=> j = worker[w].job /\ v = worker[w].at)
    OBVIOUS
  <2>3. rows' = [rows EXCEPT ![mine] = rows[mine] + 1]
    BY <1>1
  <2> HIDE DEF mine
  <2>4. rows' \in [Jobs \X Verdicts -> Nat]
    BY <2>1, <2>3
  <2>5. \A j \in Jobs, v \in Verdicts :
          rows'[<<j, v>>] = IF <<j, v>> = mine THEN rows[<<j, v>>] + 1 ELSE rows[<<j, v>>]
    BY <2>1, <2>2, <2>3
  <2> QED
    BY <2>1, <2>2, <2>4, <2>5
<1>4. TypeOK'
  BY <1>1, <1>2, <1>3 DEF IInv, TypeOK, Entry, scanVars, walkVars
<1>5. RowsFit'
  <2> SUFFICES ASSUME NEW j \in Jobs
               PROVE  /\ j > fed => \A v \in Verdicts : rows'[<<j, v>>] = 0
                      /\ \A u \in Workers : worker'[u].job = j =>
                            /\ \A v \in Verdicts : rows'[<<j, v>>] = 0
                            /\ worker'[u].at \in Verdicts => results[j] = worker'[u].at
                      /\ j <= fed /\ (\A u \in Workers : worker'[u].job # j) => Reported(j)'
    BY <1>1 DEF RowsFit
  <2>1. j \in Nat \ {0} /\ fed \in Nat
    BY ScannerAssumption DEF Jobs, IInv, TypeOK
  <2>2. CASE j = worker[w].job
    <3>1. \A u \in Workers : worker'[u].job # j
      BY <2>1, <2>2, <1>2 DEF Free
    <3>2. results[j] = worker[w].at /\ \A v \in Verdicts : rows[<<j, v>>] = 0
      BY <2>2, <1>1, <1>2 DEF IInv, RowsFit
    <3>3. Reported(j)'
      BY <2>2, <3>2, <1>1, <1>3 DEF Reported
    <3> QED
      BY <2>1, <2>2, <3>1, <3>3, <1>2
  <2>3. CASE j # worker[w].job
    <3>1. \A u \in Workers : worker'[u].job = j => worker'[u] = worker[u]
      BY <2>1, <1>2 DEF Free
    <3>2. (\A u \in Workers : worker'[u].job # j) => (\A u \in Workers : worker[u].job # j)
      BY <2>3, <1>2
    <3> QED
      BY <2>3, <3>1, <3>2, <1>1, <1>2, <1>3 DEF IInv, RowsFit, Reported
  <2> QED
    BY <2>2, <2>3
<1> QED
  BY <1>2, <1>4, <1>5 DEF IInv

LEMMA WorkKeeps == ASSUME IInv, NEW w \in Workers, Work(w) PROVE IInv'
<1>1. CASE TakeWalk(w) \/ TakeTarget(w)
  BY <1>1, TakeWalkKeeps, TakeTargetKeeps
<1>2. CASE GiveUpWalk(w) \/ TryPort(w) \/ PortTimesOut(w)
  BY <1>2, QuietWalk
<1>3. CASE PortAnswers(w) \/ PortIsCut(w) \/ Publish(w)
  BY <1>3, PortAnswersKeeps, PortIsCutKeeps, PublishKeeps
<1>4. CASE TryEndpoint(w) \/ (ProbeFails(w) /\ worker[w].left # {})
  BY <1>4, QuietTarget
<1>5. CASE GiveUpTarget(w) \/ ProbeSucceeds(w) \/ (ProbeFails(w) /\ worker[w].left = {})
  BY <1>5, StoreKeeps DEF GiveUpTarget, ProbeSucceeds, ProbeFails, Verdicts
<1>6. CASE OnResult(w)
  BY <1>6, OnResultKeeps
<1> QED
  BY <1>1, <1>2, <1>3, <1>4, <1>5, <1>6 DEF Work

LEMMA StepKeepsIInv == IInv /\ [Next]_vars => IInv'
<1> SUFFICES ASSUME IInv, [Next]_vars PROVE IInv'
  OBVIOUS
<1>1. ASSUME NEW c \in Callers, Enter(c) \/ Refuse(c) \/ Scan(c) PROVE IInv'
  BY <1>1, EnterKeeps, LeaveKeeps, ReturnsKeep, SweepKeeps, VerifyKeeps DEF Scan
<1>2. ASSUME NEW w \in Workers, Work(w) PROVE IInv'
  BY <1>2, WorkKeeps
<1>3. CASE StopScan
  BY <1>3, StopKeeps
<1>4. CASE UNCHANGED vars
  <2> USE <1>4 DEF vars, scanVars, walkVars, verifyVars
  <2>1. TypeOK' /\ SlotFits' /\ FinalFits'
    BY DEF IInv, TypeOK, SlotFits, FinalFits
  <2>2. (Sweeping' <=> Sweeping) /\ (Verifying' <=> Verifying)
    BY DEF Sweeping, Verifying
  <2>3. PoolFits'
    BY <2>2 DEF IInv, PoolFits, PlaceFits, JobsFit, WalkFits, Free
  <2>4. RaceFits' /\ AnswerIsOneWholeWalk' /\ RowsFit'
    BY <2>2 DEF IInv, RaceFits, Whole, AnswerIsOneWholeWalk, RowsFit, Reported
  <2> QED
    BY <2>1, <2>3, <2>4 DEF IInv
<1> QED
  BY <1>1, <1>2, <1>3, <1>4 DEF Next

------------------------------------------------------------------------------
\* The inductive invariant: one scan in the slot, its workers on distinct jobs of
\* its phase, the winner of the race untouched by the cancellation it causes, and
\* a row for every job that is over.
THEOREM Invariant == Spec => []IInv
BY InitIInv, StepKeepsIInv, PTL DEF Spec

\* Type correctness; in particular no scan makes two final callbacks.
THEOREM TypeCorrect == Spec => []TypeOK
<1>1. IInv => TypeOK
  BY DEF IInv
<1> QED
  BY <1>1, Invariant, PTL

\* One scan runs at a time, it is the one in the slot (scanMu, scanCancel), and
\* its workers do not outlive it.
THEOREM OneScan == Spec => []OneScanAtATime
<1>1. ASSUME IInv PROVE OneScanAtATime
  <2>1. slot = None => AllFree
    BY <1>1, ScannerAssumption, NobodyWorks DEF IInv, SlotFits, Sweeping, Verifying, Active, Sweeps
  <2> QED
    BY <1>1, <2>1 DEF IInv, TypeOK, SlotFits, OneScanAtATime
<1> QED
  BY <1>1, Invariant, PTL

\* The ports that a scan verifies with are those of one address, whose walk
\* neither the race nor StopScan has cut short.
THEOREM AnswerWhole == Spec => []AnswerIsOneWholeWalk
<1>1. IInv => AnswerIsOneWholeWalk
  BY DEF IInv
<1> QED
  BY <1>1, Invariant, PTL

\* When OnDone is called every address has been reported once, as counted.
THEOREM SummaryTrue == Spec => SummaryMatchesRows
<1>1. ASSUME IInv, [Next]_vars, NEW c \in Callers,
             outcome'[c] = "done", outcome[c] # "done", NEW j \in Jobs
      PROVE  Reported(j)
  <2>1. Summary(c)
    <3>1. ASSUME NEW d \in Callers, Enter(d) \/ Refuse(d) \/ Scan(d) PROVE Summary(c)
      BY <1>1, <3>1 DEF IInv, TypeOK, Enter, Refuse, Scan, Fails, SetupDone, SweepAgain,
         StartSweep, Cancelled, NoPortReachable, StartVerify, Summary, Release, Conclude
    <3>2. ASSUME NEW w \in Workers, Work(w) PROVE UNCHANGED outcome
      BY <3>2 DEF Work, TakeWalk, GiveUpWalk, TryPort, PortAnswers, PortTimesOut, PortIsCut,
         Publish, TakeTarget, TryEndpoint, GiveUpTarget, ProbeSucceeds, ProbeFails, Store,
         OnResult, scanVars
    <3>3. CASE StopScan \/ UNCHANGED vars
      BY <1>1, <3>3 DEF StopScan, vars, scanVars
    <3> QED
      BY <1>1, <3>1, <3>2, <3>3 DEF Next
  <2>2. Verifying /\ fed = Addresses /\ AllFree
    BY <2>1 DEF Summary, PoolDone, Verifying
  <2>3. j <= fed /\ \A w \in Workers : worker[w].job # j
    BY <2>2, ScannerAssumption DEF Jobs, AllFree, Free
  <2> QED
    BY <1>1, <2>2, <2>3 DEF IInv, RowsFit
<1>2. IInv /\ [Next]_vars =>
        [\A c \in Callers : outcome'[c] = "done" /\ outcome[c] # "done" =>
            \A j \in Jobs : Reported(j)]_vars
  BY <1>1
<1> QED
  BY <1>2, Invariant, PTL DEF Spec, SummaryMatchesRows

------------------------------------------------------------------------------
(***************************************************************************)
(* Scan implements the slot.                                               *)
(***************************************************************************)
Running == {c \in Callers : at[c] \in Active}
Busy == {w \in Workers : worker[w] # Free}

\* With the slot free nobody scans and no worker is left; otherwise the holder
\* alone scans.
LEMMA SlotFacts ==
    ASSUME IInv
    PROVE  /\ slot = None => Running = {} /\ AllFree
           /\ slot # None => slot \in Callers /\ Running = {slot}
           /\ AllFree <=> Busy = {}
<1>1. slot = None => \A c \in Callers : at[c] \notin Active
  BY ScannerAssumption DEF IInv, SlotFits
<1>2. slot = None => AllFree
  BY <1>1, NobodyWorks DEF Sweeping, Verifying, Active, Sweeps
<1>3. slot # None => slot \in Callers /\ \A c \in Callers : at[c] \in Active <=> c = slot
  BY DEF IInv, TypeOK, SlotFits
<1> QED
  BY <1>1, <1>2, <1>3 DEF Running, Busy, AllFree

LEMMA InitSlot == Init => Slot!Init
<1> SUFFICES ASSUME Init PROVE Slot!Init
  OBVIOUS
<1>1. Running = {} /\ Busy = {}
  BY DEF Init, Running, Busy, Active, Sweeps
<1> QED
  BY <1>1 DEF Init, Slot!Init, Running, Busy

LEMMA EnterBegins == ASSUME IInv, NEW c \in Callers, Enter(c) PROVE Slot!Begin(c)
<1>1. /\ slot = None /\ slot' = c /\ stopped' = FALSE /\ worker' = worker
      /\ at' = [at EXCEPT ![c] = "setup"]
  BY DEF Enter, Go
<1>2. Running = {} /\ Busy = {} /\ AllFree
  BY <1>1, SlotFacts
<1>3. Running' = {c}
  BY <1>1, <1>2 DEF Running, Active, IInv, TypeOK
<1>4. Busy' = {}
  BY <1>1, <1>2 DEF Busy
<1> QED
  BY <1>1, <1>2, <1>3, <1>4 DEF Slot!Begin, Running, Busy

\* A step of a scan that neither takes nor frees the slot.
LEMMA ScanStays ==
    ASSUME IInv, NEW c \in Callers,
           Refuse(c) \/ (Scan(c) /\ ~Release(c))
    PROVE  UNCHANGED <<slot, Running, Busy, stopped>>
<1>1. /\ UNCHANGED <<slot, stopped, worker>>
      /\ \E place : at' = [at EXCEPT ![c] = place] /\ (at[c] \in Active <=> place \in Active)
  BY DEF Refuse, Scan, Fails, SetupDone, SweepAgain, StartSweep, Cancelled, PhaseOver, SweepOver,
         NoPortReachable, StartVerify, Summary, Conclude, Go, Active, Sweeps
<1> QED
  BY <1>1 DEF Running, Busy, IInv, TypeOK

\* A worker takes a job, goes on with it, or has finished it.
LEMMA WorkHelps ==
    ASSUME IInv, NEW w \in Workers, Work(w)
    PROVE  /\ UNCHANGED <<slot, at, stopped>>
           /\ \A v \in Workers \ {w} : worker'[v] = worker[v]
           /\ slot # None
<1>1. UNCHANGED <<slot, at, stopped>>
  BY DEF Work, TakeWalk, GiveUpWalk, TryPort, PortAnswers, PortTimesOut, PortIsCut, Publish,
         TakeTarget, TryEndpoint, GiveUpTarget, ProbeSucceeds, ProbeFails, Store, OnResult, scanVars
<1>2. \A v \in Workers \ {w} : worker'[v] = worker[v]
  <2>1. worker \in [Workers -> Entry]
    BY DEF IInv, TypeOK, Entry
  <2>2. CASE TakeWalk(w) \/ TakeTarget(w) \/ GiveUpWalk(w) \/ Publish(w) \/ OnResult(w)
    BY <2>1, <2>2 DEF TakeWalk, TakeTarget, TakeJob, GiveUpWalk, Publish, OnResult
  <2>3. CASE TryPort(w) \/ TryEndpoint(w)
    <3>1. CASE TryPort(w)
      <4>1. PICK p \in worker[w].left :
              worker' = [worker EXCEPT ![w].at = "handshake", ![w].port = p, ![w].left = @ \ {p}]
        BY <3>1, Zenon DEF TryPort, TakePort
      <4> DEFINE r == [worker[w] EXCEPT !.at = "handshake", !.port = p, !.left = @ \ {p}]
      <4>2. worker' = [worker EXCEPT ![w] = r]
        BY <2>1, <4>1 DEF Entry
      <4> HIDE DEF r
      <4> QED
        BY <2>1, <4>2
    <3>2. CASE TryEndpoint(w)
      <4>1. PICK p \in worker[w].left :
              worker' = [worker EXCEPT ![w].at = "probe", ![w].port = p, ![w].left = @ \ {p}]
        BY <3>2, Zenon DEF TryEndpoint, TakePort
      <4> DEFINE r == [worker[w] EXCEPT !.at = "probe", !.port = p, !.left = @ \ {p}]
      <4>2. worker' = [worker EXCEPT ![w] = r]
        BY <2>1, <4>1 DEF Entry
      <4> HIDE DEF r
      <4> QED
        BY <2>1, <4>2
    <3> QED
      BY <2>3, <3>1, <3>2
  <2>4. CASE PortAnswers(w) \/ PortTimesOut(w) \/ PortIsCut(w)
    BY <2>1, <2>4 DEF PortAnswers, PortTimesOut, PortIsCut, NextPort
  <2>5. CASE GiveUpTarget(w) \/ ProbeSucceeds(w) \/ ProbeFails(w)
    BY <2>1, <2>5 DEF GiveUpTarget, ProbeSucceeds, ProbeFails, Store
  <2> QED
    BY <2>2, <2>3, <2>4, <2>5 DEF Work
<1>3. worker[w] # Free \/ Sweeping \/ Verifying
  BY DEF Work, TakeWalk, GiveUpWalk, TryPort, PortAnswers, PortTimesOut, PortIsCut, Publish,
         TakeTarget, TryEndpoint, GiveUpTarget, ProbeSucceeds, ProbeFails, OnResult, Free, Verdicts
<1>4. slot # None
  BY <1>3, SlotFacts DEF AllFree, Running, Sweeping, Verifying, Active, Sweeps
<1> QED
  BY <1>1, <1>2, <1>4

\* What one entry can do to the set of the busy workers.
LEMMA BusyChanges ==
    ASSUME NEW w \in Workers, \A v \in Workers \ {w} : worker'[v] = worker[v]
    PROVE  \/ Busy' = Busy
           \/ w \in Busy' /\ Busy' = Busy \cup {w}
           \/ w \in Busy /\ Busy' = Busy \ {w}
BY DEF Busy, Free

LEMMA ReleaseEnds == ASSUME IInv, NEW c \in Callers, Release(c) PROVE Slot!End
<1>1. /\ at[c] = "release" /\ slot' = None /\ UNCHANGED worker
      /\ at' = [at EXCEPT ![c] = "returned"]
  BY DEF Release, Go
<1>2. slot = c /\ Running = {c}
  BY <1>1, ScannerAssumption, SlotFacts DEF IInv, SlotFits, Active
<1>3. AllFree
  BY <1>1, OnePhase, NobodyWorks DEF Active, Sweeps
<1>4. Busy = {} /\ Busy' = {}
  BY <1>1, <1>3, SlotFacts DEF Busy, AllFree
<1>5. Running' = {}
  BY <1>1, <1>2 DEF Running, Active, Sweeps, IInv, TypeOK
<1> QED
  BY <1>1, <1>2, <1>4, <1>5 DEF Slot!End, Running, Busy

LEMMA StepSlot == IInv /\ [Next]_vars => [Slot!Next]_(Slot!slotVars)
<1> SUFFICES ASSUME IInv, [Next]_vars PROVE [Slot!Next]_(Slot!slotVars)
  OBVIOUS
<1>1. ASSUME UNCHANGED <<slot, Running, Busy, stopped>> PROVE UNCHANGED Slot!slotVars
  BY <1>1 DEF Slot!slotVars, Running, Busy
<1>2. ASSUME NEW c \in Callers, Enter(c) PROVE Slot!Next
  BY <1>2, EnterBegins DEF Slot!Next
<1>3. ASSUME NEW c \in Callers, Refuse(c) \/ Scan(c) PROVE [Slot!Next]_(Slot!slotVars)
  <2>1. CASE Release(c)
    BY <2>1, ReleaseEnds DEF Slot!Next
  <2>2. CASE ~Release(c)
    BY <1>1, <1>3, <2>2, ScanStays
  <2> QED
    BY <2>1, <2>2
<1>4. ASSUME NEW w \in Workers, Work(w) PROVE [Slot!Next]_(Slot!slotVars)
  <2>1. UNCHANGED <<slot, at, stopped>> /\ slot # None /\ Running' = Running
    BY <1>4, WorkHelps DEF Running
  <2>2. \/ Busy' = Busy
        \/ w \in Busy' /\ Busy' = Busy \cup {w}
        \/ w \in Busy /\ Busy' = Busy \ {w}
    BY <1>4, WorkHelps, BusyChanges
  <2>3. CASE Busy' = Busy
    BY <1>1, <2>1, <2>3
  <2>4. CASE Busy' # Busy
    <3>1. Slot!Help
      BY <2>1, <2>2, <2>4 DEF Slot!Help, Running, Busy
    <3> QED
      BY <3>1 DEF Slot!Next
  <2> QED
    BY <2>3, <2>4
<1>5. CASE StopScan
  <2>1. slot # None /\ stopped' /\ UNCHANGED <<slot, at, worker>>
    BY <1>5 DEF StopScan, scanVars
  <2>2. Slot!Cancel
    BY <2>1 DEF Slot!Cancel
  <2> QED
    BY <2>2 DEF Slot!Next
<1>6. CASE UNCHANGED vars
  BY <1>6 DEF vars, scanVars, Slot!slotVars
<1> QED
  BY <1>2, <1>3, <1>4, <1>5, <1>6 DEF Next

\* Scan implements the slot, for any callers and workers: nobody is let in before
\* the scan and all of its workers have ended, and a StopScan stays with the scan
\* it was meant for.
THEOREM SlotRefinement == Spec => ImplementsScanSlot
<1>1. IInv /\ [Next]_vars => [Slot!Next]_(Slot!slotVars)
  BY StepSlot
<1> QED
  BY <1>1, InitSlot, Invariant, PTL DEF Spec, ImplementsScanSlot, Slot!Spec
==============================================================================
