---------------------------- MODULE Strategy_proofs ----------------------------
(***************************************************************************)
(* Proofs about Strategy, for any callers, networks, ports and candidates. *)
(***************************************************************************)
EXTENDS Strategy, SequenceTheorems, WellFoundedInduction, TLAPS

Places == {"idle", "masque", "sni", "wg", "check", "save", "done", "release"}
Numbers == [Networks -> Nat]

\* What the proofs need to know of the types.
Types ==
    /\ at \in [Callers -> Places] /\ slot \in Callers \cup {None}
    /\ job.number \in Nat /\ job.network \in Networks \cup {None}
    /\ profiles \in Numbers /\ announced \in Numbers /\ forgotten \in Numbers
    /\ spoilt \in BOOLEAN

\* Only a probe with a network saves; an SNI test has none.
JobFits ==
    /\ \A c \in Callers : at[c] = "save" => job.network \in Networks /\ job.network # None
    /\ \A c \in Callers : at[c] = "sni" => job.network = None

\* Probes are numbered in order, and what was forgotten is older than what is
\* stored after it.
NumbersFit ==
    \A n \in Networks :
        /\ profiles[n] <= job.number /\ announced[n] <= job.number /\ forgotten[n] <= job.number
        /\ profiles[n] # 0 => forgotten[n] <= profiles[n]

\* From the save on, the decision is in the store or has been forgotten.
SavedBeforeDone ==
    \A c \in Callers :
        (at[c] = "done" /\ job.network \in Networks /\ job.network # None /\ ~spoilt)
            => job.number <= profiles[job.network] \/ job.number <= forgotten[job.network]

IInv == /\ Types /\ OneProbeAtATime /\ JobFits /\ NumbersFit
        /\ SavedBeforeDone /\ DecidedAndSaved

LEMMA InitIInv == Init => IInv
<1> SUFFICES ASSUME Init PROVE IInv
  OBVIOUS
<1>1. Types /\ OneProbeAtATime
  BY DEF Init, Types, OneProbeAtATime, Places, Numbers, NoJob, NoProfiles
<1>2. JobFits /\ SavedBeforeDone
  BY DEF Init, JobFits, SavedBeforeDone, NoJob
<1>3. NumbersFit /\ DecidedAndSaved
  BY DEF Init, NumbersFit, DecidedAndSaved, NoJob, NoProfiles
<1> QED
  BY <1>1, <1>2, <1>3 DEF IInv

\* A probe that goes on without touching its job or the store.
LEMMA MoveKeeps ==
    ASSUME IInv, NEW c \in Callers, NEW place \in Places,
           at[c] # "idle", at' = [at EXCEPT ![c] = place],
           UNCHANGED <<slot, job, store>>,
           place \notin {"idle", "save", "sni"},
           place = "done" => job.network = None
    PROVE  IInv'
<1>1. Types' /\ OneProbeAtATime'
  BY DEF IInv, Types, OneProbeAtATime, store, Places, Numbers
<1>2. JobFits'
  BY DEF IInv, Types, JobFits, store
<1>3. NumbersFit' /\ DecidedAndSaved'
  BY DEF IInv, NumbersFit, DecidedAndSaved, store
<1>4. SavedBeforeDone'
  BY DEF IInv, Types, SavedBeforeDone, store
<1> QED
  BY <1>1, <1>2, <1>3, <1>4 DEF IInv

\* A probe that returns; the store may have changed for the better.
LEMMA LeaveKeeps ==
    ASSUME IInv, NEW c \in Callers, at[c] # "idle", Leave(c),
           UNCHANGED <<slot, store>>
    PROVE  IInv'
<1>1. /\ at' = [at EXCEPT ![c] = "release"]
      /\ job'.number = job.number /\ job'.network = None
  BY DEF Leave, Goto, NoJob
<1>2. Types' /\ OneProbeAtATime'
  BY <1>1 DEF IInv, Types, OneProbeAtATime, store, Places, Numbers
<1>3. JobFits' /\ SavedBeforeDone'
  <2>1. \A d \in Callers : at[d] # "idle" => d = c
    BY DEF IInv, OneProbeAtATime
  <2>2. \A d \in Callers : at'[d] \in {"idle", "release"}
    BY <1>1, <2>1 DEF IInv, Types
  <2> QED
    BY <1>1, <2>2 DEF JobFits, SavedBeforeDone
<1>4. NumbersFit' /\ DecidedAndSaved'
  BY <1>1 DEF IInv, NumbersFit, DecidedAndSaved, store
<1> QED
  BY <1>2, <1>3, <1>4 DEF IInv

\* A step within a place.
LEMMA StayKeeps == ASSUME IInv, UNCHANGED <<at, slot, job, store>> PROVE IInv'
BY DEF IInv, Types, OneProbeAtATime, JobFits, NumbersFit, SavedBeforeDone, DecidedAndSaved, store

LEMMA EnterKeeps ==
    ASSUME IInv, NEW c \in Callers, NEW j \in Jobs, Enter(c, j)
    PROVE  IInv'
<1>1. /\ slot = None /\ slot' = c /\ job' = j /\ UNCHANGED store
      /\ at' = [at EXCEPT ![c] = IF j.kind = "probe" THEN "masque" ELSE "sni"]
  BY DEF Enter, Goto
<1>2. /\ j.number = job.number + 1 /\ j.network \in Networks \cup {None}
      /\ j.kind # "probe" => j.network = None
  BY DEF Jobs
<1>3. \A d \in Callers : at[d] = "idle"
  BY <1>1, StrategyAssumption DEF IInv, OneProbeAtATime
<1>4. Types' /\ OneProbeAtATime'
  BY <1>1, <1>2, <1>3 DEF IInv, Types, OneProbeAtATime, store, Places, Numbers
<1>5. \A d \in Callers : at'[d] \in {"idle", "masque", "sni"}
  BY <1>1, <1>3 DEF IInv, Types
<1>6. JobFits' /\ SavedBeforeDone'
  <2>1. \A d \in Callers : at'[d] = "sni" => j.kind # "probe"
    BY <1>1, <1>3 DEF IInv, Types
  <2> QED
    BY <1>1, <1>2, <1>5, <2>1 DEF JobFits, SavedBeforeDone
<1>7. NumbersFit'
  <2> SUFFICES ASSUME NEW n \in Networks
               PROVE  /\ profiles[n] <= job.number + 1 /\ announced[n] <= job.number + 1
                      /\ forgotten[n] <= job.number + 1
                      /\ profiles[n] # 0 => forgotten[n] <= profiles[n]
    BY <1>1, <1>2 DEF NumbersFit, store
  <2>1. /\ profiles[n] \in Nat /\ announced[n] \in Nat /\ forgotten[n] \in Nat /\ job.number \in Nat
        /\ profiles[n] <= job.number /\ announced[n] <= job.number /\ forgotten[n] <= job.number
        /\ profiles[n] # 0 => forgotten[n] <= profiles[n]
    BY DEF IInv, Types, Numbers, NumbersFit
  <2> QED
    BY <2>1
<1>8. DecidedAndSaved'
  BY <1>1 DEF IInv, DecidedAndSaved, store
<1> QED
  BY <1>4, <1>6, <1>7, <1>8 DEF IInv

LEMMA DecideKeeps == ASSUME IInv, NEW c \in Callers, Decide(c) PROVE IInv'
<1>1. /\ at[c] = "check" /\ UNCHANGED <<slot, job, store>>
      /\ at' = [at EXCEPT ![c] = IF job.network = None THEN "done" ELSE "save"]
  BY DEF Decide, Goto
<1>2. CASE job.network = None
  BY <1>1, <1>2, MoveKeeps DEF Places
<1>3. CASE job.network # None
  <2>1. at' = [at EXCEPT ![c] = "save"]
    BY <1>1, <1>3
  <2>2. Types' /\ OneProbeAtATime'
    BY <1>1, <2>1 DEF IInv, Types, OneProbeAtATime, store, Places, Numbers
  <2>3. JobFits' /\ NumbersFit' /\ DecidedAndSaved'
    BY <1>1, <1>3 DEF IInv, Types, JobFits, NumbersFit, DecidedAndSaved, store
  <2>4. SavedBeforeDone'
    BY <1>1, <2>1 DEF IInv, Types, SavedBeforeDone, store
  <2> QED
    BY <2>2, <2>3, <2>4 DEF IInv
<1> QED
  BY <1>2, <1>3

LEMMA SaveProfileKeeps == ASSUME IInv, NEW c \in Callers, SaveProfile(c) PROVE IInv'
<1> DEFINE net == job.network
<1>1. /\ at[c] = "save" /\ at' = [at EXCEPT ![c] = "done"]
      /\ profiles' = [profiles EXCEPT ![net] = job.number]
      /\ UNCHANGED <<slot, job, announced, forgotten, spoilt>>
  BY DEF SaveProfile, Goto, run
<1>2. net \in Networks /\ job.number \in Nat
  BY <1>1 DEF IInv, JobFits, Types
<1>3. Types' /\ OneProbeAtATime'
  BY <1>1, <1>2 DEF IInv, Types, OneProbeAtATime, Places, Numbers
<1>4. \A d \in Callers : at'[d] \in {"idle", "done"}
  BY <1>1 DEF IInv, Types, OneProbeAtATime
<1>5. JobFits'
  BY <1>1, <1>4 DEF IInv, JobFits
<1>6. \A n \in Networks : profiles'[n] = IF n = net THEN job.number ELSE profiles[n]
  BY <1>1, <1>2 DEF IInv, Types, Numbers
<1>7. NumbersFit' /\ DecidedAndSaved'
  BY <1>1, <1>2, <1>6 DEF IInv, Types, Numbers, NumbersFit, DecidedAndSaved
<1>8. SavedBeforeDone'
  BY <1>1, <1>2, <1>6 DEF SavedBeforeDone
<1> QED
  BY <1>3, <1>5, <1>7, <1>8 DEF IInv

\* A write that is cut short leaves an empty store.
LEMMA SpoiltKeeps ==
    ASSUME IInv, profiles' = NoProfiles, spoilt' = TRUE, job'.number = job.number,
           UNCHANGED <<announced, forgotten>>
    PROVE  /\ profiles' \in Numbers /\ announced' \in Numbers /\ forgotten' \in Numbers
           /\ NumbersFit' /\ SavedBeforeDone' /\ DecidedAndSaved'
BY DEF IInv, Types, Numbers, NoProfiles, NumbersFit, SavedBeforeDone, DecidedAndSaved

LEMMA SaveFailsKeeps == ASSUME IInv, NEW c \in Callers, SaveFails(c) PROVE IInv'
<1>1. /\ at[c] = "save" /\ Leave(c) /\ UNCHANGED <<slot, announced, forgotten>>
      /\ UNCHANGED <<profiles, spoilt>> \/ (profiles' = NoProfiles /\ spoilt' = TRUE)
  BY DEF SaveFails
<1>2. CASE UNCHANGED <<profiles, spoilt>>
  BY <1>1, <1>2, LeaveKeeps DEF store
<1>3. CASE profiles' = NoProfiles /\ spoilt' = TRUE
  <2>1. /\ at' = [at EXCEPT ![c] = "release"]
        /\ job'.number = job.number /\ job'.network = None
    BY <1>1 DEF Leave, Goto, NoJob
  <2>2. Types' /\ OneProbeAtATime' /\ NumbersFit' /\ SavedBeforeDone' /\ DecidedAndSaved'
    BY <1>1, <1>3, <2>1, SpoiltKeeps DEF IInv, Types, OneProbeAtATime, Places
  <2>3. JobFits'
    BY <1>1, <2>1 DEF IInv, Types, OneProbeAtATime, JobFits
  <2> QED
    BY <2>2, <2>3 DEF IInv
<1> QED
  BY <1>1, <1>2, <1>3

LEMMA OnDoneKeeps == ASSUME IInv, NEW c \in Callers, OnDone(c) PROVE IInv'
<1>1. /\ at[c] = "done" /\ Leave(c) /\ UNCHANGED <<slot, profiles, forgotten, spoilt>>
      /\ announced' = IF job.kind = "probe" /\ job.network # None
                      THEN [announced EXCEPT ![job.network] = job.number] ELSE announced
  BY DEF OnDone
<1>2. CASE ~(job.kind = "probe" /\ job.network # None)
  BY <1>1, <1>2, LeaveKeeps DEF store
<1>3. CASE job.kind = "probe" /\ job.network # None
  <2>1. /\ at' = [at EXCEPT ![c] = "release"]
        /\ job'.number = job.number /\ job'.network = None
    BY <1>1 DEF Leave, Goto, NoJob
  <2>2. /\ job.network \in Networks /\ job.number \in Nat
        /\ announced' = [announced EXCEPT ![job.network] = job.number]
    BY <1>1, <1>3 DEF IInv, Types
  <2>3. Types' /\ OneProbeAtATime'
    BY <1>1, <2>1, <2>2 DEF IInv, Types, OneProbeAtATime, Places, Numbers
  <2>4. JobFits' /\ SavedBeforeDone'
    BY <1>1, <2>1 DEF IInv, Types, OneProbeAtATime, JobFits, SavedBeforeDone
  <2>5. \A n \in Networks : announced'[n] = IF n = job.network THEN job.number ELSE announced[n]
    BY <2>2 DEF IInv, Types, Numbers
  <2>6. NumbersFit'
    BY <1>1, <2>1, <2>2, <2>5 DEF IInv, NumbersFit
  <2>7. DecidedAndSaved'
    BY <1>1, <1>3, <2>2, <2>5 DEF IInv, SavedBeforeDone, DecidedAndSaved
  <2> QED
    BY <2>3, <2>4, <2>6, <2>7 DEF IInv
<1> QED
  BY <1>2, <1>3

LEMMA ForgetKeeps ==
    ASSUME IInv, NEW n \in Networks, ForgetNetworkProfile(n)
    PROVE  IInv'
<1>1. /\ profiles[n] # 0 /\ UNCHANGED <<at, slot, job, announced, spoilt>>
      /\ profiles' = [profiles EXCEPT ![n] = 0]
      /\ forgotten' = [forgotten EXCEPT ![n] = profiles[n]]
  BY DEF ForgetNetworkProfile, run
<1>2. Types' /\ OneProbeAtATime' /\ JobFits'
  BY <1>1 DEF IInv, Types, OneProbeAtATime, JobFits, Numbers
<1>3. \A m \in Networks : /\ profiles'[m] = IF m = n THEN 0 ELSE profiles[m]
                          /\ forgotten'[m] = IF m = n THEN profiles[n] ELSE forgotten[m]
                          /\ profiles[m] \in Nat /\ forgotten[m] \in Nat /\ announced[m] \in Nat
  BY <1>1 DEF IInv, Types, Numbers
<1>4. job.number \in Nat /\ forgotten[n] <= profiles[n]
  BY <1>1 DEF IInv, Types, NumbersFit
<1>5. NumbersFit'
  BY <1>1, <1>3, <1>4 DEF IInv, NumbersFit
<1>6. DecidedAndSaved'
  BY <1>1, <1>3, <1>4 DEF IInv, DecidedAndSaved
<1>7. SavedBeforeDone'
  BY <1>1, <1>3, <1>4 DEF IInv, SavedBeforeDone
<1> QED
  BY <1>2, <1>5, <1>6, <1>7 DEF IInv

LEMMA ForgetFailsKeeps ==
    ASSUME IInv, NEW n \in Networks, ForgetFails(n)
    PROVE  IInv'
<1>1. /\ profiles' = NoProfiles /\ spoilt' = TRUE
      /\ UNCHANGED <<at, slot, job, announced, forgotten>>
  BY DEF ForgetFails, run
<1>2. /\ profiles' \in Numbers /\ NumbersFit' /\ SavedBeforeDone' /\ DecidedAndSaved'
  BY <1>1, SpoiltKeeps
<1>3. Types' /\ OneProbeAtATime' /\ JobFits'
  BY <1>1, <1>2 DEF IInv, Types, OneProbeAtATime, JobFits
<1> QED
  BY <1>2, <1>3 DEF IInv

LEMMA KillKeeps == ASSUME IInv, Kill PROVE IInv'
<1>1. /\ at' = [c \in Callers |-> "idle"] /\ slot' = None
      /\ job'.number = job.number /\ job'.network = None
      /\ UNCHANGED <<announced, forgotten>>
      /\ UNCHANGED <<profiles, spoilt>> \/ (profiles' = NoProfiles /\ spoilt' = TRUE)
  BY DEF Kill, NoJob
<1>2. OneProbeAtATime' /\ JobFits'
  BY <1>1 DEF OneProbeAtATime, JobFits
<1>3. CASE UNCHANGED <<profiles, spoilt>>
  <2>1. Types' /\ NumbersFit' /\ SavedBeforeDone' /\ DecidedAndSaved'
    BY <1>1, <1>3 DEF IInv, Types, Places, NumbersFit, SavedBeforeDone, DecidedAndSaved
  <2> QED
    BY <1>2, <2>1 DEF IInv
<1>4. CASE profiles' = NoProfiles /\ spoilt' = TRUE
  BY <1>1, <1>2, <1>4, SpoiltKeeps DEF IInv, Types, Places
<1> QED
  BY <1>1, <1>3, <1>4

LEMMA StagesKeep == ASSUME IInv, NEW c \in Callers, Stages(c) PROVE IInv'
<1>1. CASE SweepPorts(c)
  BY <1>1, StayKeeps DEF SweepPorts
<1>2. CASE StartScan(c)
  BY <1>2, MoveKeeps DEF StartScan, Goto, Places
<1>3. CASE SkipScan(c)
  BY <1>3, MoveKeeps DEF SkipScan, Goto, Places, run
<1>4. CASE MasqueFails(c)
  BY <1>4, LeaveKeeps DEF MasqueFails
<1>5. CASE WriteSlice(c)
  BY <1>5, StayKeeps DEF WriteSlice
<1>6. CASE ScanOver(c)
  BY <1>6, MoveKeeps DEF ScanOver, Goto, Places, run
<1>7. ASSUME NEW t \in left, TargetFails(c, t) \/ ReadSlice(c, t) \/ SniFails(c, t) PROVE IInv'
  BY <1>7, StayKeeps DEF TargetFails, ReadSlice, SniFails
<1>8. ASSUME NEW t \in left, NEW x \in Masque, SniWorks(c, t, x) PROVE IInv'
  BY <1>8, StayKeeps DEF SniWorks
<1> QED
  BY <1>1, <1>2, <1>3, <1>4, <1>5, <1>6, <1>7, <1>8 DEF Stages

LEMMA ProceedKeeps == ASSUME IInv, NEW c \in Callers, Proceed(c) PROVE IInv'
<1>1. CASE Stages(c)
  BY <1>1, StagesKeep
<1>2. CASE Cancelled(c)
  BY <1>2, LeaveKeeps DEF Cancelled
<1>3. CASE Decide(c)
  BY <1>3, DecideKeeps
<1>4. CASE SaveProfile(c)
  BY <1>4, SaveProfileKeeps
<1>5. CASE SaveFails(c)
  BY <1>5, SaveFailsKeeps
<1>6. CASE OnDone(c)
  BY <1>6, OnDoneKeeps
<1>7. CASE Release(c)
  <2>1. /\ at[c] = "release" /\ at' = [at EXCEPT ![c] = "idle"] /\ slot' = None
        /\ UNCHANGED <<job, store>>
    BY <1>7 DEF Release, Goto, run
  <2>2. Types'
    BY <2>1 DEF IInv, Types, store, Places, Numbers
  <2>3. OneProbeAtATime'
    BY <2>1 DEF IInv, Types, OneProbeAtATime
  <2>4. JobFits' /\ SavedBeforeDone' /\ NumbersFit' /\ DecidedAndSaved'
    BY <2>1 DEF IInv, Types, JobFits, SavedBeforeDone, NumbersFit, DecidedAndSaved, store
  <2> QED
    BY <2>2, <2>3, <2>4 DEF IInv
<1>8. CASE SniOver(c)
  <2>1. job.network = None
    BY <1>8 DEF SniOver, IInv, JobFits
  <2> QED
    BY <1>8, <2>1, MoveKeeps DEF SniOver, Goto, Places, run
<1> QED
  BY <1>1, <1>2, <1>3, <1>4, <1>5, <1>6, <1>7, <1>8 DEF Proceed

LEMMA NextKeeps == IInv /\ [Next]_vars => IInv'
<1> SUFFICES ASSUME IInv, [Next]_vars PROVE IInv'
  OBVIOUS
<1>1. ASSUME NEW c \in Callers, Proceed(c) PROVE IInv'
  BY <1>1, ProceedKeeps
<1>2. ASSUME NEW c \in Callers, NEW j \in Jobs, Enter(c, j) PROVE IInv'
  BY <1>2, EnterKeeps
<1>3. CASE StopProbe
  BY <1>3, StayKeeps DEF StopProbe, run
<1>4. CASE StopScan
  BY <1>4, StayKeeps DEF StopScan
<1>5. CASE Kill
  BY <1>5, KillKeeps
<1>6. ASSUME NEW n \in Networks, ForgetNetworkProfile(n) PROVE IInv'
  BY <1>6, ForgetKeeps
<1>7. ASSUME NEW n \in Networks, ForgetFails(n) PROVE IInv'
  BY <1>7, ForgetFailsKeeps
<1>8. CASE UNCHANGED vars
  BY <1>8, StayKeeps DEF vars, run
<1> QED
  BY <1>1, <1>2, <1>3, <1>4, <1>5, <1>6, <1>7, <1>8 DEF Next

\* The inductive invariant holds throughout: the slot, the numbering of probes
\* and what the store and the histories say of each network.
THEOREM Invariant == Spec => []IInv
BY InitIInv, NextKeeps, PTL DEF Spec

\* One probe runs at a time, and it is the one StopProbe cancels.
THEOREM OneProbe == Spec => []OneProbeAtATime
<1>1. IInv => OneProbeAtATime
  BY DEF IInv
<1> QED
  BY <1>1, Invariant, PTL

\* What OnDone has announced for a network is stored, unless it was forgotten
\* or a write of the file was cut short (strategy.go:194-204).
THEOREM AnnouncedIsSaved == Spec => []DecidedAndSaved
<1>1. IInv => DecidedAndSaved
  BY DEF IInv
<1> QED
  BY <1>1, Invariant, PTL
-----------------------------------------------------------------------------
(* The SNI test, for any measurements of any number of SNIs.               *)

LEMMA SlowestIsANumber == Slowest \in Nat /\ Slowest > 0
BY SMT DEF Slowest

LEMMA MasqueFacts ==
    ASSUME NEW x \in Masque
    PROVE  /\ x.torn \in BOOLEAN /\ x.loss = 0 /\ x.rtt \in Nat /\ x.rtt < Slowest
           /\ x # None
<1>1. x \in [proto : {"masque"}, torn : BOOLEAN, rtt : 0 .. Slowest - 1, loss : {0}]
  BY StrategyAssumption DEF Measurements
<1>2. /\ x.torn \in BOOLEAN /\ x.loss = 0 /\ x.rtt \in Nat /\ x.rtt < Slowest
  BY <1>1, SlowestIsANumber
<1>3. x # None
  BY StrategyAssumption
<1> QED
  BY <1>2, <1>3

\* The two rankings agree on what can be measured: a row that sorts before
\* another one is better.
LEMMA RankingsAgree ==
    ASSUME NEW x \in Masque, NEW y \in Masque
    PROVE  RowBefore(x, y) <=> LessCandidate(x, y)
<1>1. /\ x.torn \in BOOLEAN /\ x.loss = 0 /\ x.rtt \in Nat /\ x.rtt < Slowest
      /\ y.torn \in BOOLEAN /\ y.loss = 0 /\ y.rtt \in Nat /\ y.rtt < Slowest
  BY MasqueFacts
<1>2. (x.rtt > 0 /\ (y.rtt = 0 \/ x.rtt < y.rtt)) <=> Measured(x.rtt) < Measured(y.rtt)
  BY <1>1, SlowestIsANumber DEF Measured
<1> QED
  BY <1>1, <1>2 DEF RowBefore, LessCandidate

\* What is not better than the best is not better than anything better.
LEMMA BetterThanBest ==
    ASSUME NEW x \in Masque, NEW y \in Masque, NEW best \in Masque,
           LessCandidate(x, best), ~LessCandidate(y, best)
    PROVE  ~LessCandidate(y, x)
<1>1. /\ x.torn \in BOOLEAN /\ x.loss = 0 /\ y.torn \in BOOLEAN /\ y.loss = 0
      /\ best.torn \in BOOLEAN /\ best.loss = 0
  BY MasqueFacts
<1>2. Measured(x.rtt) \in Nat /\ Measured(y.rtt) \in Nat /\ Measured(best.rtt) \in Nat
  BY MasqueFacts, SlowestIsANumber DEF Measured
<1> QED
  BY <1>1, <1>2 DEF LessCandidate

\* A job keeps its kind from the lock section to the return,
KindFits ==
    \A c \in Callers :
        /\ at[c] = "sni" => job.kind = "sni"
        /\ at[c] \in {"masque", "wg", "check", "save"} => job.kind = "probe"

\* and best is the best so far of what the application has been shown.
BestSoFar ==
    \A c \in Callers : (at[c] \in {"sni", "done"} /\ job.kind = "sni") =>
        /\ shown \subseteq Masque
        /\ (chosen = None <=> shown = {})
        /\ chosen # None => chosen \in Masque /\ \A x \in shown : ~LessCandidate(x, chosen)

SniInv == KindFits /\ BestSoFar

\* A place at which nothing is claimed of the SNI test.
LEMMA ElsewhereKeeps ==
    ASSUME IInv, SniInv, NEW c \in Callers, at[c] # "idle",
           NEW place \in {"release", "idle"}, at' = [at EXCEPT ![c] = place]
    PROVE  SniInv'
<1>1. \A d \in Callers : at'[d] \in {"idle", "release"}
  BY DEF IInv, Types, OneProbeAtATime
<1> QED
  BY <1>1 DEF SniInv, KindFits, BestSoFar

\* A probe that goes on.
LEMMA ProbeMoveKeeps ==
    ASSUME IInv, SniInv, NEW c \in Callers, at[c] \in {"masque", "wg", "check", "save"},
           NEW place \in {"masque", "wg", "check", "save", "done"},
           at' = [at EXCEPT ![c] = place], job' = job
    PROVE  SniInv'
<1>1. \A d \in Callers : at'[d] \in {"idle", place}
  BY DEF IInv, Types, OneProbeAtATime
<1>2. job'.kind = "probe"
  BY DEF SniInv, KindFits
<1>3. place # "sni"
  OBVIOUS
<1> QED
  BY <1>1, <1>2, <1>3 DEF SniInv, KindFits, BestSoFar

LEMMA SniWorksKeeps ==
    ASSUME IInv, SniInv, NEW c \in Callers, NEW s \in left, NEW x \in Masque, SniWorks(c, s, x)
    PROVE  SniInv'
<1>1. /\ at[c] = "sni" /\ UNCHANGED <<at, job>> /\ shown' = shown \cup {x}
      /\ chosen' = IF chosen = None \/ LessCandidate(x, chosen) THEN x ELSE chosen
  BY DEF SniWorks
<1>2. /\ shown \subseteq Masque /\ (chosen = None <=> shown = {})
      /\ chosen # None => chosen \in Masque /\ \A y \in shown : ~LessCandidate(y, chosen)
  <2>1. at[c] = "sni" /\ job.kind = "sni"
    BY <1>1 DEF SniInv, KindFits
  <2> QED
    BY <2>1 DEF SniInv, BestSoFar
<1>3. x # None /\ ~LessCandidate(x, x)
  <2>1. Measured(x.rtt) \in Nat
    BY MasqueFacts, SlowestIsANumber DEF Measured
  <2> QED
    BY <2>1, MasqueFacts DEF LessCandidate
<1>4. chosen' # None /\ chosen' \in Masque
  BY <1>1, <1>2, <1>3
<1>5. \A y \in shown' : ~LessCandidate(y, chosen')
  <2>1. CASE chosen = None
    BY <1>1, <1>2, <1>3, <2>1
  <2>2. CASE chosen # None /\ LessCandidate(x, chosen)
    BY <1>1, <1>2, <1>3, <2>2, BetterThanBest
  <2>3. CASE chosen # None /\ ~LessCandidate(x, chosen)
    BY <1>1, <1>2, <2>3
  <2> QED
    BY <2>1, <2>2, <2>3
<1>6. shown' \subseteq Masque /\ shown' # {}
  BY <1>1, <1>2
<1> QED
  BY <1>1, <1>4, <1>5, <1>6 DEF SniInv, KindFits, BestSoFar

LEMMA SniInit == Init => SniInv
BY DEF Init, SniInv, KindFits, BestSoFar

LEMMA SniNext == IInv /\ SniInv /\ [Next]_vars => SniInv'
<1> SUFFICES ASSUME IInv, SniInv, [Next]_vars PROVE SniInv'
  OBVIOUS
<1>1. ASSUME NEW c \in Callers, NEW j \in Jobs, Enter(c, j) PROVE SniInv'
  <2>1. /\ slot = None /\ job' = j /\ shown' = {} /\ chosen' = None
        /\ at' = [at EXCEPT ![c] = IF j.kind = "probe" THEN "masque" ELSE "sni"]
        /\ j.kind \in {"probe", "sni"}
    BY <1>1 DEF Enter, Goto, Fresh, Jobs
  <2>2. \A d \in Callers : at[d] = "idle"
    BY <2>1, StrategyAssumption DEF IInv, OneProbeAtATime
  <2>3. \A d \in Callers :
            at'[d] = "idle" \/ at'[d] = (IF j.kind = "probe" THEN "masque" ELSE "sni")
    BY <2>1, <2>2 DEF IInv, Types
  <2> QED
    BY <2>1, <2>3 DEF SniInv, KindFits, BestSoFar
<1>2. ASSUME NEW c \in Callers, Proceed(c) PROVE SniInv'
  <2>1. CASE Cancelled(c) \/ SaveFails(c) \/ OnDone(c) \/ MasqueFails(c)
    BY <2>1, ElsewhereKeeps DEF Cancelled, SaveFails, OnDone, MasqueFails, Leave, Goto
  <2>2. CASE Release(c)
    BY <2>2, ElsewhereKeeps DEF Release, Goto
  <2>3. CASE StartScan(c) \/ SkipScan(c) \/ ScanOver(c)
    BY <2>3, ProbeMoveKeeps DEF StartScan, SkipScan, ScanOver, Goto, run
  <2>4. CASE Decide(c)
    BY <2>4, ProbeMoveKeeps DEF Decide, Goto
  <2>5. CASE SaveProfile(c)
    BY <2>5, ProbeMoveKeeps DEF SaveProfile, Goto, run
  <2>6. CASE SniOver(c)
    <3>1. /\ at[c] = "sni" /\ at' = [at EXCEPT ![c] = "done"]
          /\ UNCHANGED <<job, shown, chosen>>
      BY <2>6 DEF SniOver, Goto, run
    <3>2. \A d \in Callers : at'[d] \in {"idle", "done"}
      BY <3>1 DEF IInv, Types, OneProbeAtATime
    <3>3. /\ shown \subseteq Masque /\ (chosen = None <=> shown = {})
          /\ chosen # None => chosen \in Masque /\ \A x \in shown : ~LessCandidate(x, chosen)
      <4>1. at[c] = "sni" /\ job.kind = "sni"
        BY <3>1 DEF SniInv, KindFits
      <4> QED
        BY <4>1 DEF SniInv, BestSoFar
    <3> QED
      BY <3>1, <3>2, <3>3 DEF SniInv, KindFits, BestSoFar
  <2>7. CASE SweepPorts(c)
    BY <2>7 DEF SweepPorts, SniInv, KindFits, BestSoFar
  <2>8. CASE WriteSlice(c)
    <3>1. at[c] \in {"masque", "wg"} /\ UNCHANGED <<at, job>>
      BY <2>8 DEF WriteSlice
    <3>2. job.kind = "probe"
      BY <3>1 DEF SniInv, KindFits
    <3> QED
      BY <3>1, <3>2 DEF SniInv, KindFits, BestSoFar
  <2>9. ASSUME NEW t \in left, TargetFails(c, t) \/ ReadSlice(c, t) \/ SniFails(c, t)
        PROVE  SniInv'
    BY <2>9 DEF TargetFails, ReadSlice, SniFails, SniInv, KindFits, BestSoFar
  <2>10. ASSUME NEW t \in left, NEW x \in Masque, SniWorks(c, t, x) PROVE SniInv'
    BY <2>10, SniWorksKeeps
  <2> QED
    BY <1>2, <2>1, <2>2, <2>3, <2>4, <2>5, <2>6, <2>7, <2>8, <2>9, <2>10 DEF Proceed, Stages
<1>3. CASE StopProbe
  BY <1>3 DEF StopProbe, run, SniInv, KindFits, BestSoFar
<1>4. CASE StopScan
  BY <1>4 DEF StopScan, SniInv, KindFits, BestSoFar
<1>5. CASE Kill
  <2>1. at' = [c \in Callers |-> "idle"]
    BY <1>5 DEF Kill
  <2> QED
    BY <2>1 DEF SniInv, KindFits, BestSoFar
<1>6. ASSUME NEW n \in Networks, ForgetNetworkProfile(n) \/ ForgetFails(n) PROVE SniInv'
  BY <1>6 DEF ForgetNetworkProfile, ForgetFails, run, SniInv, KindFits, BestSoFar
<1>7. CASE UNCHANGED vars
  BY <1>7 DEF vars, run, SniInv, KindFits, BestSoFar
<1> QED
  BY <1>1, <1>2, <1>3, <1>4, <1>5, <1>6, <1>7 DEF Next

LEMMA SniHolds == Spec => []SniInv
BY Invariant, SniInit, SniNext, PTL DEF Spec

\* The SNI announced as best heads the list the application shows, whatever was
\* measured (snitest.go:101, ScanActivity.kt:440-448).
THEOREM BestSniFirst == Spec => []BestSniHeadsTheList
<1>1. Spec => []SniInv
  BY SniHolds
<1>2. SniInv => BestSniHeadsTheList
  <2> SUFFICES ASSUME SniInv, NEW c \in Callers, at[c] = "done", job.kind = "sni"
               PROVE  (chosen = None <=> shown = {}) /\ \A x \in shown : ~RowBefore(x, chosen)
    BY DEF BestSniHeadsTheList
  <2>1. /\ shown \subseteq Masque /\ (chosen = None <=> shown = {})
        /\ chosen # None => chosen \in Masque /\ \A x \in shown : ~LessCandidate(x, chosen)
    BY DEF SniInv, BestSoFar
  <2> QED
    BY <2>1, RankingsAgree
<1> QED
  BY <1>1, <1>2, PTL

-----------------------------------------------------------------------------
(* The choice of a probe, for any lists the stages can leave behind.        *)

Found == Masque \cup Wg

LEMMA FoundFacts ==
    ASSUME NEW x \in Found
    PROVE  /\ x.torn \in BOOLEAN /\ x.loss \in Nat /\ x.rtt \in Nat /\ x.rtt < Slowest
           /\ Measured(x.rtt) \in Nat /\ x # None
           /\ x.proto \in {"masque", "wg"} /\ (x.proto = "masque" => x.loss = 0)
<1>1. \/ x \in [proto : {"masque"}, torn : BOOLEAN, rtt : 0 .. Slowest - 1, loss : {0}]
      \/ x \in [proto : {"wg"}, torn : BOOLEAN, rtt : 0 .. Slowest - 1, loss : 0 .. 100]
  BY StrategyAssumption DEF Found, Measurements
<1>2. /\ x.torn \in BOOLEAN /\ x.loss \in Nat /\ x.rtt \in Nat /\ x.rtt < Slowest
      /\ x.proto \in {"masque", "wg"} /\ (x.proto = "masque" => x.loss = 0)
  BY <1>1, SlowestIsANumber
<1>3. Measured(x.rtt) \in Nat
  BY <1>2, SlowestIsANumber DEF Measured
<1>4. x # None
  BY StrategyAssumption DEF Found
<1> QED
  BY <1>2, <1>3, <1>4

LEMMA LeastNumber ==
    ASSUME NEW T, T \subseteq Nat, T # {}
    PROVE  \E m \in T : \A n \in T : m <= n
<1> DEFINE R == {pair \in Nat \X Nat : pair[1] < pair[2]}
<1>1. \A m, n \in Nat : m < n => <<m, n>> \in R
  OBVIOUS
<1>2. IsWellFoundedOn(R, Nat)
  BY NatLessThanWellFounded DEF OpToRel
<1> HIDE DEF R
<1>3. PICK m \in T : \A n \in T : ~(<<n, m>> \in R)
  BY <1>2, WFMin
<1>4. ASSUME NEW n \in T, n < m PROVE FALSE
  <2>1. <<n, m>> \in R
    BY <1>1, <1>4
  <2> QED
    BY <1>3, <2>1
<1> QED
  BY <1>4

LEMMA LeastImage ==
    ASSUME NEW S, S # {}, NEW f \in [S -> Nat]
    PROVE  \E x \in S : \A y \in S : f[x] <= f[y]
<1>1. {f[x] : x \in S} \subseteq Nat /\ {f[x] : x \in S} # {}
  OBVIOUS
<1>2. PICK m \in {f[x] : x \in S} : \A n \in {f[x] : x \in S} : m <= n
  BY <1>1, LeastNumber
<1> QED
  BY <1>2

\* The order of the ranking, on two candidates whose fields are numbers.
LEMMA OrderFacts ==
    ASSUME NEW a \in Found, NEW b \in Found
    PROVE  /\ a.torn = b.torn /\ a.loss = b.loss /\ Measured(a.rtt) = Measured(b.rtt)
                => ~LessCandidate(a, b)
           /\ (\/ ~a.torn /\ b.torn
               \/ a.torn = b.torn /\ a.loss < b.loss
               \/ a.torn = b.torn /\ a.loss = b.loss /\ Measured(a.rtt) < Measured(b.rtt))
                => LessCandidate(a, b) /\ ~LessCandidate(b, a)
<1>1. /\ a.loss \in Nat /\ b.loss \in Nat
      /\ Measured(a.rtt) \in Nat /\ Measured(b.rtt) \in Nat
  BY FoundFacts
<1> QED
  BY <1>1 DEF LessCandidate

\* Sorting by teardown, loss, latency and place has a first element.
LEMMA FirstOfTheLeast ==
    ASSUME NEW list \in Seq(Found), NEW of \in SUBSET DOMAIN list, of # {}
    PROVE  \E i \in of : \A j \in of :
               /\ ~LessCandidate(list[j], list[i])
               /\ j < i => LessCandidate(list[i], list[j])
<1> DEFINE torn(i) == IF list[i].torn THEN 1 ELSE 0
<1>1. \A i \in of : /\ i \in Nat /\ list[i] \in Found /\ torn(i) \in Nat
                     /\ list[i].torn \in BOOLEAN
                     /\ list[i].loss \in Nat /\ Measured(list[i].rtt) \in Nat
  <2> SUFFICES ASSUME NEW i \in of
               PROVE  /\ i \in Nat /\ list[i] \in Found /\ torn(i) \in Nat
                      /\ list[i].torn \in BOOLEAN
                      /\ list[i].loss \in Nat /\ Measured(list[i].rtt) \in Nat
    OBVIOUS
  <2>1. i \in 1 .. Len(list) /\ Len(list) \in Nat /\ list[i] \in Found
    BY LenProperties, ElementOfSeq
  <2> QED
    BY <2>1, FoundFacts
<1>2. PICK t \in of : \A j \in of : torn(t) <= torn(j)
  <2> DEFINE f == [j \in of |-> torn(j)]
  <2>1. f \in [of -> Nat] /\ of # {}
    BY <1>1
  <2>2. PICK x \in of : \A y \in of : f[x] <= f[y]
    BY <2>1, LeastImage
  <2> QED
    BY <2>2
<1> DEFINE D1 == {i \in of : list[i].torn = list[t].torn}
<1>3. PICK l \in D1 : \A j \in D1 : list[l].loss <= list[j].loss
  <2> DEFINE f == [j \in D1 |-> list[j].loss]
  <2>1. f \in [D1 -> Nat] /\ D1 # {}
    BY <1>1
  <2>2. PICK x \in D1 : \A y \in D1 : f[x] <= f[y]
    BY <2>1, LeastImage
  <2> QED
    BY <2>2
<1> DEFINE D2 == {i \in D1 : list[i].loss = list[l].loss}
<1>4. PICK r \in D2 : \A j \in D2 : Measured(list[r].rtt) <= Measured(list[j].rtt)
  <2> DEFINE f == [j \in D2 |-> Measured(list[j].rtt)]
  <2>1. f \in [D2 -> Nat] /\ D2 # {}
    BY <1>1
  <2>2. PICK x \in D2 : \A y \in D2 : f[x] <= f[y]
    BY <2>1, LeastImage
  <2> QED
    BY <2>2
<1> DEFINE D3 == {i \in D2 : Measured(list[i].rtt) = Measured(list[r].rtt)}
<1>5. PICK i \in D3 : \A j \in D3 : i <= j
  BY <1>1, LeastNumber
<1>6. ASSUME NEW j \in of, j \in D3
      PROVE  ~LessCandidate(list[j], list[i]) /\ ~(j < i)
  <2>1. i \in Nat /\ j \in Nat /\ list[i] \in Found /\ list[j] \in Found
    BY <1>1, <1>5, <1>6
  <2>2. /\ list[j].torn = list[i].torn /\ list[j].loss = list[i].loss
        /\ Measured(list[j].rtt) = Measured(list[i].rtt)
    BY <1>5, <1>6
  <2>3. ~LessCandidate(list[j], list[i])
    BY <2>1, <2>2, OrderFacts
  <2>4. i <= j
    BY <1>5, <1>6
  <2> QED
    BY <2>1, <2>3, <2>4
<1>7. ASSUME NEW j \in of, j \notin D3
      PROVE  ~LessCandidate(list[j], list[i]) /\ LessCandidate(list[i], list[j])
  <2>0. i \in of /\ list[i] \in Found /\ list[j] \in Found
    BY <1>1, <1>5
  <2>1. CASE j \notin D1
    <3>1. list[i].torn = list[t].torn /\ list[j].torn # list[t].torn
      BY <1>5, <2>1
    <3>2. torn(t) <= torn(j)
      BY <1>2
    <3>3. list[t].torn \in BOOLEAN /\ list[j].torn \in BOOLEAN
      BY <1>1
    <3>4. ~list[i].torn /\ list[j].torn
      BY <3>1, <3>2, <3>3
    <3> QED
      BY <2>0, <3>4, OrderFacts
  <2>2. CASE j \in D1 /\ j \notin D2
    <3>1. list[i].torn = list[j].torn /\ list[i].loss = list[l].loss
      BY <1>5, <2>2
    <3>2. list[l].loss <= list[j].loss /\ list[j].loss # list[l].loss
      BY <1>3, <2>2
    <3>3. list[i].loss \in Nat /\ list[j].loss \in Nat
      BY <2>0, FoundFacts
    <3>4. list[i].loss < list[j].loss
      BY <3>1, <3>2, <3>3
    <3> QED
      BY <2>0, <3>1, <3>4, OrderFacts
  <2>3. CASE j \in D2
    <3>1. /\ list[i].torn = list[j].torn /\ list[i].loss = list[j].loss
          /\ Measured(list[i].rtt) = Measured(list[r].rtt)
          /\ Measured(list[j].rtt) # Measured(list[r].rtt)
      BY <1>5, <1>7, <2>3
    <3>2. Measured(list[r].rtt) <= Measured(list[j].rtt)
      BY <1>4, <2>3
    <3>3. Measured(list[i].rtt) \in Nat /\ Measured(list[j].rtt) \in Nat
      BY <2>0, FoundFacts
    <3>4. Measured(list[i].rtt) < Measured(list[j].rtt)
      BY <3>1, <3>2, <3>3
    <3> QED
      BY <2>0, <3>1, <3>4, OrderFacts
  <2> QED
    BY <2>1, <2>2, <2>3
<1> QED
  BY <1>5, <1>6, <1>7

\* What BestCandidate returns.
LEMMA BestIsBest ==
    ASSUME NEW list \in Seq(Found), NEW proto
    PROVE  LET of == {x \in Range(list) : x.proto = proto}
               best == BestCandidate(list, proto)
           IN  /\ of = {} => best = None
               /\ of # {} => best \in of /\ \A x \in of : ~LessCandidate(x, best)
<1> DEFINE of == {x \in Range(list) : x.proto = proto}
           best == BestCandidate(list, proto)
           places == {i \in DOMAIN list : list[i].proto = proto}
           least == {i \in places : \A j \in places :
                         /\ ~LessCandidate(list[j], list[i])
                         /\ j < i => LessCandidate(list[i], list[j])}
<1>1. best = IF places = {} THEN None ELSE list[CHOOSE i \in least : TRUE]
  BY DEF BestCandidate
<1>2. of = {list[i] : i \in places}
  BY DEF Range
<1>3. CASE places = {}
  BY <1>1, <1>2, <1>3
<1>4. CASE places # {}
  <2>1. least # {}
    <3>1. places \in SUBSET DOMAIN list
      OBVIOUS
    <3> HIDE DEF places
    <3>2. PICK i \in places : \A j \in places :
              /\ ~LessCandidate(list[j], list[i])
              /\ j < i => LessCandidate(list[i], list[j])
      BY <1>4, <3>1, FirstOfTheLeast
    <3> QED
      BY <3>2
  <2>2. PICK i \in least : best = list[i]
    BY <1>1, <1>4, <2>1
  <2> QED
    BY <1>2, <1>4, <2>2
<1> QED
  BY <1>3, <1>4

\* A candidate that works properly is not worse than the best of its protocol,
\* which then works properly as well ...
LEMMA BestOfSound ==
    ASSUME NEW x \in Found, NEW best \in Found, x.proto = best.proto,
           ~x.torn, x.loss = 0, x.rtt > 0, ~LessCandidate(x, best)
    PROVE  ~best.torn /\ best.rtt > 0 /\ best.rtt <= x.rtt
<1>1. ~best.torn /\ best.loss = 0 /\ ~(Measured(x.rtt) < Measured(best.rtt))
  BY FoundFacts DEF LessCandidate
<1>2. Measured(x.rtt) = x.rtt /\ x.rtt < Slowest
  BY FoundFacts DEF Measured
<1> QED
  BY <1>1, <1>2, FoundFacts, SlowestIsANumber DEF Measured

\* ... and one that is faster than the best of its protocol is less steady.
LEMMA BestIsSteadier ==
    ASSUME NEW x \in Found, NEW best \in Found,
           Faster(x, best), ~LessCandidate(x, best)
    PROVE  Steadier(best, x)
<1>1. /\ x.torn \in BOOLEAN /\ best.torn \in BOOLEAN /\ x.loss \in Nat /\ best.loss \in Nat
      /\ x.rtt \in Nat /\ best.rtt \in Nat /\ x.rtt < Slowest /\ best.rtt < Slowest
  BY FoundFacts
<1>2. Measured(x.rtt) < Measured(best.rtt)
  BY <1>1 DEF Faster, Measured
<1>3. /\ x.torn \/ ~best.torn
      /\ x.torn = best.torn => ~(x.loss < best.loss)
      /\ x.torn = best.torn => x.loss # best.loss
  BY <1>2 DEF LessCandidate
<1> QED
  BY <1>1, <1>3 DEF Steadier

LEMMA LimitFacts ==
    ASSUME NEW r \in 1 .. ProbeRTTLimit
    PROVE  r \in Nat /\ r > 0 /\ r <= ProbeRTTLimit
BY DEF ProbeRTTLimit

\* What ChoiceIsJustified says of a choice from a list.
Justified(list, preferSpeed, choice) ==
    LET good == {x \in Range(list) : ~x.torn /\ x.loss = 0 /\ x.rtt \in 1 .. ProbeRTTLimit}
    IN /\ (choice = None) <=> (Range(list) = {})
       /\ choice = None \/ choice \in Range(list)
       /\ ~preferSpeed /\ good # {} => PassesLadder(choice)
       /\ ~preferSpeed /\ (\E x \in good : x.proto = "masque") => choice.proto = "masque"
       /\ preferSpeed =>
              \A x \in Range(list) : Faster(x, choice) =>
                  \E y \in Range(list) : y.proto = x.proto /\ Steadier(y, x)

LEMMA DecisionIsJustified ==
    ASSUME NEW list \in Seq(Found), NEW preferSpeed \in BOOLEAN
    PROVE  Justified(list, preferSpeed, Decision(list, preferSpeed))
<1> DEFINE good == {x \in Range(list) : ~x.torn /\ x.loss = 0 /\ x.rtt \in 1 .. ProbeRTTLimit}
           choice == Decision(list, preferSpeed)
           m == BestCandidate(list, "masque")
           w == BestCandidate(list, "wg")
           ms == {x \in Range(list) : x.proto = "masque"}
           ws == {x \in Range(list) : x.proto = "wg"}
<1>1. Range(list) \subseteq Found
  <2> SUFFICES ASSUME NEW i \in DOMAIN list PROVE list[i] \in Found
    BY DEF Range
  <2> QED
    BY LenProperties, ElementOfSeq
<1>2. Range(list) = ms \cup ws
  BY <1>1, FoundFacts
<1>3. /\ ms = {} => m = None
      /\ ms # {} => m \in ms /\ \A x \in ms : ~LessCandidate(x, m)
      /\ ws = {} => w = None
      /\ ws # {} => w \in ws /\ \A x \in ws : ~LessCandidate(x, w)
  BY BestIsBest
<1>4. choice =
         CASE preferSpeed /\ m # None /\ w # None ->
              IF w.rtt > 0 /\ (m.rtt = 0 \/ w.rtt < m.rtt) THEN w ELSE m
         [] PassesLadder(m) /\ ~(preferSpeed /\ w # None) -> m
         [] PassesLadder(w) /\ ~PassesLadder(m) /\ ~(preferSpeed /\ m # None) -> w
         [] OTHER -> IF m # None THEN m ELSE w
  BY DEF Decision
<1> HIDE DEF choice, m, w
<1>5. None \notin Range(list)
  BY <1>1, FoundFacts
<1>6. /\ m = None <=> ms = {}
      /\ w = None <=> ws = {}
  BY <1>3, <1>5
<1>7. /\ choice \in {m, w}
      /\ (m # None \/ w # None) => choice # None
  BY <1>4 DEF PassesLadder
<1>8. (choice = None) <=> (Range(list) = {})
  BY <1>2, <1>6, <1>7
<1>9. choice = None \/ choice \in Range(list)
  BY <1>2, <1>3, <1>6, <1>7
<1>10. ASSUME NEW x \in good, x.proto = "masque" PROVE m # None /\ PassesLadder(m)
  <2>0. /\ x \in Range(list) /\ ~x.torn /\ x.loss = 0
        /\ x.rtt \in 1 .. ProbeRTTLimit
    OBVIOUS
  <2>1. x \in ms /\ x \in Found
    BY <1>1, <1>10, <2>0
  <2>2. x.rtt \in Nat /\ x.rtt > 0 /\ x.rtt <= ProbeRTTLimit
    BY <2>0, LimitFacts
  <2>3. /\ x \in ms /\ x \in Found /\ x.rtt \in Nat /\ x.rtt > 0 /\ x.rtt <= ProbeRTTLimit
        /\ ~x.torn /\ x.loss = 0
    BY <2>0, <2>1, <2>2
  <2>4. m \in ms /\ m \in Found /\ ~LessCandidate(x, m)
    BY <1>1, <1>3, <2>3
  <2>5. ~m.torn /\ m.rtt <= x.rtt /\ m.rtt \in Nat
    BY <2>3, <2>4, BestOfSound, FoundFacts
  <2> QED
    BY <1>5, <2>3, <2>4, <2>5 DEF PassesLadder, ProbeRTTLimit
<1>11. ASSUME NEW x \in good, x.proto = "wg" PROVE w # None /\ PassesLadder(w)
  <2>0. /\ x \in Range(list) /\ ~x.torn /\ x.loss = 0
        /\ x.rtt \in 1 .. ProbeRTTLimit
    OBVIOUS
  <2>1. x \in ws /\ x \in Found
    BY <1>1, <1>11, <2>0
  <2>2. x.rtt \in Nat /\ x.rtt > 0 /\ x.rtt <= ProbeRTTLimit
    BY <2>0, LimitFacts
  <2>3. /\ x \in ws /\ x \in Found /\ x.rtt \in Nat /\ x.rtt > 0 /\ x.rtt <= ProbeRTTLimit
        /\ ~x.torn /\ x.loss = 0
    BY <2>0, <2>1, <2>2
  <2>4. w \in ws /\ w \in Found /\ ~LessCandidate(x, w)
    BY <1>1, <1>3, <2>3
  <2>5. ~w.torn /\ w.rtt <= x.rtt /\ w.rtt \in Nat
    BY <2>3, <2>4, BestOfSound, FoundFacts
  <2> QED
    BY <1>5, <2>3, <2>4, <2>5 DEF PassesLadder, ProbeRTTLimit
<1>12. ASSUME ~preferSpeed, NEW x \in good
       PROVE  PassesLadder(choice) /\ (x.proto = "masque" => choice.proto = "masque")
  <2>1. x.proto \in {"masque", "wg"}
    BY <1>1, FoundFacts
  <2>2. CASE PassesLadder(m)
    <3>1. choice = m
      BY <1>4, <1>12, <2>2
    <3>2. m.proto = "masque"
      BY <1>3, <1>6, <2>2 DEF PassesLadder
    <3> QED
      BY <2>2, <3>1, <3>2
  <2>3. CASE ~PassesLadder(m)
    <3>1. x.proto = "wg" /\ PassesLadder(w)
      BY <1>10, <1>11, <2>1, <2>3
    <3>2. choice = w
      BY <1>4, <1>12, <2>3, <3>1
    <3> QED
      BY <3>1, <3>2
  <2> QED
    BY <2>2, <2>3
<1>13. ASSUME preferSpeed, NEW x \in Range(list), Faster(x, choice)
       PROVE  \E y \in Range(list) : y.proto = x.proto /\ Steadier(y, x)
  <2>1. /\ m # None => m \in ms /\ m \in Found /\ m.rtt \in Nat
        /\ w # None => w \in ws /\ w \in Found /\ w.rtt \in Nat
        /\ x \in Found /\ x.rtt \in Nat
    BY <1>1, <1>3, <1>6, FoundFacts
  <2>2. /\ m # None /\ w # None =>
              choice = IF w.rtt > 0 /\ (m.rtt = 0 \/ w.rtt < m.rtt) THEN w ELSE m
        /\ m = None /\ w # None => choice = w
        /\ m # None /\ w = None => choice = m
    <3>1. m # None /\ w # None =>
              choice = IF w.rtt > 0 /\ (m.rtt = 0 \/ w.rtt < m.rtt) THEN w ELSE m
      BY <1>4, <1>13
    <3>2. m = None /\ w # None => choice = w
      BY <1>4 DEF PassesLadder
    <3>3. m # None /\ w = None => choice = m
      BY <1>4 DEF PassesLadder
    <3> QED
      BY <3>1, <3>2, <3>3
  <2>3. CASE x \in ms
    <3>1. m # None /\ m.proto = x.proto /\ ~LessCandidate(x, m)
      BY <1>3, <1>6, <2>1, <2>3
    <3>2. Faster(x, m)
      BY <1>13, <2>1, <2>2, <3>1 DEF Faster
    <3>3. Steadier(m, x)
      BY <2>1, <3>1, <3>2, BestIsSteadier
    <3> QED
      BY <2>1, <3>1, <3>3
  <2>4. CASE x \in ws
    <3>1. w # None /\ w.proto = x.proto /\ ~LessCandidate(x, w)
      BY <1>3, <1>6, <2>1, <2>4
    <3>2. Faster(x, w)
      BY <1>13, <2>1, <2>2, <3>1 DEF Faster
    <3>3. Steadier(w, x)
      BY <2>1, <3>1, <3>2, BestIsSteadier
    <3> QED
      BY <2>1, <3>1, <3>3
  <2> QED
    BY <1>2, <2>3, <2>4
<1> QED
  BY <1>8, <1>9, <1>12, <1>13 DEF Justified, choice

\* Everything listed, or read from the list and not yet written back, has been
\* measured and shown.
ListsFit ==
    /\ candidates \in Seq(Found) /\ Range(candidates) \subseteq shown
    /\ \A x \in appending :
           x.new \in Found /\ x.slice \in Seq(Found) /\ Range(x.slice) \subseteq shown
    /\ job.preferSpeed \in BOOLEAN

\* From the decision on, the list is left alone.
DecisionFits ==
    \A c \in Callers : (at[c] \in {"save", "done"} /\ job.kind = "probe")
        => chosen = Decision(candidates, job.preferSpeed)

ChoiceInv == ListsFit /\ DecisionFits

LEMMA RangeOfAppend ==
    ASSUME NEW s \in Seq(Found), NEW x \in Found
    PROVE  Append(s, x) \in Seq(Found) /\ Range(Append(s, x)) \subseteq Range(s) \cup {x}
<1>1. /\ Append(s, x) \in Seq(Found) /\ Len(Append(s, x)) = Len(s) + 1
      /\ \A i \in 1 .. Len(s) : Append(s, x)[i] = s[i]
      /\ Append(s, x)[Len(s) + 1] = x
  BY AppendProperties
<1>2. /\ DOMAIN s = 1 .. Len(s) /\ Len(s) \in Nat
      /\ DOMAIN Append(s, x) = 1 .. Len(s) + 1
  BY <1>1, LenProperties
<1>3. ASSUME NEW i \in DOMAIN Append(s, x) PROVE Append(s, x)[i] \in Range(s) \cup {x}
  <2>1. CASE i \in 1 .. Len(s)
    BY <1>1, <1>2, <2>1 DEF Range
  <2>2. CASE i = Len(s) + 1
    BY <1>1, <2>2
  <2> QED
    BY <1>2, <2>1, <2>2
<1> QED
  BY <1>1, <1>3 DEF Range

\* A probe begins, returns, or dies: the lists are empty.
LEMMA FreshFits ==
    ASSUME Fresh, job'.preferSpeed \in BOOLEAN, \A c \in Callers : at'[c] \notin {"save", "done"}
    PROVE  ChoiceInv'
<1>1. Range(<<>>) = {} /\ <<>> \in Seq(Found)
  BY EmptySeq DEF Range
<1> QED
  BY <1>1 DEF Fresh, ChoiceInv, ListsFit, DecisionFits

LEMMA LeaveFits ==
    ASSUME IInv, NEW c \in Callers, at[c] # "idle", Leave(c)
    PROVE  ChoiceInv'
<1>1. \A d \in Callers : at'[d] \in {"idle", "release"}
  BY DEF Leave, Goto, IInv, Types, OneProbeAtATime
<1>2. job'.preferSpeed = FALSE
  BY DEF Leave, NoJob
<1> QED
  BY <1>1, <1>2, FreshFits DEF Leave

\* A probe that goes on and leaves the lists alone.
LEMMA ListsKept ==
    ASSUME ChoiceInv, UNCHANGED <<job, candidates, appending, shown>>,
           \A c \in Callers : at'[c] \in {"save", "done"} => UNCHANGED chosen /\ at[c] \in {"save", "done"}
    PROVE  ChoiceInv'
BY DEF ChoiceInv, ListsFit, DecisionFits

LEMMA WriteSliceFits ==
    ASSUME IInv, ChoiceInv, NEW c \in Callers, WriteSlice(c)
    PROVE  ChoiceInv'
<1>1. PICK x \in appending :
          /\ appending' = appending \ {x}
          /\ candidates' = Append(x.slice, x.new) /\ shown' = shown \cup {x.new}
  BY DEF WriteSlice
<1>2. at[c] \in {"masque", "wg"} /\ UNCHANGED <<at, job, chosen>>
  BY DEF WriteSlice
<1>3. /\ candidates' \in Seq(Found) /\ Range(candidates') \subseteq shown'
  BY <1>1, RangeOfAppend DEF ChoiceInv, ListsFit
<1>4. ListsFit'
  BY <1>1, <1>2, <1>3 DEF ChoiceInv, ListsFit
<1>5. DecisionFits'
  BY <1>2 DEF IInv, OneProbeAtATime, DecisionFits
<1> QED
  BY <1>4, <1>5 DEF ChoiceInv

LEMMA ReadSliceFits ==
    ASSUME IInv, ChoiceInv, NEW c \in Callers, NEW t \in left, ReadSlice(c, t)
    PROVE  ChoiceInv'
<1>1. PICK x \in Found : appending' = appending \cup {[target |-> t, new |-> x, slice |-> candidates]}
  BY DEF ReadSlice, Found
<1>2. at[c] \in {"masque", "wg"} /\ UNCHANGED <<at, job, candidates, shown, chosen>>
  BY DEF ReadSlice
<1>3. ListsFit'
  BY <1>1, <1>2 DEF ChoiceInv, ListsFit
<1> QED
  BY <1>2, <1>3 DEF ChoiceInv, DecisionFits

LEMMA ProceedFits ==
    ASSUME IInv, SniInv, ChoiceInv, NEW c \in Callers, Proceed(c)
    PROVE  ChoiceInv'
<1>1. CASE Cancelled(c) \/ SaveFails(c) \/ OnDone(c) \/ MasqueFails(c)
  BY <1>1, LeaveFits DEF Cancelled, SaveFails, OnDone, MasqueFails
<1>2. CASE Release(c)
  BY <1>2, ListsKept DEF Release, Goto, run, IInv, Types
<1>3. CASE StartScan(c) \/ SkipScan(c) \/ ScanOver(c)
  BY <1>3, ListsKept DEF StartScan, SkipScan, ScanOver, Goto, run, IInv, Types
<1>4. CASE Decide(c)
  <2>1. /\ at[c] = "check" /\ chosen' = Decision(candidates, job.preferSpeed)
        /\ UNCHANGED <<job, candidates, appending, shown>>
    BY <1>4 DEF Decide
  <2> QED
    BY <2>1 DEF ChoiceInv, ListsFit, DecisionFits
<1>5. CASE SaveProfile(c)
  BY <1>5, ListsKept DEF SaveProfile, Goto, run, IInv, Types
<1>6. CASE SniOver(c)
  <2>1. /\ at[c] = "sni" /\ at' = [at EXCEPT ![c] = "done"] /\ UNCHANGED run
    BY <1>6 DEF SniOver, Goto
  <2>2. job.kind = "sni"
    BY <2>1 DEF SniInv, KindFits
  <2> QED
    BY <2>1, <2>2 DEF run, ChoiceInv, ListsFit, DecisionFits
<1>7. CASE SweepPorts(c)
  BY <1>7, ListsKept DEF SweepPorts
<1>8. CASE WriteSlice(c)
  BY <1>8, WriteSliceFits
<1>9. ASSUME NEW t \in left, TargetFails(c, t) \/ SniFails(c, t) PROVE ChoiceInv'
  BY <1>9, ListsKept DEF TargetFails, SniFails
<1>10. ASSUME NEW t \in left, ReadSlice(c, t) PROVE ChoiceInv'
  BY <1>10, ReadSliceFits
<1>11. ASSUME NEW t \in left, NEW x \in Masque, SniWorks(c, t, x) PROVE ChoiceInv'
  <2>1. at[c] = "sni" /\ UNCHANGED <<at, job, candidates, appending>> /\ shown' = shown \cup {x}
    BY <1>11 DEF SniWorks
  <2>2. ListsFit'
    BY <2>1 DEF ChoiceInv, ListsFit
  <2>3. DecisionFits'
    BY <2>1 DEF IInv, OneProbeAtATime, DecisionFits
  <2> QED
    BY <2>2, <2>3 DEF ChoiceInv
<1> QED
  BY <1>1, <1>2, <1>3, <1>4, <1>5, <1>6, <1>7, <1>8, <1>9, <1>10, <1>11 DEF Proceed, Stages

LEMMA ChoiceInit == Init => ChoiceInv
<1>1. Range(<<>>) = {} /\ <<>> \in Seq(Found)
  BY EmptySeq DEF Range
<1> QED
  BY <1>1 DEF Init, NoJob, ChoiceInv, ListsFit, DecisionFits

LEMMA ChoiceNext == IInv /\ SniInv /\ ChoiceInv /\ [Next]_vars => ChoiceInv'
<1> SUFFICES ASSUME IInv, SniInv, ChoiceInv, [Next]_vars PROVE ChoiceInv'
  OBVIOUS
<1>1. ASSUME NEW c \in Callers, NEW j \in Jobs, Enter(c, j) PROVE ChoiceInv'
  <2>1. /\ slot = None /\ Fresh /\ job' = j /\ j.preferSpeed \in BOOLEAN
        /\ at' = [at EXCEPT ![c] = IF j.kind = "probe" THEN "masque" ELSE "sni"]
    BY <1>1 DEF Enter, Goto, Jobs
  <2>2. \A d \in Callers : at[d] = "idle"
    BY <2>1, StrategyAssumption DEF IInv, OneProbeAtATime
  <2>3. \A d \in Callers : at'[d] \in {"idle", "masque", "sni"}
    BY <2>1, <2>2 DEF IInv, Types
  <2> QED
    BY <2>1, <2>3, FreshFits
<1>2. ASSUME NEW c \in Callers, Proceed(c) PROVE ChoiceInv'
  BY <1>2, ProceedFits
<1>3. CASE StopProbe
  BY <1>3, ListsKept DEF StopProbe, run
<1>4. CASE StopScan
  BY <1>4, ListsKept DEF StopScan
<1>5. CASE Kill
  <2>1. Fresh /\ at' = [c \in Callers |-> "idle"] /\ job'.preferSpeed = FALSE
    BY <1>5 DEF Kill, NoJob
  <2> QED
    BY <2>1, FreshFits
<1>6. ASSUME NEW n \in Networks, ForgetNetworkProfile(n) \/ ForgetFails(n) PROVE ChoiceInv'
  BY <1>6, ListsKept DEF ForgetNetworkProfile, ForgetFails, run
<1>7. CASE UNCHANGED vars
  BY <1>7, ListsKept DEF vars, run
<1> QED
  BY <1>1, <1>2, <1>3, <1>4, <1>5, <1>6, <1>7 DEF Next

\* For any list the unlocked appends can leave: a choice is made if anything
\* works; without preferSpeed it passes the ladder if anything sound does, and is
\* of MASQUE if something sound of MASQUE does; with preferSpeed, whatever is
\* faster than the choice was passed over for a steadier one of its own protocol.
\* The lowest latency of all, which strategy.go:88-89 announces, need not win.
THEOREM ChoiceJustified == Spec => []ChoiceIsJustified
<1>1. Spec => []ChoiceInv
  BY SniHolds, Invariant, ChoiceInit, ChoiceNext, PTL DEF Spec
<1>2. ChoiceInv => ChoiceIsJustified
  <2> SUFFICES ASSUME ChoiceInv, NEW c \in Callers, at[c] \in {"save", "done"}, job.kind = "probe"
               PROVE  /\ Justified(candidates, job.preferSpeed, chosen)
                      /\ Range(candidates) \subseteq shown
    BY DEF ChoiceIsJustified, Justified
  <2> QED
    BY DecisionIsJustified DEF ChoiceInv, ListsFit, DecisionFits
<1> QED
  BY <1>1, <1>2, PTL

-----------------------------------------------------------------------------
(***************************************************************************)
(* ProbeNetwork and TestSni implement the slot.                            *)
(***************************************************************************)
Running == {c \in Callers : at[c] # "idle"}

\* Outside the stages that measure candidates no append is under way.
AppendsFit == (\A c \in Callers : at[c] \notin {"masque", "wg"}) => appending = {}

\* With the slot free nobody runs and no append is left; otherwise the holder
\* alone may run, and does.
HolderRuns == slot # None => at[slot] # "idle"
SlotInv == AppendsFit /\ HolderRuns

LEMMA SlotFacts ==
    ASSUME IInv, SlotInv
    PROVE  /\ slot = None => Running = {} /\ appending = {}
           /\ slot # None => slot \in Callers /\ Running = {slot}
<1>1. slot = None => \A c \in Callers : at[c] = "idle"
  BY StrategyAssumption DEF IInv, OneProbeAtATime
<1>2. slot # None => slot \in Callers /\ \A c \in Callers : at[c] # "idle" <=> c = slot
  BY DEF IInv, Types, OneProbeAtATime, SlotInv, HolderRuns
<1> QED
  BY <1>1, <1>2 DEF Running, SlotInv, AppendsFit

LEMMA InitSlot == Init => SlotInv /\ Slot!Init
<1> SUFFICES ASSUME Init PROVE SlotInv /\ Slot!Init
  OBVIOUS
<1>1. Running = {}
  BY DEF Init, Running
<1>2. Slot!Init
  BY <1>1 DEF Init, Slot!Init, Running
<1> QED
  BY <1>2 DEF Init, SlotInv, AppendsFit, HolderRuns

(***************************************************************************)
(* The steps of a call: it enters, goes on from one place to the next, hires*)
(* or dismisses an append, leaves.                                         *)
(***************************************************************************)
LEMMA EnterBegins ==
    ASSUME IInv, SlotInv, NEW c \in Callers, NEW j \in Jobs, Enter(c, j)
    PROVE  Slot!Begin(c) /\ SlotInv'
<1>1. /\ slot = None /\ slot' = c /\ stopped' = FALSE /\ appending' = {}
      /\ \E place \in {"masque", "sni"} : at' = [at EXCEPT ![c] = place]
  BY DEF Enter, Goto, Fresh
<1>2. Running = {} /\ appending = {}
  BY <1>1, SlotFacts
<1>3. Running' = {c}
  BY <1>1, <1>2 DEF Running, IInv, Types
<1>4. Slot!Begin(c)
  BY <1>1, <1>2, <1>3 DEF Slot!Begin, Running
<1>5. SlotInv'
  BY <1>1 DEF IInv, Types, SlotInv, AppendsFit, HolderRuns
<1> QED
  BY <1>4, <1>5

\* From one place to another, neither of them idle; the appends stay, and there
\* are none when the call leaves the stages.
LEMMA GoesOn ==
    ASSUME IInv, SlotInv, NEW c \in Callers, at[c] # "idle",
           NEW place \in Places \ {"idle"}, at' = [at EXCEPT ![c] = place],
           UNCHANGED <<slot, stopped, appending>>,
           place \in {"masque", "wg"} \/ appending = {}
    PROVE  SlotInv' /\ UNCHANGED Slot!slotVars
<1>1. Running' = Running
  BY DEF Running, IInv, Types
<1>2. UNCHANGED Slot!slotVars
  BY <1>1 DEF Slot!slotVars, Running
<1>3. SlotInv'
  BY DEF IInv, Types, SlotInv, AppendsFit, HolderRuns
<1> QED
  BY <1>2, <1>3

\* Nothing of the slot changes.
LEMMA SameSlot ==
    ASSUME SlotInv, UNCHANGED <<at, slot, stopped, appending>>
    PROVE  SlotInv' /\ UNCHANGED Slot!slotVars
BY DEF SlotInv, AppendsFit, HolderRuns, Slot!slotVars

\* While a call is in another place than the two stages there is no append.
LEMMA NoAppends ==
    ASSUME IInv, SlotInv, NEW c \in Callers, at[c] \notin {"idle", "masque", "wg"}
    PROVE  appending = {}
BY DEF IInv, OneProbeAtATime, SlotInv, AppendsFit

LEMMA HelpStep ==
    ASSUME IInv, SlotInv, NEW c \in Callers, at[c] \in {"masque", "wg"},
           UNCHANGED <<at, slot, stopped>>,
           \/ \E x \in appending' : appending' = appending \cup {x}
           \/ \E x \in appending : appending' = appending \ {x}
    PROVE  SlotInv' /\ Slot!Help
<1>1. slot = c /\ slot # None
  BY StrategyAssumption DEF IInv, OneProbeAtATime
<1>2. Slot!Help
  BY <1>1 DEF Slot!Help
<1>3. SlotInv'
  BY DEF SlotInv, AppendsFit, HolderRuns
<1> QED
  BY <1>2, <1>3

LEMMA LeaveSlot ==
    ASSUME IInv, SlotInv, NEW c \in Callers, at[c] # "idle", Leave(c),
           UNCHANGED <<slot, stopped>>, appending = {}
    PROVE  SlotInv' /\ UNCHANGED Slot!slotVars
<1>1. at' = [at EXCEPT ![c] = "release"] /\ appending' = {}
  BY DEF Leave, Goto, Fresh
<1> QED
  BY <1>1, GoesOn DEF Places

LEMMA ReleaseEnds ==
    ASSUME IInv, SlotInv, NEW c \in Callers, Release(c)
    PROVE  SlotInv' /\ Slot!End
<1>1. /\ at[c] = "release" /\ slot' = None /\ UNCHANGED appending
      /\ at' = [at EXCEPT ![c] = "idle"] /\ stopped' = FALSE
  BY DEF Release, Goto, run
<1>2. slot = c /\ Running = {c} /\ appending = {}
  BY <1>1, StrategyAssumption, SlotFacts, NoAppends DEF IInv, OneProbeAtATime
<1>3. Running' = {}
  BY <1>1, <1>2 DEF Running, IInv, Types
<1>4. Slot!End
  BY <1>1, <1>2, <1>3 DEF Slot!End, Running
<1>5. SlotInv'
  BY <1>1, <1>2 DEF SlotInv, AppendsFit, HolderRuns
<1> QED
  BY <1>4, <1>5

Kept == SlotInv' /\ (Slot!Next \/ UNCHANGED Slot!slotVars)

LEMMA ProceedSlot ==
    ASSUME IInv, SlotInv, NEW c \in Callers, Proceed(c)
    PROVE  Kept
<1>1. CASE SweepPorts(c)
  BY <1>1, SameSlot DEF SweepPorts, Kept
<1>2. CASE StartScan(c) \/ SkipScan(c) \/ ScanOver(c)
  <2>1. /\ at[c] # "idle" /\ UNCHANGED <<slot, stopped, appending>> /\ appending = {}
        /\ \E place \in {"wg", "check"} : at' = [at EXCEPT ![c] = place]
    BY <1>2 DEF StartScan, SkipScan, ScanOver, StageOver, Goto, run
  <2> QED
    BY <2>1, GoesOn DEF Places, Kept
<1>3. CASE MasqueFails(c)
  <2>1. appending = {} /\ at[c] # "idle"
    BY <1>3, NoAppends DEF MasqueFails, StageOver
  <2> QED
    BY <1>3, <2>1, LeaveSlot DEF MasqueFails, Kept
<1>4. CASE WriteSlice(c)
  <2>1. /\ at[c] \in {"masque", "wg"} /\ UNCHANGED <<at, slot, stopped>>
        /\ \E x \in appending : appending' = appending \ {x}
    BY <1>4 DEF WriteSlice
  <2> QED
    BY <2>1, HelpStep DEF Slot!Next, Kept
<1>5. ASSUME NEW t \in left, TargetFails(c, t) \/ SniFails(c, t) PROVE Kept
  BY <1>5, SameSlot DEF TargetFails, SniFails, Kept
<1>6. ASSUME NEW t \in left, ReadSlice(c, t) PROVE Kept
  <2>1. /\ at[c] \in {"masque", "wg"} /\ UNCHANGED <<at, slot, stopped>>
        /\ \E x : appending' = appending \cup {x}
    BY <1>6 DEF ReadSlice
  <2> QED
    BY <2>1, HelpStep DEF Slot!Next, Kept
<1>7. ASSUME NEW t \in left, NEW x \in Masque, SniWorks(c, t, x) PROVE Kept
  BY <1>7, SameSlot DEF SniWorks, Kept
<1>8. CASE Cancelled(c) \/ OnDone(c) \/ SaveFails(c)
  <2>1. /\ at[c] \notin {"idle", "masque", "wg"} /\ Leave(c) /\ UNCHANGED <<slot, stopped>>
    BY <1>8 DEF Cancelled, OnDone, SaveFails
  <2> QED
    BY <2>1, NoAppends, LeaveSlot DEF Kept
<1>9. CASE SniOver(c) \/ Decide(c) \/ SaveProfile(c)
  <2>1. /\ at[c] \notin {"idle", "masque", "wg"} /\ UNCHANGED <<slot, stopped, appending>>
        /\ \E place \in {"save", "done"} : at' = [at EXCEPT ![c] = place]
    BY <1>9 DEF SniOver, Decide, SaveProfile, Goto, run
  <2> QED
    BY <2>1, NoAppends, GoesOn DEF Places, Kept
<1>10. CASE Release(c)
  BY <1>10, ReleaseEnds DEF Slot!Next, Kept
<1> QED
  BY <1>1, <1>2, <1>3, <1>4, <1>5, <1>6, <1>7, <1>8, <1>9, <1>10 DEF Proceed, Stages

LEMMA StepSlot ==
    ASSUME IInv, SlotInv, [Next]_vars
    PROVE  SlotInv' /\ (Kill \/ Slot!Next \/ UNCHANGED Slot!slotVars)
<1>1. ASSUME NEW c \in Callers, Proceed(c) PROVE Kept
  BY <1>1, ProceedSlot
<1>2. ASSUME NEW c \in Callers, NEW j \in Jobs, Enter(c, j) PROVE Kept
  BY <1>2, EnterBegins DEF Slot!Next, Kept
<1>3. CASE StopProbe
  <2>1. slot # None /\ stopped' /\ UNCHANGED <<at, slot, appending>>
    BY <1>3 DEF StopProbe, run
  <2>2. Slot!Cancel
    BY <2>1 DEF Slot!Cancel
  <2>3. SlotInv'
    BY <2>1 DEF SlotInv, AppendsFit, HolderRuns
  <2> QED
    BY <2>2, <2>3 DEF Slot!Next
<1>4. CASE StopScan
  BY <1>4, SameSlot DEF StopScan
<1>5. CASE Kill
  <2>1. slot' = None /\ appending' = {}
    BY <1>5 DEF Kill, Fresh
  <2> QED
    BY <1>5, <2>1 DEF SlotInv, AppendsFit, HolderRuns
<1>6. ASSUME NEW n \in Networks, ForgetNetworkProfile(n) \/ ForgetFails(n) PROVE Kept
  BY <1>6, SameSlot DEF ForgetNetworkProfile, ForgetFails, run, Kept
<1>7. CASE UNCHANGED vars
  BY <1>7, SameSlot DEF vars, run
<1> QED
  BY <1>1, <1>2, <1>3, <1>4, <1>5, <1>6, <1>7 DEF Next, Kept

\* Until the process is killed ProbeNetwork and TestSni implement the slot they
\* share, for any callers and stages: nobody is let in before the call and its
\* appends have ended, and a StopProbe stays with the call it was meant for.
THEOREM SlotRefinement == Spec => ImplementsProbeSlot
<1>1. IInv /\ SlotInv /\ [Next]_vars => SlotInv' /\ [Kill \/ Slot!Next]_(Slot!slotVars)
  BY StepSlot
<1> QED
  BY <1>1, InitSlot, Invariant, PTL DEF Spec, ImplementsProbeSlot
================================================================================
