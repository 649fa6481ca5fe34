--------------------------- MODULE VpnService_proofs ---------------------------
(***************************************************************************)
(* Proofs about VpnService, for any number of starts and service objects   *)
(* and any set of descriptor numbers.                                      *)
(***************************************************************************)
EXTENDS VpnService, TLAPS

Calm == history = "calm"

\* A session that has got past the running check has been alive.
Started(s) == at[s] \notin {"idle", "failed"}
Over(s) == at[s] \in {"idle", "failed", "done"}
NobodyBusy == \A t \in Threads : ~Busy(t)

\* Sessions are numbered in order; one that has started stays started, and the
\* latest one has.
BridgeWired ==
    /\ \A s \in Sessions : s > calls => at[s] = "idle"
    /\ latest <= calls /\ ctxDone \subseteq 1 .. calls
    /\ running => latest # None
    /\ latest # None => Started(latest)
    /\ \A s \in Sessions : Started(s) => latest # None
    /\ \A s \in Sessions : at[s] = "event" => to[s] \in Sessions /\ Started(to[s])

\* Sessions, setups and calls of disconnect() know the object they belong to.
ServiceWired ==
    /\ \A s \in Sessions : Started(s) => starter[s] \in Threads /\ setup[starter[s]].at # "idle"
    /\ \A t \in Threads : setup[t].at # "idle" => setup[t].inst \in Instances
    /\ \A a \in Actors : InDisconnect(a) => disc[a].inst \in Instances

\* A setup has the service for itself: every session has ended, nobody
\* disconnects, and the interface it has established is the only open one.
SetupIsAlone ==
    \A t \in Threads : Busy(t) =>
        /\ \A u \in Threads : Busy(u) => u = t
        /\ \A a \in Actors : ~InDisconnect(a)
        /\ (\A s \in Sessions : Over(s)) /\ ~running
        /\ instance \in Instances /\ setup[t].inst = instance
        /\ isRunning <=> (setup[t].at \in {"start", "fail"})
        /\ setup[t].at = "prepare" => \A u \in Threads : pfd[u].state # "open"
        /\ setup[t].at # "prepare" => pfd[t].state = "open" /\ table[pfd[t].fd] = t
        /\ setup[t].at \in {"mark", "start"} => setup[t].fd = pfd[t].fd

\* An open interface is the only one, it is in the field that disconnect() will
\* look at, and once the flag is clear somebody is about to close it.
InterfaceIsHeld ==
    /\ \A t \in Threads : pfd[t].state = "open" =>
        /\ \A u \in Threads : pfd[u].state = "open" => u = t
        /\ setup[t].at \notin {"idle", "prepare"} /\ pfd[t].fd \in FdNumbers
        /\ setup[t].inst \in Instances /\ vpnInterface[setup[t].inst] = t
        /\ \A a \in Actors : InDisconnect(a) => disc[a].inst = setup[t].inst
        /\ ~isRunning /\ ~Busy(t) => \E a \in Actors : disc[a].at \in {"stop", "close"}
    /\ \A n \in FdNumbers : table[n] # None =>
        pfd[table[n]].state = "open" /\ pfd[table[n]].fd = n

\* One session at a time, the latest; while the flag is set it reads the open
\* interface, and nobody has cancelled it.
SessionIsLatest ==
    /\ \A s \in Sessions : ~Over(s) => s = latest
    /\ \A s \in Sessions : at[s] = "event" => to[s] = s
    /\ \A s \in Sessions : Alive(s) => running \/ s \in ctxDone
    /\ isRunning /\ NobodyBusy =>
        LET t == starter[latest] IN
        /\ latest # None /\ ~Over(latest)
        /\ pfd[t].state = "open" /\ instance \in Instances /\ setup[t].inst = instance
        /\ Alive(latest) =>
            running /\ latest \notin ctxDone /\ file[latest] = pfd[t].fd /\ table[file[latest]] = t

\* How far disconnect() has come says what it has undone, whoever runs it.
DisconnectInOrder ==
    /\ \A a \in Actors :
        /\ disc[a].at \in {"stop", "close", "null"} => ~isRunning
        /\ disc[a].at \in {"close", "null"} => ~running
        /\ disc[a].at = "null" => \A t \in Threads : pfd[t].state # "open"
    /\ ~isRunning /\ running => \E a \in Actors : disc[a].at = "stop"

Orderly == SetupIsAlone /\ InterfaceIsHeld /\ SessionIsLatest /\ DisconnectInOrder

CalmInv == Calm => Orderly

IInv == TypeOK /\ BridgeWired /\ ServiceWired /\ CalmInv

USE DEF Sessions, Threads, Instances, Actors, None, Main

Ports == FdNumbers \cup {None}

\* The two records that setup threads and actors carry.
SetupStates == [at: ThreadPoints, inst: 0 .. MaxInstances, fd: Ports]
Calls == [at: CallPoints, inst: 0 .. MaxInstances, destroy: BOOLEAN]

LEMMA NullFacts == NoThread \in SetupStates /\ NoCall \in Calls
BY VpnServiceAssumption DEF NoThread, NoCall, SetupStates, Calls, ThreadPoints, CallPoints, Ports

\* What an assignment to a thread's record changes.
Moved(t, p, f) == setup' = [setup EXCEPT ![t].at = p, ![t].fd = f]

LEMMA SetupMoves ==
    ASSUME TypeOK, NEW t \in Threads, NEW p \in ThreadPoints, NEW f \in Ports, Moved(t, p, f)
    PROVE  /\ setup' \in [Threads -> SetupStates]
           /\ setup'[t].at = p /\ setup'[t].fd = f /\ setup'[t].inst = setup[t].inst
           /\ \A u \in Threads : u # t => setup'[u] = setup[u]
           /\ \A u \in Threads : setup'[u].inst = setup[u].inst
<1>1. setup \in [Threads -> SetupStates]
  BY DEF TypeOK, SetupStates, Ports
<1> DEFINE r == [setup[t] EXCEPT !.at = p]
<1>2. r \in SetupStates /\ r.at = p /\ r.inst = setup[t].inst
  BY <1>1 DEF SetupStates
<1> DEFINE q == [r EXCEPT !.fd = f]
<1>3. q \in SetupStates /\ q.at = p /\ q.fd = f /\ q.inst = setup[t].inst
  <2> HIDE DEF r
  <2> QED
    BY <1>2 DEF SetupStates
<1>4. setup' = [setup EXCEPT ![t] = q]
  BY <1>1 DEF Moved
<1> HIDE DEF r, q
<1> QED
  BY <1>1, <1>3, <1>4

LEMMA SetupStays ==
    ASSUME TypeOK, NEW t \in Threads, NEW p \in ThreadPoints,
           setup' = [setup EXCEPT ![t].at = p]
    PROVE  /\ setup' \in [Threads -> SetupStates]
           /\ setup'[t].at = p /\ setup'[t].fd = setup[t].fd /\ setup'[t].inst = setup[t].inst
           /\ \A u \in Threads : u # t => setup'[u] = setup[u]
           /\ \A u \in Threads : setup'[u].inst = setup[u].inst
<1>1. setup \in [Threads -> SetupStates]
  BY DEF TypeOK, SetupStates, Ports
<1> QED
  BY <1>1 DEF SetupStates

LEMMA CallMoves ==
    ASSUME TypeOK, NEW a \in Actors, NEW p \in CallPoints, Goto(a, p)
    PROVE  /\ disc' \in [Actors -> Calls]
           /\ disc'[a].at = p
           /\ \A b \in Actors : b # a => disc'[b] = disc[b]
           /\ \A b \in Actors : disc'[b].inst = disc[b].inst
<1>1. disc \in [Actors -> Calls]
  BY DEF TypeOK, Calls
<1> QED
  BY <1>1 DEF Goto, Calls

LEMMA CallBegins ==
    ASSUME TypeOK, NEW a \in Actors, NEW i \in 0 .. MaxInstances, NEW d \in BOOLEAN, Enter(a, i, d)
    PROVE  /\ disc' \in [Actors -> Calls]
           /\ disc'[a].at = "clear" /\ disc'[a].inst = i
           /\ \A b \in Actors : b # a => disc'[b] = disc[b]
           /\ isRunning
<1>1. disc \in [Actors -> Calls]
  BY DEF TypeOK, Calls
<1>2. [at |-> "clear", inst |-> i, destroy |-> d] \in Calls
  BY DEF Calls, CallPoints
<1> QED
  BY <1>1, <1>2 DEF Enter

\* Closing an interface closes its number in the kernel's table.
LEMMA PfdCloses ==
    ASSUME TypeOK, NEW t \in 0 .. MaxStarts, ClosePfd(t)
    PROVE  /\ pfd' \in [Threads -> [state: {"none", "open", "closed"}, fd: Ports]]
           /\ table' \in [FdNumbers -> 0 .. MaxStarts]
           /\ \A u \in Threads : pfd'[u].state = "open" <=> pfd[u].state = "open" /\ u # t
           /\ \A u \in Threads : pfd'[u].state = "open" => pfd'[u] = pfd[u]
           /\ \A n \in FdNumbers : table'[n] \in {None, table[n]}
           /\ t # None /\ pfd[t].state = "open" /\ pfd[t].fd \in FdNumbers => table'[pfd[t].fd] = None
           /\ t = None \/ pfd[t].state # "open" => UNCHANGED <<pfd, table>>
           /\ \A n \in FdNumbers : t # None /\ pfd[t].state = "open" /\ n # pfd[t].fd => table'[n] = table[n]
<1>1. /\ pfd \in [Threads -> [state: {"none", "open", "closed"}, fd: Ports]]
      /\ table \in [FdNumbers -> 0 .. MaxStarts] /\ MaxStarts \in Nat
  BY VpnServiceAssumption DEF TypeOK, Ports
<1>2. CASE t # None /\ pfd[t].state = "open"
  <2>1. t \in Threads
    BY <1>1, <1>2
  <2>2. /\ pfd' = [pfd EXCEPT ![t] = [state |-> "closed", fd |-> None]]
        /\ table' = [table EXCEPT ![pfd[t].fd] = None]
    BY <1>2 DEF ClosePfd
  <2>3. [state |-> "closed", fd |-> None] \in [state: {"none", "open", "closed"}, fd: Ports]
    BY DEF Ports
  <2>4. pfd' \in [Threads -> [state: {"none", "open", "closed"}, fd: Ports]]
    BY <1>1, <2>2, <2>3
  <2>5. table' \in [FdNumbers -> 0 .. MaxStarts]
    <3>1. None \in 0 .. MaxStarts
      BY <1>1
    <3> QED
      BY <1>1, <2>2, <3>1
  <2> QED
    BY <1>1, <1>2, <2>1, <2>2, <2>4, <2>5
<1>3. CASE ~(t # None /\ pfd[t].state = "open")
  BY <1>1, <1>3 DEF ClosePfd
<1> QED
  BY <1>2, <1>3

-----------------------------------------------------------------------------
(* Types and wiring, whatever the history.                                  *)

BridgeMoves(s) ==
    Go!Lose(s) \/ Go!Return(s) \/ Go!CloseDevice(s) \/ Go!ClearRunning(s) \/ Go!NotifyClosed(s)

LEMMA BridgeTypes ==
    ASSUME Go!BridgeTypeOK, running => latest # None,
           \/ \E p \in Go!Protocols : Go!StartTunnel(p)
           \/ Go!StartTunnelFails \/ Go!StopTunnel
           \/ \E s \in Sessions : BridgeMoves(s)
           \/ UNCHANGED bvars
    PROVE  Go!BridgeTypeOK'
<1> USE VpnServiceAssumption DEF Go!BridgeTypeOK, Go!Sessions
<1>1. CASE \E p \in Go!Protocols : Go!StartTunnel(p)
  BY <1>1 DEF Go!StartTunnel, Go!Points
<1>2. CASE Go!StartTunnelFails
  BY <1>2 DEF Go!StartTunnelFails, Go!Points
<1>3. CASE Go!StopTunnel
  <2>1. latest \in Go!Sessions
    BY <1>3 DEF Go!StopTunnel
  <2> QED
    BY <1>3, <2>1 DEF Go!StopTunnel
<1>4. CASE \E s \in Sessions : BridgeMoves(s)
  <2> SUFFICES ASSUME NEW s \in Sessions, BridgeMoves(s) PROVE Go!BridgeTypeOK'
    BY <1>4
  <2>1. CASE Go!Lose(s)
    BY <2>1 DEF Go!Lose, Go!Points
  <2>2. CASE Go!Return(s)
    <3>1. None \in 0 .. MaxStarts
      OBVIOUS
    <3> QED
      BY <2>2, <3>1 DEF Go!Return, Go!Points, Go!NoSession
  <2>3. CASE Go!CloseDevice(s) \/ Go!ClearRunning(s) \/ Go!NotifyClosed(s)
    BY <2>3 DEF Go!CloseDevice, Go!ClearRunning, Go!NotifyClosed, Go!Points
  <2> QED
    BY <2>1, <2>2, <2>3 DEF BridgeMoves
<1>5. CASE UNCHANGED bvars
  BY <1>5 DEF bvars
<1> QED
  BY <1>1, <1>2, <1>3, <1>4, <1>5

LEMMA BridgeStaysWired ==
    ASSUME Go!BridgeTypeOK, BridgeWired,
           \/ Go!StartTunnelFails \/ Go!StopTunnel
           \/ \E s \in Sessions : BridgeMoves(s)
           \/ UNCHANGED bvars
    PROVE  BridgeWired' /\ \A s \in Sessions : Started(s)' => Started(s)
<1> USE VpnServiceAssumption DEF Go!BridgeTypeOK, Go!Sessions, BridgeWired, Started
<1>2. CASE Go!StartTunnelFails
  BY <1>2 DEF Go!StartTunnelFails
<1>3. CASE Go!StopTunnel
  BY <1>3 DEF Go!StopTunnel
<1>4. CASE \E s \in Sessions : BridgeMoves(s)
  <2> SUFFICES ASSUME NEW s \in Sessions, BridgeMoves(s)
               PROVE  BridgeWired' /\ \A x \in Sessions : Started(x)' => Started(x)
    BY <1>4
  <2>1. CASE Go!Lose(s)
    BY <2>1 DEF Go!Lose
  <2>2. CASE Go!Return(s)
    BY <2>2 DEF Go!Return
  <2>3. CASE Go!CloseDevice(s)
    BY <2>3 DEF Go!CloseDevice
  <2>4. CASE Go!ClearRunning(s)
    BY <2>4 DEF Go!ClearRunning
  <2>5. CASE Go!NotifyClosed(s)
    BY <2>5 DEF Go!NotifyClosed
  <2> QED
    BY <2>1, <2>2, <2>3, <2>4, <2>5 DEF BridgeMoves
<1>5. CASE UNCHANGED bvars
  BY <1>5 DEF bvars
<1> QED
  BY <1>2, <1>3, <1>4, <1>5

LEMMA InitTypes == Init => TypeOK /\ BridgeWired /\ ServiceWired
<1> SUFFICES ASSUME Init PROVE TypeOK /\ BridgeWired /\ ServiceWired
  OBVIOUS
<1>1. None \in 0 .. MaxStarts /\ None \in 0 .. MaxInstances /\ None \in Ports
  BY VpnServiceAssumption DEF Ports
<1>2. Go!BridgeTypeOK
  BY <1>1 DEF Init, Go!Init, Go!BridgeTypeOK, Go!Sessions, Go!Protocols, Go!Points, Go!NoSession
<1>3. /\ setup \in [Threads -> SetupStates] /\ disc \in [Actors -> Calls]
      /\ pfd \in [Threads -> [state: {"none", "open", "closed"}, fd: Ports]]
  BY <1>1, NullFacts DEF Init
<1>4. TypeOK
  BY <1>1, <1>2, <1>3 DEF Init, TypeOK, SetupStates, Calls, Ports, Histories
<1>5. BridgeWired /\ ServiceWired
  BY VpnServiceAssumption DEF Init, Go!Init, Go!Sessions, Go!NoSession, BridgeWired, ServiceWired, Started, InDisconnect, NoThread, NoCall
<1> QED
  BY <1>4, <1>5

\* The main thread's three handlers.
LEMMA TargetTyped ==
    ASSUME TypeOK, NEW i \in Instances, Target(i), Create(i)
    PROVE  instance' \in 0 .. MaxInstances /\ created' \in 0 .. MaxInstances
BY VpnServiceAssumption DEF TypeOK, Create

LEMMA MainTypes ==
    ASSUME TypeOK, BridgeWired, ServiceWired,
           \/ \E i \in Instances : StartCommand(i) \/ AskDisconnect(i)
           \/ Destroy
    PROVE  TypeOK' /\ BridgeWired' /\ ServiceWired'
<1>0. Go!BridgeTypeOK
  BY DEF TypeOK
<1>1. ASSUME NEW i \in Instances, StartCommand(i) PROVE TypeOK' /\ BridgeWired' /\ ServiceWired'
  <2>1. /\ Target(i) /\ Create(i) /\ stopping' \subseteq Instances
        /\ UNCHANGED <<bvars, isRunning, vpnInterface, disc, kvars, starter>>
    BY <1>1 DEF StartCommand, TypeOK
  <2>2. /\ setup' \in [Threads -> SetupStates] /\ history' \in Histories
        /\ \A t \in Threads : setup'[t] = setup[t] \/ (setup'[t].at # "idle" /\ setup'[t].inst = i)
    <3>1. CASE isRunning
      BY <1>1, <3>1 DEF StartCommand, TypeOK, SetupStates, Ports
    <3>2. CASE ~isRunning
      <4>1. PICK t \in Threads :
              /\ setup' = [setup EXCEPT ![t] = [NoThread EXCEPT !.at = "prepare", !.inst = i]]
              /\ Slip(\E s \in Sessions : at[s] \notin {"idle", "failed", "done"})
        BY <1>1, <3>2 DEF StartCommand
      <4>2. [NoThread EXCEPT !.at = "prepare", !.inst = i] = [at |-> "prepare", inst |-> i, fd |-> None]
        <5> DEFINE r == [NoThread EXCEPT !.at = "prepare"]
        <5>1. r = [at |-> "prepare", inst |-> None, fd |-> None]
          BY DEF NoThread
        <5>2. [r EXCEPT !.inst = i] = [at |-> "prepare", inst |-> i, fd |-> None]
          <6> HIDE DEF r
          <6> QED
            BY <5>1
        <5> QED
          BY <5>2 DEF NoThread
      <4>3. [at |-> "prepare", inst |-> i, fd |-> None] \in SetupStates
        BY VpnServiceAssumption DEF SetupStates, ThreadPoints, Ports
      <4>4. setup \in [Threads -> SetupStates] /\ history \in Histories
        BY DEF TypeOK, SetupStates, Ports
      <4>5. history' \in Histories
        BY <4>1, <4>4 DEF Slip, Histories
      <4> QED
        BY <4>1, <4>2, <4>3, <4>4, <4>5
    <3> QED
      BY <3>1, <3>2
  <2>3. TypeOK'
    BY <2>1, <2>2, <1>0, TargetTyped, BridgeTypes DEF TypeOK, kvars, SetupStates, Ports, BridgeWired
  <2>4. BridgeWired'
    BY <1>0, <2>1, BridgeStaysWired
  <2>5. ServiceWired'
    BY <1>0, <2>1, <2>2 DEF ServiceWired, bvars, Started, InDisconnect
  <2> QED
    BY <2>3, <2>4, <2>5
<1>2. ASSUME NEW i \in Instances, NEW d \in BOOLEAN,
             Enter(Main, i, d) \/ (~isRunning /\ UNCHANGED disc), Slip(FALSE),
             instance' \in 0 .. MaxInstances /\ created' \in 0 .. MaxInstances,
             UNCHANGED <<bvars, isRunning, stopping, vpnInterface, setup, kvars, starter>>
      PROVE  TypeOK' /\ BridgeWired' /\ ServiceWired'
  <2>1. /\ disc' \in [Actors -> Calls]
        /\ \A a \in Actors : disc'[a] = disc[a] \/ disc'[a].inst = i
    <3>1. Main \in Actors /\ i \in 0 .. MaxInstances
      BY VpnServiceAssumption
    <3>2. CASE Enter(Main, i, d)
      BY <3>1, <3>2, CallBegins
    <3>3. CASE UNCHANGED disc
      BY <3>3 DEF TypeOK, Calls
    <3> QED
      BY <1>2, <3>2, <3>3
  <2>2. history' \in Histories
    BY <1>2 DEF Slip, TypeOK, Histories
  <2>3. TypeOK'
    BY <1>0, <1>2, <2>1, <2>2, BridgeTypes DEF TypeOK, kvars, Calls, BridgeWired
  <2>4. BridgeWired'
    BY <1>0, <1>2, BridgeStaysWired
  <2>5. ServiceWired'
    BY <1>0, <1>2, <2>1 DEF ServiceWired, bvars, Started, InDisconnect
  <2> QED
    BY <2>3, <2>4, <2>5
<1>3. ASSUME NEW i \in Instances, AskDisconnect(i) PROVE TypeOK' /\ BridgeWired' /\ ServiceWired'
  BY <1>2, <1>3, TargetTyped DEF AskDisconnect
<1>4. ASSUME Destroy PROVE TypeOK' /\ BridgeWired' /\ ServiceWired'
  <2>1. instance \in Instances /\ instance' \in 0 .. MaxInstances /\ created' \in 0 .. MaxInstances
    <3>1. None \in 0 .. MaxInstances
      BY VpnServiceAssumption
    <3> QED
      BY <1>4, <3>1 DEF Destroy, TypeOK
  <2> QED
    BY <1>2, <1>4, <2>1 DEF Destroy
<1> QED
  BY <1>1, <1>3, <1>4

\* The statements of disconnect(), and the callbacks that enter it.
LEMMA CallTypes ==
    ASSUME TypeOK, BridgeWired, ServiceWired, NEW a \in Actors, Disconnect(a)
    PROVE  TypeOK' /\ BridgeWired' /\ ServiceWired'
<1>0. Go!BridgeTypeOK
  BY DEF TypeOK
<1>1. ASSUME NEW p \in CallPoints, p # "idle", disc[a].at # "idle", Goto(a, p)
      PROVE  /\ disc' \in [Actors -> Calls]
             /\ \A b \in Actors : InDisconnect(b)' => disc'[b].inst \in Instances
  BY <1>1, CallMoves DEF ServiceWired, InDisconnect
<1>2. CASE ClearFlag(a)
  <2>1. /\ disc' \in [Actors -> Calls]
        /\ \A b \in Actors : InDisconnect(b)' => disc'[b].inst \in Instances
    BY <1>1, <1>2 DEF ClearFlag, CallPoints
  <2>2. isRunning' \in BOOLEAN /\ UNCHANGED <<bvars, instance, created, stopping, vpnInterface, setup, kvars, hvars>>
    BY <1>2 DEF ClearFlag
  <2> QED
    BY <1>0, <2>1, <2>2, BridgeTypes, BridgeStaysWired
       DEF TypeOK, BridgeWired, ServiceWired, Calls, kvars, hvars, bvars, Started
<1>3. CASE CallStopTunnel(a)
  <2>1. /\ disc' \in [Actors -> Calls]
        /\ \A b \in Actors : InDisconnect(b)' => disc'[b].inst \in Instances
    BY <1>1, <1>3 DEF CallStopTunnel, CallPoints
  <2>2. /\ Go!StopTunnel \/ UNCHANGED bvars
        /\ UNCHANGED <<isRunning, instance, created, stopping, vpnInterface, setup, kvars, hvars>>
    BY <1>3 DEF CallStopTunnel
  <2>3. Go!BridgeTypeOK' /\ BridgeWired' /\ \A s \in Sessions : Started(s)' => Started(s)
    BY <1>0, <2>2, BridgeTypes, BridgeStaysWired DEF BridgeWired
  <2> QED
    BY <2>1, <2>2, <2>3 DEF TypeOK, ServiceWired, Calls, kvars, hvars
<1>4. CASE CloseInterface(a)
  <2>1. /\ disc' \in [Actors -> Calls]
        /\ \A b \in Actors : InDisconnect(b)' => disc'[b].inst \in Instances
    BY <1>1, <1>4 DEF CloseInterface, CallPoints
  <2>2. UNCHANGED <<bvars, isRunning, instance, created, stopping, vpnInterface, setup, file, hvars>>
    BY <1>4 DEF CloseInterface
  <2>3. vpnInterface[disc[a].inst] \in 0 .. MaxStarts
    BY <1>4 DEF CloseInterface, TypeOK, ServiceWired, InDisconnect
  <2>4. /\ pfd' \in [Threads -> [state: {"none", "open", "closed"}, fd: Ports]]
        /\ table' \in [FdNumbers -> 0 .. MaxStarts]
    BY <1>4, <2>3, PfdCloses DEF CloseInterface
  <2> QED
    BY <1>0, <2>1, <2>2, <2>4, BridgeTypes, BridgeStaysWired
       DEF TypeOK, BridgeWired, ServiceWired, Calls, Ports, hvars, bvars, Started
<1>5. CASE ForgetInterface(a)
  <2>1. /\ disc' = [disc EXCEPT ![a] = NoCall] /\ disc \in [Actors -> Calls]
        /\ disc[a].at = "null" /\ disc[a].inst \in Instances
    BY <1>5 DEF ForgetInterface, TypeOK, Calls, ServiceWired, InDisconnect
  <2>2. /\ disc' \in [Actors -> Calls]
        /\ \A b \in Actors : InDisconnect(b)' => disc'[b].inst \in Instances
    BY <2>1, NullFacts DEF ServiceWired, InDisconnect, NoCall
  <2>3. /\ vpnInterface' = [vpnInterface EXCEPT ![disc[a].inst] = None]
        /\ stopping' = stopping \cup {disc[a].inst}
        /\ instance' = IF disc[a].destroy THEN None ELSE instance
        /\ UNCHANGED <<isRunning, created, setup, kvars, hvars>>
    BY <1>5 DEF ForgetInterface
  <2>4. None \in 0 .. MaxInstances /\ None \in 0 .. MaxStarts
    BY VpnServiceAssumption
  <2>5. (\E s \in Sessions : BridgeMoves(s)) \/ UNCHANGED bvars
    BY <1>5 DEF ForgetInterface, CallbackReturns, BridgeMoves
  <2>6. Go!BridgeTypeOK' /\ BridgeWired' /\ \A s \in Sessions : Started(s)' => Started(s)
    BY <1>0, <2>5, BridgeTypes, BridgeStaysWired DEF BridgeWired
  <2>7. /\ vpnInterface' \in [Instances -> 0 .. MaxStarts]
        /\ stopping' \subseteq Instances /\ instance' \in 0 .. MaxInstances
    BY <2>1, <2>3, <2>4 DEF TypeOK
  <2> QED
    BY <2>2, <2>3, <2>6, <2>7 DEF TypeOK, ServiceWired, Calls, kvars, hvars
<1> QED
  BY <1>2, <1>3, <1>4, <1>5 DEF Disconnect

\* The bridge's own steps, among them the callbacks.
LEMMA GoTypes ==
    ASSUME TypeOK, BridgeWired, ServiceWired, NEW s \in Sessions, GoStep(s)
    PROVE  TypeOK' /\ BridgeWired' /\ ServiceWired'
<1>0. Go!BridgeTypeOK /\ MaxStarts \in Nat
  BY VpnServiceAssumption DEF TypeOK
<1>1. (\E u \in Sessions : BridgeMoves(u)) \/ UNCHANGED bvars
  BY DEF GoStep, TunnelLost, SessionEnds, SessionClears, OnDisconnected, CallbackReturns, BridgeMoves
<1>2. Go!BridgeTypeOK' /\ BridgeWired' /\ \A u \in Sessions : Started(u)' => Started(u)
  BY <1>0, <1>1, BridgeTypes, BridgeStaysWired DEF BridgeWired
<1>3. CASE TunnelLost(s) \/ SessionClears(s)
  <2>1. ServiceUnchanged
    BY <1>3 DEF TunnelLost, SessionClears
  <2> QED
    BY <1>2, <2>1 DEF ServiceUnchanged, svars, kvars, hvars, TypeOK, ServiceWired, InDisconnect
<1>4. CASE SessionEnds(s)
  <2>1. /\ table' = [table EXCEPT ![file[s]] = None] /\ file' = [file EXCEPT ![s] = None]
        /\ UNCHANGED <<svars, pfd, hvars>>
    BY <1>4 DEF SessionEnds
  <2>2. None \in 0 .. MaxStarts /\ None \in Ports
    BY <1>0 DEF Ports
  <2>3. table' \in [FdNumbers -> 0 .. MaxStarts] /\ file' \in [Sessions -> Ports]
    BY <2>1, <2>2 DEF TypeOK, Ports
  <2> QED
    BY <1>2, <2>1, <2>3 DEF svars, hvars, TypeOK, ServiceWired, InDisconnect, Ports
<1>5. CASE OnDisconnected(s)
  <2> DEFINE owner == IF at[s] = "event" THEN to[s] ELSE s
             i == setup[starter[owner]].inst
  <2>1. owner \in Sessions /\ Started(owner) /\ s \in Actors
    BY <1>5 DEF OnDisconnected, InCallback, BridgeWired, Started
  <2>2. i \in Instances /\ i \in 0 .. MaxInstances
    BY <2>1, VpnServiceAssumption DEF ServiceWired, TypeOK
  <2>3. Enter(s, i, FALSE) \/ UNCHANGED disc
    BY <1>5 DEF OnDisconnected
  <2>4. /\ disc' \in [Actors -> Calls]
        /\ \A b \in Actors : InDisconnect(b)' => disc'[b].inst \in Instances
    <3> HIDE DEF i, owner
    <3>1. CASE Enter(s, i, FALSE)
      <4>1. /\ disc' \in [Actors -> Calls] /\ disc'[s].inst = i
            /\ \A b \in Actors : b # s => disc'[b] = disc[b]
        BY <2>1, <2>2, <3>1, CallBegins
      <4> QED
        BY <2>2, <4>1 DEF ServiceWired, InDisconnect
    <3>2. CASE UNCHANGED disc
      BY <3>2 DEF TypeOK, Calls, ServiceWired, InDisconnect
    <3> QED
      BY <2>3, <3>1, <3>2
  <2>5. UNCHANGED <<isRunning, instance, created, stopping, vpnInterface, setup, kvars, hvars>>
    BY <1>5 DEF OnDisconnected
  <2> QED
    BY <1>2, <2>4, <2>5 DEF kvars, hvars, TypeOK, ServiceWired, Calls
<1> QED
  BY <1>3, <1>4, <1>5 DEF GoStep

\* The statements of a setup thread.
LEMMA SetupTypes ==
    ASSUME TypeOK, BridgeWired, ServiceWired, NEW t \in Threads, SetupStep(t)
    PROVE  TypeOK' /\ BridgeWired' /\ ServiceWired'
<1>0. /\ Go!BridgeTypeOK /\ MaxStarts \in Nat /\ MaxInstances \in Nat
      /\ None \in Ports /\ setup \in [Threads -> SetupStates]
  BY VpnServiceAssumption DEF TypeOK, Ports, SetupStates
<1>1. setup[t].at # "idle" /\ setup[t].inst \in Instances
  BY DEF SetupStep, PrepareFails, Establish, EstablishRefused, ReadFd, MarkRunning,
         CallStartTunnel, StartTunnelRefused, FailClearsFlag, FailCloses, ServiceWired
\* The thread's record.
<1>2. ASSUME NEW p \in ThreadPoints, p # "idle", NEW f \in Ports,
             \/ Moved(t, p, f)
             \/ setup' = [setup EXCEPT ![t].at = p]
      PROVE  /\ setup' \in [Threads -> SetupStates]
             /\ \A u \in Threads : setup'[u].at # "idle" => setup'[u].inst \in Instances
             /\ \A u \in Threads : setup[u].at # "idle" => setup'[u].at # "idle"
  <2>1. /\ setup' \in [Threads -> SetupStates] /\ setup'[t].at = p
        /\ \A u \in Threads : u # t => setup'[u] = setup[u]
        /\ \A u \in Threads : setup'[u].inst = setup[u].inst
    <3>1. CASE Moved(t, p, f)
      BY <3>1, SetupMoves
    <3>2. CASE setup' = [setup EXCEPT ![t].at = p]
      BY <3>2, SetupStays
    <3> QED
      BY <1>2, <3>1, <3>2
  <2> QED
    BY <1>1, <1>2, <2>1 DEF ServiceWired
<1>3. ASSUME NEW p \in ThreadPoints, p # "idle", Step(t, p)
      PROVE  /\ setup' \in [Threads -> SetupStates]
             /\ \A u \in Threads : setup'[u].at # "idle" => setup'[u].inst \in Instances
             /\ \A u \in Threads : setup[u].at # "idle" => setup'[u].at # "idle"
  BY <1>0, <1>2, <1>3 DEF Step, Moved
\* Everything else, when the bridge does not start a session.
<1>4. ASSUME /\ setup' \in [Threads -> SetupStates]
             /\ \A u \in Threads : setup'[u].at # "idle" => setup'[u].inst \in Instances
             /\ \A u \in Threads : setup[u].at # "idle" => setup'[u].at # "idle",
             isRunning' \in BOOLEAN, stopping' \subseteq Instances,
             vpnInterface' \in [Instances -> 0 .. MaxStarts],
             /\ pfd' \in [Threads -> [state: {"none", "open", "closed"}, fd: Ports]]
             /\ table' \in [FdNumbers -> 0 .. MaxStarts],
             Go!StartTunnelFails \/ UNCHANGED bvars,
             UNCHANGED <<instance, created, disc, file, hvars>>
      PROVE  TypeOK' /\ BridgeWired' /\ ServiceWired'
  <2>1. Go!BridgeTypeOK' /\ BridgeWired' /\ \A u \in Sessions : Started(u)' => Started(u)
    BY <1>0, <1>4, BridgeTypes, BridgeStaysWired DEF BridgeWired
  <2> QED
    BY <1>4, <2>1 DEF TypeOK, ServiceWired, InDisconnect, hvars, SetupStates, Ports
<1>5. /\ stopping \subseteq Instances /\ isRunning \in BOOLEAN
      /\ vpnInterface \in [Instances -> 0 .. MaxStarts]
      /\ pfd \in [Threads -> [state: {"none", "open", "closed"}, fd: Ports]]
      /\ table \in [FdNumbers -> 0 .. MaxStarts]
      /\ StopSelf(t) => stopping' \subseteq Instances
      /\ t \in 0 .. MaxStarts /\ None \in 0 .. MaxStarts
  <2>1. StopSelf(t) => stopping' \subseteq Instances
    BY <1>1 DEF TypeOK, StopSelf
  <2>2. t \in 0 .. MaxStarts /\ None \in 0 .. MaxStarts
    BY <1>0
  <2> QED
    BY <2>1, <2>2 DEF TypeOK, Ports
<1>6. CASE PrepareFails(t)
  <2>1. Step(t, "done") /\ "done" \in ThreadPoints /\ Local /\ StopSelf(t)
    BY <1>6 DEF PrepareFails, ThreadPoints
  <2> QED
    BY <1>3, <1>4, <1>5, <2>1 DEF Local, kvars
<1>7. CASE Establish(t)
  <2>1. PICK n \in FdNumbers :
          /\ table' = [table EXCEPT ![n] = t]
          /\ pfd' = [pfd EXCEPT ![t] = [state |-> "open", fd |-> n]]
    BY <1>7 DEF Establish
  <2>2. [state |-> "open", fd |-> n] \in [state: {"none", "open", "closed"}, fd: Ports]
    BY DEF Ports
  <2>3. /\ pfd' \in [Threads -> [state: {"none", "open", "closed"}, fd: Ports]]
        /\ table' \in [FdNumbers -> 0 .. MaxStarts]
    BY <1>5, <2>1, <2>2
  <2>4. /\ Step(t, "readFd") /\ "readFd" \in ThreadPoints
        /\ vpnInterface' = [vpnInterface EXCEPT ![setup[t].inst] = t]
        /\ UNCHANGED <<bvars, isRunning, instance, created, stopping, disc, file, hvars>>
    BY <1>7 DEF Establish, ThreadPoints
  <2> QED
    BY <1>3, <1>4, <1>5, <2>3, <2>4
<1>8. CASE EstablishRefused(t)
  <2>1. /\ Step(t, "done") /\ "done" \in ThreadPoints /\ StopSelf(t)
        /\ vpnInterface' = [vpnInterface EXCEPT ![setup[t].inst] = None]
        /\ UNCHANGED <<bvars, isRunning, instance, created, disc, kvars, hvars>>
    BY <1>8 DEF EstablishRefused, ThreadPoints
  <2>2. vpnInterface' \in [Instances -> 0 .. MaxStarts]
    BY <1>5, <2>1
  <2> QED
    BY <1>3, <1>4, <1>5, <2>1, <2>2 DEF kvars
<1>9. CASE ReadFd(t)
  <2> DEFINE holder == vpnInterface[setup[t].inst]
  <2>1. Local
    BY <1>9 DEF ReadFd
  <2>2. CASE holder = None \/ pfd[holder].state = "closed"
    <3>1. Step(t, "done") /\ "done" \in ThreadPoints /\ StopSelf(t)
      BY <1>9, <2>2 DEF ReadFd, ThreadPoints
    <3> QED
      BY <1>3, <1>4, <1>5, <2>1, <3>1 DEF Local, kvars
  <2>3. CASE ~(holder = None \/ pfd[holder].state = "closed")
    <3>1. /\ Moved(t, "mark", pfd[holder].fd)
          /\ "mark" \in ThreadPoints /\ UNCHANGED stopping
      BY <1>9, <2>3 DEF ReadFd, ThreadPoints, Moved
    <3>2. pfd[holder].fd \in Ports
      BY <1>1, <1>5, <2>3
    <3>3. /\ setup' \in [Threads -> SetupStates]
          /\ \A u \in Threads : setup'[u].at # "idle" => setup'[u].inst \in Instances
          /\ \A u \in Threads : setup[u].at # "idle" => setup'[u].at # "idle"
      BY <1>2, <3>1, <3>2
    <3> QED
      BY <1>4, <1>5, <2>1, <3>1, <3>3 DEF Local, kvars
  <2> QED
    BY <2>2, <2>3
<1>10. CASE MarkRunning(t)
  <2>1. /\ setup' = [setup EXCEPT ![t].at = "start"] /\ "start" \in ThreadPoints /\ isRunning' = TRUE
        /\ UNCHANGED <<bvars, instance, created, stopping, vpnInterface, disc, kvars, hvars>>
    BY <1>10 DEF MarkRunning, ThreadPoints
  <2>2. /\ setup' \in [Threads -> SetupStates]
        /\ \A u \in Threads : setup'[u].at # "idle" => setup'[u].inst \in Instances
        /\ \A u \in Threads : setup[u].at # "idle" => setup'[u].at # "idle"
    BY <1>0, <1>2, <2>1
  <2> QED
    BY <1>4, <1>5, <2>1, <2>2 DEF kvars
<1>11. CASE CallStartTunnel(t)
  <2>1. PICK p \in Go!Protocols : Go!StartTunnel(p)
    BY <1>11 DEF CallStartTunnel
  <2>2. /\ file' = [file EXCEPT ![calls + 1] = setup[t].fd]
        /\ starter' = [starter EXCEPT ![calls + 1] = t]
        /\ Step(t, "done") /\ "done" \in ThreadPoints
        /\ UNCHANGED <<isRunning, instance, created, stopping, vpnInterface, disc, pfd, table, history>>
    BY <1>11 DEF CallStartTunnel, ThreadPoints
  <2>3. /\ setup' \in [Threads -> SetupStates]
        /\ \A u \in Threads : setup'[u].at # "idle" => setup'[u].inst \in Instances
        /\ \A u \in Threads : setup[u].at # "idle" => setup'[u].at # "idle"
        /\ setup'[t].at # "idle"
    BY <1>1, <1>3, <2>2
  <2>4. Go!BridgeTypeOK'
    BY <1>0, <2>1, BridgeTypes DEF BridgeWired
  <2>5. /\ ~running /\ calls + 1 \in Sessions /\ running' = TRUE
        /\ latest' = calls + 1 /\ calls' = calls + 1
        /\ at' = [at EXCEPT ![calls + 1] = "live"]
        /\ UNCHANGED <<ctxDone, to>>
    BY <2>1 DEF Go!StartTunnel, Go!Sessions
  <2>6. setup[t].fd \in Ports
    BY <1>0 DEF SetupStates
  <2>7. file' \in [Sessions -> Ports] /\ starter' \in [Sessions -> 0 .. MaxStarts]
    BY <1>5, <2>2, <2>6 DEF TypeOK, Ports
  <2>8. TypeOK'
    BY <2>2, <2>3, <2>4, <2>7 DEF TypeOK, SetupStates, Ports
  <2>9. at \in [Sessions -> Go!Points] /\ calls \in 0 .. MaxStarts
    BY <1>0 DEF Go!BridgeTypeOK, Go!Sessions
  <2>10. \A s \in Sessions : Started(s)' => Started(s) \/ s = calls + 1
    BY <2>5, <2>9 DEF Started
  <2>11. BridgeWired'
    <3>1. \A s \in Sessions : s > calls' => at'[s] = "idle"
      BY <1>0, <2>5, <2>9 DEF BridgeWired
    <3>2. latest' <= calls' /\ ctxDone' \subseteq 1 .. calls' /\ latest' # None
      BY <1>0, <2>5, <2>9 DEF BridgeWired
    <3>3. /\ Started(latest)'
          /\ \A s \in Sessions : at'[s] = "event" => at[s] = "event"
          /\ \A s \in Sessions : Started(s) => Started(s)'
      BY <2>5, <2>9 DEF Started
    <3> QED
      BY <2>5, <3>1, <3>2, <3>3 DEF BridgeWired
  <2>12. ServiceWired'
    BY <2>2, <2>3, <2>5, <2>10 DEF ServiceWired, InDisconnect, TypeOK
  <2> QED
    BY <2>8, <2>11, <2>12
<1>12. CASE StartTunnelRefused(t)
  <2>1. /\ Go!StartTunnelFails \/ UNCHANGED bvars
        /\ Step(t, "fail") /\ "fail" \in ThreadPoints
        /\ UNCHANGED <<isRunning, instance, created, stopping, vpnInterface, disc, kvars, hvars>>
    BY <1>12 DEF StartTunnelRefused, ThreadPoints
  <2> QED
    BY <1>3, <1>4, <1>5, <2>1 DEF kvars
<1>13. CASE FailClearsFlag(t)
  <2>1. /\ Step(t, "failClose") /\ "failClose" \in ThreadPoints /\ isRunning' = FALSE
        /\ UNCHANGED <<bvars, instance, created, stopping, vpnInterface, disc, kvars, hvars>>
    BY <1>13 DEF FailClearsFlag, ThreadPoints
  <2> QED
    BY <1>3, <1>4, <1>5, <2>1 DEF kvars
<1>14. CASE FailCloses(t)
  <2>1. /\ ClosePfd(vpnInterface[setup[t].inst])
        /\ Step(t, "done") /\ "done" \in ThreadPoints /\ StopSelf(t)
        /\ UNCHANGED <<bvars, isRunning, instance, created, vpnInterface, disc, file, hvars>>
    BY <1>14 DEF FailCloses, ThreadPoints
  <2>2. vpnInterface[setup[t].inst] \in 0 .. MaxStarts
    BY <1>1, <1>5
  <2>3. /\ pfd' \in [Threads -> [state: {"none", "open", "closed"}, fd: Ports]]
        /\ table' \in [FdNumbers -> 0 .. MaxStarts]
    BY <2>1, <2>2, PfdCloses
  <2> QED
    BY <1>3, <1>4, <1>5, <2>1, <2>3
<1> QED
  BY <1>6, <1>7, <1>8, <1>9, <1>10, <1>11, <1>12, <1>13, <1>14 DEF SetupStep

LEMMA StepTypes == TypeOK /\ BridgeWired /\ ServiceWired /\ [Next]_vars => TypeOK' /\ BridgeWired' /\ ServiceWired'
<1> SUFFICES ASSUME TypeOK, BridgeWired, ServiceWired, [Next]_vars
             PROVE  TypeOK' /\ BridgeWired' /\ ServiceWired'
  OBVIOUS
<1>1. CASE UNCHANGED vars
  BY <1>1 DEF vars, bvars, svars, kvars, hvars, TypeOK, BridgeWired, ServiceWired,
              Started, InDisconnect, Go!BridgeTypeOK
<1> QED
  BY <1>1, MainTypes, CallTypes, SetupTypes, GoTypes DEF Next

-----------------------------------------------------------------------------
(* Starts and stops that come one at a time.                                *)

LEMMA InitOrderly == Init => Orderly
BY VpnServiceAssumption
   DEF Init, Go!Init, Go!Sessions, Go!NoSession, Orderly, SetupIsAlone, InterfaceIsHeld,
       SessionIsLatest, DisconnectInOrder, Busy, InDisconnect, Over, Alive, NoThread, NoCall

\* Whoever comes in the middle of something ends the calm.
LEMMA SlipIsSeen ==
    ASSUME NEW left \in BOOLEAN, Slip(left), Calm'
    PROVE  Calm /\ Quiet /\ ~left
BY DEF Slip, Calm

\* A callback or a disconnect() excludes a setup.
LEMMA NoSetupNow ==
    ASSUME Orderly,
           (\E a \in Actors : InDisconnect(a)) \/ (\E s \in Sessions : ~Over(s))
    PROVE  NobodyBusy
BY DEF Orderly, SetupIsAlone, NobodyBusy

LEMMA NumbersFree ==
    ASSUME TypeOK, Orderly, \A t \in Threads : pfd[t].state # "open"
    PROVE  \A n \in FdNumbers : table[n] = None
<1> SUFFICES ASSUME NEW n \in FdNumbers, table[n] # None PROVE FALSE
  OBVIOUS
<1>1. table[n] \in Threads
  BY VpnServiceAssumption DEF TypeOK
<1> QED
  BY <1>1 DEF Orderly, InterfaceIsHeld

\* While the flag is set the object that runs the tunnel stays.
LEMMA InstanceKept ==
    ASSUME TypeOK, Orderly, isRunning, NEW i \in Instances, Target(i), Create(i)
    PROVE  i = instance /\ instance' = instance /\ instance \in Instances
<1>1. instance \in Instances
  <2>1. CASE NobodyBusy
    BY <2>1 DEF Orderly, SessionIsLatest
  <2>2. CASE ~NobodyBusy
    BY <2>2 DEF NobodyBusy, Orderly, SetupIsAlone
  <2> QED
    BY <2>1, <2>2
<1> QED
  BY <1>1, VpnServiceAssumption DEF Target, Create

\* ... and when nothing is under way its identity does not matter.
LEMMA InstanceFree ==
    ASSUME Orderly, ~isRunning, NobodyBusy,
           UNCHANGED <<bvars, isRunning, vpnInterface, setup, disc, kvars, starter>>
    PROVE  Orderly'
BY DEF Orderly, SetupIsAlone, InterfaceIsHeld, SessionIsLatest, DisconnectInOrder, NobodyBusy,
       Busy, InDisconnect, Over, Alive, bvars, kvars

\* While the flag is set and no setup runs, the latest session runs on the one
\* open interface.
LEMMA FlagMeansTunnel ==
    ASSUME TypeOK, ServiceWired, Orderly, isRunning, NobodyBusy
    PROVE  /\ latest \in Sessions /\ starter[latest] \in Threads /\ ~Over(latest)
           /\ pfd[starter[latest]].state = "open"
           /\ \A t \in Threads : pfd[t].state = "open" =>
                t = starter[latest] /\ setup[t].inst = instance
<1>1. /\ latest # None /\ ~Over(latest)
      /\ pfd[starter[latest]].state = "open" /\ setup[starter[latest]].inst = instance
  BY DEF Orderly, SessionIsLatest
<1>2. latest \in Sessions
  BY <1>1, VpnServiceAssumption DEF TypeOK, Go!BridgeTypeOK
<1>3. starter[latest] \in Threads
  BY <1>1, <1>2 DEF ServiceWired, Started, Over
<1>4. \A t \in Threads : pfd[t].state = "open" => t = starter[latest]
  BY <1>1, <1>3 DEF Orderly, InterfaceIsHeld
<1> QED
  BY <1>1, <1>2, <1>3, <1>4

\* disconnect() is entered for the object that runs the tunnel.
LEMMA EnterOrderly ==
    ASSUME TypeOK, ServiceWired, Orderly, NobodyBusy, NEW a \in Actors, NEW d \in BOOLEAN,
           disc[a].at = "idle", Enter(a, instance, d), instance' = instance,
           UNCHANGED <<bvars, isRunning, vpnInterface, setup, kvars, starter>>
    PROVE  Orderly'
<1>0. instance \in 0 .. MaxInstances /\ isRunning
  BY DEF TypeOK, Enter
<1>1. /\ disc'[a].at = "clear" /\ disc'[a].inst = instance
      /\ \A b \in Actors : b # a => disc'[b] = disc[b]
  BY <1>0, CallBegins
<1>3. SetupIsAlone'
  BY DEF NobodyBusy, Busy, SetupIsAlone
<1>4. InterfaceIsHeld'
  <2>1. \A t \in Threads : pfd[t].state = "open" => setup[t].inst = instance
    BY <1>0, FlagMeansTunnel
  <2> QED
    BY <1>0, <1>1, <2>1 DEF Orderly, InterfaceIsHeld, InDisconnect, Busy, kvars
<1>5. SessionIsLatest'
  BY DEF Orderly, SessionIsLatest, NobodyBusy, Busy, Over, Alive, bvars, kvars
<1>6. DisconnectInOrder'
  BY <1>0, <1>1 DEF Orderly, DisconnectInOrder, bvars, kvars
<1> QED
  BY <1>3, <1>4, <1>5, <1>6 DEF Orderly

LEMMA StartOrderly ==
    ASSUME TypeOK, Orderly, NEW i \in Instances, StartCommand(i), Calm'
    PROVE  Orderly'
<1>1. CASE isRunning
  <2>1. instance' = instance
    BY <1>1, InstanceKept DEF StartCommand
  <2> QED
    BY <1>1, <2>1
       DEF StartCommand, Orderly, SetupIsAlone, InterfaceIsHeld, SessionIsLatest, DisconnectInOrder,
           NobodyBusy, Busy, InDisconnect, Over, Alive, bvars, kvars
<1>2. CASE ~isRunning
  <2>1. PICK t \in Threads :
          /\ setup[t].at = "idle"
          /\ setup' = [setup EXCEPT ![t] = [NoThread EXCEPT !.at = "prepare", !.inst = i]]
          /\ Slip(\E s \in Sessions : at[s] \notin {"idle", "failed", "done"})
    BY <1>2 DEF StartCommand
  <2>2. Quiet /\ \A s \in Sessions : Over(s)
    <3>1. (\E s \in Sessions : at[s] \notin {"idle", "failed", "done"}) \in BOOLEAN
      OBVIOUS
    <3> QED
      BY <2>1, <3>1, SlipIsSeen DEF Over
  <2>3. /\ setup'[t].at = "prepare" /\ setup'[t].inst = i
        /\ \A u \in Threads : u # t => setup'[u] = setup[u]
    <3>1. [NoThread EXCEPT !.at = "prepare", !.inst = i].at = "prepare"
      BY DEF NoThread
    <3>2. [NoThread EXCEPT !.at = "prepare", !.inst = i].inst = i
      BY DEF NoThread
    <3> DEFINE r == [NoThread EXCEPT !.at = "prepare", !.inst = i]
    <3>3. setup' = [setup EXCEPT ![t] = r]
      BY <2>1
    <3> HIDE DEF r
    <3>4. setup'[t] = r /\ \A u \in Threads : u # t => setup'[u] = setup[u]
      BY <3>3 DEF TypeOK
    <3> QED
      BY <3>1, <3>2, <3>4 DEF r
  <2>4. /\ instance' = i
        /\ UNCHANGED <<bvars, isRunning, vpnInterface, disc, kvars, starter>>
    BY DEF StartCommand, Create
  <2>5. /\ \A u \in Threads : pfd[u].state # "open"
        /\ \A a \in Actors : disc[a].at = "idle"
        /\ ~running
    BY <1>2, <2>2 DEF Orderly, InterfaceIsHeld, DisconnectInOrder, Quiet, InDisconnect
  <2>6. \A n \in FdNumbers : table[n] = None
    BY <2>5, NumbersFree
  <2>7. \A u \in Threads : Busy(u)' <=> u = t
    BY <2>2, <2>3 DEF Quiet, Busy
  <2>8. SetupIsAlone'
    BY <1>2, <2>2, <2>3, <2>4, <2>5, <2>7 DEF SetupIsAlone, InDisconnect, Over, bvars, kvars
  <2>9. InterfaceIsHeld'
    BY <2>4, <2>5, <2>6 DEF InterfaceIsHeld, kvars
  <2>10. SessionIsLatest'
    BY <2>2, <2>4, <2>7 DEF SessionIsLatest, Over, Alive, NobodyBusy, bvars
  <2>11. DisconnectInOrder'
    BY <2>4, <2>5 DEF DisconnectInOrder, bvars
  <2> QED
    BY <2>8, <2>9, <2>10, <2>11 DEF Orderly
<1> QED
  BY <1>1, <1>2

LEMMA MainOrderly ==
    ASSUME TypeOK, ServiceWired, Orderly, Calm',
           (\E i \in Instances : AskDisconnect(i)) \/ Destroy
    PROVE  Orderly'
<1>1. NobodyBusy /\ Main \in Actors
  <2>1. Slip(FALSE)
    BY DEF AskDisconnect, Destroy
  <2> QED
    BY <2>1, SlipIsSeen DEF Quiet, NobodyBusy
<1>2. ASSUME NEW i \in Instances, AskDisconnect(i) PROVE Orderly'
  <2>1. CASE Enter(Main, i, FALSE)
    <3>1. i = instance /\ instance' = instance /\ disc[Main].at = "idle"
      BY <1>2, <2>1, InstanceKept DEF AskDisconnect, Enter
    <3> QED
      BY <1>1, <1>2, <2>1, <3>1, EnterOrderly DEF AskDisconnect
  <2>2. CASE ~isRunning /\ UNCHANGED disc
    BY <1>1, <1>2, <2>2, InstanceFree DEF AskDisconnect
  <2> QED
    BY <1>2, <2>1, <2>2 DEF AskDisconnect
<1>3. CASE Destroy
  <2>1. CASE Enter(Main, instance, TRUE) /\ UNCHANGED instance
    BY <1>1, <1>3, <2>1, EnterOrderly DEF Destroy
  <2>2. CASE ~isRunning /\ UNCHANGED disc
    BY <1>1, <1>3, <2>2, InstanceFree DEF Destroy
  <2> QED
    BY <1>3, <2>1, <2>2 DEF Destroy
<1> QED
  BY <1>2, <1>3

\* The statements of disconnect(), whoever runs it and however many do.
LEMMA ClearFlagOrderly ==
    ASSUME TypeOK, Orderly, NEW a \in Actors, ClearFlag(a)
    PROVE  Orderly'
<1>1. /\ disc'[a].at = "stop" /\ disc[a].at = "clear"
      /\ \A b \in Actors : b # a => disc'[b] = disc[b]
      /\ \A b \in Actors : disc'[b].inst = disc[b].inst
  BY CallMoves DEF ClearFlag, CallPoints
<1>2. /\ isRunning' = FALSE /\ UNCHANGED <<bvars, instance, vpnInterface, setup, kvars, starter>>
  BY DEF ClearFlag, hvars
<1>3. NobodyBusy
  BY <1>1, NoSetupNow DEF InDisconnect
<1>4. SetupIsAlone'
  BY <1>2, <1>3 DEF NobodyBusy, Busy, SetupIsAlone
<1>5. InterfaceIsHeld'
  BY <1>1, <1>2 DEF Orderly, InterfaceIsHeld, InDisconnect, Busy, kvars
<1>6. SessionIsLatest'
  BY <1>2 DEF Orderly, SessionIsLatest, Over, Alive, bvars
<1>7. DisconnectInOrder'
  BY <1>1, <1>2 DEF Orderly, DisconnectInOrder, bvars, kvars
<1> QED
  BY <1>4, <1>5, <1>6, <1>7 DEF Orderly

LEMMA StopOrderly ==
    ASSUME TypeOK, Orderly, NEW a \in Actors, CallStopTunnel(a)
    PROVE  Orderly'
<1>1. /\ disc'[a].at = "close" /\ disc[a].at = "stop"
      /\ \A b \in Actors : b # a => disc'[b] = disc[b]
      /\ \A b \in Actors : disc'[b].inst = disc[b].inst
  BY CallMoves DEF CallStopTunnel, CallPoints
<1>2. /\ ~running' /\ ctxDone' = IF running THEN ctxDone \cup {latest} ELSE ctxDone
      /\ UNCHANGED <<latest, calls, proto, at, to>>
      /\ UNCHANGED <<isRunning, instance, vpnInterface, setup, kvars, starter>>
  BY DEF CallStopTunnel, Go!StopTunnel, bvars, hvars, TypeOK
<1>3. NobodyBusy /\ ~isRunning
  BY <1>1, NoSetupNow DEF InDisconnect, Orderly, DisconnectInOrder
<1>4. SetupIsAlone'
  BY <1>2, <1>3 DEF NobodyBusy, Busy, SetupIsAlone
<1>5. InterfaceIsHeld'
  BY <1>1, <1>2 DEF Orderly, InterfaceIsHeld, InDisconnect, Busy, kvars
<1>6. SessionIsLatest'
  <2>1. \A s \in Sessions : Alive(s)' => s \in ctxDone'
    BY <1>2 DEF Orderly, SessionIsLatest, Alive, Over
  <2> QED
    BY <1>2, <1>3, <2>1 DEF Orderly, SessionIsLatest, Over
<1>7. DisconnectInOrder'
  BY <1>1, <1>2, <1>3 DEF Orderly, DisconnectInOrder, kvars
<1> QED
  BY <1>4, <1>5, <1>6, <1>7 DEF Orderly

\* Closing what the field holds closes whatever is open.
LEMMA ClosesAll ==
    ASSUME TypeOK, Orderly, NEW i \in Instances, ClosePfd(vpnInterface[i]),
           \A t \in Threads : pfd[t].state = "open" => vpnInterface[i] = t
    PROVE  (\A t \in Threads : pfd'[t].state # "open") /\ \A n \in FdNumbers : table'[n] = None
<1> DEFINE h == vpnInterface[i]
<1>1. h \in 0 .. MaxStarts
  BY DEF TypeOK
<1>2. /\ \A u \in Threads : pfd'[u].state = "open" <=> pfd[u].state = "open" /\ u # h
      /\ \A n \in FdNumbers : table'[n] \in {None, table[n]}
      /\ h # None /\ pfd[h].state = "open" /\ pfd[h].fd \in FdNumbers => table'[pfd[h].fd] = None
  BY <1>1, PfdCloses
<1>3. \A n \in FdNumbers : table'[n] = None
  <2> SUFFICES ASSUME NEW n \in FdNumbers, table[n] # None PROVE table'[n] = None
    BY <1>2
  <2>1. table[n] \in Threads
    BY VpnServiceAssumption DEF TypeOK
  <2>2. pfd[table[n]].state = "open" /\ pfd[table[n]].fd = n
    BY DEF Orderly, InterfaceIsHeld
  <2> QED
    BY <1>2, <2>1, <2>2
<1> QED
  BY <1>2, <1>3

LEMMA CloseOrderly ==
    ASSUME TypeOK, ServiceWired, Orderly, NEW a \in Actors, CloseInterface(a)
    PROVE  Orderly'
<1>1. /\ disc'[a].at = "null" /\ disc[a].at = "close"
      /\ \A b \in Actors : b # a => disc'[b] = disc[b]
      /\ \A b \in Actors : disc'[b].inst = disc[b].inst
  BY CallMoves DEF CloseInterface, CallPoints
<1>2. UNCHANGED <<bvars, isRunning, instance, vpnInterface, setup, file, starter>>
  BY DEF CloseInterface, hvars
<1>3. NobodyBusy /\ ~isRunning /\ ~running
  BY <1>1, NoSetupNow DEF InDisconnect, Orderly, DisconnectInOrder
<1>4. disc[a].inst \in Instances
  BY <1>1 DEF ServiceWired, InDisconnect
<1>5. \A t \in Threads : pfd[t].state = "open" => vpnInterface[disc[a].inst] = t
  BY <1>1 DEF Orderly, InterfaceIsHeld, InDisconnect
<1>6. (\A t \in Threads : pfd'[t].state # "open") /\ \A n \in FdNumbers : table'[n] = None
  BY <1>4, <1>5, ClosesAll DEF CloseInterface
<1>7. SetupIsAlone'
  BY <1>2, <1>3 DEF NobodyBusy, Busy, SetupIsAlone
<1>8. InterfaceIsHeld'
  BY <1>6 DEF InterfaceIsHeld
<1>9. SessionIsLatest'
  BY <1>2, <1>3 DEF Orderly, SessionIsLatest, Over, Alive, bvars
<1>10. DisconnectInOrder'
  BY <1>1, <1>2, <1>3, <1>6 DEF Orderly, DisconnectInOrder, bvars
<1> QED
  BY <1>7, <1>8, <1>9, <1>10 DEF Orderly

\* A callback that returns moves its session on, and neither revives nor ends
\* a tunnel.
LEMMA CallbackMoves ==
    ASSUME TypeOK, NEW s \in Sessions, CallbackReturns(s)
    PROVE  /\ \A u \in Sessions : Over(u) => Over(u)'
           /\ \A u \in Sessions : Alive(u)' => Alive(u)
           /\ \A u \in Sessions : at'[u] = "event" => at[u] = "event" /\ to'[u] = to[u]
           /\ ~Over(s)
           /\ UNCHANGED <<running, latest, ctxDone, calls, proto>>
BY DEF CallbackReturns, Go!Return, Go!NotifyClosed, Over, Alive, TypeOK, Go!BridgeTypeOK, Go!Sessions

LEMMA ForgetOrderly ==
    ASSUME TypeOK, Orderly, NEW a \in Actors, ForgetInterface(a)
    PROVE  Orderly'
<1>1. /\ disc[a].at = "null" /\ disc' = [disc EXCEPT ![a] = NoCall]
      /\ UNCHANGED <<isRunning, setup, kvars, starter>>
  BY DEF ForgetInterface, hvars
<1>2. disc'[a].at = "idle" /\ \A b \in Actors : b # a => disc'[b] = disc[b]
  BY <1>1 DEF NoCall, TypeOK
<1>3. NobodyBusy /\ ~isRunning /\ ~running /\ \A t \in Threads : pfd[t].state # "open"
  BY <1>1, NoSetupNow DEF InDisconnect, Orderly, DisconnectInOrder
<1>4. /\ \A u \in Sessions : Over(u) => Over(u)'
      /\ \A u \in Sessions : Alive(u)' => Alive(u)
      /\ \A u \in Sessions : at'[u] = "event" => at[u] = "event" /\ to'[u] = to[u]
      /\ UNCHANGED <<running, latest, ctxDone>>
  <2>1. CASE a = Main
    BY <2>1 DEF ForgetInterface, bvars, Over, Alive
  <2>2. CASE a # Main
    <3>1. a \in Sessions /\ CallbackReturns(a)
      BY <2>2 DEF ForgetInterface
    <3> QED
      BY <3>1, CallbackMoves
  <2> QED
    BY <2>1, <2>2
<1>5. SetupIsAlone'
  BY <1>1, <1>3 DEF NobodyBusy, Busy, SetupIsAlone
<1>6. InterfaceIsHeld'
  BY <1>1, <1>3 DEF Orderly, InterfaceIsHeld, kvars
<1>7. SessionIsLatest'
  BY <1>1, <1>3, <1>4 DEF Orderly, SessionIsLatest
<1>8. DisconnectInOrder'
  BY <1>1, <1>2, <1>3, <1>4 DEF Orderly, DisconnectInOrder, kvars
<1> QED
  BY <1>5, <1>6, <1>7, <1>8 DEF Orderly

LEMMA CallOrderly ==
    ASSUME TypeOK, ServiceWired, Orderly, NEW a \in Actors, Disconnect(a)
    PROVE  Orderly'
BY ClearFlagOrderly, StopOrderly, CloseOrderly, ForgetOrderly DEF Disconnect

\* The bridge's steps: only the latest session moves.
LEMMA GoOrderly ==
    ASSUME TypeOK, BridgeWired, ServiceWired, Orderly, NEW s \in Sessions, GoStep(s)
    PROVE  Orderly'
<1>1. ~Over(s) /\ NobodyBusy /\ s = latest
  <2>1. ~Over(s)
    BY DEF GoStep, TunnelLost, SessionEnds, SessionClears, OnDisconnected, InCallback, Over,
           Go!Lose, Go!CloseDevice, Go!ClearRunning
  <2> QED
    BY <2>1, NoSetupNow DEF Orderly, SessionIsLatest
<1>2. UNCHANGED setup => SetupIsAlone'
  BY <1>1 DEF NobodyBusy, Busy, SetupIsAlone
<1>3. at \in [Sessions -> Go!Points] /\ to \in [Sessions -> 0 .. MaxStarts]
  BY DEF TypeOK, Go!BridgeTypeOK, Go!Sessions
<1>4. CASE TunnelLost(s)
  <2>1. /\ at[s] = "live" /\ at' = [at EXCEPT ![s] = "event"] /\ to' = [to EXCEPT ![s] = latest]
        /\ UNCHANGED <<running, latest, ctxDone>>
        /\ UNCHANGED <<isRunning, instance, vpnInterface, setup, disc, kvars, starter>>
    BY <1>4 DEF TunnelLost, Go!Lose, ServiceUnchanged, svars, hvars
  <2>2. /\ \A u \in Sessions : Over(u)' <=> Over(u)
        /\ \A u \in Sessions : Alive(u)' <=> Alive(u)
        /\ \A u \in Sessions : at'[u] = "event" => u = s \/ at[u] = "event"
        /\ to'[s] = s /\ \A u \in Sessions : u # s => to'[u] = to[u]
        /\ latest \in Sessions
    BY <1>1, <1>3, <2>1 DEF Over, Alive
  <2>3. SessionIsLatest'
    BY <2>1, <2>2 DEF Orderly, SessionIsLatest, NobodyBusy, Busy, kvars
  <2> QED
    BY <1>2, <2>1, <2>3
       DEF Orderly, InterfaceIsHeld, DisconnectInOrder, InDisconnect, Busy, kvars
<1>5. CASE SessionEnds(s)
  <2>1. /\ at[s] = "live" /\ at' = [at EXCEPT ![s] = "clear"]
        /\ UNCHANGED <<running, latest, ctxDone, to>>
        /\ table' = [table EXCEPT ![file[s]] = None]
        /\ UNCHANGED <<isRunning, instance, vpnInterface, setup, disc, pfd, starter>>
    BY <1>5 DEF SessionEnds, Go!CloseDevice, svars, hvars
  <2>2. /\ \A u \in Sessions : Over(u)' <=> Over(u)
        /\ \A u \in Sessions : Alive(u)' => Alive(u) /\ u # s
        /\ \A u \in Sessions : at'[u] = "event" => at[u] = "event"
        /\ \A n \in FdNumbers : table'[n] \in {None, table[n]}
    BY <1>3, <2>1 DEF Over, Alive, TypeOK
  <2>3. SessionIsLatest'
    BY <1>1, <2>1, <2>2 DEF Orderly, SessionIsLatest, NobodyBusy, Busy
  <2>4. InterfaceIsHeld'
    BY <1>1, <2>1, <2>2 DEF Orderly, InterfaceIsHeld, InDisconnect, NobodyBusy, Busy
  <2> QED
    BY <1>2, <2>1, <2>3, <2>4 DEF Orderly, DisconnectInOrder
<1>6. CASE SessionClears(s)
  <2>1. /\ at[s] = "clear" /\ at' = [at EXCEPT ![s] = "notify"] /\ running' = FALSE
        /\ UNCHANGED <<latest, ctxDone, to>>
        /\ UNCHANGED <<isRunning, instance, vpnInterface, setup, disc, kvars, starter>>
    BY <1>6 DEF SessionClears, Go!ClearRunning, ServiceUnchanged, svars, hvars
  <2>2. /\ \A u \in Sessions : Over(u)' <=> Over(u)
        /\ \A u \in Sessions : ~Alive(u)'
        /\ \A u \in Sessions : at'[u] = "event" => at[u] = "event"
        /\ latest \in Sessions
    BY <1>1, <1>3, <2>1 DEF Orderly, SessionIsLatest, Over, Alive
  <2>3. SessionIsLatest'
    BY <1>1, <2>1, <2>2 DEF Orderly, SessionIsLatest, NobodyBusy, Busy, kvars
  <2> QED
    BY <1>2, <2>1, <2>3
       DEF Orderly, InterfaceIsHeld, DisconnectInOrder, InDisconnect, Busy, kvars
<1>7. CASE OnDisconnected(s)
  <2> DEFINE owner == IF at[s] = "event" THEN to[s] ELSE s
  <2>1. owner = s /\ s \in Actors /\ disc[s].at = "idle"
    BY <1>7 DEF OnDisconnected, Orderly, SessionIsLatest
  <2>2. UNCHANGED <<isRunning, instance, vpnInterface, setup, kvars, starter>>
    BY <1>7 DEF OnDisconnected, hvars
  <2>3. CASE Enter(s, setup[starter[s]].inst, FALSE) /\ UNCHANGED bvars
    <3>1. setup[starter[s]].inst = instance
      BY <1>1, <2>3, FlagMeansTunnel DEF Enter
    <3> QED
      BY <1>1, <2>1, <2>2, <2>3, <3>1, EnterOrderly
  <2>4. CASE ~isRunning /\ CallbackReturns(s) /\ UNCHANGED disc
    <3>1. /\ \A u \in Sessions : Over(u) => Over(u)'
          /\ \A u \in Sessions : Alive(u)' => Alive(u)
          /\ \A u \in Sessions : at'[u] = "event" => at[u] = "event" /\ to'[u] = to[u]
          /\ UNCHANGED <<running, latest, ctxDone>>
      BY <2>4, CallbackMoves
    <3>2. SessionIsLatest'
      BY <2>2, <2>4, <3>1 DEF Orderly, SessionIsLatest
    <3> QED
      BY <1>2, <2>2, <2>4, <3>1, <3>2
         DEF Orderly, InterfaceIsHeld, DisconnectInOrder, InDisconnect, Busy, kvars
  <2> QED
    BY <1>7, <2>1, <2>3, <2>4 DEF OnDisconnected
<1> QED
  BY <1>4, <1>5, <1>6, <1>7 DEF GoStep

\* Nothing is left: no setup, no call, no session, no interface.
LEMMA NothingLeft ==
    ASSUME NobodyBusy', \A a \in Actors : ~InDisconnect(a)', \A s \in Sessions : Over(s)',
           ~running', ~isRunning', \A t \in Threads : pfd'[t].state # "open",
           \A n \in FdNumbers : table'[n] = None
    PROVE  Orderly'
<1>1. SetupIsAlone' /\ InterfaceIsHeld' /\ SessionIsLatest'
  BY DEF SetupIsAlone, InterfaceIsHeld, SessionIsLatest, NobodyBusy, Over, Alive
<1>2. DisconnectInOrder'
  BY DEF DisconnectInOrder, InDisconnect
<1> QED
  BY <1>1, <1>2 DEF Orderly

\* A setup that goes on leaves the bridge and the calls as they are.
LEMMA SetupGoesOn ==
    ASSUME TypeOK, BridgeWired, ServiceWired, Orderly, NEW t \in Threads, SetupStep(t),
           ~(\E p \in Go!Protocols : Go!StartTunnel(p))
    PROVE  /\ \A s \in Sessions : Over(s)'
           /\ ~running' /\ instance' = instance
           /\ UNCHANGED disc
<1>1. Busy(t)
  BY DEF SetupStep, PrepareFails, Establish, EstablishRefused, ReadFd, MarkRunning,
         CallStartTunnel, StartTunnelRefused, FailClearsFlag, FailCloses, Busy
<1>2. (\A s \in Sessions : Over(s)) /\ ~running
  BY <1>1 DEF Orderly, SetupIsAlone
<1>3. UNCHANGED <<instance, disc>> /\ (Go!StartTunnelFails \/ UNCHANGED bvars)
  BY DEF SetupStep, PrepareFails, Establish, EstablishRefused, ReadFd, MarkRunning,
         CallStartTunnel, StartTunnelRefused, FailClearsFlag, FailCloses, Local
<1>4. CASE Go!StartTunnelFails
  BY <1>2, <1>3, <1>4 DEF Go!StartTunnelFails, Over, TypeOK, Go!BridgeTypeOK, Go!Sessions
<1>5. CASE UNCHANGED bvars
  BY <1>2, <1>3, <1>5 DEF bvars, Over
<1> QED
  BY <1>3, <1>4, <1>5

LEMMA SetupOrderly ==
    ASSUME TypeOK, BridgeWired, ServiceWired, Orderly, NEW t \in Threads, SetupStep(t)
    PROVE  Orderly'
<1>1. Busy(t)
  BY DEF SetupStep, PrepareFails, Establish, EstablishRefused, ReadFd, MarkRunning,
         CallStartTunnel, StartTunnelRefused, FailClearsFlag, FailCloses, Busy
\* What SetupIsAlone says of this thread.
<1>2. /\ \A u \in Threads : Busy(u) => u = t
      /\ \A a \in Actors : ~InDisconnect(a)
      /\ (\A s \in Sessions : Over(s)) /\ ~running
      /\ instance \in Instances /\ setup[t].inst = instance
      /\ isRunning <=> (setup[t].at \in {"start", "fail"})
      /\ setup[t].at = "prepare" => \A u \in Threads : pfd[u].state # "open"
      /\ setup[t].at # "prepare" => pfd[t].state = "open" /\ table[pfd[t].fd] = t
      /\ setup[t].at \in {"mark", "start"} => setup[t].fd = pfd[t].fd
  BY <1>1 DEF Orderly, SetupIsAlone
<1>3. /\ pfd[t].state = "open" => /\ \A u \in Threads : pfd[u].state = "open" => u = t
                                  /\ vpnInterface[instance] = t /\ pfd[t].fd \in FdNumbers
      /\ setup[t].at # "prepare" => \A u \in Threads : pfd[u].state = "open" => u = t
      /\ MaxStarts \in Nat
  BY <1>2, VpnServiceAssumption DEF Orderly, InterfaceIsHeld
<1>4. ASSUME NEW p \in ThreadPoints, NEW f \in Ports, Moved(t, p, f)
      PROVE  /\ setup'[t].at = p /\ setup'[t].fd = f /\ setup'[t].inst = setup[t].inst
             /\ \A u \in Threads : u # t => setup'[u] = setup[u] /\ ~Busy(u) /\ ~Busy(u)'
             /\ p = "done" => NobodyBusy'
             /\ p \notin {"idle", "done"} => Busy(t)'
  <2>1. /\ setup'[t].at = p /\ setup'[t].fd = f /\ setup'[t].inst = setup[t].inst
        /\ \A u \in Threads : u # t => setup'[u] = setup[u]
    BY <1>4, SetupMoves
  <2> QED
    BY <1>2, <2>1 DEF Busy, NobodyBusy
<1>5. ASSUME NEW p \in ThreadPoints, Step(t, p)
      PROVE  /\ setup'[t].at = p /\ setup'[t].inst = setup[t].inst
             /\ \A u \in Threads : u # t => setup'[u] = setup[u] /\ ~Busy(u) /\ ~Busy(u)'
             /\ p = "done" => NobodyBusy'
             /\ p \notin {"idle", "done"} => Busy(t)'
  <2>1. None \in Ports
    BY DEF Ports
  <2> QED
    BY <1>4, <1>5, <2>1 DEF Step, Moved
\* Whoever gives up before an interface is established leaves nothing.
<1>6. CASE PrepareFails(t) \/ EstablishRefused(t)
  <2>1. /\ setup[t].at = "prepare" /\ Step(t, "done") /\ "done" \in ThreadPoints
        /\ UNCHANGED <<bvars, isRunning, disc, kvars>>
    BY <1>6 DEF PrepareFails, EstablishRefused, Local, ThreadPoints
  <2>2. \A n \in FdNumbers : table[n] = None
    BY <1>2, <2>1, NumbersFree
  <2> QED
    BY <1>2, <1>5, <2>1, <2>2, NothingLeft DEF bvars, kvars, InDisconnect, Over
<1>7. CASE Establish(t)
  <2>1. PICK n \in FdNumbers :
          /\ table' = [table EXCEPT ![n] = t]
          /\ pfd' = [pfd EXCEPT ![t] = [state |-> "open", fd |-> n]]
    BY <1>7 DEF Establish
  <2>2. /\ setup[t].at = "prepare" /\ Step(t, "readFd") /\ "readFd" \in ThreadPoints
        /\ vpnInterface' = [vpnInterface EXCEPT ![instance] = t]
        /\ UNCHANGED <<bvars, isRunning, instance, disc, file, starter>>
    BY <1>2, <1>7 DEF Establish, ThreadPoints, hvars
  <2>3. /\ pfd'[t].state = "open" /\ pfd'[t].fd = n /\ table'[n] = t
        /\ \A u \in Threads : pfd'[u].state = "open" => u = t
        /\ vpnInterface'[instance] = t
    BY <1>2, <2>1, <2>2 DEF TypeOK
  <2>4. \A m \in FdNumbers : table'[m] # None => m = n
    <3>1. \A m \in FdNumbers : table[m] = None
      BY <1>2, <2>2, NumbersFree
    <3> QED
      BY <2>1, <3>1 DEF TypeOK
  <2>5. setup'[t].at = "readFd" /\ setup'[t].inst = instance /\ Busy(t)'
        /\ \A u \in Threads : u # t => ~Busy(u)'
    BY <1>2, <1>5, <2>2
  <2>6. SetupIsAlone'
    BY <1>2, <2>2, <2>3, <2>5 DEF SetupIsAlone, InDisconnect, Over, bvars
  <2>7. InterfaceIsHeld'
    BY <1>2, <2>2, <2>3, <2>4, <2>5 DEF InterfaceIsHeld, InDisconnect
  <2>8. SessionIsLatest' /\ DisconnectInOrder'
    BY <1>2, <2>2, <2>5 DEF SessionIsLatest, DisconnectInOrder, NobodyBusy, Over, Alive, InDisconnect, bvars
  <2> QED
    BY <2>6, <2>7, <2>8 DEF Orderly
\* The field still holds this thread's interface.
<1>8. CASE ReadFd(t)
  <2>1. vpnInterface[setup[t].inst] = t /\ pfd[t].state = "open" /\ setup[t].at = "readFd"
    BY <1>2, <1>3, <1>8 DEF ReadFd
  <2>2. /\ Moved(t, "mark", pfd[t].fd)
        /\ "mark" \in ThreadPoints /\ pfd[t].fd \in Ports
        /\ UNCHANGED <<bvars, isRunning, instance, vpnInterface, disc, kvars, starter>>
    BY <1>3, <1>8, <2>1 DEF ReadFd, Local, ThreadPoints, Ports, hvars, Moved
  <2>3. /\ setup'[t].at = "mark" /\ setup'[t].inst = instance /\ setup'[t].fd = pfd[t].fd /\ Busy(t)'
        /\ \A u \in Threads : u # t => setup'[u] = setup[u] /\ ~Busy(u)'
    BY <1>2, <1>4, <2>2
  <2>4. SetupIsAlone'
    BY <1>2, <2>1, <2>2, <2>3 DEF SetupIsAlone, InDisconnect, Over, bvars, kvars
  <2>5. InterfaceIsHeld'
    <3>1. /\ \A u \in Threads : pfd'[u].state = "open" => u = t
          /\ vpnInterface'[instance] = t /\ pfd'[t].fd \in FdNumbers
          /\ \A a \in Actors : ~InDisconnect(a)'
      BY <1>2, <1>3, <2>1, <2>2 DEF InDisconnect, kvars
    <3>2. \A n \in FdNumbers : table'[n] # None => pfd'[table'[n]].state = "open" /\ pfd'[table'[n]].fd = n
      BY <2>2 DEF Orderly, InterfaceIsHeld, kvars
    <3> QED
      BY <1>2, <2>3, <3>1, <3>2 DEF InterfaceIsHeld
  <2>6. SessionIsLatest' /\ DisconnectInOrder'
    BY <1>2, <2>2, <2>3 DEF SessionIsLatest, DisconnectInOrder, NobodyBusy, Over, Alive, InDisconnect, bvars, kvars
  <2> QED
    BY <2>4, <2>5, <2>6 DEF Orderly
<1>9. CASE MarkRunning(t)
  <2>1. /\ setup[t].at = "mark" /\ isRunning' = TRUE
        /\ setup' = [setup EXCEPT ![t].at = "start"] /\ "start" \in ThreadPoints
        /\ UNCHANGED <<bvars, instance, vpnInterface, disc, kvars, starter>>
    BY <1>9 DEF MarkRunning, ThreadPoints, hvars
  <2>2. /\ setup'[t].at = "start" /\ setup'[t].inst = instance /\ setup'[t].fd = pfd[t].fd
        /\ \A u \in Threads : u # t => setup'[u] = setup[u]
    BY <1>2, <2>1, SetupStays
  <2>3. Busy(t)' /\ \A u \in Threads : u # t => ~Busy(u)'
    BY <1>2, <2>2 DEF Busy
  <2>4. SetupIsAlone'
    BY <1>2, <1>3, <2>1, <2>2, <2>3 DEF SetupIsAlone, InDisconnect, Over, bvars, kvars
  <2>5. InterfaceIsHeld'
    BY <1>2, <1>3, <2>1, <2>2, <2>3 DEF Orderly, InterfaceIsHeld, InDisconnect, kvars
  <2>6. SessionIsLatest' /\ DisconnectInOrder'
    BY <1>2, <2>1, <2>3 DEF SessionIsLatest, DisconnectInOrder, NobodyBusy, Over, Alive, InDisconnect, bvars, kvars
  <2> QED
    BY <2>4, <2>5, <2>6 DEF Orderly
\* The new session reads the interface this thread has established.
<1>10. CASE CallStartTunnel(t)
  <2>1. PICK p \in Go!Protocols : Go!StartTunnel(p)
    BY <1>10 DEF CallStartTunnel
  <2> DEFINE n == calls + 1
  <2>2. /\ n \in Sessions /\ latest' = n /\ running' = TRUE
        /\ at' = [at EXCEPT ![n] = "live"] /\ UNCHANGED <<ctxDone, to>>
    BY <2>1 DEF Go!StartTunnel, Go!Sessions
  <2>3. /\ setup[t].at = "start" /\ Step(t, "done") /\ "done" \in ThreadPoints
        /\ file' = [file EXCEPT ![n] = setup[t].fd] /\ starter' = [starter EXCEPT ![n] = t]
        /\ UNCHANGED <<isRunning, instance, vpnInterface, disc, pfd, table>>
    BY <1>10 DEF CallStartTunnel, ThreadPoints
  <2>4. /\ isRunning /\ pfd[t].state = "open" /\ table[pfd[t].fd] = t /\ setup[t].fd = pfd[t].fd
    BY <1>2, <2>3
  <2>5. /\ setup'[t].at = "done" /\ setup'[t].inst = instance /\ NobodyBusy'
        /\ \A u \in Threads : u # t => setup'[u] = setup[u]
    BY <1>2, <1>5, <2>3
  <2>6. /\ file'[n] = pfd[t].fd /\ starter'[n] = t /\ n # None
        /\ n \notin ctxDone
    <3>1. calls \in Nat /\ ctxDone \subseteq 1 .. calls
      BY DEF BridgeWired, TypeOK, Go!BridgeTypeOK
    <3> QED
      BY <2>2, <2>3, <2>4, <3>1 DEF TypeOK
  <2>7. /\ at'[n] = "live" /\ \A s \in Sessions : s # n => at'[s] = at[s]
    BY <2>2 DEF TypeOK, Go!BridgeTypeOK, Go!Sessions
  <2> HIDE DEF n
  <2>8. SetupIsAlone'
    BY <2>5 DEF SetupIsAlone, NobodyBusy
  <2>9. InterfaceIsHeld'
    BY <1>2, <1>3, <2>3, <2>4, <2>5 DEF Orderly, InterfaceIsHeld, InDisconnect
  <2>10. SessionIsLatest'
    BY <1>2, <2>2, <2>3, <2>4, <2>5, <2>6, <2>7 DEF SessionIsLatest, Over, Alive
  <2>11. DisconnectInOrder'
    BY <1>2, <2>3, <2>4 DEF DisconnectInOrder, InDisconnect
  <2> QED
    BY <2>8, <2>9, <2>10, <2>11 DEF Orderly
<1>11. CASE StartTunnelRefused(t) \/ FailClearsFlag(t)
  <2>1. PICK p \in {"fail", "failClose"} :
          /\ Step(t, p) /\ setup[t].at # "prepare"
          /\ isRunning' = (p = "fail")
          /\ UNCHANGED <<vpnInterface, kvars, starter>>
    <3>1. CASE StartTunnelRefused(t)
      BY <1>2, <3>1 DEF StartTunnelRefused, hvars, TypeOK
    <3>2. CASE FailClearsFlag(t)
      BY <3>2 DEF FailClearsFlag, hvars
    <3> QED
      BY <1>11, <3>1, <3>2
  <2>2. /\ \A s \in Sessions : Over(s)'
        /\ ~running' /\ instance' = instance
        /\ UNCHANGED disc
    <3>1. ~(\E q \in Go!Protocols : Go!StartTunnel(q))
      <4>1. Go!StartTunnelFails \/ UNCHANGED bvars
        BY <1>11 DEF StartTunnelRefused, FailClearsFlag
      <4> QED
        BY <1>2, <4>1 DEF Go!StartTunnel, Go!StartTunnelFails, bvars
    <3> QED
      BY <3>1, SetupGoesOn
  <2>3. /\ setup'[t].at = p /\ setup'[t].inst = instance /\ Busy(t)'
        /\ \A u \in Threads : u # t => setup'[u] = setup[u] /\ ~Busy(u)'
    BY <1>2, <1>5, <2>1 DEF ThreadPoints
  <2>4. SetupIsAlone'
    BY <1>2, <1>3, <2>1, <2>2, <2>3 DEF SetupIsAlone, InDisconnect, kvars
  <2>5. InterfaceIsHeld'
    BY <1>2, <1>3, <2>1, <2>2, <2>3 DEF Orderly, InterfaceIsHeld, InDisconnect, kvars
  <2>6. SessionIsLatest' /\ DisconnectInOrder'
    BY <1>2, <2>2, <2>3 DEF SessionIsLatest, DisconnectInOrder, NobodyBusy, Over, Alive, InDisconnect
  <2> QED
    BY <2>4, <2>5, <2>6 DEF Orderly
<1>12. CASE FailCloses(t)
  <2>1. /\ setup[t].at = "failClose" /\ Step(t, "done") /\ "done" \in ThreadPoints
        /\ ClosePfd(vpnInterface[instance])
        /\ UNCHANGED <<bvars, isRunning, disc>>
    BY <1>2, <1>12 DEF FailCloses, ThreadPoints
  <2>2. (\A u \in Threads : pfd'[u].state # "open") /\ \A n \in FdNumbers : table'[n] = None
    BY <1>2, <1>3, <2>1, ClosesAll
  <2> QED
    BY <1>2, <1>5, <2>1, <2>2, NothingLeft DEF bvars, InDisconnect, Over
<1> QED
  BY <1>6, <1>7, <1>8, <1>9, <1>10, <1>11, <1>12 DEF SetupStep

LEMMA StepOrderly ==
    ASSUME TypeOK, BridgeWired, ServiceWired, CalmInv, [Next]_vars
    PROVE  CalmInv'
<1> SUFFICES ASSUME Calm' PROVE Orderly'
  BY DEF CalmInv
<1>1. CASE UNCHANGED vars
  <2>1. UNCHANGED <<running, latest, ctxDone, calls, proto, at, to, isRunning, instance, created,
                    stopping, vpnInterface, setup, disc, pfd, table, file, starter, history>>
    BY <1>1 DEF vars, bvars, svars, kvars, hvars
  <2>2. SetupIsAlone /\ InterfaceIsHeld /\ SessionIsLatest /\ DisconnectInOrder
    BY <2>1 DEF CalmInv, Calm, Orderly
  <2>3. SetupIsAlone'
    BY <2>1, <2>2 DEF SetupIsAlone, Busy, InDisconnect, Over
  <2>4. InterfaceIsHeld'
    BY <2>1, <2>2 DEF InterfaceIsHeld, Busy, InDisconnect, NobodyBusy
  <2>5. SessionIsLatest'
    BY <2>1, <2>2 DEF SessionIsLatest, NobodyBusy, Busy, Over, Alive
  <2>6. DisconnectInOrder'
    BY <2>1, <2>2 DEF DisconnectInOrder, NobodyBusy, Busy, InDisconnect, Over, Alive
  <2> QED
    BY <2>3, <2>4, <2>5, <2>6 DEF Orderly
<1>2. CASE (\E i \in Instances : StartCommand(i) \/ AskDisconnect(i)) \/ Destroy
  <2>1. Orderly
    BY <1>2 DEF StartCommand, AskDisconnect, Destroy, Slip, Calm, CalmInv
  <2> QED
    BY <1>2, <2>1, StartOrderly, MainOrderly
<1>3. CASE \E a \in Actors : Disconnect(a)
  BY <1>3, CallOrderly
     DEF Disconnect, ClearFlag, CallStopTunnel, CloseInterface, ForgetInterface, hvars, Calm, CalmInv
<1>4. CASE \E t \in Threads : SetupStep(t)
  <2>1. PICK t \in Threads : SetupStep(t)
    BY <1>4
  <2>2. history' = history
    BY <2>1 DEF SetupStep, PrepareFails, Establish, EstablishRefused, ReadFd, MarkRunning,
                CallStartTunnel, StartTunnelRefused, FailClearsFlag, FailCloses, Local, hvars
  <2>3. Orderly
    BY <2>2 DEF Calm, CalmInv
  <2> QED
    BY <2>1, <2>3, SetupOrderly
<1>5. CASE \E s \in Sessions : GoStep(s)
  BY <1>5, GoOrderly
     DEF GoStep, TunnelLost, SessionEnds, SessionClears, OnDisconnected, ServiceUnchanged, hvars,
         Calm, CalmInv
<1> QED
  BY <1>1, <1>2, <1>3, <1>4, <1>5 DEF Next

-----------------------------------------------------------------------------
\* The inductive invariant of the service: types, the wiring of its callbacks,
\* and, as long as starts and stops come one at a time, which interface is open,
\* which session reads it, and how far each disconnect() has come.
THEOREM Invariant == Spec => []IInv
<1>1. Init => IInv
  BY InitTypes, InitOrderly DEF IInv, CalmInv
<1>2. IInv /\ [Next]_vars => IInv'
  BY StepTypes, StepOrderly DEF IInv
<1> QED
  BY <1>1, <1>2, PTL DEF Spec

\* Type correctness, for any number of starts and objects.
THEOREM TypeCorrect == Spec => []TypeOK
<1>1. IInv => TypeOK
  BY DEF IInv
<1> QED
  BY <1>1, Invariant, PTL

\* The flag the application toggles on tells the truth once a calm history has
\* settled (UsqueVpnService.kt:311, 362 and 429).
THEOREM FlagIsTrue == Spec => []CalmFlagIsTrue
<1>1. IInv => CalmFlagIsTrue
  <2> SUFFICES ASSUME IInv, history = "calm", Settled, isRunning
               PROVE  /\ running /\ latest \notin ctxDone /\ at[latest] = "live"
                      /\ pfd[starter[latest]].state = "open"
                      /\ table[file[latest]] = starter[latest]
                      /\ vpnInterface[instance] = starter[latest]
    BY DEF CalmFlagIsTrue
  <2>1. TypeOK /\ ServiceWired /\ Orderly /\ NobodyBusy
    BY DEF IInv, CalmInv, Calm, Settled, Quiet, NobodyBusy
  <2>2. /\ latest \in Sessions /\ starter[latest] \in Threads /\ ~Over(latest)
        /\ pfd[starter[latest]].state = "open" /\ setup[starter[latest]].inst = instance
    BY <2>1, FlagMeansTunnel
  <2>3. at[latest] = "live"
    BY <2>2 DEF Settled, Over
  <2>4. running /\ latest \notin ctxDone /\ table[file[latest]] = starter[latest]
    BY <2>1, <2>3 DEF Orderly, SessionIsLatest, Alive
  <2> QED
    BY <2>1, <2>2, <2>3, <2>4 DEF Orderly, InterfaceIsHeld
<1> QED
  BY <1>1, Invariant, PTL

\* ... and once it is clear nothing is left to read, to close or to stop.
THEOREM StopLeavesNothing == Spec => []CalmStopLeavesNothing
<1>1. IInv => CalmStopLeavesNothing
  <2> SUFFICES ASSUME IInv, history = "calm", Settled, ~isRunning
               PROVE  /\ ~running
                      /\ \A t \in Threads : pfd[t].state # "open"
                      /\ \A n \in FdNumbers : table[n] = None
                      /\ \A s \in Sessions : at[s] = "live" => s \in ctxDone
    BY DEF CalmStopLeavesNothing
  <2>1. TypeOK /\ Orderly /\ NobodyBusy /\ \A a \in Actors : disc[a].at = "idle"
    BY DEF IInv, CalmInv, Calm, Settled, Quiet, NobodyBusy, InDisconnect
  <2>2. ~running
    BY <2>1 DEF Orderly, DisconnectInOrder
  <2>3. \A t \in Threads : pfd[t].state # "open"
    BY <2>1 DEF Orderly, InterfaceIsHeld, NobodyBusy
  <2>4. \A n \in FdNumbers : table[n] = None
    BY <2>1, <2>3, NumbersFree
  <2>5. \A s \in Sessions : at[s] = "live" => s \in ctxDone
    BY <2>1, <2>2 DEF Orderly, SessionIsLatest, Alive
  <2> QED
    BY <2>2, <2>3, <2>4, <2>5
<1> QED
  BY <1>1, Invariant, PTL

\* "Stop the Go tunnel first" (UsqueVpnService.kt:431): whichever thread closes
\* an interface, the session that reads it has been cancelled before.
THEOREM StopComesFirst == Spec => StoppedBeforeClosed
<1> DEFINE Order ==
      \A t \in Threads : \A s \in Sessions :
        history = "calm" /\ pfd[t].state = "open" /\ pfd'[t].state = "closed"
        /\ starter[s] = t /\ Alive(s) => s \in ctxDone
<1>1. IInv /\ [Next]_vars => [Order]_vars
  <2> SUFFICES ASSUME IInv, Next, NEW t \in Threads, NEW s \in Sessions, history = "calm",
                      pfd[t].state = "open", pfd'[t].state = "closed", Alive(s)
               PROVE  s \in ctxDone
    OBVIOUS
  <2>1. TypeOK /\ Orderly
    BY DEF IInv, CalmInv, Calm
  <2>2. pfd' # pfd
    OBVIOUS
  <2>3. CASE \E a \in Actors : CloseInterface(a)
    BY <2>1, <2>3 DEF CloseInterface, Orderly, DisconnectInOrder, SessionIsLatest
  <2>4. CASE \E u \in Threads : Establish(u)
    <3>1. PICK u \in Threads : Establish(u)
      BY <2>4
    <3>2. \A v \in Threads : pfd[v].state # "open"
      BY <2>1, <3>1 DEF Establish, Busy, Orderly, SetupIsAlone
    <3> QED
      BY <3>2
  <2>5. CASE \E u \in Threads : FailCloses(u)
    <3>1. PICK u \in Threads : FailCloses(u)
      BY <2>5
    <3>2. Over(s)
      BY <2>1, <3>1 DEF FailCloses, Busy, Orderly, SetupIsAlone
    <3> QED
      BY <3>2 DEF Over, Alive
  <2> QED
    BY <2>2, <2>3, <2>4, <2>5
       DEF Next, StartCommand, AskDisconnect, Destroy, Disconnect, ClearFlag, CallStopTunnel,
           ForgetInterface, SetupStep, PrepareFails, EstablishRefused, ReadFd, MarkRunning,
           CallStartTunnel, StartTunnelRefused, FailClearsFlag, Local, GoStep, TunnelLost,
           SessionEnds, SessionClears, OnDisconnected, ServiceUnchanged, kvars
<1> QED
  BY <1>1, Invariant, PTL DEF Spec, StoppedBeforeClosed

\* The service moves the bridge by the bridge's own operations only, so that
\* every behaviour of the composition is one of TunnelBridge, which TunnelSession
\* implements: it is never assumed to do what the Go code cannot.
THEOREM BridgeIsRespected == Spec => Go!Spec
<1>1. Init => Go!Init
  BY DEF Init
<1>2. [Next]_vars => [Go!Next]_(Go!bvars)
  <2> SUFFICES ASSUME [Next]_vars PROVE Go!Next \/ UNCHANGED bvars
    BY DEF bvars, Go!bvars
  <2>1. ASSUME NEW s \in Sessions, BridgeMoves(s) PROVE Go!Next
    BY <2>1 DEF BridgeMoves, Go!Next, Go!Sessions
  <2>2. CASE UNCHANGED vars
    BY <2>2 DEF vars
  <2>3. CASE (\E i \in Instances : StartCommand(i) \/ AskDisconnect(i)) \/ Destroy
    BY <2>3 DEF StartCommand, AskDisconnect, Destroy
  <2>4. ASSUME NEW a \in Actors, Disconnect(a) PROVE Go!Next \/ UNCHANGED bvars
    <3>1. CASE ForgetInterface(a)
      BY <2>1, <3>1 DEF ForgetInterface, CallbackReturns, BridgeMoves
    <3>2. CASE ~ForgetInterface(a)
      BY <2>4, <3>2 DEF Disconnect, ClearFlag, CallStopTunnel, CloseInterface, Go!Next
    <3> QED
      BY <3>1, <3>2
  <2>5. ASSUME NEW t \in Threads, SetupStep(t) PROVE Go!Next \/ UNCHANGED bvars
    BY <2>5 DEF SetupStep, PrepareFails, Establish, EstablishRefused, ReadFd, MarkRunning,
                CallStartTunnel, StartTunnelRefused, FailClearsFlag, FailCloses, Local, Go!Next
  <2>6. ASSUME NEW s \in Sessions, GoStep(s) PROVE Go!Next \/ UNCHANGED bvars
    BY <2>1, <2>6
       DEF GoStep, TunnelLost, SessionEnds, SessionClears, OnDisconnected, CallbackReturns, BridgeMoves
  <2> QED
    BY <2>2, <2>3, <2>4, <2>5, <2>6 DEF Next
<1> QED
  BY <1>1, <1>2, PTL DEF Spec, Go!Spec
=============================================================================
