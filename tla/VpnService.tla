------------------------------ MODULE VpnService ------------------------------
(***************************************************************************)
(* The Android VPN service (UsqueVpnService.kt) on top of the bridge       *)
(* (TunnelBridge): start commands, the setup threads they spawn,           *)
(* disconnect() as run by the main thread, by the system's onRevoke and by *)
(* the bridge's callbacks, the destruction of the service object, and the  *)
(* TUN descriptor, which both the service's ParcelFileDescriptor and the   *)
(* bridge's os.File own.                                                   *)
(*                                                                         *)
(* A statement that reads or writes what another thread can see is a step. *)
(* Left out: settings, registration and probing (a setup thread gets       *)
(* through them or stops the service), the outputStream field (set and     *)
(* cleared next to vpnInterface), logging.  The flag isRunning is read as  *)
(* last written: the field is not volatile, the code runs on ART where a   *)
(* single load of a static field is not cached across calls.               *)
(***************************************************************************)
EXTENDS Naturals, FiniteSets

CONSTANTS
    MaxStarts,      \* bound: setup threads, and StartTunnel calls they make
    MaxInstances,   \* bound: service objects created
    FdNumbers       \* the descriptor numbers the kernel may hand out

ASSUME VpnServiceAssumption ==
    MaxStarts \in Nat /\ MaxInstances \in Nat /\ FdNumbers \subseteq Nat

VARIABLES
    \* the bridge
    running, latest, ctxDone, calls, proto, at, to,
    \* the service
    isRunning,      \* the companion's flag
    instance,       \* the live service object, 0: none
    created,        \* service objects created so far
    stopping,       \* objects that have called stopSelf()
    vpnInterface,   \* per object: the interface its field holds, 0: null
    setup,          \* per setup thread: its next statement, object and descriptor
    disc,           \* per actor: its next statement of disconnect()
    \* the kernel and the owners of descriptors
    pfd,            \* per setup thread: the ParcelFileDescriptor it established
    table,          \* per descriptor number: the interface it refers to, 0: closed
    file,           \* per session: the descriptor number its os.File wraps
    \* history, read by properties only
    starter,        \* per session: the setup thread that started it
    history         \* how starts and stops have come so far (see Slip)

Go == INSTANCE TunnelBridge WITH MaxSessions <- MaxStarts

bvars == <<running, latest, ctxDone, calls, proto, at, to>>
svars == <<isRunning, instance, created, stopping, vpnInterface, setup, disc>>
kvars == <<pfd, table, file>>
hvars == <<starter, history>>
vars == <<bvars, svars, kvars, hvars>>

Sessions == 1 .. MaxStarts
Threads == 1 .. MaxStarts
Instances == 1 .. MaxInstances
None == 0

\* Who may be inside disconnect(): the main thread (onRevoke is taken to run on
\* it as well) and the goroutine of a session in a callback (its number).
Main == 0
Actors == {Main} \cup Sessions

NoThread == [at |-> "idle", inst |-> None, fd |-> None]
NoCall == [at |-> "idle", inst |-> None, destroy |-> FALSE]

ThreadPoints ==
    { "idle", "prepare", "readFd", "mark", "start", "fail", "failClose", "done" }
CallPoints == { "idle", "clear", "stop", "close", "null" }

Busy(t) == setup[t].at \notin {"idle", "done"}
InDisconnect(a) == disc[a].at # "idle"
Quiet == (\A t \in Threads : ~Busy(t)) /\ (\A a \in Actors : ~InDisconnect(a))
InCallback(s) == at[s] \in {"event", "notify"}
Alive(s) == at[s] \in {"live", "event"}

\* "calm": every start and stop came when nothing else was under way and every
\* start when no earlier session was left; "overlap": a start found an earlier
\* session that had not ended; "racy": a start or stop came in the middle of a
\* setup or of another disconnect().
Histories == {"calm", "overlap", "racy"}

Slip(left) ==
    history' = IF ~Quiet THEN "racy"
               ELSE IF history = "calm" /\ left THEN "overlap" ELSE history

------------------------------------------------------------------------------
Init ==
    /\ Go!Init
    /\ isRunning = FALSE /\ instance = None /\ created = 0 /\ stopping = {}
    /\ vpnInterface = [i \in Instances |-> None]
    /\ setup = [t \in Threads |-> NoThread]
    /\ disc = [a \in Actors |-> NoCall]
    /\ pfd = [t \in Threads |-> [state |-> "none", fd |-> None]]
    /\ table = [n \in FdNumbers |-> None]
    /\ file = [s \in Sessions |-> None]
    /\ starter = [s \in Sessions |-> None] /\ history = "calm"

(***************************************************************************)
(* Main thread: onCreate, onStartCommand, onDestroy.                       *)
(***************************************************************************)

\* The object a start command is delivered to: the live one, or a new one.
Target(i) ==
    IF instance # None THEN i = instance ELSE i = created + 1 /\ i \in Instances

\* onCreate, when there is no live object.
Create(i) ==
    /\ instance' = i
    /\ created' = IF i > created THEN i ELSE created

\* onStartCommand without an action: nothing while isRunning, else a new setup
\* thread.  A start takes back an earlier stopSelf() of the same object.
StartCommand(i) ==
    /\ disc[Main].at = "idle" /\ Target(i)
    /\ Create(i)
    /\ stopping' = stopping \ {i}
    /\ IF isRunning
         THEN UNCHANGED <<setup, history>>
         ELSE \E t \in Threads :
                /\ setup[t].at = "idle" /\ \A u \in Threads : u < t => setup[u].at # "idle"
                /\ setup' = [setup EXCEPT ![t] = [NoThread EXCEPT !.at = "prepare", !.inst = i]]
                /\ Slip(\E s \in Sessions : at[s] \notin {"idle", "failed", "done"})
    /\ UNCHANGED <<bvars, isRunning, vpnInterface, disc, kvars, starter>>

\* disconnect() is entered: nothing unless isRunning.
Enter(a, i, destroying) ==
    /\ isRunning
    /\ disc' = [disc EXCEPT ![a] = [at |-> "clear", inst |-> i, destroy |-> destroying]]

\* The user's disconnect (the intent, which may create the object, or the static
\* stop()) and the system's onRevoke.
AskDisconnect(i) ==
    /\ disc[Main].at = "idle" /\ Target(i)
    /\ Create(i)
    /\ Enter(Main, i, FALSE) \/ (~isRunning /\ UNCHANGED disc)
    /\ Slip(FALSE)
    /\ UNCHANGED <<bvars, isRunning, stopping, vpnInterface, setup, kvars, starter>>

\* onDestroy, once the object has stopped itself: it disconnects if isRunning,
\* and unregisters the object.
Destroy ==
    /\ instance \in stopping /\ disc[Main].at = "idle"
    /\ \/ Enter(Main, instance, TRUE) /\ UNCHANGED instance
       \/ ~isRunning /\ instance' = None /\ UNCHANGED disc
    /\ Slip(FALSE)
    /\ UNCHANGED <<bvars, isRunning, created, stopping, vpnInterface, setup, kvars, starter>>

\* onDisconnected() of the callback object calls disconnect() of the service
\* object that created it; a disconnect() that does nothing returns at once.
CallbackReturns(s) == Go!Return(s) \/ Go!NotifyClosed(s)

OnDisconnected(s) ==
    /\ InCallback(s) /\ disc[s].at = "idle"
    /\ LET owner == IF at[s] = "event" THEN to[s] ELSE s IN
       \/ Enter(s, setup[starter[owner]].inst, FALSE) /\ UNCHANGED bvars
       \/ ~isRunning /\ CallbackReturns(s) /\ UNCHANGED disc
    /\ UNCHANGED <<isRunning, instance, created, stopping, vpnInterface, setup, kvars, hvars>>

(***************************************************************************)
(* disconnect() past its check, statement by statement.                    *)
(***************************************************************************)
Goto(a, point) == disc' = [disc EXCEPT ![a].at = point]

\* Seeded bug: the interface is closed without stopping the tunnel.
ClearFlagSkipsStop(a) ==
    /\ disc[a].at = "clear"
    /\ isRunning' = FALSE
    /\ Goto(a, "close")
    /\ UNCHANGED <<bvars, instance, created, stopping, vpnInterface, setup, kvars, hvars>>

ClearFlag(a) ==
    /\ disc[a].at = "clear"
    /\ isRunning' = FALSE
    /\ Goto(a, "stop")
    /\ UNCHANGED <<bvars, instance, created, stopping, vpnInterface, setup, kvars, hvars>>

\* Usqueandroid.stopTunnel(): it does not wait for the goroutine.
CallStopTunnel(a) ==
    /\ disc[a].at = "stop"
    /\ Go!StopTunnel \/ (~running /\ UNCHANGED bvars)
    /\ Goto(a, "close")
    /\ UNCHANGED <<isRunning, instance, created, stopping, vpnInterface, setup, kvars, hvars>>

\* ParcelFileDescriptor.close(): the first call closes the number it was given,
\* whatever that number refers to by now.
ClosePfd(t) ==
    IF t # None /\ pfd[t].state = "open"
      THEN /\ pfd' = [pfd EXCEPT ![t] = [state |-> "closed", fd |-> None]]
           /\ table' = [table EXCEPT ![pfd[t].fd] = None]
      ELSE UNCHANGED <<pfd, table>>

CloseInterface(a) ==
    /\ disc[a].at = "close"
    /\ ClosePfd(vpnInterface[disc[a].inst])
    /\ Goto(a, "null")
    /\ UNCHANGED <<bvars, isRunning, instance, created, stopping, vpnInterface, setup, file, hvars>>

\* vpnInterface = null, stopSelf(), and back to the caller.
ForgetInterface(a) ==
    /\ disc[a].at = "null"
    /\ vpnInterface' = [vpnInterface EXCEPT ![disc[a].inst] = None]
    /\ stopping' = stopping \cup {disc[a].inst}
    /\ disc' = [disc EXCEPT ![a] = NoCall]
    /\ instance' = IF disc[a].destroy THEN None ELSE instance
    /\ IF a = Main THEN UNCHANGED bvars ELSE CallbackReturns(a)
    /\ UNCHANGED <<isRunning, created, setup, kvars, hvars>>

Disconnect(a) ==
    \/ ClearFlag(a) \/ CallStopTunnel(a) \/ CloseInterface(a) \/ ForgetInterface(a)

(***************************************************************************)
(* setupAndStart() on a setup thread.                                      *)
(***************************************************************************)
Step(t, point) == setup' = [setup EXCEPT ![t].at = point, ![t].fd = None]
StopSelf(t) == stopping' = stopping \cup {setup[t].inst}
Local == UNCHANGED <<bvars, isRunning, instance, created, vpnInterface, disc, kvars, hvars>>

\* Registration, settings, probing, the assigned address or the builder failed.
PrepareFails(t) ==
    /\ setup[t].at = "prepare"
    /\ Step(t, "done") /\ StopSelf(t)
    /\ Local

\* vpnInterface = builder.establish(): a new interface with a number the kernel
\* has free, or null, which is stored as well.
Establish(t) ==
    /\ setup[t].at = "prepare"
    /\ \E n \in FdNumbers :
         /\ table[n] = None
         /\ table' = [table EXCEPT ![n] = t]
         /\ pfd' = [pfd EXCEPT ![t] = [state |-> "open", fd |-> n]]
    /\ vpnInterface' = [vpnInterface EXCEPT ![setup[t].inst] = t]
    /\ Step(t, "readFd")
    /\ UNCHANGED <<bvars, isRunning, instance, created, stopping, disc, file, hvars>>

EstablishRefused(t) ==
    /\ setup[t].at = "prepare"
    /\ vpnInterface' = [vpnInterface EXCEPT ![setup[t].inst] = None]
    /\ Step(t, "done") /\ StopSelf(t)
    /\ UNCHANGED <<bvars, isRunning, instance, created, disc, kvars, hvars>>

\* vpnInterface!!.fd: the field, which may have been replaced or set to null
\* meanwhile (an exception, caught).
ReadFd(t) ==
    /\ setup[t].at = "readFd"
    /\ LET holder == vpnInterface[setup[t].inst] IN
       IF holder = None \/ pfd[holder].state = "closed"
         THEN Step(t, "done") /\ StopSelf(t)
         ELSE /\ setup' = [setup EXCEPT ![t].at = "mark", ![t].fd = pfd[holder].fd]
              /\ UNCHANGED stopping
    /\ Local

MarkRunning(t) ==
    /\ setup[t].at = "mark"
    /\ isRunning' = TRUE
    /\ setup' = [setup EXCEPT ![t].at = "start"]
    /\ UNCHANGED <<bvars, instance, created, stopping, vpnInterface, disc, kvars, hvars>>

\* Usqueandroid.startTunnel() with the number read before.
CallStartTunnel(t) ==
    /\ setup[t].at = "start"
    /\ \E p \in Go!Protocols : Go!StartTunnel(p)
    /\ file' = [file EXCEPT ![calls + 1] = setup[t].fd]
    /\ starter' = [starter EXCEPT ![calls + 1] = t]
    /\ Step(t, "done")
    /\ UNCHANGED <<isRunning, instance, created, stopping, vpnInterface, disc, pfd, table, history>>

\* It refuses a second tunnel, or fails on its own.
StartTunnelRefused(t) ==
    /\ setup[t].at = "start"
    /\ Go!StartTunnelFails \/ (running /\ UNCHANGED bvars)
    /\ Step(t, "fail")
    /\ UNCHANGED <<isRunning, instance, created, stopping, vpnInterface, disc, kvars, hvars>>

\* Seeded bugs of the error path: the flag stays set; the interface stays open.
FailKeepsFlag(t) ==
    /\ setup[t].at = "fail"
    /\ Step(t, "failClose")
    /\ UNCHANGED <<bvars, isRunning, instance, created, stopping, vpnInterface, disc, kvars, hvars>>

FailLeavesInterface(t) ==
    /\ setup[t].at = "failClose"
    /\ Step(t, "done") /\ StopSelf(t)
    /\ UNCHANGED <<bvars, isRunning, instance, created, vpnInterface, disc, kvars, hvars>>

FailClearsFlag(t) ==
    /\ setup[t].at = "fail"
    /\ isRunning' = FALSE
    /\ Step(t, "failClose")
    /\ UNCHANGED <<bvars, instance, created, stopping, vpnInterface, disc, kvars, hvars>>

\* It closes whatever the field holds, and leaves the field.
FailCloses(t) ==
    /\ setup[t].at = "failClose"
    /\ ClosePfd(vpnInterface[setup[t].inst])
    /\ Step(t, "done") /\ StopSelf(t)
    /\ UNCHANGED <<bvars, isRunning, instance, created, vpnInterface, disc, file, hvars>>

SetupStep(t) ==
    \/ PrepareFails(t) \/ Establish(t) \/ EstablishRefused(t) \/ ReadFd(t)
    \/ MarkRunning(t) \/ CallStartTunnel(t) \/ StartTunnelRefused(t)
    \/ FailClearsFlag(t) \/ FailCloses(t)

(***************************************************************************)
(* The bridge's goroutines and the callbacks they make.                    *)
(***************************************************************************)
ServiceUnchanged == UNCHANGED <<svars, kvars, hvars>>

TunnelLost(s) == Go!Lose(s) /\ ServiceUnchanged

\* A WireGuard session ends; os.File.Close() closes its number, the first time.
SessionEnds(s) ==
    /\ Go!CloseDevice(s)
    /\ table' = [table EXCEPT ![file[s]] = None] /\ file' = [file EXCEPT ![s] = None]
    /\ UNCHANGED <<svars, pfd, hvars>>

SessionClears(s) == Go!ClearRunning(s) /\ ServiceUnchanged

GoStep(s) ==
    TunnelLost(s) \/ SessionEnds(s) \/ SessionClears(s) \/ OnDisconnected(s)

------------------------------------------------------------------------------
Next ==
    \/ \E i \in Instances : StartCommand(i) \/ AskDisconnect(i)
    \/ Destroy
    \/ \E a \in Actors : Disconnect(a)
    \/ \E t \in Threads : SetupStep(t)
    \/ \E s \in Sessions : GoStep(s)

Spec == Init /\ [][Next]_vars

------------------------------------------------------------------------------
TypeOK ==
    /\ Go!BridgeTypeOK
    /\ isRunning \in BOOLEAN /\ history \in Histories
    /\ instance \in 0 .. MaxInstances /\ created \in 0 .. MaxInstances
    /\ stopping \subseteq Instances
    /\ vpnInterface \in [Instances -> 0 .. MaxStarts]
    /\ setup \in [Threads -> [at: ThreadPoints, inst: 0 .. MaxInstances, fd: FdNumbers \cup {None}]]
    /\ disc \in [Actors -> [at: CallPoints, inst: 0 .. MaxInstances, destroy: BOOLEAN]]
    /\ pfd \in [Threads -> [state: {"none", "open", "closed"}, fd: FdNumbers \cup {None}]]
    /\ table \in [FdNumbers -> 0 .. MaxStarts]
    /\ file \in [Sessions -> FdNumbers \cup {None}]
    /\ starter \in [Sessions -> 0 .. MaxStarts]

\* Nothing is under way: no setup, no disconnect(), no exit or callback.
Settled == Quiet /\ \A s \in Sessions : at[s] \in {"idle", "failed", "live", "done"}

\* When starts and stops have come one at a time, the flag the app toggles on
\* tells the truth once things have settled: set, there is a tunnel StopTunnel
\* would reach, reading an interface that is open; (lines 311, 362 and 429).
CalmFlagIsTrue ==
    history = "calm" /\ Settled /\ isRunning =>
        /\ running /\ latest \notin ctxDone /\ at[latest] = "live"
        /\ pfd[starter[latest]].state = "open"
        /\ table[file[latest]] = starter[latest]
        /\ vpnInterface[instance] = starter[latest]

\* ... and clear, every interface has been closed and every tunnel cancelled or
\* ended, whichever of the error paths or callbacks led there.
CalmStopLeavesNothing ==
    history = "calm" /\ Settled /\ ~isRunning =>
        /\ ~running
        /\ \A t \in Threads : pfd[t].state # "open"
        /\ \A n \in FdNumbers : table[n] = None
        /\ \A s \in Sessions : at[s] = "live" => s \in ctxDone

\* "Stop the Go tunnel first" (line 431): an interface is closed only when no
\* uncancelled tunnel reads it.
StoppedBeforeClosed ==
    [][ \A t \in Threads : \A s \in Sessions :
            history = "calm" /\ pfd[t].state = "open" /\ pfd'[t].state = "closed"
            /\ starter[s] = t /\ Alive(s) => s \in ctxDone ]_vars

\* "disconnected": tunnel was lost, attempting reconnect" (usque_android.go line
\* 114): the report of a lost tunnel does not make the service stop that tunnel.
\* It does: onDisconnected() calls disconnect().
LostTunnelIsRetried ==
    [][ \A s \in Sessions :
            at[s] = "event" /\ disc[s].at = "stop" /\ disc'[s].at = "close"
                => ctxDone' = ctxDone ]_vars
==============================================================================
