----------------------------- MODULE MasqueTunnel -----------------------------
(***************************************************************************)
(* api.MaintainTunnel (api/tunnel.go): the reconnect loop, and the two     *)
(* forwarding goroutines each connection leaves running.                   *)
(*                                                                         *)
(* A connection is numbered by the attempt that made it.  Its forwarders   *)
(* share the TUN device with those of earlier connections: the "up" one    *)
(* blocks in device.ReadPacket and is not woken when its connection ends.  *)
(*                                                                         *)
(* Abstracted: packet contents, the ICMP reply written back to the device  *)
(* (its only error that ends a forwarder is a connectip.CloseError, which  *)
(* no TunnelDevice returns), and time.  ipConn, udpConn and tr are opened  *)
(* by one ConnectTunnel and closed together: one connection.  What a       *)
(* failed attempt leaves open, nothing here closes: it stays "left" (the   *)
(* collector's finalizers are not modelled).  The context is left to       *)
(* TunnelSession: the loop passes it to ConnectTunnel only.                *)
(***************************************************************************)
EXTENDS Naturals, FiniteSets

CONSTANTS
    MaxAttempts,    \* bound: attempts the loop makes
    MaxPackets      \* bound: packets the device delivers

ASSUME BoundsAssumption == MaxAttempts \in Nat \ {0} /\ MaxPackets \in Nat

VARIABLES
    main,       \* where the loop is
    attempt,    \* the number of the current attempt
    conn,       \* the connection of each attempt
    errChan,    \* errors waiting in each connection's errChan
    up,         \* per connection: the forwarder device -> connection
    down,       \* per connection: the forwarder connection -> device
    bufs,       \* buffers taken from packetBufferPool and not put back
    arrived,    \* packets the device has had so far
    queued,     \* packets waiting to be read from the device
    devOpen,    \* FALSE once reads of the device fail
    wasted,     \* history: packets each connection took and lost to its closing
    reported    \* the last status passed to statusCb

vars == <<main, attempt, conn, errChan, up, down, bufs, arrived, queued,
          devOpen, wasted, reported>>

Attempts == 1 .. MaxAttempts
\* Seeded bug: one forwarding loop ends, so one slot is enough.
ErrChanCapOne == 1

ErrChanCap == 2

MainPoints == {"head", "dial", "refused", "wait", "lost", "sleep"}
ConnStates == {"none", "open", "broken",    \* broken: closed by the peer
               "closed", "left"}            \* left: by a failed attempt, for good
Forwarder == {"none", "get", "read", "write", "send", "gone"}

Held(a) == conn[a] \in {"open", "broken"}

device == <<arrived, queued, devOpen>>

------------------------------------------------------------------------------
Init ==
    /\ main = "head" /\ attempt = 0
    /\ conn = [a \in Attempts |-> "none"]
    /\ errChan = [a \in Attempts |-> 0]
    /\ up = [a \in Attempts |-> "none"]
    /\ down = [a \in Attempts |-> "none"]
    /\ bufs = 0
    /\ arrived = 0 /\ queued = 0 /\ devOpen = TRUE
    /\ wasted = [a \in Attempts |-> 0]
    /\ reported = "none"

(***************************************************************************)
(* The loop.                                                               *)
(***************************************************************************)

StartAttempt ==
    /\ main = "head" /\ attempt < MaxAttempts
    /\ attempt' = attempt + 1
    /\ main' = "dial"
    /\ reported' = "connecting"
    /\ UNCHANGED <<conn, errChan, up, down, bufs, device, wasted>>

\* err # nil: only net.ListenUDP fails without a socket.  After a failed
\* quic.Dial ConnectTunnel returns the socket with its error, after a failed
\* connectip.Dial the QUIC connection on it is open as well; the loop sleeps and
\* continues with none of it closed.
DialFails ==
    /\ main = "dial"
    /\ main' = "sleep"
    /\ \E x \in {"none", "left"} : conn' = [conn EXCEPT ![attempt] = x]
    /\ reported' = "error"
    /\ UNCHANGED <<attempt, errChan, up, down, bufs, device, wasted>>

\* An answer other than 200 is reported first ...
DialRefused ==
    /\ main = "dial"
    /\ main' = "refused"
    /\ conn' = [conn EXCEPT ![attempt] = "open"]
    /\ reported' = "error"
    /\ UNCHANGED <<attempt, errChan, up, down, bufs, device, wasted>>

\* ... and then everything ConnectTunnel returned is closed.
CloseRefused ==
    /\ main = "refused"
    /\ conn' = [conn EXCEPT ![attempt] = "closed"]
    /\ main' = "sleep"
    /\ UNCHANGED <<attempt, errChan, up, down, bufs, device, wasted, reported>>

DialSucceeds ==
    /\ main = "dial"
    /\ main' = "wait"
    /\ conn' = [conn EXCEPT ![attempt] = "open"]
    /\ up' = [up EXCEPT ![attempt] = "get"]
    /\ down' = [down EXCEPT ![attempt] = "get"]
    /\ reported' = "connected"
    /\ UNCHANGED <<attempt, errChan, bufs, device, wasted>>

\* Seeded bug: the lost connection is not closed before the reconnect.
ReceiveErrorWithoutClose ==
    /\ main = "wait"
    /\ errChan[attempt] > 0
    /\ errChan' = [errChan EXCEPT ![attempt] = @ - 1]
    /\ main' = "sleep"
    /\ reported' = "disconnected"
    /\ UNCHANGED <<attempt, conn, up, down, bufs, device, wasted>>

\* err = <-errChan, and the report.
ReceiveError ==
    /\ main = "wait"
    /\ errChan[attempt] > 0
    /\ errChan' = [errChan EXCEPT ![attempt] = @ - 1]
    /\ main' = "lost"
    /\ reported' = "disconnected"
    /\ UNCHANGED <<attempt, conn, up, down, bufs, device, wasted>>

CloseConnection ==
    /\ main = "lost"
    /\ conn' = [conn EXCEPT ![attempt] = "closed"]
    /\ main' = "sleep"
    /\ UNCHANGED <<attempt, errChan, up, down, bufs, device, wasted, reported>>

WakeUp ==
    /\ main = "sleep"
    /\ main' = "head"
    /\ UNCHANGED <<attempt, conn, errChan, up, down, bufs, device, wasted, reported>>

(***************************************************************************)
(* The forwarder from the device to connection a.                          *)
(***************************************************************************)
UpUnchanged == UNCHANGED <<main, attempt, conn, down, reported>>

UpGet(a) ==
    /\ up[a] = "get"
    /\ up' = [up EXCEPT ![a] = "read"]
    /\ bufs' = bufs + 1
    /\ UpUnchanged /\ UNCHANGED <<errChan, device, wasted>>

\* device.ReadPacket takes one packet; any of the blocked forwarders gets it.
UpRead(a) ==
    /\ up[a] = "read" /\ devOpen /\ queued > 0
    /\ queued' = queued - 1
    /\ up' = [up EXCEPT ![a] = "write"]
    /\ UpUnchanged /\ UNCHANGED <<errChan, bufs, arrived, devOpen, wasted>>

UpReadFails(a) ==
    /\ up[a] = "read" /\ ~devOpen
    /\ up' = [up EXCEPT ![a] = "send"]
    /\ bufs' = bufs - 1
    /\ UpUnchanged /\ UNCHANGED <<errChan, device, wasted>>

\* Written, or refused with an error other than CloseError ("continuing..."),
\* which a connection the peer closed may also answer until it is closed here.
UpWritten(a) ==
    /\ up[a] = "write" /\ Held(a)
    /\ up' = [up EXCEPT ![a] = "get"]
    /\ bufs' = bufs - 1
    /\ UpUnchanged /\ UNCHANGED <<errChan, device, wasted>>

\* Seeded bugs: the buffer is kept on this error path; a closed connection is
\* logged and retried like any other write error.
UpWriteClosedKeepsBuffer(a) ==
    /\ up[a] = "write" /\ conn[a] # "open"
    /\ up' = [up EXCEPT ![a] = "send"]
    /\ wasted' = [wasted EXCEPT ![a] = @ + 1]
    /\ UpUnchanged /\ UNCHANGED <<errChan, bufs, device>>

UpWriteClosedContinues(a) ==
    /\ up[a] = "write" /\ conn[a] # "open"
    /\ up' = [up EXCEPT ![a] = "get"]
    /\ bufs' = bufs - 1
    /\ wasted' = [wasted EXCEPT ![a] = @ + 1]
    /\ UpUnchanged /\ UNCHANGED <<errChan, device>>

UpWriteClosed(a) ==
    /\ up[a] = "write" /\ conn[a] # "open"
    /\ up' = [up EXCEPT ![a] = "send"]
    /\ bufs' = bufs - 1
    /\ wasted' = [wasted EXCEPT ![a] = @ + 1]
    /\ UpUnchanged /\ UNCHANGED <<errChan, device>>

UpSend(a) ==
    /\ up[a] = "send" /\ errChan[a] < ErrChanCap
    /\ errChan' = [errChan EXCEPT ![a] = @ + 1]
    /\ up' = [up EXCEPT ![a] = "gone"]
    /\ UpUnchanged /\ UNCHANGED <<bufs, device, wasted>>

(***************************************************************************)
(* The forwarder from connection a to the device.  Its buffer is put back  *)
(* by a defer when it returns.                                             *)
(***************************************************************************)
DownUnchanged == UNCHANGED <<main, attempt, conn, up, device, wasted, reported>>

DownGet(a) ==
    /\ down[a] = "get"
    /\ down' = [down EXCEPT ![a] = "read"]
    /\ bufs' = bufs + 1
    /\ DownUnchanged /\ UNCHANGED errChan

\* A packet came.  (An error other than CloseError goes back to the read.)
DownRead(a) ==
    /\ down[a] = "read" /\ Held(a)
    /\ down' = [down EXCEPT ![a] = "write"]
    /\ DownUnchanged /\ UNCHANGED <<errChan, bufs>>

DownReadClosed(a) ==
    /\ down[a] = "read" /\ conn[a] # "open"
    /\ down' = [down EXCEPT ![a] = "send"]
    /\ DownUnchanged /\ UNCHANGED <<errChan, bufs>>

DownWritten(a) ==
    /\ down[a] = "write"
    /\ down' = [down EXCEPT ![a] = "read"]
    /\ DownUnchanged /\ UNCHANGED <<errChan, bufs>>

\* The device refused the packet, whether or not its reads still work.
DownWriteFails(a) ==
    /\ down[a] = "write"
    /\ down' = [down EXCEPT ![a] = "send"]
    /\ DownUnchanged /\ UNCHANGED <<errChan, bufs>>

\* Seeded bug: the forwarder returns without a word to the loop.
DownReturnsSilently(a) ==
    /\ down[a] = "send"
    /\ down' = [down EXCEPT ![a] = "gone"]
    /\ bufs' = bufs - 1
    /\ DownUnchanged /\ UNCHANGED errChan

DownSend(a) ==
    /\ down[a] = "send" /\ errChan[a] < ErrChanCap
    /\ errChan' = [errChan EXCEPT ![a] = @ + 1]
    /\ down' = [down EXCEPT ![a] = "gone"]
    /\ bufs' = bufs - 1
    /\ DownUnchanged

(***************************************************************************)
(* The world: apps sending packets, the peer, the owner of the TUN fd.     *)
(***************************************************************************)
PacketArrives ==
    /\ arrived < MaxPackets
    /\ arrived' = arrived + 1 /\ queued' = queued + 1
    /\ UNCHANGED <<main, attempt, conn, errChan, up, down, bufs, devOpen, wasted, reported>>

PeerCloses(a) ==
    /\ conn[a] = "open"
    /\ conn' = [conn EXCEPT ![a] = "broken"]
    /\ UNCHANGED <<main, attempt, errChan, up, down, bufs, device, wasted, reported>>

DeviceFails ==
    /\ devOpen
    /\ devOpen' = FALSE
    /\ UNCHANGED <<main, attempt, conn, errChan, up, down, bufs, arrived, queued,
                   wasted, reported>>

------------------------------------------------------------------------------
Loop ==
    StartAttempt \/ DialFails \/ DialRefused \/ CloseRefused \/ DialSucceeds
    \/ ReceiveError \/ CloseConnection \/ WakeUp

Up(a) ==
    UpGet(a) \/ UpRead(a) \/ UpReadFails(a) \/ UpWritten(a) \/ UpWriteClosed(a) \/ UpSend(a)

Down(a) ==
    DownGet(a) \/ DownRead(a) \/ DownReadClosed(a) \/ DownWritten(a)
    \/ DownWriteFails(a) \/ DownSend(a)

World == PacketArrives \/ DeviceFails \/ \E a \in Attempts : PeerCloses(a)

Next == Loop \/ World \/ \E a \in Attempts : Up(a) \/ Down(a)

Spec == Init /\ [][Next]_vars

\* The scheduler runs the loop and every forwarder; the world owes nothing.
FairSpec ==
    /\ Spec
    /\ WF_vars(Loop)
    /\ \A a \in Attempts : WF_vars(Up(a)) /\ WF_vars(Down(a))

------------------------------------------------------------------------------
(***************************************************************************)
(* Properties.                                                             *)
(***************************************************************************)
TypeOK ==
    /\ main \in MainPoints
    /\ attempt \in 0 .. MaxAttempts
    /\ conn \in [Attempts -> ConnStates]
    /\ errChan \in [Attempts -> 0 .. ErrChanCap]
    /\ up \in [Attempts -> Forwarder]
    /\ down \in [Attempts -> Forwarder]
    /\ bufs \in Nat
    /\ arrived \in 0 .. MaxPackets /\ queued \in 0 .. MaxPackets
    /\ devOpen \in BOOLEAN
    /\ wasted \in [Attempts -> Nat]
    /\ reported \in {"none", "connecting", "connected", "error", "disconnected"}

\* A forwarder that ends always finds room in its errChan, although the loop
\* takes only one of the two errors and never looks at that channel again: no
\* goroutine of a lost connection stays blocked on its report.
EndingForwarderNeverBlocks ==
    \A a \in Attempts : "send" \in {up[a], down[a]} => errChan[a] < ErrChanCap

\* Every buffer out of packetBufferPool is in the hands of one forwarder: no
\* error path keeps one or puts one back twice.
BuffersAreAccountedFor ==
    bufs = Cardinality({a \in Attempts : up[a] \in {"read", "write"}})
           + Cardinality({a \in Attempts : down[a] \in {"read", "write", "send"}})

\* A forwarder left over from a lost connection costs the tunnel one packet at
\* most: it ends at the first write its closed connection refuses.
StaleForwarderWastesOnePacket ==
    \A a \in Attempts : wasted[a] <= 1 /\ (wasted[a] = 1 => up[a] \in {"send", "gone"})

\* The loop implements TunnelContract: it reports in the documented order, holds
\* one connection at a time and releases it before the next attempt, refused or
\* lost; what it leaves behind is at most a socket for each attempt that failed.
Contract == INSTANCE TunnelContract
              WITH status <- reported, held <- \E a \in Attempts : Held(a),
                   left <- Cardinality({a \in Attempts : conn[a] = "left"})

KeepsContract == Contract!Spec

\* "If an error occurs in either loop, the connection is closed and a reconnect
\* is attempted" (tunnel.go line 162), up to the bound on attempts.
ErrorLeadsToReconnect ==
    \A a \in Attempts \ {MaxAttempts} :
        "send" \in {up[a], down[a]} /\ attempt = a ~> attempt > a
==============================================================================
