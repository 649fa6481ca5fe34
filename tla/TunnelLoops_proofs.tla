-------------------------- MODULE TunnelLoops_proofs --------------------------
(***************************************************************************)
(* Proofs about the loops of both tunnels: MasqueTunnel, for any number of *)
(* attempts and packets, and at the end WgWatchdog, for any period and     *)
(* limit.                                                                  *)
(***************************************************************************)
EXTENDS MasqueTunnel, WgWatchdog, FiniteSetTheorems, TLAPS

USE DEF Attempts

In(point, S) == IF point \in S THEN 1 ELSE 0

\* The forwarders of f at one of the points in S.
AtPoint(f, S) == {a \in Attempts : f[a] \in S}

UpHolding == {"read", "write"}
DownHolding == {"read", "write", "send"}

\* An attempt that has not connected has nothing.
Unconnected ==
    /\ attempt = 0 => main = "head"
    /\ \A a \in Attempts : a > attempt \/ (a = attempt /\ main = "dial") =>
          up[a] = "none" /\ down[a] = "none"
    /\ \A a \in Attempts : up[a] = "none" => wasted[a] = 0

\* ... not even a connection it could leave behind.
NotDialledYet ==
    \A a \in Attempts : a > attempt \/ (a = attempt /\ main = "dial") => conn[a] = "none"

\* An error waiting in a channel was put there by a forwarder that has ended.
ErrorsHaveSenders ==
    \A a \in Attempts : errChan[a] <= In(up[a], {"gone"}) + In(down[a], {"gone"})

\* The loop holds the connection of its current attempt, and no other.
OnlyCurrentIsHeld ==
    \A a \in Attempts : Held(a) <=> a = attempt /\ main \in {"wait", "lost", "refused"}

\* What was last said follows from where the loop is.
ReportFollowsLoop ==
    /\ main = "head" => reported \in {"none", "error", "disconnected"}
    /\ main = "dial" => reported = "connecting"
    /\ main = "wait" => reported = "connected"
    /\ main = "lost" => reported = "disconnected"
    /\ main = "refused" => reported = "error"
    /\ main = "sleep" => reported \in {"error", "disconnected"}

QueueFits == queued <= arrived

IInv ==
    /\ TypeOK /\ QueueFits /\ Unconnected /\ ErrorsHaveSenders /\ OnlyCurrentIsHeld
    /\ ReportFollowsLoop /\ BuffersAreAccountedFor /\ StaleForwarderWastesOnePacket
    /\ NotDialledYet

------------------------------------------------------------------------------
(***************************************************************************)
(* Counting forwarders.                                                    *)
(***************************************************************************)
LEMMA CountIsNatural ==
    ASSUME NEW f, NEW S
    PROVE  IsFiniteSet(AtPoint(f, S)) /\ Cardinality(AtPoint(f, S)) \in Nat
<1>1. IsFiniteSet(Attempts)
  BY BoundsAssumption, FS_Interval
<1>2. AtPoint(f, S) \in SUBSET Attempts
  BY DEF AtPoint
<1> QED
  BY <1>1, <1>2, FS_Subset, FS_CardinalityType

\* Moving one forwarder changes the count by whether it enters or leaves S.
LEMMA Recount ==
    ASSUME NEW f, NEW g, NEW S, NEW a \in Attempts,
           \A b \in Attempts : b # a => g[b] = f[b]
    PROVE  Cardinality(AtPoint(g, S)) = Cardinality(AtPoint(f, S)) + In(g[a], S) - In(f[a], S)
<1> DEFINE old == AtPoint(f, S)
           new == AtPoint(g, S)
<1> SUFFICES Cardinality(new) = Cardinality(old) + In(g[a], S) - In(f[a], S)
  OBVIOUS
<1>1. IsFiniteSet(old) /\ Cardinality(old) \in Nat
  BY CountIsNatural
<1>2. a \in old <=> f[a] \in S
  BY DEF AtPoint
<1>3. CASE g[a] \in S
  <2>1. new = old \cup {a}
    BY <1>3 DEF AtPoint
  <2>2. Cardinality(new) = IF a \in old THEN Cardinality(old) ELSE Cardinality(old) + 1
    BY <1>1, <2>1, FS_AddElement
  <2> HIDE DEF old, new
  <2> QED
    BY <1>1, <1>2, <1>3, <2>2 DEF In
<1>4. CASE g[a] \notin S
  <2>1. new = old \ {a}
    BY <1>4 DEF AtPoint
  <2>2. Cardinality(new) = IF a \in old THEN Cardinality(old) - 1 ELSE Cardinality(old)
    BY <1>1, <2>1, FS_RemoveElement
  <2> HIDE DEF old, new
  <2> QED
    BY <1>1, <1>2, <1>4, <2>2 DEF In
<1> QED
  BY <1>3, <1>4

LEMMA Accounting ==
    BuffersAreAccountedFor <=>
        bufs = Cardinality(AtPoint(up, UpHolding)) + Cardinality(AtPoint(down, DownHolding))
BY DEF BuffersAreAccountedFor, AtPoint, UpHolding, DownHolding

LEMMA InitIInv == Init => IInv
<1> SUFFICES ASSUME Init PROVE IInv
  OBVIOUS
<1> USE DEF Init
<1>1. TypeOK
  BY BoundsAssumption DEF TypeOK, MainPoints, ConnStates, Forwarder, ErrChanCap
<1>2. QueueFits /\ Unconnected /\ ErrorsHaveSenders
  BY DEF QueueFits, Unconnected, ErrorsHaveSenders, In
<1>3. OnlyCurrentIsHeld /\ ReportFollowsLoop /\ NotDialledYet
  BY DEF OnlyCurrentIsHeld, ReportFollowsLoop, Held, NotDialledYet
<1>4. BuffersAreAccountedFor
  <2>1. AtPoint(up, UpHolding) = {} /\ AtPoint(down, DownHolding) = {}
    BY DEF AtPoint, UpHolding, DownHolding
  <2>2. /\ Cardinality(AtPoint(up, UpHolding)) = 0
        /\ Cardinality(AtPoint(down, DownHolding)) = 0
    BY <2>1, FS_EmptySet
  <2> QED
    BY <2>2, Accounting
<1>5. StaleForwarderWastesOnePacket
  BY DEF StaleForwarderWastesOnePacket
<1> QED
  BY <1>1, <1>2, <1>3, <1>4, <1>5 DEF IInv

------------------------------------------------------------------------------
(***************************************************************************)
(* A step of one forwarder.                                                *)
(***************************************************************************)
UpMoves(a) ==
    /\ up[a] \notin {"none", "gone"} /\ up'[a] \in Forwarder \ {"none"}
    /\ up' = [up EXCEPT ![a] = up'[a]]
    /\ UpUnchanged
    /\ \/ up'[a] # "gone" /\ errChan' = errChan
       \/ /\ up'[a] = "gone" /\ errChan[a] < ErrChanCap
          /\ errChan' = [errChan EXCEPT ![a] = @ + 1]
    /\ bufs' = bufs + In(up'[a], UpHolding) - In(up[a], UpHolding)
    /\ \/ wasted' = wasted /\ (up[a] = "send" => up'[a] = "gone")
       \/ /\ up[a] # "send" /\ up'[a] = "send"
          /\ wasted' = [wasted EXCEPT ![a] = @ + 1]
    /\ arrived' \in 0 .. MaxPackets /\ queued' \in 0 .. MaxPackets /\ queued' <= arrived'
    /\ devOpen' \in BOOLEAN

LEMMA UpMoveKeeps == ASSUME IInv, NEW a \in Attempts, UpMoves(a) PROVE IInv'
<1> USE DEF UpMoves
<1>1. TypeOK /\ up \in [Attempts -> Forwarder] /\ errChan \in [Attempts -> 0 .. ErrChanCap]
      /\ wasted \in [Attempts -> Nat] /\ down \in [Attempts -> Forwarder]
  BY DEF IInv, TypeOK
<1>2. \A b \in Attempts : b # a => up'[b] = up[b]
  BY <1>1
<1>3. UNCHANGED <<main, attempt, conn, down, reported>>
  BY DEF UpUnchanged
<1>4. /\ \A b \in Attempts : b # a => errChan'[b] = errChan[b] /\ wasted'[b] = wasted[b]
      /\ errChan'[a] = errChan[a] + In(up'[a], {"gone"})
      /\ errChan' \in [Attempts -> 0 .. ErrChanCap]
  <2>1. \A b \in Attempts : b # a => wasted'[b] = wasted[b]
    BY <1>1
  <2>2. CASE up'[a] # "gone" /\ errChan' = errChan
    BY <1>1, <2>1, <2>2 DEF In, ErrChanCap
  <2>3. CASE /\ up'[a] = "gone" /\ errChan[a] < ErrChanCap
             /\ errChan' = [errChan EXCEPT ![a] = @ + 1]
    BY <1>1, <2>1, <2>3 DEF In, ErrChanCap
  <2> QED
    BY <2>2, <2>3
<1>5. BuffersAreAccountedFor'
  <2>1. Cardinality(AtPoint(up', UpHolding))
           = Cardinality(AtPoint(up, UpHolding))
             + In(up'[a], UpHolding) - In(up[a], UpHolding)
    BY <1>2, Recount
  <2>2. /\ Cardinality(AtPoint(up, UpHolding)) \in Nat
        /\ Cardinality(AtPoint(down, DownHolding)) \in Nat
    BY CountIsNatural
  <2>3. bufs = Cardinality(AtPoint(up, UpHolding)) + Cardinality(AtPoint(down, DownHolding))
    BY Accounting DEF IInv
  <2>4. bufs' = Cardinality(AtPoint(up', UpHolding)) + Cardinality(AtPoint(down', DownHolding))
    BY <1>3, <2>1, <2>2, <2>3 DEF In
  <2> QED
    BY <2>4 DEF BuffersAreAccountedFor, AtPoint, UpHolding, DownHolding
<1>6. bufs' \in Nat
  <2>1. /\ Cardinality(AtPoint(up', UpHolding)) \in Nat
        /\ Cardinality(AtPoint(down', DownHolding)) \in Nat
    BY CountIsNatural
  <2> QED
    BY <1>5, <2>1 DEF BuffersAreAccountedFor, AtPoint, UpHolding, DownHolding
<1>7. wasted[a] \in Nat /\ wasted[a] <= 1 /\ (wasted[a] = 1 => up[a] \in {"send", "gone"})
  BY <1>1 DEF IInv, StaleForwarderWastesOnePacket
<1>8. /\ wasted' \in [Attempts -> Nat]
      /\ wasted'[a] <= 1 /\ (wasted'[a] = 1 => up'[a] \in {"send", "gone"})
  <2>1. CASE wasted' = wasted /\ (up[a] = "send" => up'[a] = "gone")
    BY <1>1, <1>7, <2>1
  <2>2. CASE up[a] # "send" /\ up'[a] = "send" /\ wasted' = [wasted EXCEPT ![a] = @ + 1]
    BY <1>1, <1>7, <2>2
  <2> QED
    BY <2>1, <2>2
<1>9. TypeOK'
  BY <1>1, <1>3, <1>4, <1>6, <1>8 DEF TypeOK
<1>10. Unconnected'
  <2>1. a <= attempt /\ ~(a = attempt /\ main = "dial")
    BY <1>1 DEF IInv, Unconnected, TypeOK
  <2> QED
    BY <1>1, <1>2, <1>3, <1>4, <2>1 DEF IInv, Unconnected, TypeOK
<1>11. ErrorsHaveSenders'
  <2>1. errChan'[a] <= In(up'[a], {"gone"}) + In(down'[a], {"gone"})
    BY <1>1, <1>2, <1>3, <1>4 DEF IInv, ErrorsHaveSenders, In
  <2>2. \A b \in Attempts : b # a =>
            errChan'[b] <= In(up'[b], {"gone"}) + In(down'[b], {"gone"})
    BY <1>2, <1>3, <1>4 DEF IInv, ErrorsHaveSenders
  <2> QED
    BY <2>1, <2>2 DEF ErrorsHaveSenders
<1>12. OnlyCurrentIsHeld' /\ ReportFollowsLoop' /\ NotDialledYet'
  BY <1>3 DEF IInv, OnlyCurrentIsHeld, ReportFollowsLoop, Held, NotDialledYet
<1>13. StaleForwarderWastesOnePacket'
  BY <1>2, <1>4, <1>8 DEF IInv, StaleForwarderWastesOnePacket
<1> QED
  BY <1>5, <1>9, <1>10, <1>11, <1>12, <1>13 DEF IInv, QueueFits

DownMoves(a) ==
    /\ down[a] \notin {"none", "gone"} /\ down'[a] \in Forwarder \ {"none"}
    /\ down' = [down EXCEPT ![a] = down'[a]]
    /\ DownUnchanged
    /\ \/ down'[a] # "gone" /\ errChan' = errChan
       \/ /\ down'[a] = "gone" /\ errChan[a] < ErrChanCap
          /\ errChan' = [errChan EXCEPT ![a] = @ + 1]
    /\ bufs' = bufs + In(down'[a], DownHolding) - In(down[a], DownHolding)

LEMMA DownMoveKeeps == ASSUME IInv, NEW a \in Attempts, DownMoves(a) PROVE IInv'
<1> USE DEF DownMoves
<1>1. TypeOK /\ up \in [Attempts -> Forwarder] /\ errChan \in [Attempts -> 0 .. ErrChanCap]
      /\ down \in [Attempts -> Forwarder]
  BY DEF IInv, TypeOK
<1>2. \A b \in Attempts : b # a => down'[b] = down[b]
  BY <1>1
<1>3. UNCHANGED <<main, attempt, conn, up, wasted, reported, arrived, queued, devOpen>>
  BY DEF DownUnchanged, device
<1>4. /\ \A b \in Attempts : b # a => errChan'[b] = errChan[b]
      /\ errChan'[a] = errChan[a] + In(down'[a], {"gone"})
      /\ errChan' \in [Attempts -> 0 .. ErrChanCap]
  <2>1. CASE down'[a] # "gone" /\ errChan' = errChan
    BY <1>1, <2>1 DEF In, ErrChanCap
  <2>2. CASE /\ down'[a] = "gone" /\ errChan[a] < ErrChanCap
             /\ errChan' = [errChan EXCEPT ![a] = @ + 1]
    BY <1>1, <2>2 DEF In, ErrChanCap
  <2> QED
    BY <2>1, <2>2
<1>5. BuffersAreAccountedFor'
  <2>1. Cardinality(AtPoint(down', DownHolding))
           = Cardinality(AtPoint(down, DownHolding))
             + In(down'[a], DownHolding) - In(down[a], DownHolding)
    BY <1>2, Recount
  <2>2. /\ Cardinality(AtPoint(up, UpHolding)) \in Nat
        /\ Cardinality(AtPoint(down, DownHolding)) \in Nat
    BY CountIsNatural
  <2>3. bufs = Cardinality(AtPoint(up, UpHolding)) + Cardinality(AtPoint(down, DownHolding))
    BY Accounting DEF IInv
  <2>4. bufs' = Cardinality(AtPoint(up', UpHolding)) + Cardinality(AtPoint(down', DownHolding))
    BY <1>3, <2>1, <2>2, <2>3 DEF In
  <2> QED
    BY <2>4 DEF BuffersAreAccountedFor, AtPoint, UpHolding, DownHolding
<1>6. bufs' \in Nat
  <2>1. /\ Cardinality(AtPoint(up', UpHolding)) \in Nat
        /\ Cardinality(AtPoint(down', DownHolding)) \in Nat
    BY CountIsNatural
  <2> QED
    BY <1>5, <2>1 DEF BuffersAreAccountedFor, AtPoint, UpHolding, DownHolding
<1>7. TypeOK'
  BY <1>1, <1>3, <1>4, <1>6 DEF TypeOK
<1>8. Unconnected'
  <2>1. a <= attempt /\ ~(a = attempt /\ main = "dial")
    BY <1>1 DEF IInv, Unconnected, TypeOK
  <2> QED
    BY <1>1, <1>2, <1>3, <2>1 DEF IInv, Unconnected, TypeOK
<1>9. ErrorsHaveSenders'
  <2>1. errChan'[a] <= In(up'[a], {"gone"}) + In(down'[a], {"gone"})
    BY <1>1, <1>2, <1>3, <1>4 DEF IInv, ErrorsHaveSenders, In
  <2>2. \A b \in Attempts : b # a =>
            errChan'[b] <= In(up'[b], {"gone"}) + In(down'[b], {"gone"})
    BY <1>2, <1>3, <1>4 DEF IInv, ErrorsHaveSenders
  <2> QED
    BY <2>1, <2>2 DEF ErrorsHaveSenders
<1>10. /\ OnlyCurrentIsHeld' /\ ReportFollowsLoop' /\ StaleForwarderWastesOnePacket'
       /\ NotDialledYet'
  BY <1>3 DEF IInv, OnlyCurrentIsHeld, ReportFollowsLoop, Held, NotDialledYet,
              StaleForwarderWastesOnePacket
<1> QED
  BY <1>3, <1>5, <1>7, <1>8, <1>9, <1>10 DEF IInv, QueueFits

LEMMA UpKeeps == ASSUME IInv, NEW a \in Attempts, Up(a) PROVE IInv'
<1>0. up \in [Attempts -> Forwarder]
  BY DEF IInv, TypeOK
<1>1. /\ bufs \in Nat /\ arrived \in 0 .. MaxPackets /\ queued \in 0 .. MaxPackets
      /\ queued <= arrived
  BY DEF IInv, TypeOK, QueueFits
<1>2. devOpen \in BOOLEAN
  BY DEF IInv, TypeOK
<1>3. CASE UpGet(a)
  <2>1. UpMoves(a)
    BY <1>0, <1>1, <1>2, <1>3 DEF UpMoves, UpGet, In, Forwarder, UpHolding, device
  <2> QED
    BY <2>1, UpMoveKeeps
<1>4. CASE UpRead(a)
  <2>1. /\ queued' \in 0 .. MaxPackets /\ arrived' \in 0 .. MaxPackets
        /\ queued' <= arrived' /\ devOpen' = devOpen
    BY <1>1, <1>4, BoundsAssumption DEF UpRead
  <2>2. devOpen' \in BOOLEAN
    BY <1>2, <2>1
  <2>3. bufs' = bufs + In(up'[a], UpHolding) - In(up[a], UpHolding)
    BY <1>0, <1>1, <1>4 DEF UpRead, In, UpHolding
  <2>4. UpMoves(a)
    BY <1>0, <1>4, <2>1, <2>2, <2>3 DEF UpMoves, UpRead, Forwarder
  <2> QED
    BY <2>4, UpMoveKeeps
<1>5. CASE UpReadFails(a)
  <2>1. UpMoves(a)
    BY <1>0, <1>1, <1>2, <1>5 DEF UpMoves, UpReadFails, In, Forwarder, UpHolding, device
  <2> QED
    BY <2>1, UpMoveKeeps
<1>6. CASE UpWritten(a)
  <2>1. UpMoves(a)
    BY <1>0, <1>1, <1>2, <1>6 DEF UpMoves, UpWritten, In, Forwarder, UpHolding, device
  <2> QED
    BY <2>1, UpMoveKeeps
<1>7. CASE UpWriteClosed(a)
  <2>1. UpMoves(a)
    BY <1>0, <1>1, <1>2, <1>7 DEF UpMoves, UpWriteClosed, In, Forwarder, UpHolding, device
  <2> QED
    BY <2>1, UpMoveKeeps
<1>8. CASE UpSend(a)
  <2>1. UpMoves(a)
    BY <1>0, <1>1, <1>2, <1>8 DEF UpMoves, UpSend, In, Forwarder, UpHolding, device
  <2> QED
    BY <2>1, UpMoveKeeps
<1> QED
  BY <1>3, <1>4, <1>5, <1>6, <1>7, <1>8 DEF Up

LEMMA DownKeeps == ASSUME IInv, NEW a \in Attempts, Down(a) PROVE IInv'
<1>0. down \in [Attempts -> Forwarder]
  BY DEF IInv, TypeOK
<1>1. bufs \in Nat
  BY DEF IInv, TypeOK
<1>2. CASE DownGet(a)
  <2>1. DownMoves(a)
    BY <1>0, <1>1, <1>2 DEF DownMoves, DownGet, In, Forwarder, DownHolding
  <2> QED
    BY <2>1, DownMoveKeeps
<1>3. CASE DownRead(a)
  <2>1. DownMoves(a)
    BY <1>0, <1>1, <1>3 DEF DownMoves, DownRead, In, Forwarder, DownHolding
  <2> QED
    BY <2>1, DownMoveKeeps
<1>4. CASE DownReadClosed(a)
  <2>1. DownMoves(a)
    BY <1>0, <1>1, <1>4 DEF DownMoves, DownReadClosed, In, Forwarder, DownHolding
  <2> QED
    BY <2>1, DownMoveKeeps
<1>5. CASE DownWritten(a)
  <2>1. DownMoves(a)
    BY <1>0, <1>1, <1>5 DEF DownMoves, DownWritten, In, Forwarder, DownHolding
  <2> QED
    BY <2>1, DownMoveKeeps
<1>6. CASE DownWriteFails(a)
  <2>1. DownMoves(a)
    BY <1>0, <1>1, <1>6 DEF DownMoves, DownWriteFails, In, Forwarder, DownHolding
  <2> QED
    BY <2>1, DownMoveKeeps
<1>7. CASE DownSend(a)
  <2>1. DownMoves(a)
    BY <1>0, <1>1, <1>7 DEF DownMoves, DownSend, In, Forwarder, DownHolding
  <2> QED
    BY <2>1, DownMoveKeeps
<1> QED
  BY <1>2, <1>3, <1>4, <1>5, <1>6, <1>7 DEF Down

------------------------------------------------------------------------------
(***************************************************************************)
(* Steps of the loop and of the world.                                     *)
(***************************************************************************)

\* Which parts a step can disturb follows from the forwarders and buffers it
\* leaves alone.
ForwardersUnchanged == UNCHANGED <<errChan, up, down, bufs, wasted>>

LEMMA ForwardersKept ==
    ASSUME IInv, ForwardersUnchanged
    PROVE  ErrorsHaveSenders' /\ BuffersAreAccountedFor' /\ StaleForwarderWastesOnePacket'
BY DEF IInv, ForwardersUnchanged, ErrorsHaveSenders, BuffersAreAccountedFor,
       StaleForwarderWastesOnePacket

LEMMA LoopKeeps == ASSUME IInv, Loop PROVE IInv'
<1>1. TypeOK
  BY DEF IInv
<1>2. attempt \in 0 .. MaxAttempts /\ conn \in [Attempts -> ConnStates]
      /\ (main \in {"dial", "wait", "lost", "refused"} => attempt \in Attempts)
  BY <1>1, BoundsAssumption DEF IInv, TypeOK, Unconnected
<1>0. QueueFits'
  BY DEF IInv, QueueFits, Loop, StartAttempt, DialFails, DialRefused, CloseRefused,
         DialSucceeds, ReceiveError, CloseConnection, WakeUp, device
<1>3. CASE StartAttempt
  <2>1. attempt' \in 0 .. MaxAttempts
    BY <1>2, <1>3, BoundsAssumption DEF StartAttempt
  <2>2. TypeOK'
    BY <1>1, <1>3, <2>1 DEF StartAttempt, TypeOK, MainPoints, device
  <2>3. Unconnected'
    BY <1>2, <1>3, BoundsAssumption DEF StartAttempt, IInv, Unconnected
  <2>4. OnlyCurrentIsHeld' /\ ReportFollowsLoop' /\ NotDialledYet'
    BY <1>2, <1>3, BoundsAssumption DEF StartAttempt, IInv, OnlyCurrentIsHeld, ReportFollowsLoop, Held,
             NotDialledYet
  <2>5. ForwardersUnchanged
    BY <1>3 DEF StartAttempt, ForwardersUnchanged
  <2> QED
    BY <1>0, <2>2, <2>3, <2>4, <2>5, ForwardersKept DEF IInv
<1>4. CASE DialFails
  <2>1. TypeOK' /\ Unconnected'
    BY <1>1, <1>2, <1>4
       DEF DialFails, IInv, TypeOK, MainPoints, ConnStates, device, Unconnected
  <2>2. OnlyCurrentIsHeld' /\ ReportFollowsLoop' /\ NotDialledYet'
    BY <1>2, <1>4 DEF DialFails, IInv, OnlyCurrentIsHeld, ReportFollowsLoop, Held,
             NotDialledYet
  <2>3. ForwardersUnchanged
    BY <1>4 DEF DialFails, ForwardersUnchanged
  <2> QED
    BY <1>0, <2>1, <2>2, <2>3, ForwardersKept DEF IInv
<1>5. CASE DialRefused
  <2>1. TypeOK' /\ Unconnected'
    BY <1>1, <1>2, <1>5
       DEF DialRefused, IInv, TypeOK, MainPoints, ConnStates, device, Unconnected
  <2>2. OnlyCurrentIsHeld' /\ ReportFollowsLoop' /\ NotDialledYet'
    BY <1>2, <1>5 DEF DialRefused, IInv, OnlyCurrentIsHeld, ReportFollowsLoop, Held,
             NotDialledYet
  <2>3. ForwardersUnchanged
    BY <1>5 DEF DialRefused, ForwardersUnchanged
  <2> QED
    BY <1>0, <2>1, <2>2, <2>3, ForwardersKept DEF IInv
<1>6. CASE CloseRefused
  <2>1. TypeOK' /\ Unconnected'
    BY <1>1, <1>2, <1>6
       DEF CloseRefused, IInv, TypeOK, MainPoints, ConnStates, device, Unconnected
  <2>2. OnlyCurrentIsHeld' /\ ReportFollowsLoop' /\ NotDialledYet'
    BY <1>2, <1>6 DEF CloseRefused, IInv, OnlyCurrentIsHeld, ReportFollowsLoop, Held,
             NotDialledYet
  <2>3. ForwardersUnchanged
    BY <1>6 DEF CloseRefused, ForwardersUnchanged
  <2> QED
    BY <1>0, <2>1, <2>2, <2>3, ForwardersKept DEF IInv
<1>7. CASE DialSucceeds
  <2>1. /\ main = "dial" /\ attempt \in Attempts
        /\ up[attempt] = "none" /\ down[attempt] = "none" /\ wasted[attempt] = 0
    BY <1>2, <1>7 DEF DialSucceeds, IInv, Unconnected
  <2>2. /\ up \in [Attempts -> Forwarder] /\ down \in [Attempts -> Forwarder]
        /\ up' = [up EXCEPT ![attempt] = "get"] /\ down' = [down EXCEPT ![attempt] = "get"]
        /\ UNCHANGED <<attempt, errChan, bufs, wasted, arrived, queued, devOpen>>
    BY <1>1, <1>7 DEF DialSucceeds, TypeOK, device
  <2>3. TypeOK'
    BY <1>1, <1>2, <1>7, <2>1, <2>2
       DEF DialSucceeds, TypeOK, MainPoints, ConnStates, Forwarder
  <2>4. Unconnected'
    BY <1>2, <1>7, <2>1, <2>2 DEF DialSucceeds, IInv, Unconnected
  <2>5. ErrorsHaveSenders'
    BY <2>1, <2>2 DEF IInv, ErrorsHaveSenders, In
  <2>6. OnlyCurrentIsHeld' /\ ReportFollowsLoop' /\ NotDialledYet'
    BY <1>2, <1>7, <2>1 DEF DialSucceeds, IInv, OnlyCurrentIsHeld, ReportFollowsLoop, Held,
             NotDialledYet
  <2>7. BuffersAreAccountedFor'
    <3>1. AtPoint(up', UpHolding) = AtPoint(up, UpHolding)
      BY <2>1, <2>2 DEF AtPoint, UpHolding
    <3>2. AtPoint(down', DownHolding) = AtPoint(down, DownHolding)
      BY <2>1, <2>2 DEF AtPoint, DownHolding
    <3>3. bufs' = Cardinality(AtPoint(up', UpHolding))
                  + Cardinality(AtPoint(down', DownHolding))
      BY <2>2, <3>1, <3>2, Accounting DEF IInv
    <3> QED
      BY <3>3 DEF BuffersAreAccountedFor, AtPoint, UpHolding, DownHolding
  <2>8. StaleForwarderWastesOnePacket'
    BY <2>1, <2>2 DEF IInv, StaleForwarderWastesOnePacket
  <2> QED
    BY <1>0, <2>3, <2>4, <2>5, <2>6, <2>7, <2>8 DEF IInv
<1>8. CASE ReceiveError
  <2>1. /\ main = "wait" /\ attempt \in Attempts /\ errChan[attempt] > 0
        /\ errChan' = [errChan EXCEPT ![attempt] = @ - 1]
        /\ errChan \in [Attempts -> 0 .. ErrChanCap]
        /\ UNCHANGED <<attempt, conn, up, down, bufs, wasted, arrived, queued, devOpen>>
    BY <1>1, <1>2, <1>8 DEF ReceiveError, TypeOK, device
  <2>2. errChan' \in [Attempts -> 0 .. ErrChanCap]
    BY <2>1 DEF ErrChanCap
  <2>3. TypeOK' /\ Unconnected'
    BY <1>1, <1>8, <2>1, <2>2 DEF ReceiveError, IInv, TypeOK, MainPoints, Unconnected
  <2>4. ErrorsHaveSenders'
    BY <2>1 DEF IInv, ErrorsHaveSenders, In, ErrChanCap
  <2>5. OnlyCurrentIsHeld' /\ ReportFollowsLoop' /\ NotDialledYet'
    BY <1>8, <2>1 DEF ReceiveError, IInv, OnlyCurrentIsHeld, ReportFollowsLoop, Held,
             NotDialledYet
  <2>6. BuffersAreAccountedFor' /\ StaleForwarderWastesOnePacket'
    BY <2>1 DEF IInv, BuffersAreAccountedFor, StaleForwarderWastesOnePacket
  <2> QED
    BY <1>0, <2>3, <2>4, <2>5, <2>6 DEF IInv
<1>9. CASE CloseConnection
  <2>1. TypeOK' /\ Unconnected'
    BY <1>1, <1>2, <1>9
       DEF CloseConnection, IInv, TypeOK, MainPoints, ConnStates, device, Unconnected
  <2>2. OnlyCurrentIsHeld' /\ ReportFollowsLoop' /\ NotDialledYet'
    BY <1>2, <1>9 DEF CloseConnection, IInv, OnlyCurrentIsHeld, ReportFollowsLoop, Held,
             NotDialledYet
  <2>3. ForwardersUnchanged
    BY <1>9 DEF CloseConnection, ForwardersUnchanged
  <2> QED
    BY <1>0, <2>1, <2>2, <2>3, ForwardersKept DEF IInv
<1>10. CASE WakeUp
  <2>1. TypeOK' /\ Unconnected'
    BY <1>1, <1>10 DEF WakeUp, IInv, TypeOK, MainPoints, device, Unconnected
  <2>2. OnlyCurrentIsHeld' /\ ReportFollowsLoop' /\ NotDialledYet'
    BY <1>10 DEF WakeUp, IInv, OnlyCurrentIsHeld, ReportFollowsLoop, Held,
             NotDialledYet
  <2>3. ForwardersUnchanged
    BY <1>10 DEF WakeUp, ForwardersUnchanged
  <2> QED
    BY <1>0, <2>1, <2>2, <2>3, ForwardersKept DEF IInv
<1> QED
  BY <1>3, <1>4, <1>5, <1>6, <1>7, <1>8, <1>9, <1>10 DEF Loop

LEMMA WorldKeeps == ASSUME IInv, World \/ UNCHANGED vars PROVE IInv'
<1>1. /\ TypeOK /\ QueueFits /\ arrived \in 0 .. MaxPackets /\ queued \in 0 .. MaxPackets
      /\ conn \in [Attempts -> ConnStates]
  BY DEF IInv, TypeOK
<1>2. ForwardersUnchanged /\ UNCHANGED <<main, attempt, reported>>
  BY DEF World, PacketArrives, PeerCloses, DeviceFails, vars, device, ForwardersUnchanged
<1>3. Unconnected' /\ ReportFollowsLoop'
  BY <1>2 DEF IInv, Unconnected, ReportFollowsLoop, ForwardersUnchanged
<1>4. ErrorsHaveSenders' /\ BuffersAreAccountedFor' /\ StaleForwarderWastesOnePacket'
  BY <1>2, ForwardersKept
<1>5. CASE PacketArrives
  <2>1. /\ arrived' \in 0 .. MaxPackets /\ queued' \in 0 .. MaxPackets /\ queued' <= arrived'
        /\ UNCHANGED <<conn, devOpen>>
    BY <1>1, <1>5, BoundsAssumption DEF PacketArrives, QueueFits
  <2>2. TypeOK' /\ QueueFits'
    BY <1>1, <1>2, <2>1 DEF TypeOK, QueueFits, ForwardersUnchanged
  <2>3. OnlyCurrentIsHeld' /\ NotDialledYet'
    BY <1>2, <2>1 DEF IInv, OnlyCurrentIsHeld, Held, NotDialledYet
  <2> QED
    BY <1>3, <1>4, <2>2, <2>3 DEF IInv
<1>6. ASSUME NEW a \in Attempts, PeerCloses(a) PROVE IInv'
  <2>1. /\ conn[a] = "open" /\ conn' = [conn EXCEPT ![a] = "broken"]
        /\ UNCHANGED <<arrived, queued, devOpen>>
    BY <1>6 DEF PeerCloses, device
  <2>2. TypeOK' /\ QueueFits'
    BY <1>1, <1>2, <2>1 DEF TypeOK, QueueFits, ForwardersUnchanged, ConnStates
  <2>3. OnlyCurrentIsHeld' /\ NotDialledYet'
    BY <1>1, <1>2, <2>1 DEF IInv, OnlyCurrentIsHeld, Held, NotDialledYet
  <2> QED
    BY <1>3, <1>4, <2>2, <2>3 DEF IInv
<1>7. CASE DeviceFails \/ UNCHANGED vars
  <2>1. UNCHANGED <<conn, arrived, queued>> /\ (devOpen' = FALSE \/ devOpen' = devOpen)
    BY <1>7 DEF DeviceFails, vars, device
  <2>2. devOpen' \in BOOLEAN
    BY <1>1, <2>1 DEF TypeOK
  <2>3. TypeOK' /\ QueueFits'
    BY <1>1, <1>2, <2>1, <2>2 DEF TypeOK, QueueFits, ForwardersUnchanged
  <2>4. OnlyCurrentIsHeld' /\ NotDialledYet'
    BY <1>2, <2>1 DEF IInv, OnlyCurrentIsHeld, Held, NotDialledYet
  <2> QED
    BY <1>3, <1>4, <2>3, <2>4 DEF IInv
<1> QED
  BY <1>5, <1>6, <1>7 DEF World

LEMMA StepIInv == IInv /\ [Next]_vars => IInv'
<1> SUFFICES ASSUME IInv, [Next]_vars PROVE IInv'
  OBVIOUS
<1>1. CASE Loop
  BY <1>1, LoopKeeps
<1>2. CASE World \/ UNCHANGED vars
  BY <1>2, WorldKeeps
<1>3. ASSUME NEW a \in Attempts, Up(a) \/ Down(a) PROVE IInv'
  BY <1>3, UpKeeps, DownKeeps
<1> QED
  BY <1>1, <1>2, <1>3 DEF Next

\* The loop, its forwarders, connections and buffers keep to the invariant.
THEOREM Invariant == Spec => []IInv
<1>1. Init => IInv
  BY InitIInv
<1>2. IInv /\ [Next]_vars => IInv'
  BY StepIInv
<1> QED
  BY <1>1, <1>2, PTL DEF Spec

------------------------------------------------------------------------------
(***************************************************************************)
(* The invariants the run checks.                                          *)
(***************************************************************************)

\* Type correctness of the loop, its forwarders, channels and buffers.
THEOREM TypeCorrect == Spec => []TypeOK
<1>1. IInv => TypeOK
  BY DEF IInv
<1> QED
  BY <1>1, Invariant, PTL

\* MaintainTunnel's errChan of capacity 2: a forwarder of a connection the loop
\* has given up never blocks on it, so none is left behind for that reason.
THEOREM NoForwarderBlocks == Spec => []EndingForwarderNeverBlocks
<1>1. IInv => EndingForwarderNeverBlocks
  <2> SUFFICES ASSUME IInv, NEW a \in Attempts, "send" \in {up[a], down[a]}
               PROVE  errChan[a] < ErrChanCap
    BY DEF EndingForwarderNeverBlocks
  <2>1. errChan[a] \in 0 .. ErrChanCap
    BY DEF IInv, TypeOK
  <2>2. errChan[a] <= In(up[a], {"gone"}) + In(down[a], {"gone"})
    BY DEF IInv, ErrorsHaveSenders
  <2> QED
    BY <2>1, <2>2 DEF In, ErrChanCap
<1> QED
  BY <1>1, Invariant, PTL

\* NetBuffer's Get and Put pair up on every path of both forwarders.
THEOREM BuffersAccounted == Spec => []BuffersAreAccountedFor
<1>1. IInv => BuffersAreAccountedFor
  BY DEF IInv
<1> QED
  BY <1>1, Invariant, PTL

\* A forwarder that outlives its connection takes at most one packet with it.
THEOREM StaleForwarderBounded == Spec => []StaleForwarderWastesOnePacket
<1>1. IInv => StaleForwarderWastesOnePacket
  BY DEF IInv
<1> QED
  BY <1>1, Invariant, PTL

------------------------------------------------------------------------------
(***************************************************************************)
(* The refinement of TunnelContract.                                       *)
(***************************************************************************)
AnyHeld == \E a \in Attempts : Held(a)

HeldFollowsLoop == AnyHeld <=> main \in {"wait", "lost", "refused"}

LeftBehind == Cardinality({a \in Attempts : conn[a] = "left"})

LEMMA HeldLemma == IInv => HeldFollowsLoop
<1> SUFFICES ASSUME IInv PROVE HeldFollowsLoop
  OBVIOUS
<1>1. main \in {"wait", "lost", "refused"} => attempt \in Attempts
  BY BoundsAssumption DEF IInv, TypeOK, Unconnected
<1> QED
  BY <1>1 DEF IInv, OnlyCurrentIsHeld, HeldFollowsLoop, AnyHeld

\* A connection that is neither left behind before nor after a step does not
\* change the count; one that a failed attempt leaves adds one to it.
LEMMA LeftCount ==
    ASSUME NEW a \in Attempts, conn[a] # "left",
           \A b \in Attempts : b # a => conn'[b] = conn[b]
    PROVE  /\ conn'[a] # "left" => LeftBehind' = LeftBehind
           /\ conn'[a] = "left" => LeftBehind' = LeftBehind + 1
<1>1. LeftBehind = Cardinality(AtPoint(conn, {"left"}))
      /\ LeftBehind' = Cardinality(AtPoint(conn', {"left"}))
  BY DEF LeftBehind, AtPoint
<1>2. Cardinality(AtPoint(conn, {"left"})) \in Nat
  BY CountIsNatural
<1>3. Cardinality(AtPoint(conn', {"left"}))
        = Cardinality(AtPoint(conn, {"left"})) + In(conn'[a], {"left"}) - In(conn[a], {"left"})
  BY Recount
<1> QED
  BY <1>1, <1>2, <1>3 DEF In

LEMMA ContractStep ==
    ASSUME IInv, HeldFollowsLoop, HeldFollowsLoop', [Next]_vars
    PROVE  [Contract!Next]_(Contract!cvars)
<1>1. /\ AnyHeld <=> main \in {"wait", "lost", "refused"}
      /\ AnyHeld' <=> main' \in {"wait", "lost", "refused"}
  BY DEF HeldFollowsLoop
<1>2. AnyHeld \in BOOLEAN /\ AnyHeld' \in BOOLEAN
  BY DEF AnyHeld
<1>3. ReportFollowsLoop /\ NotDialledYet /\ OnlyCurrentIsHeld
  BY DEF IInv
<1>4. /\ attempt \in 0 .. MaxAttempts /\ conn \in [Attempts -> ConnStates]
      /\ main \in {"dial", "wait", "lost", "refused"} => attempt \in Attempts
  BY BoundsAssumption DEF IInv, TypeOK, Unconnected
<1>5. main \in {"wait", "lost", "refused"} => Held(attempt)
  BY <1>3, <1>4 DEF OnlyCurrentIsHeld
<1>6. CASE StartAttempt
  <2>1. reported \in {"none", "error", "disconnected"} /\ reported' = "connecting"
    BY <1>3, <1>6 DEF StartAttempt, ReportFollowsLoop
  <2>2. ~AnyHeld /\ ~AnyHeld'
    BY <1>1, <1>6 DEF StartAttempt
  <2>3. LeftBehind' = LeftBehind
    BY <1>6 DEF StartAttempt, LeftBehind
  <2> QED
    BY <2>1, <2>2, <2>3 DEF Contract!Next, Contract!Attempt, AnyHeld, LeftBehind
<1>7. CASE DialFails
  <2>1. reported = "connecting" /\ reported' = "error"
    BY <1>3, <1>7 DEF DialFails, ReportFollowsLoop
  <2>2. ~AnyHeld'
    BY <1>1, <1>7 DEF DialFails
  <2>3. /\ attempt \in Attempts /\ conn[attempt] = "none"
        /\ \A b \in Attempts : b # attempt => conn'[b] = conn[b]
    BY <1>3, <1>4, <1>7 DEF DialFails, NotDialledYet
  <2>4. LeftBehind' \in {LeftBehind, LeftBehind + 1}
    BY <2>3, LeftCount
  <2> QED
    BY <2>1, <2>2, <2>4 DEF Contract!Next, Contract!Fail, AnyHeld, LeftBehind
<1>8. CASE DialRefused
  <2>1. reported = "connecting" /\ reported' = "error"
    BY <1>3, <1>8 DEF DialRefused, ReportFollowsLoop
  <2>2. AnyHeld'
    BY <1>1, <1>8 DEF DialRefused
  <2>3. /\ attempt \in Attempts /\ conn[attempt] = "none" /\ conn'[attempt] = "open"
        /\ \A b \in Attempts : b # attempt => conn'[b] = conn[b]
    BY <1>3, <1>4, <1>8 DEF DialRefused, NotDialledYet
  <2>4. LeftBehind' = LeftBehind
    BY <2>3, LeftCount
  <2> QED
    BY <2>1, <2>2, <2>4 DEF Contract!Next, Contract!Refuse, AnyHeld, LeftBehind
<1>9. CASE DialSucceeds
  <2>1. reported = "connecting" /\ reported' = "connected"
    BY <1>3, <1>9 DEF DialSucceeds, ReportFollowsLoop
  <2>2. AnyHeld'
    BY <1>1, <1>9 DEF DialSucceeds
  <2>3. /\ attempt \in Attempts /\ conn[attempt] = "none" /\ conn'[attempt] = "open"
        /\ \A b \in Attempts : b # attempt => conn'[b] = conn[b]
    BY <1>3, <1>4, <1>9 DEF DialSucceeds, NotDialledYet
  <2>4. LeftBehind' = LeftBehind
    BY <2>3, LeftCount
  <2> QED
    BY <2>1, <2>2, <2>4 DEF Contract!Next, Contract!Establish, AnyHeld, LeftBehind
<1>10. CASE ReceiveError
  <2>1. reported = "connected" /\ reported' = "disconnected"
    BY <1>3, <1>10 DEF ReceiveError, ReportFollowsLoop
  <2>2. AnyHeld /\ AnyHeld'
    BY <1>1, <1>10 DEF ReceiveError
  <2>3. LeftBehind' = LeftBehind
    BY <1>10 DEF ReceiveError, LeftBehind
  <2> QED
    BY <2>1, <2>2, <2>3 DEF Contract!Next, Contract!Lose, AnyHeld, LeftBehind
<1>11. CASE CloseConnection \/ CloseRefused
  <2>1. reported \in {"error", "disconnected"} /\ reported' = reported
    BY <1>3, <1>11 DEF CloseConnection, CloseRefused, ReportFollowsLoop
  <2>2. AnyHeld /\ ~AnyHeld'
    BY <1>1, <1>11 DEF CloseConnection, CloseRefused
  <2>3. main \in {"lost", "refused"}
    BY <1>11 DEF CloseConnection, CloseRefused
  <2>4. attempt \in Attempts /\ conn[attempt] # "left"
    BY <1>4, <1>5, <2>3 DEF Held
  <2>5. /\ conn'[attempt] = "closed"
        /\ \A b \in Attempts : b # attempt => conn'[b] = conn[b]
    BY <1>4, <1>11, <2>4 DEF CloseConnection, CloseRefused
  <2>6. LeftBehind' = LeftBehind
    BY <2>4, <2>5, LeftCount
  <2> QED
    BY <2>1, <2>2, <2>6 DEF Contract!Next, Contract!Release, AnyHeld, LeftBehind
<1>12. ASSUME UNCHANGED <<main, reported>>, LeftBehind' = LeftBehind
       PROVE  UNCHANGED Contract!cvars
  <2>1. AnyHeld' <=> AnyHeld
    BY <1>1, <1>12
  <2> QED
    BY <1>12, <2>1 DEF Contract!cvars, AnyHeld, LeftBehind
<1>13. CASE WakeUp
  <2>1. ~AnyHeld /\ ~AnyHeld' /\ reported' = reported
    BY <1>1, <1>13 DEF WakeUp
  <2>2. LeftBehind' = LeftBehind
    BY <1>13 DEF WakeUp, LeftBehind
  <2> QED
    BY <2>1, <2>2 DEF Contract!cvars, AnyHeld, LeftBehind
<1>14. ASSUME NEW a \in Attempts, Up(a) \/ Down(a) PROVE UNCHANGED <<main, reported, conn>>
  BY <1>14 DEF Up, UpGet, UpRead, UpReadFails, UpWritten, UpWriteClosed, UpSend, UpUnchanged,
               Down, DownGet, DownRead, DownReadClosed, DownWritten, DownWriteFails,
               DownSend, DownUnchanged
<1>15. CASE PacketArrives \/ DeviceFails \/ UNCHANGED vars
  <2>1. UNCHANGED <<main, reported, conn>>
    BY <1>15 DEF PacketArrives, DeviceFails, vars
  <2> QED
    BY <1>12, <2>1 DEF LeftBehind
<1>16. ASSUME NEW a \in Attempts, PeerCloses(a) PROVE UNCHANGED Contract!cvars
  <2>1. UNCHANGED <<main, reported>> /\ conn[a] = "open"
    BY <1>16 DEF PeerCloses
  <2>2. conn'[a] = "broken" /\ \A b \in Attempts : b # a => conn'[b] = conn[b]
    BY <1>4, <1>16 DEF PeerCloses
  <2>3. LeftBehind' = LeftBehind
    BY <2>1, <2>2, LeftCount
  <2> QED
    BY <1>12, <2>1, <2>3
<1>17. ASSUME NEW a \in Attempts, Up(a) \/ Down(a) PROVE UNCHANGED Contract!cvars
  BY <1>12, <1>14, <1>17 DEF LeftBehind
<1> QED
  BY <1>6, <1>7, <1>8, <1>9, <1>10, <1>11, <1>13, <1>15, <1>16, <1>17 DEF Next, Loop, World

\* What MaintainTunnel does with its connections: its reports come in the
\* documented order, one connection is held at a time, from the success or the
\* refusal of its attempt to the close that follows the report of its end, and
\* what it never closes is at most a socket for each attempt that failed.
THEOREM ContractKept == Spec => KeepsContract
<1>1. Init => Contract!Init
  <2> SUFFICES ASSUME Init PROVE Contract!Init
    OBVIOUS
  <2>1. {a \in Attempts : conn[a] = "left"} = {}
    BY DEF Init
  <2>2. Cardinality({a \in Attempts : conn[a] = "left"}) = 0
    BY <2>1, FS_EmptySet
  <2> QED
    BY <2>2 DEF Init, Contract!Init, Held
<1>2. IInv /\ HeldFollowsLoop /\ HeldFollowsLoop' /\ [Next]_vars
        => [Contract!Next]_(Contract!cvars)
  BY ContractStep
<1>3. IInv => HeldFollowsLoop
  BY HeldLemma
<1> QED
  BY <1>1, <1>2, <1>3, Invariant, PTL DEF Spec, KeepsContract, Contract!Spec

------------------------------------------------------------------------------
(***************************************************************************)
(* The loop of the WireGuard tunnel.                                       *)
(***************************************************************************)

\* How long ago the timer was armed.
Waited == Tick - timer

\* The two bounds at any moment, not only when the timer fires: a peer that is
\* believed connected was fresh at the last poll, and one that has answered
\* without being noticed did so after it.
FreshSinceLastPoll ==
    /\ at = "poll" => timer = 0
    /\ plain /\ wgState = "connected" =>
          peerAge <= StaleAfter + Waited /\ lastHandshake # Never
    /\ plain /\ wgState = "connecting" =>
          lastHandshake = Never /\ (peerAge # Never => peerAge <= Waited)

WatchInv == WatchTypeOK /\ FreshSinceLastPoll

\* An age grows by at most one and never becomes "no handshake yet".
LEMMA OlderFacts ==
    ASSUME NEW age \in Ages
    PROVE  /\ Older(age) \in Ages
           /\ Older(age) <= age + 1
           /\ Older(age) = Never <=> age = Never
BY TimesAssumption DEF Older, Ages, Never, TooOld

\* What a poll leaves behind.
LEMMA JudgeFacts ==
    ASSUME NEW age \in Ages, WatchTypeOK, Judge(age)
    PROVE  /\ wgState' \in {"connecting", "connected"} /\ wgReported' \in Reports
           /\ wgState = "connecting" /\ age # Never =>
                 wgState' = "connected" /\ wgReported' = "connected"
           /\ wgState = "connecting" /\ age = Never => UNCHANGED <<wgState, wgReported>>
           /\ wgState = "connected" /\ age # Never /\ age > StaleAfter =>
                 wgState' = "connecting" /\ wgReported' = "stale"
           /\ wgState = "connected" /\ ~(age # Never /\ age > StaleAfter) =>
                 UNCHANGED <<wgState, wgReported>>
<1>1. CASE wgState = "connecting" /\ age # Never
  BY <1>1 DEF Judge, Reports
<1>2. CASE wgState = "connected" /\ age # Never /\ age > StaleAfter
  BY <1>2 DEF Judge, Reports
<1>3. CASE /\ ~(wgState = "connecting" /\ age # Never)
           /\ ~(wgState = "connected" /\ age # Never /\ age > StaleAfter)
  BY <1>3 DEF Judge, WatchTypeOK
<1> QED
  BY <1>1, <1>2, <1>3 DEF WatchTypeOK

LEMMA WatchStarts == WatchInit => WatchInv
<1> SUFFICES ASSUME WatchInit PROVE WatchInv
  OBVIOUS
<1>1. Never \in Ages /\ Tick \in 0 .. Tick
  BY TimesAssumption DEF Ages, Never, TooOld
<1>2. WatchTypeOK
  BY <1>1 DEF WatchInit, WatchTypeOK, Reports
<1>3. FreshSinceLastPoll
  BY DEF WatchInit, FreshSinceLastPoll
<1> QED
  BY <1>2, <1>3 DEF WatchInv

LEMMA PollAnswersKeeps == ASSUME WatchInv, PollAnswers PROVE WatchInv'
<1>1. /\ at = "poll" /\ at' = "select" /\ timer' = Tick
      /\ lastHandshake' = IF peerAge # Never THEN peerAge ELSE lastHandshake
      /\ Judge(lastHandshake')
      /\ plain' = (plain /\ wgReported' # "stale")
      /\ peerAge' = peerAge /\ cancelled' = cancelled
  BY DEF PollAnswers
<1>2. WatchTypeOK /\ FreshSinceLastPoll /\ timer = 0
  BY <1>1 DEF WatchInv, FreshSinceLastPoll
<1>3. peerAge \in Ages /\ lastHandshake \in Ages /\ lastHandshake' \in Ages
  BY <1>1, <1>2 DEF WatchTypeOK
<1>4. /\ wgState' \in {"connecting", "connected"} /\ wgReported' \in Reports
      /\ wgState = "connecting" /\ lastHandshake' # Never =>
            wgState' = "connected" /\ wgReported' = "connected"
      /\ wgState = "connecting" /\ lastHandshake' = Never => UNCHANGED <<wgState, wgReported>>
      /\ wgState = "connected" /\ lastHandshake' # Never /\ lastHandshake' > StaleAfter =>
            wgState' = "connecting" /\ wgReported' = "stale"
      /\ wgState = "connected" /\ ~(lastHandshake' # Never /\ lastHandshake' > StaleAfter) =>
            UNCHANGED <<wgState, wgReported>>
  BY <1>1, <1>2, <1>3, JudgeFacts
<1>5. plain' \in BOOLEAN
  BY <1>1
<1>6. WatchTypeOK'
  BY <1>1, <1>2, <1>3, <1>4, <1>5, TimesAssumption DEF WatchTypeOK
<1>7. Waited = Tick /\ Waited' = 0
  BY <1>1, <1>2, TimesAssumption DEF Waited
<1>8. plain' => plain /\ wgReported' # "stale"
  BY <1>1
<1>9. ASSUME plain' PROVE FreshSinceLastPoll'
  <2>1. CASE wgState = "connecting"
    <3>1. lastHandshake = Never /\ (peerAge # Never => peerAge <= Tick)
      BY <1>2, <1>7, <1>8, <1>9, <2>1 DEF FreshSinceLastPoll
    <3>2. CASE peerAge = Never
      BY <1>1, <1>4, <2>1, <3>1, <3>2 DEF FreshSinceLastPoll
    <3>3. CASE peerAge # Never
      <4>1. lastHandshake' = peerAge /\ wgState' = "connected" /\ peerAge <= StaleAfter
        BY <1>1, <1>3, <1>4, <2>1, <3>1, <3>3, TimesAssumption DEF Ages, Never, TooOld
      <4> QED
        BY <1>1, <1>3, <1>7, <3>3, <4>1, TimesAssumption DEF FreshSinceLastPoll, Ages
    <3> QED
      BY <3>2, <3>3
  <2>2. CASE wgState = "connected"
    <3>1. peerAge <= StaleAfter + Tick /\ lastHandshake # Never
      BY <1>2, <1>7, <1>8, <1>9, <2>2 DEF FreshSinceLastPoll
    <3>2. peerAge # Never /\ lastHandshake' = peerAge
      BY <1>1, <1>3, <3>1, TimesAssumption DEF Ages, Never, TooOld
    <3>3. peerAge <= StaleAfter /\ wgState' = "connected"
      BY <1>3, <1>4, <1>8, <1>9, <2>2, <3>2, TimesAssumption DEF Ages, Never, TooOld
    <3> QED
      BY <1>1, <1>3, <1>7, <3>2, <3>3, TimesAssumption DEF FreshSinceLastPoll, Ages
  <2> QED
    BY <1>2, <2>1, <2>2 DEF WatchTypeOK
<1>10. ASSUME ~plain' PROVE FreshSinceLastPoll'
  BY <1>1, <1>10 DEF FreshSinceLastPoll
<1> QED
  BY <1>6, <1>9, <1>10 DEF WatchInv

LEMMA TimePassesKeeps == ASSUME WatchInv, TimePasses PROVE WatchInv'
<1>1. /\ at = "select" /\ timer > 0 /\ timer' = timer - 1
      /\ peerAge' = Older(peerAge) /\ lastHandshake' = Older(lastHandshake)
      /\ UNCHANGED <<at, wgState, cancelled, wgReported, plain>>
  BY DEF TimePasses
<1>2. WatchTypeOK /\ FreshSinceLastPoll /\ timer \in 0 .. Tick /\ peerAge \in Ages
      /\ lastHandshake \in Ages
  BY DEF WatchInv, WatchTypeOK
<1>3. /\ peerAge' \in Ages /\ peerAge' <= peerAge + 1 /\ (peerAge' = Never <=> peerAge = Never)
      /\ lastHandshake' \in Ages /\ (lastHandshake' = Never <=> lastHandshake = Never)
  BY <1>1, <1>2, OlderFacts
<1>4. timer' \in 0 .. Tick
  BY <1>1, <1>2, TimesAssumption
<1>5. WatchTypeOK'
  BY <1>1, <1>2, <1>3, <1>4 DEF WatchTypeOK
<1>6. Waited \in Nat /\ Waited' = Waited + 1
  BY <1>1, <1>2, TimesAssumption DEF Waited
<1>7. peerAge \in Nat /\ peerAge' \in Nat
  BY <1>2, <1>3, TimesAssumption DEF Ages, Never, TooOld
<1>8. FreshSinceLastPoll'
  BY <1>1, <1>2, <1>3, <1>6, <1>7, TimesAssumption DEF FreshSinceLastPoll
<1> QED
  BY <1>5, <1>8 DEF WatchInv

LEMMA WatchStep == WatchInv /\ [WatchNext]_watchVars => WatchInv'
<1> SUFFICES ASSUME WatchInv, [WatchNext]_watchVars PROVE WatchInv'
  OBVIOUS
<1>1. WatchTypeOK /\ FreshSinceLastPoll /\ Tick \in Nat /\ StaleAfter \in Nat
  BY TimesAssumption DEF WatchInv
<1>2. CASE TimePasses
  BY <1>2, TimePassesKeeps
<1>3. CASE Handshake
  BY <1>1, <1>3, TimesAssumption
     DEF WatchInv, Handshake, WatchTypeOK, FreshSinceLastPoll, Waited, Ages, Never, TooOld
<1>4. CASE Cancel
  BY <1>1, <1>4 DEF WatchInv, Cancel, WatchTypeOK, FreshSinceLastPoll, Waited
<1>5. CASE SelectDone
  BY <1>1, <1>5 DEF WatchInv, SelectDone, WatchTypeOK, FreshSinceLastPoll, Waited
<1>6. CASE SelectTick
  BY <1>1, <1>6 DEF WatchInv, SelectTick, WatchTypeOK, FreshSinceLastPoll, Waited
<1>7. CASE PollFails
  <2>1. WatchTypeOK'
    <3>1. timer' \in 0 .. Tick /\ wgReported' \in Reports /\ at' \in {"select", "returned"}
      BY <1>1, <1>7 DEF PollFails, WatchTypeOK, Reports
    <3>2. plain' \in BOOLEAN /\ UNCHANGED <<peerAge, lastHandshake, wgState, cancelled>>
      BY <1>7 DEF PollFails
    <3> QED
      BY <1>1, <3>1, <3>2 DEF WatchTypeOK
  <2>2. FreshSinceLastPoll'
    BY <1>1, <1>7 DEF PollFails, FreshSinceLastPoll
  <2> QED
    BY <2>1, <2>2 DEF WatchInv
<1>8. CASE PollFindsNoPeer
  <2>1. WatchTypeOK'
    <3>1. timer' \in 0 .. Tick /\ at' = "select"
      BY <1>1, <1>8 DEF PollFindsNoPeer
    <3>2. /\ plain' \in BOOLEAN
          /\ UNCHANGED <<peerAge, lastHandshake, wgState, cancelled, wgReported>>
      BY <1>8 DEF PollFindsNoPeer
    <3> QED
      BY <1>1, <3>1, <3>2 DEF WatchTypeOK
  <2>2. FreshSinceLastPoll'
    BY <1>1, <1>8 DEF PollFindsNoPeer, FreshSinceLastPoll
  <2> QED
    BY <2>1, <2>2 DEF WatchInv
<1>9. CASE PollAnswers
  BY <1>9, PollAnswersKeeps
<1>10. CASE UNCHANGED watchVars
  BY <1>1, <1>10 DEF WatchInv, watchVars, WatchTypeOK, FreshSinceLastPoll, Waited
<1> QED
  BY <1>2, <1>3, <1>4, <1>5, <1>6, <1>7, <1>8, <1>9, <1>10 DEF WatchNext, WatchLoop

\* The stored state agrees with the handshake's age at the last poll.
THEOREM WatchInvariant == WatchSpec => []WatchInv
<1>1. WatchInit => WatchInv
  BY WatchStarts
<1>2. WatchInv /\ [WatchNext]_watchVars => WatchInv'
  BY WatchStep
<1> QED
  BY <1>1, <1>2, PTL DEF WatchSpec

\* Type correctness of the watchdog and its clocks.
THEOREM WatchTypeCorrect == WatchSpec => []WatchTypeOK
<1>1. WatchInv => WatchTypeOK
  BY DEF WatchInv
<1> QED
  BY <1>1, WatchInvariant, PTL

\* wgWatchHandshakes, the connected case: until the first stale report, a peer
\* is believed connected for at most one tick beyond StaleAfter.
THEOREM StaleNoticed == WatchSpec => []StaleNoticedWithinTick
<1>1. WatchInv => StaleNoticedWithinTick
  <2> SUFFICES ASSUME WatchInv, plain, wgState = "connected"
               PROVE  peerAge <= StaleAfter + Tick
    BY DEF StaleNoticedWithinTick
  <2>1. /\ peerAge \in Ages /\ timer \in 0 .. Tick
        /\ peerAge <= StaleAfter + (Tick - timer)
    BY DEF WatchInv, WatchTypeOK, FreshSinceLastPoll, Waited
  <2> QED
    BY <2>1, TimesAssumption DEF Ages, Never, TooOld
<1> QED
  BY <1>1, WatchInvariant, PTL

\* ... and the connecting case: the first handshake is stored within a tick.
THEOREM HandshakeNoticed == WatchSpec => []HandshakeNoticedWithinTick
<1>1. WatchInv => HandshakeNoticedWithinTick
  <2> SUFFICES ASSUME WatchInv, plain, lastHandshake = Never, peerAge # Never
               PROVE  peerAge <= Tick
    BY DEF HandshakeNoticedWithinTick
  <2>1. wgState = "connecting" /\ peerAge \in Ages /\ timer \in 0 .. Tick
    BY DEF WatchInv, WatchTypeOK, FreshSinceLastPoll
  <2>2. peerAge <= Tick - timer
    BY <2>1 DEF WatchInv, FreshSinceLastPoll, Waited
  <2> QED
    BY <2>1, <2>2, TimesAssumption DEF Ages, Never, TooOld
<1> QED
  BY <1>1, WatchInvariant, PTL
==============================================================================
