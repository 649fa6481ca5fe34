-------------------------------- MODULE DnsRace --------------------------------
(***************************************************************************)
(* The Dial function of the Android resolver (dns_android.go): one call    *)
(* races a UDP dial to each of the DNS servers.  The dialers publish into a*)
(* buffered channel; the caller takes the first result, or gives up when   *)
(* the race context is done.  It returns at once, and the other dialers    *)
(* finish on their own.                                                    *)
(*                                                                         *)
(* A lock section of winnerMu is one action.  Abstracted: the addresses    *)
(* (the dialers are alike) and the text of errors.  A dial may succeed or  *)
(* fail at any time: a UDP dial succeeds without the network's help, fails *)
(* at once where its address family has no route, and fails when the       *)
(* context is done, unless it has just succeeded.                          *)
(***************************************************************************)
EXTENDS Naturals, Sequences, FiniteSets

CONSTANTS
    DnsServers, \* dnsServers
    NoServer    \* no server

ASSUME ServersAssumption ==
    IsFiniteSet(DnsServers) /\ DnsServers # {} /\ NoServer \notin DnsServers

VARIABLES
    dialer,     \* per dialer: where its goroutine is
    conn,       \* per dialer: its conn
    won,        \* the race has a winner, or is over
    result,     \* the channel: the dialers whose result waits in it
    closed,     \* the closer goroutine has closed the channel
    over,       \* raceCtx is done
    main,       \* where the caller is
    outcome     \* the dialer whose conn Dial returned, or None

raceVars == <<dialer, conn, won, result, closed, over, main, outcome>>

Points ==
    { "dial",       \* in DialContext
      "fail",       \* about to send its error
      "lock",       \* has a conn, about to lock winnerMu
      "publish",    \* has won, about to send its conn
      "close",      \* has lost, about to close its conn
      "done" }      \* wg.Done() called

Succeeded(d) == conn[d] # "none"
AllDone == \A d \in DnsServers : dialer[d] = "done"

------------------------------------------------------------------------------
RaceInit ==
    /\ dialer = [d \in DnsServers |-> "dial"]
    /\ conn = [d \in DnsServers |-> "none"]
    /\ won = FALSE
    /\ result = << >> /\ closed = FALSE
    /\ over = FALSE
    /\ main = "select" /\ outcome = NoServer

\* Seeded bug: a channel for one result.
CapacityOne == 1

Capacity == Cardinality(DnsServers)

(***************************************************************************)
(* A dialer.                                                               *)
(***************************************************************************)
Move(d, point) == dialer' = [dialer EXCEPT ![d] = point]
RaceUnchanged == UNCHANGED <<closed, over, main, outcome>>

DialSucceeds(d) ==
    /\ dialer[d] = "dial"
    /\ Move(d, "lock")
    /\ conn' = [conn EXCEPT ![d] = "open"]
    /\ UNCHANGED <<won, result>> /\ RaceUnchanged

DialFails(d) ==
    /\ dialer[d] = "dial"
    /\ Move(d, "fail")
    /\ UNCHANGED <<conn, won, result>> /\ RaceUnchanged

SendError(d) ==
    /\ dialer[d] = "fail" /\ Len(result) < Capacity
    /\ result' = Append(result, d)
    /\ Move(d, "done")
    /\ UNCHANGED <<conn, won>> /\ RaceUnchanged

\* The lock section.
Claim(d) ==
    /\ dialer[d] = "lock"
    /\ Move(d, IF won THEN "close" ELSE "publish")
    /\ won' = TRUE
    /\ UNCHANGED <<conn, result>> /\ RaceUnchanged

\* Seeded bug: the loser only returns.
LoserReturns(d) ==
    /\ dialer[d] = "close"
    /\ Move(d, "done")
    /\ UNCHANGED <<conn, won, result>> /\ RaceUnchanged

CloseConn(d) ==
    /\ dialer[d] = "close"
    /\ conn' = [conn EXCEPT ![d] = "closed"]
    /\ Move(d, "done")
    /\ UNCHANGED <<won, result>> /\ RaceUnchanged

Publish(d) ==
    /\ dialer[d] = "publish" /\ Len(result) < Capacity
    /\ result' = Append(result, d)
    /\ Move(d, "done")
    /\ UNCHANGED <<conn, won>> /\ RaceUnchanged

Dialer(d) ==
    \/ DialSucceeds(d) \/ DialFails(d) \/ SendError(d)
    \/ Claim(d) \/ CloseConn(d) \/ Publish(d)

(***************************************************************************)
(* The closer goroutine and the race context.                              *)
(***************************************************************************)

\* Seeded bug: it waits for one dialer only.
CloseChannelEarly ==
    /\ \E d \in DnsServers : dialer[d] = "done"
    /\ ~closed
    /\ closed' = TRUE
    /\ UNCHANGED <<dialer, conn, won, result, over, main, outcome>>

CloseChannel ==
    /\ AllDone /\ ~closed
    /\ closed' = TRUE
    /\ UNCHANGED <<dialer, conn, won, result, over, main, outcome>>

\* dnsDialTimeout has passed, or the caller's context is done.
Deadline ==
    /\ ~over
    /\ over' = TRUE
    /\ UNCHANGED <<dialer, conn, won, result, closed, main, outcome>>

(***************************************************************************)
(* The caller's select.                                                    *)
(***************************************************************************)

\* A conn: it is returned, and the deferred cancel ends the context.
ReceiveConn ==
    /\ main = "select" /\ result # << >> /\ Succeeded(Head(result))
    /\ result' = Tail(result)
    /\ main' = "returned" /\ outcome' = Head(result) /\ over' = TRUE
    /\ UNCHANGED <<dialer, conn, won, closed>>

\* An error: the first result decides, whatever the other dials will bring.
ReceiveError ==
    /\ main = "select" /\ result # << >> /\ ~Succeeded(Head(result))
    /\ result' = Tail(result)
    /\ main' = "mark"
    /\ UNCHANGED <<dialer, conn, won, closed, over, outcome>>

\* The context is done: taken by the select even if a result is waiting.
SelectDone ==
    /\ main = "select" /\ over
    /\ main' = "mark"
    /\ UNCHANGED <<dialer, conn, won, result, closed, over, outcome>>

\* The lock section of both error branches, and the return.
MarkOver ==
    /\ main = "mark"
    /\ won' = TRUE
    /\ main' = "returned" /\ over' = TRUE
    /\ UNCHANGED <<dialer, conn, result, closed, outcome>>

\* The branch for a closed, empty channel is missing: it is never reached
\* (see ClosedChannelHasAResult).
Caller == ReceiveConn \/ ReceiveError \/ SelectDone \/ MarkOver

RaceNext == (\E d \in DnsServers : Dialer(d)) \/ CloseChannel \/ Deadline \/ Caller

RaceSpec == RaceInit /\ [][RaceNext]_raceVars

\* Every goroutine runs, DialContext returns (its context has a deadline), and
\* the deadline comes.
FairRaceSpec ==
    /\ RaceSpec
    /\ \A d \in DnsServers : WF_raceVars(Dialer(d))
    /\ WF_raceVars(CloseChannel) /\ WF_raceVars(Deadline) /\ WF_raceVars(Caller)

------------------------------------------------------------------------------
RaceTypeOK ==
    /\ dialer \in [DnsServers -> Points]
    /\ conn \in [DnsServers -> {"none", "open", "closed"}]
    /\ won \in BOOLEAN /\ closed \in BOOLEAN /\ over \in BOOLEAN
    /\ result \in Seq(DnsServers)
    /\ \A i, j \in 1 .. Len(result) : result[i] = result[j] => i = j
    /\ main \in {"select", "mark", "returned"}
    /\ outcome \in DnsServers \cup {NoServer}

\* Whoever finishes in whatever order, one conn at most is ever published, every
\* other one is closed by the dialer that made it, and the conn that Dial
\* returns is open (line 60: "close this conn immediately so it doesn't leak").
OneWinner ==
    /\ \A d, e \in DnsServers :
          /\ dialer[d] \in {"publish", "done"} /\ conn[d] = "open"
          /\ dialer[e] \in {"publish", "done"} /\ conn[e] = "open"
          => d = e
    /\ outcome # NoServer => dialer[outcome] = "done" /\ conn[outcome] = "open"

\* A dialer that is about to publish finds room and an open channel, long after
\* the caller has returned: no goroutine blocks, and none panics by sending
\* after the close (lines 43 and 76-82).
SendIsSafe ==
    \A d \in DnsServers :
        dialer[d] \in {"fail", "publish"} => Len(result) < Capacity /\ ~closed

\* A caller that still waits when the channel is closed has a result in it, so
\* total failure reaches it as an error of a dial and the branch of line 86 is
\* never taken.
ClosedChannelHasAResult == main = "select" /\ closed => result # << >>

\* Dial returns and every goroutine of the race ends (line 104: "no goroutine
\* leak either").
RaceEnds == <>(main = "returned" /\ AllDone /\ closed)
==============================================================================
