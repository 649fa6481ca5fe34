------------------------- MODULE TunnelSession_proofs -------------------------
(***************************************************************************)
(* Proofs about TunnelSession, for any number of sessions.                 *)
(***************************************************************************)
EXTENDS TunnelSession, TLAPS

USE DEF Sessions

\* Where a goroutine goes on after a report.
Continuations == {"attempt", "up", "sleep", "configure", "watch", "closing"}

\* A report is followed by the part of the loop it announces.
ReportFits(r) ==
    /\ r.then \in Continuations
    /\ r.then = "up" => r.say = "connected"
    /\ r.then = "attempt" => r.say = "connecting"
    /\ r.then = "sleep" => r.say \in {"error", "disconnected"}

\* Numbers are given out in order; an unused one has no state anywhere.
Numbering ==
    /\ \A s \in Sessions : s > calls <=> sess[s].at = "idle"
    /\ \A s \in Sessions : s > calls => s \notin ctxDone /\ s \notin cleanStart
    /\ \A s \in Sessions : sess[s].at \in {"say", "fire"} => ReportFits(sess[s])

\* The record's cancel and callback are those of the last session started.
LatestOwnsRecord ==
    /\ state.callback = state.cancel
    /\ state.cancel <= calls
    /\ \A s \in Sessions : sess[s].at \notin {"idle", "failed"} => s <= state.cancel
    /\ \A s \in Sessions : sess[s].at = "fire" => s <= sess[s].to

\* What the record holds, running or not.
RecordIsCoherent ==
    /\ state.status = "connected" => state.lastError = "none"
    /\ state.status = "error" => state.lastError = "cause"
    /\ state.running /\ state.status = "disconnected" => state.lastError = "cause"
    /\ state.running => state.status # "none"

FileInv ==
    \A s \in Sessions :
        /\ Live(s) /\ sess[s].at \notin {"clear", "notify"} => tun[s] = "open"
        /\ sess[s].at \in {"clear", "notify", "done"} => tun[s] = "closed"

\* A session in control: nothing has cancelled it and it has not cleaned up.
InControl(s) == Live(s) /\ ~Cancelled(s) /\ sess[s].at # "notify"

CleanInv ==
    \A s \in cleanStart :
        /\ \A t \in Sessions : t < s => sess[t].at \in Ended
        /\ InControl(s) => state.running /\ state.cancel = s

CleanStatusInv ==
    \A s \in cleanStart :
        InControl(s) =>
            /\ sess[s].at = "fire" => state.status = sess[s].say
            /\ sess[s].at = "up" => state.status = "connected"
            /\ sess[s].at = "attempt" => state.status = "connecting"
            /\ sess[s].at = "sleep" => state.status \in {"error", "disconnected"}

IInv ==
    /\ TypeOK /\ Numbering /\ LatestOwnsRecord /\ RunningIsStoppable
    /\ RecordIsCoherent /\ FileInv /\ CleanInv /\ CleanStatusInv

------------------------------------------------------------------------------
(***************************************************************************)
(* The initial states.                                                     *)
(***************************************************************************)
LEMMA InitIInv == Init => IInv
<1> SUFFICES ASSUME Init PROVE IInv
  OBVIOUS
<1> USE DEF Init, IdleSession, NoSession
<1>1. TypeOK
  BY MaxSessionsAssumption
     DEF TypeOK, Session, Points, Protocols, Statuses, Details
<1>2. Numbering
  BY DEF Numbering
<1>3. LatestOwnsRecord
  BY DEF LatestOwnsRecord
<1>4. RunningIsStoppable /\ RecordIsCoherent
  BY DEF RunningIsStoppable, RecordIsCoherent
<1>5. FileInv
  BY DEF FileInv, Live, Ended
<1>6. CleanInv /\ CleanStatusInv
  BY DEF CleanInv, CleanStatusInv
<1> QED
  BY <1>1, <1>2, <1>3, <1>4, <1>5, <1>6 DEF IInv

(***************************************************************************)
(* A step of session s that touches nothing but its own goroutine.         *)
(***************************************************************************)
LEMMA LocalMove ==
    ASSUME IInv, NEW s \in Sessions, NEW r \in Session,
           sess' = [sess EXCEPT ![s] = r], SharedUnchanged,
           Live(s), r.at \notin {"idle", "failed", "fire", "clear", "notify"},
           r.at = "say" => ReportFits(r),
           r.at = "done" <=> sess[s].at = "notify",
           sess[s].at # "clear",
           s \in cleanStart /\ ~Cancelled(s) =>
               /\ r.at = "up" => state.status = "connected"
               /\ r.at = "attempt" => state.status = "connecting"
               /\ r.at = "sleep" => state.status \in {"error", "disconnected"}
    PROVE  IInv'
<1> USE DEF IInv, SharedUnchanged
<1>0. sess'[s] = r /\ \A t \in Sessions : t # s => sess'[t] = sess[t]
  BY DEF TypeOK
<1>1. TypeOK'
  BY DEF TypeOK
<1>2. Numbering'
  BY <1>0, SMTT(30) DEF Numbering, Live, Ended
<1>3. LatestOwnsRecord'
  BY <1>0, SMTT(30) DEF LatestOwnsRecord, Live, Ended
<1>4. RunningIsStoppable'
  BY <1>0, SMTT(30) DEF RunningIsStoppable, Ended, Live, Cancelled
<1>5. RecordIsCoherent'
  BY DEF RecordIsCoherent
<1>6. FileInv'
  BY <1>0, SMTT(30) DEF FileInv, Live, Ended
<1>7. CleanInv'
  BY <1>0, SMTT(30) DEF CleanInv, InControl, Live, Ended, Cancelled
<1>8. CleanStatusInv'
  BY <1>0, SMTT(30) DEF CleanStatusInv, InControl, Live, Ended, Cancelled
<1> QED
  BY <1>1, <1>2, <1>3, <1>4, <1>5, <1>6, <1>7, <1>8

\* A goroutine on its way to a report, or from one point to another.
LEMMA SayMove ==
    ASSUME IInv, NEW s \in Sessions, SharedUnchanged,
           NEW status \in Statuses, NEW next \in Continuations,
           NEW up \in BOOLEAN,
           sess' = [sess EXCEPT ![s] = [sess[s] EXCEPT !.at = "say", !.say = status,
                                          !.then = next, !.wgUp = up]],
           sess[s].at \in Continuations \cup {"poll"},
           next = "up" => status = "connected",
           next = "attempt" => status = "connecting",
           next = "sleep" => status \in {"error", "disconnected"}
    PROVE  IInv'
<1> DEFINE r == [sess[s] EXCEPT !.at = "say", !.say = status, !.then = next, !.wgUp = up]
<1>1. sess[s] \in Session
  BY DEF IInv, TypeOK
<1>2. r \in Session /\ r.at = "say" /\ r.say = status /\ r.then = next
  BY <1>1 DEF Session, Points, Continuations
<1>3. Live(s) /\ sess[s].at \notin {"notify", "clear"}
  BY DEF Live, Ended, Continuations
<1>4. ReportFits(r)
  BY <1>2 DEF ReportFits
<1> HIDE DEF r
<1> QED
  BY <1>2, <1>3, <1>4, LocalMove DEF r

LEMMA GotoMove ==
    ASSUME IInv, NEW s \in Sessions, SharedUnchanged,
           NEW p \in {"watch", "poll", "closing"}, Goto(s, p),
           sess[s].at \in Continuations \cup {"poll"}
    PROVE  IInv'
<1> DEFINE r == [sess[s] EXCEPT !.at = p]
<1>1. sess[s] \in Session
  BY DEF IInv, TypeOK
<1>2. r \in Session /\ r.at = p
  BY <1>1 DEF Session, Points
<1>3. Live(s) /\ sess[s].at \notin {"notify", "clear"}
  BY DEF Live, Ended, Continuations
<1>4. sess' = [sess EXCEPT ![s] = r]
  BY DEF Goto
<1> HIDE DEF r
<1> QED
  BY <1>2, <1>3, <1>4, LocalMove

\* A step that does nothing but prepare a report.
LEMMA SayKeeps ==
    ASSUME IInv, NEW s \in Sessions, SharedUnchanged,
           NEW status \in Statuses, NEW next \in Continuations, Say(s, status, next),
           sess[s].at \in Continuations \cup {"poll"},
           next = "up" => status = "connected",
           next = "attempt" => status = "connecting",
           next = "sleep" => status \in {"error", "disconnected"}
    PROVE  IInv'
<1>1. sess[s] \in Session /\ sess \in [Sessions -> Session]
  BY DEF IInv, TypeOK
<1>2. sess[s].wgUp \in BOOLEAN
  BY <1>1 DEF Session
<1>3. sess' = [sess EXCEPT ![s] = [sess[s] EXCEPT !.at = "say", !.say = status,
                                     !.then = next, !.wgUp = sess[s].wgUp]]
  BY <1>1 DEF Say, Session
<1> QED
  BY <1>2, <1>3, SayMove

LEMMA MasqueStepKeeps == ASSUME IInv, NEW s \in Sessions, MasqueStep(s) PROVE IInv'
<1>1. CASE AttemptFails(s)
  <2>1. sess[s].at = "attempt" /\ Say(s, "error", "sleep") /\ SharedUnchanged
    BY <1>1 DEF AttemptFails
  <2> QED
    BY <2>1, SayKeeps DEF Statuses, Continuations
<1>2. CASE AttemptSucceeds(s)
  <2>1. sess[s].at = "attempt" /\ Say(s, "connected", "up") /\ SharedUnchanged
    BY <1>2 DEF AttemptSucceeds
  <2> QED
    BY <2>1, SayKeeps DEF Statuses, Continuations
<1>3. CASE ConnectionLost(s)
  <2>1. sess[s].at = "up" /\ Say(s, "disconnected", "sleep") /\ SharedUnchanged
    BY <1>3 DEF ConnectionLost
  <2> QED
    BY <2>1, SayKeeps DEF Statuses, Continuations
<1>4. CASE Retry(s)
  <2>1. sess[s].at = "sleep" /\ Say(s, "connecting", "attempt") /\ SharedUnchanged
    BY <1>4 DEF Retry
  <2> QED
    BY <2>1, SayKeeps DEF Statuses, Continuations
<1> QED
  BY <1>1, <1>2, <1>3, <1>4 DEF MasqueStep

LEMMA WgStepKeeps == ASSUME IInv, NEW s \in Sessions, WgStep(s) PROVE IInv'
<1>1. sess[s] \in Session /\ sess \in [Sessions -> Session]
  BY DEF IInv, TypeOK
<1>2. CASE WgSetupFails(s)
  <2>1. sess[s].at = "configure" /\ Say(s, "error", "closing") /\ SharedUnchanged
    BY <1>2 DEF WgSetupFails
  <2> QED
    BY <2>1, SayKeeps DEF Statuses, Continuations
<1>3. CASE WgSetupDone(s) \/ WgTick(s) \/ WgCancelled(s)
  BY <1>3, GotoMove DEF WgSetupDone, WgTick, WgCancelled, Continuations
<1>4. CASE WgStatusUnavailable(s)
  <2>1. CASE Cancelled(s)
    BY <1>4, <2>1, GotoMove DEF WgStatusUnavailable
  <2>2. CASE ~Cancelled(s)
    <3>1. sess[s].at = "poll" /\ Say(s, "error", "watch") /\ SharedUnchanged
      BY <1>4, <2>2 DEF WgStatusUnavailable
    <3> QED
      BY <3>1, SayKeeps DEF Statuses, Continuations
  <2> QED
    BY <2>1, <2>2
<1>5. CASE WgPolled(s)
  <2>1. CASE Goto(s, "watch")
    BY <1>5, <2>1, GotoMove DEF WgPolled
  <2>2. ASSUME NEW status \in {"connected", "error"}, NEW up \in BOOLEAN,
               sess' = [sess EXCEPT ![s].at = "say", ![s].say = status,
                                    ![s].then = "watch", ![s].wgUp = up]
        PROVE  IInv'
    <3>1. sess' = [sess EXCEPT ![s] = [sess[s] EXCEPT !.at = "say", !.say = status,
                                         !.then = "watch", !.wgUp = up]]
      BY <1>1, <2>2
    <3> QED
      BY <1>5, <3>1, SayMove DEF WgPolled, Statuses, Continuations
  <2> QED
    BY <1>5, <2>1, <2>2 DEF WgPolled
<1> QED
  BY <1>2, <1>3, <1>4, <1>5 DEF WgStep

LEMMA FireCallbackKeeps == ASSUME IInv, NEW s \in Sessions, FireCallback(s) PROVE IInv'
<1> DEFINE r == [sess[s] EXCEPT !.at = sess[s].then, !.then = "idle", !.to = NoSession]
<1>1. sess[s] \in Session /\ sess \in [Sessions -> Session]
  BY DEF IInv, TypeOK
<1>2. ReportFits(sess[s])
  BY DEF IInv, Numbering, FireCallback
<1>3. r \in Session /\ r.at = sess[s].then /\ r.at \in Continuations
  <2>1. sess[s].then \in Continuations /\ sess[s].then \in Points /\ "idle" \in Points
    BY <1>1, <1>2 DEF ReportFits, Session, Points
  <2>2. NoSession \in 0 .. MaxSessions
    BY MaxSessionsAssumption DEF NoSession
  <2> QED
    BY <1>1, <2>1, <2>2 DEF Session
<1>4. sess' = [sess EXCEPT ![s] = r]
  BY <1>1 DEF FireCallback
<1>5. Live(s) /\ sess[s].at = "fire"
  BY DEF FireCallback, Live, Ended
<1>6. s \in cleanStart /\ ~Cancelled(s) => state.status = sess[s].say
  BY <1>5 DEF IInv, CleanStatusInv, InControl
<1>7. SharedUnchanged
  BY DEF FireCallback, SharedUnchanged
<1> HIDE DEF r
<1> QED
  BY <1>2, <1>3, <1>4, <1>5, <1>6, <1>7, LocalMove DEF ReportFits, Continuations

LEMMA NotifyClosedKeeps == ASSUME IInv, NEW s \in Sessions, NotifyClosed(s) PROVE IInv'
<1> DEFINE r == [sess[s] EXCEPT !.at = "done"]
<1>1. sess[s] \in Session /\ sess \in [Sessions -> Session]
  BY DEF IInv, TypeOK
<1>2. r \in Session /\ r.at = "done"
  BY <1>1 DEF Session, Points
<1>3. sess' = [sess EXCEPT ![s] = r]
  BY <1>1 DEF NotifyClosed, Goto
<1>4. Live(s) /\ sess[s].at = "notify" /\ SharedUnchanged
  BY DEF NotifyClosed, Live, Ended
<1> HIDE DEF r
<1> QED
  BY <1>2, <1>3, <1>4, LocalMove

(***************************************************************************)
(* Steps that write the shared record.                                     *)
(***************************************************************************)
LEMMA StartTunnelKeeps ==
    ASSUME IInv, NEW proto \in Protocols, StartTunnel(proto) PROVE IInv'
<1> DEFINE n == calls + 1
           r == [IdleSession EXCEPT !.at = "say", !.proto = proto,
                   !.then = IF proto = "wg" THEN "configure" ELSE "attempt"]
<1>1. /\ ~state.running /\ n \in Sessions /\ calls' = n
      /\ state' = [running |-> TRUE, cancel |-> n, callback |-> n,
                   status |-> "connecting", lastError |-> "none"]
      /\ tun' = [tun EXCEPT ![n] = "open"]
      /\ sess' = [sess EXCEPT ![n] = r]
      /\ ctxDone' = ctxDone
  BY DEF StartTunnel
<1>2. /\ r \in Session /\ r.at = "say" /\ ReportFits(r)
  <2>1. IdleSession \in Session
    BY MaxSessionsAssumption
       DEF Session, IdleSession, NoSession, Points, Protocols, Statuses
  <2>2. /\ r.at = "say" /\ r.say = "connecting" /\ r.wgUp = FALSE /\ r.to = NoSession
        /\ r.then = IF proto = "wg" THEN "configure" ELSE "attempt"
    BY DEF IdleSession
  <2>3. r \in Session
    BY <2>1 DEF Session, Points
  <2> QED
    BY <2>2, <2>3 DEF ReportFits, Continuations
<1>3. cleanStart' \subseteq cleanStart \cup {n}
      /\ (n \in cleanStart' => \A t \in Sessions : ~Live(t))
  BY <1>1, MaxSessionsAssumption DEF StartTunnel, IInv, TypeOK, Numbering
<1> HIDE DEF r
<1>4. sess'[n] = r /\ \A t \in Sessions : t # n => sess'[t] = sess[t]
  BY <1>1 DEF IInv, TypeOK
<1>5. n > calls /\ calls \in Nat /\ n \in Nat /\ sess[n].at = "idle"
  BY <1>1, MaxSessionsAssumption DEF IInv, TypeOK, Numbering
<1>6. \A s \in cleanStart : ~InControl(s)
  BY <1>1 DEF IInv, CleanInv
<1>7. TypeOK'
  <2>1. state' \in [running: BOOLEAN, cancel: 0 .. MaxSessions,
                    callback: 0 .. MaxSessions, status: Statuses \cup {"none"},
                    lastError: Details]
    BY <1>1, <1>5, MaxSessionsAssumption DEF Statuses, Details
  <2>2. sess' \in [Sessions -> Session]
    BY <1>1, <1>2 DEF IInv, TypeOK
  <2>3. tun' \in [Sessions -> {"none", "open", "closed"}]
    BY <1>1 DEF IInv, TypeOK
  <2> QED
    BY <1>1, <1>3, <1>5, <2>1, <2>2, <2>3 DEF IInv, TypeOK
<1>8. Numbering'
  BY <1>1, <1>2, <1>3, <1>4, <1>5, SMTT(30) DEF IInv, Numbering, TypeOK
<1>9. LatestOwnsRecord'
  <2>1. \A s \in Sessions : sess[s].at # "idle" => s <= calls
    BY <1>5, MaxSessionsAssumption DEF IInv, Numbering
  <2>2. \A s \in Sessions : s # n => (sess'[s].at \notin {"idle", "failed"} => s <= n)
    BY <1>4, <1>5, <2>1
  <2> QED
    BY <1>1, <1>2, <1>4, <1>5, <2>2 DEF IInv, LatestOwnsRecord
<1>10. RunningIsStoppable'
  BY <1>1, <1>2, <1>4, <1>5 DEF IInv, RunningIsStoppable, Numbering, Cancelled, Ended
<1>11. RecordIsCoherent'
  BY <1>1 DEF RecordIsCoherent
<1>12. FileInv'
  BY <1>1, <1>2, <1>4, SMTT(30) DEF IInv, FileInv, Live, Ended, TypeOK
<1>13. CleanInv'
  <2>1. \A t \in Sessions : t < n => (n \in cleanStart' => sess'[t].at \in Ended)
    BY <1>3, <1>4 DEF Live
  <2>2. \A s \in cleanStart : s < n
    BY <1>5, MaxSessionsAssumption DEF IInv, TypeOK, Numbering
  <2>3. \A s \in cleanStart : \A t \in Sessions : t < s => sess'[t].at \in Ended
    BY <1>4, <1>5, <2>2 DEF IInv, CleanInv, TypeOK
  <2>4. \A s \in cleanStart : ~InControl(s)'
    BY <1>1, <1>4, <1>5, <1>6, <2>2 DEF InControl, Live, Cancelled, IInv, TypeOK
  <2> QED
    BY <1>1, <1>3, <2>1, <2>3, <2>4 DEF CleanInv
<1>14. CleanStatusInv'
  <2>1. \A s \in cleanStart : ~InControl(s)'
    <3>1. \A s \in cleanStart : s # n /\ s \in Sessions
      BY <1>5, MaxSessionsAssumption DEF IInv, TypeOK, Numbering
    <3> QED
      BY <1>1, <1>4, <1>6, <3>1 DEF InControl, Live, Cancelled
  <2> QED
    BY <1>2, <1>3, <1>4, <2>1 DEF CleanStatusInv
<1> QED
  BY <1>7, <1>8, <1>9, <1>10, <1>11, <1>12, <1>13, <1>14 DEF IInv

LEMMA StartTunnelFailsKeeps ==
    ASSUME IInv, NEW file \in {"none", "open"}, StartTunnelFails(file) PROVE IInv'
<1> DEFINE n == calls + 1
<1>1. /\ ~state.running /\ n \in Sessions /\ calls' = n
      /\ tun' = [tun EXCEPT ![n] = file]
      /\ sess' = [sess EXCEPT ![n].at = "failed"]
      /\ UNCHANGED <<state, ctxDone, cleanStart>>
  BY DEF StartTunnelFails
<1>2. n > calls /\ calls \in Nat /\ n \in Nat /\ sess[n].at = "idle"
  BY <1>1, MaxSessionsAssumption DEF IInv, TypeOK, Numbering
<1>3. sess'[n].at = "failed" /\ \A t \in Sessions : t # n => sess'[t] = sess[t]
  BY <1>1 DEF IInv, TypeOK, Session
<1>4. TypeOK'
  <2>1. [sess[n] EXCEPT !.at = "failed"] \in Session
    BY <1>1 DEF IInv, TypeOK, Session, Points
  <2>2. sess' \in [Sessions -> Session]
    BY <1>1, <2>1 DEF IInv, TypeOK
  <2> QED
    BY <1>1, <1>2, <2>2 DEF IInv, TypeOK
<1>5. n \notin cleanStart /\ n \notin ctxDone
  BY <1>1, <1>2 DEF IInv, Numbering
<1>6. Numbering'
  BY <1>1, <1>2, <1>3, <1>5, SMTT(30) DEF IInv, Numbering, TypeOK
<1>7. LatestOwnsRecord'
  BY <1>1, <1>2, <1>3 DEF IInv, LatestOwnsRecord, TypeOK
<1>8. RunningIsStoppable' /\ RecordIsCoherent'
  BY <1>1 DEF IInv, RunningIsStoppable, RecordIsCoherent
<1>9. FileInv'
  BY <1>1, <1>3 DEF IInv, FileInv, Live, Ended, TypeOK
<1>10. CleanInv' /\ CleanStatusInv'
  BY <1>1, <1>2, <1>3, <1>5
     DEF IInv, CleanInv, CleanStatusInv, InControl, Live, Ended, Cancelled, TypeOK
<1> QED
  BY <1>4, <1>6, <1>7, <1>8, <1>9, <1>10 DEF IInv

LEMMA StopTunnelKeeps == ASSUME IInv, StopTunnel PROVE IInv'
<1>1. /\ state.running
      /\ ctxDone' = ctxDone \cup {state.cancel}
      /\ state' = [state EXCEPT !.running = FALSE]
      /\ UNCHANGED <<calls, sess, tun, cleanStart>>
  BY DEF StopTunnel
<1>2. state.cancel \in Sessions /\ state.cancel <= calls
  BY <1>1 DEF IInv, RunningIsStoppable, LatestOwnsRecord
<1>3. /\ ~state'.running /\ state'.cancel = state.cancel /\ state'.callback = state.callback
      /\ state'.status = state.status /\ state'.lastError = state.lastError
  BY <1>1 DEF IInv, TypeOK
<1>4. TypeOK'
  BY <1>1, <1>2 DEF IInv, TypeOK
<1>5. Numbering'
  BY <1>1, <1>2 DEF IInv, Numbering, TypeOK, ReportFits
<1>6. LatestOwnsRecord' /\ RunningIsStoppable' /\ RecordIsCoherent'
  BY <1>1, <1>3 DEF IInv, LatestOwnsRecord, RunningIsStoppable, RecordIsCoherent
<1>7. FileInv'
  BY <1>1 DEF IInv, FileInv, Live
<1>8. \A s \in Sessions : InControl(s)' => InControl(s) /\ s # state.cancel
  BY <1>1 DEF InControl, Live, Cancelled
<1>9. CleanInv' /\ CleanStatusInv'
  BY <1>1, <1>3, <1>8 DEF IInv, CleanInv, CleanStatusInv, TypeOK
<1> QED
  BY <1>4, <1>5, <1>6, <1>7, <1>9 DEF IInv

\* A session in control that was started clean is alone: any goroutine is it.
LEMMA CleanIsAlone ==
    ASSUME IInv, NEW s \in cleanStart, InControl(s), NEW t \in Sessions, Live(t)
    PROVE  t = s
<1>1. state.cancel = s /\ s \in Sessions
  BY DEF IInv, CleanInv, TypeOK
<1>2. t <= s
  BY <1>1 DEF IInv, LatestOwnsRecord, Live, Ended
<1>3. ~(t < s)
  BY <1>1 DEF IInv, CleanInv, Live
<1> QED
  BY <1>1, <1>2, <1>3

LEMMA ReportedFacts ==
    ASSUME TypeOK, NEW status \in Statuses
    PROVE  LET new == Reported(status) IN
           /\ new \in [running: BOOLEAN, cancel: 0 .. MaxSessions,
                       callback: 0 .. MaxSessions, status: Statuses \cup {"none"},
                       lastError: Details]
           /\ new.running = state.running /\ new.cancel = state.cancel
           /\ new.callback = state.callback /\ new.status = status
           /\ status \in {"error", "disconnected"} => new.lastError = "cause"
           /\ status = "connected" => new.lastError = "none"
           /\ status = "connecting" => new.lastError = state.lastError
BY DEF TypeOK, Reported, Statuses, Details

LEMMA StatusCbKeeps == ASSUME IInv, NEW s \in Sessions, StatusCb(s) PROVE IInv'
<1> DEFINE r == IF sess[s].say = "connecting" \/ state.callback = NoSession
                  THEN [sess[s] EXCEPT !.at = sess[s].then, !.then = "idle"]
                  ELSE [sess[s] EXCEPT !.at = "fire", !.to = state.callback]
<1>1. /\ sess[s] \in Session /\ sess \in [Sessions -> Session]
      /\ state.callback \in 0 .. MaxSessions
  BY DEF IInv, TypeOK
<1>2. /\ sess[s].at = "say" /\ state' = Reported(sess[s].say)
      /\ UNCHANGED <<ctxDone, calls, tun, cleanStart>>
  BY DEF StatusCb
<1>3. sess[s].say \in Statuses /\ ReportFits(sess[s])
  BY <1>1, <1>2 DEF Session, IInv, Numbering
<1>4. sess' = [sess EXCEPT ![s] = r]
  BY <1>1 DEF StatusCb
<1>5. s <= state.callback /\ state.callback # NoSession
  BY <1>2 DEF IInv, LatestOwnsRecord, NoSession
<1>6. /\ r \in Session /\ r.at \in Continuations \cup {"fire"}
      /\ r.at = "fire" => r.to = state.callback /\ r.say = sess[s].say /\ r.then = sess[s].then
      /\ r.at # "fire" => r.at = sess[s].then
  BY <1>1, <1>3 DEF Session, Points, ReportFits, Continuations
<1> HIDE DEF r
<1>7. sess'[s] = r /\ \A t \in Sessions : t # s => sess'[t] = sess[t]
  BY <1>1, <1>4
<1>8. state' = Reported(sess[s].say) /\ TypeOK
  BY <1>2 DEF IInv
<1>9. /\ state' \in [running: BOOLEAN, cancel: 0 .. MaxSessions,
                     callback: 0 .. MaxSessions, status: Statuses \cup {"none"},
                     lastError: Details]
      /\ state'.running = state.running /\ state'.cancel = state.cancel
      /\ state'.callback = state.callback /\ state'.status = sess[s].say
      /\ sess[s].say \in {"error", "disconnected"} => state'.lastError = "cause"
      /\ sess[s].say = "connected" => state'.lastError = "none"
  BY <1>3, <1>8, ReportedFacts
<1>10. TypeOK'
  BY <1>2, <1>4, <1>6, <1>9 DEF IInv, TypeOK
<1>11. ReportFits(r) \/ r.at # "fire"
  BY <1>3, <1>6 DEF ReportFits
<1>12. Numbering'
  BY <1>2, <1>6, <1>7, <1>11, SMTT(30) DEF IInv, Numbering, Continuations
<1>13. LatestOwnsRecord'
  BY <1>2, <1>5, <1>6, <1>7, <1>9, SMTT(30) DEF IInv, LatestOwnsRecord, Continuations
<1>14. RunningIsStoppable'
  BY <1>2, <1>6, <1>7, <1>9, SMTT(30)
     DEF IInv, RunningIsStoppable, Ended, Cancelled, Continuations
<1>15. RecordIsCoherent'
  BY <1>3, <1>9 DEF RecordIsCoherent, Statuses
<1>16. FileInv'
  BY <1>2, <1>6, <1>7, SMTT(30) DEF IInv, FileInv, Live, Ended, Continuations
<1>17. Live(s) /\ Live(s)'
  BY <1>2, <1>6, <1>7 DEF Live, Ended, Continuations
<1>18. \A t \in cleanStart : InControl(t)' => InControl(t)
  BY <1>2, <1>7, <1>17 DEF InControl, Live, Cancelled, IInv, TypeOK
<1>19. CleanInv'
  BY <1>2, <1>7, <1>9, <1>17, <1>18 DEF IInv, CleanInv, Live, TypeOK
<1>20. CleanStatusInv'
  <2> SUFFICES ASSUME NEW t \in cleanStart, InControl(t), InControl(t)'
               PROVE  /\ sess'[t].at = "fire" => state'.status = sess'[t].say
                      /\ sess'[t].at = "up" => state'.status = "connected"
                      /\ sess'[t].at = "attempt" => state'.status = "connecting"
                      /\ sess'[t].at = "sleep" => state'.status \in {"error", "disconnected"}
    BY <1>2, <1>18 DEF CleanStatusInv
  <2>1. t = s
    BY <1>17, CleanIsAlone
  <2> QED
    BY <1>3, <1>6, <1>7, <1>9, <2>1 DEF ReportFits, Continuations
<1> QED
  BY <1>10, <1>12, <1>13, <1>14, <1>15, <1>16, <1>19, <1>20 DEF IInv

LEMMA CloseDeviceKeeps == ASSUME IInv, NEW s \in Sessions, CloseDevice(s) PROVE IInv'
<1>1. /\ sess[s].at = "closing" /\ tun' = [tun EXCEPT ![s] = "closed"]
      /\ sess' = [sess EXCEPT ![s].at = "clear"]
      /\ UNCHANGED <<state, ctxDone, calls, cleanStart>>
  BY DEF CloseDevice, Goto
<1>2. sess[s] \in Session /\ [sess[s] EXCEPT !.at = "clear"] \in Session
  BY DEF IInv, TypeOK, Session, Points
<1>3. sess'[s].at = "clear" /\ \A t \in Sessions : t # s => sess'[t] = sess[t]
  BY <1>1, <1>2 DEF IInv, TypeOK, Session
<1>4. TypeOK'
  BY <1>1, <1>2 DEF IInv, TypeOK
<1>5. Numbering' /\ LatestOwnsRecord'
  BY <1>1, <1>3, SMTT(30) DEF IInv, Numbering, LatestOwnsRecord
<1>6. RunningIsStoppable' /\ RecordIsCoherent'
  BY <1>1, <1>3 DEF IInv, RunningIsStoppable, RecordIsCoherent, Ended, Cancelled
<1>7. FileInv'
  BY <1>1, <1>3 DEF IInv, FileInv, Live, Ended, TypeOK
<1>8. CleanInv' /\ CleanStatusInv'
  BY <1>1, <1>3 DEF IInv, CleanInv, CleanStatusInv, InControl, Live, Ended, Cancelled, TypeOK
<1> QED
  BY <1>4, <1>5, <1>6, <1>7, <1>8 DEF IInv

LEMMA ClearRunningKeeps == ASSUME IInv, NEW s \in Sessions, ClearRunning(s) PROVE IInv'
<1>1. /\ sess[s].at = "clear"
      /\ state' = [state EXCEPT !.running = FALSE, !.status = "disconnected"]
      /\ sess' = [sess EXCEPT ![s].at = "notify"]
      /\ UNCHANGED <<ctxDone, calls, tun, cleanStart>>
  BY DEF ClearRunning, Goto
<1>2. sess[s] \in Session /\ [sess[s] EXCEPT !.at = "notify"] \in Session
  BY DEF IInv, TypeOK, Session, Points
<1>3. sess'[s].at = "notify" /\ \A t \in Sessions : t # s => sess'[t] = sess[t]
  BY <1>1, <1>2 DEF IInv, TypeOK, Session
<1>4. /\ ~state'.running /\ state'.cancel = state.cancel /\ state'.callback = state.callback
      /\ state'.status = "disconnected"
  BY <1>1 DEF IInv, TypeOK
<1>5. TypeOK'
  BY <1>1, <1>2 DEF IInv, TypeOK, Statuses
<1>6. Numbering' /\ LatestOwnsRecord'
  BY <1>1, <1>3, <1>4, SMTT(30) DEF IInv, Numbering, LatestOwnsRecord
<1>7. RunningIsStoppable' /\ RecordIsCoherent'
  BY <1>4 DEF RunningIsStoppable, RecordIsCoherent
<1>8. FileInv'
  BY <1>1, <1>3 DEF IInv, FileInv, Live, Ended, TypeOK
<1>9. \A t \in cleanStart : ~InControl(t)'
  <2> SUFFICES ASSUME NEW t \in cleanStart, InControl(t)' PROVE FALSE
    OBVIOUS
  <2>1. t # s /\ t \in Sessions
    BY <1>3 DEF InControl, IInv, TypeOK
  <2>2. InControl(t)
    BY <1>1, <1>3, <2>1 DEF InControl, Live, Cancelled
  <2>3. Live(s)
    BY <1>1 DEF Live, Ended
  <2> QED
    BY <2>1, <2>2, <2>3, CleanIsAlone
<1>10. \A t \in Sessions : sess'[t].at \in Ended \/ sess'[t].at = sess[t].at \/ t = s
  BY <1>3
<1>11. CleanInv' /\ CleanStatusInv'
  BY <1>1, <1>3, <1>9 DEF IInv, CleanInv, CleanStatusInv, Ended, TypeOK
<1> QED
  BY <1>5, <1>6, <1>7, <1>8, <1>11 DEF IInv

(***************************************************************************)
(* IInv is inductive.                                                      *)
(***************************************************************************)
LEMMA StutterKeeps == ASSUME IInv, UNCHANGED vars PROVE IInv'
<1> USE DEF IInv, vars
<1>1. TypeOK' /\ Numbering' /\ LatestOwnsRecord'
  BY DEF TypeOK, Numbering, LatestOwnsRecord
<1>2. RunningIsStoppable' /\ RecordIsCoherent' /\ FileInv'
  BY DEF RunningIsStoppable, RecordIsCoherent, FileInv, Live, Cancelled
<1>3. CleanInv' /\ CleanStatusInv'
  BY DEF CleanInv, CleanStatusInv, InControl, Live, Cancelled
<1> QED
  BY <1>1, <1>2, <1>3

LEMMA StepIInv == IInv /\ [Next]_vars => IInv'
<1> SUFFICES ASSUME IInv, [Next]_vars PROVE IInv'
  OBVIOUS
<1>1. ASSUME NEW proto \in Protocols, StartTunnel(proto) PROVE IInv'
  BY <1>1, StartTunnelKeeps
<1>2. ASSUME NEW file \in {"none", "open"}, StartTunnelFails(file) PROVE IInv'
  BY <1>2, StartTunnelFailsKeeps
<1>3. CASE StopTunnel
  BY <1>3, StopTunnelKeeps
<1>4. ASSUME NEW s \in Sessions, SessionStep(s) PROVE IInv'
  <2>1. CASE StatusCb(s)
    BY <2>1, StatusCbKeeps
  <2>2. CASE FireCallback(s)
    BY <2>2, FireCallbackKeeps
  <2>3. CASE MasqueStep(s)
    BY <2>3, MasqueStepKeeps
  <2>4. CASE WgStep(s)
    BY <2>4, WgStepKeeps
  <2>5. CASE CloseDevice(s)
    BY <2>5, CloseDeviceKeeps
  <2>6. CASE ClearRunning(s)
    BY <2>6, ClearRunningKeeps
  <2>7. CASE NotifyClosed(s)
    BY <2>7, NotifyClosedKeeps
  <2> QED
    BY <1>4, <2>1, <2>2, <2>3, <2>4, <2>5, <2>6, <2>7 DEF SessionStep, ExitStep
<1>5. CASE UNCHANGED vars
  BY <1>5, StutterKeeps
<1> QED
  BY <1>1, <1>2, <1>3, <1>4, <1>5 DEF Next, Api

\* Every reachable state satisfies the inductive invariant.
THEOREM Invariant == Spec => []IInv
<1>1. Init => IInv
  BY InitIInv
<1>2. IInv /\ [Next]_vars => IInv'
  BY StepIInv
<1> QED
  BY <1>1, <1>2, PTL DEF Spec

------------------------------------------------------------------------------
(***************************************************************************)
(* The invariants the runs check.                                          *)
(***************************************************************************)

\* Type correctness of the shared record, the goroutines and the files.
THEOREM TypeCorrect == Spec => []TypeOK
<1>1. IInv => TypeOK
  BY DEF IInv
<1> QED
  BY <1>1, Invariant, PTL

\* usque_android.go StartTunnel / StopTunnel: while the record says running,
\* the cancel function in it is that of a live, uncancelled goroutine.
THEOREM StopHasATarget == Spec => []RunningIsStoppable
<1>1. IInv => RunningIsStoppable
  BY DEF IInv
<1> QED
  BY <1>1, Invariant, PTL

\* statusCb and GetTunnelStatus: the polled status and its detail agree,
\* however the writes of overlapping sessions interleave.
THEOREM StatusCoherent == Spec => []StatusIsCoherent
<1>1. IInv => StatusIsCoherent
  <2> SUFFICES ASSUME IInv PROVE StatusIsCoherent
    OBVIOUS
  <2>1. CASE state.running
    BY <2>1 DEF IInv, RecordIsCoherent, StatusIsCoherent, GetTunnelStatus
  <2>2. CASE ~state.running
    BY <2>2 DEF StatusIsCoherent, GetTunnelStatus
  <2> QED
    BY <2>1, <2>2
<1> QED
  BY <1>1, Invariant, PTL

\* A tunnel started when no goroutine was left keeps the record and is the only
\* one whose events reach its callback.
THEOREM CleanStartInControl == Spec => []CleanStartKeepsControl
<1>1. IInv => CleanStartKeepsControl
  <2> SUFFICES ASSUME IInv, NEW s \in cleanStart
               PROVE  /\ Live(s) /\ ~Cancelled(s) /\ sess[s].at # "notify" =>
                            state.running /\ state.cancel = s /\ state.callback = s
                      /\ \A t \in Sessions : sess[t].at = "fire" /\ sess[t].to = s => t = s
    BY DEF CleanStartKeepsControl
  <2>1. InControl(s) => state.running /\ state.cancel = s /\ state.callback = s
    BY DEF IInv, CleanInv, LatestOwnsRecord
  <2>2. ASSUME NEW t \in Sessions, sess[t].at = "fire", sess[t].to = s PROVE t = s
    <3>1. t <= s /\ s \in Sessions
      BY <2>2 DEF IInv, LatestOwnsRecord, TypeOK
    <3>2. ~(t < s)
      BY <2>2 DEF IInv, CleanInv, Ended
    <3> QED
      BY <3>1, <3>2
  <2> QED
    BY <2>1, <2>2 DEF InControl
<1> QED
  BY <1>1, Invariant, PTL

\* ... and the status the app polls is that tunnel's own.
THEOREM CleanStatusTrue == Spec => []CleanStatusIsTrue
<1>1. IInv => CleanStatusIsTrue
  <2> SUFFICES ASSUME IInv, NEW s \in cleanStart, ~Cancelled(s)
               PROVE  /\ sess[s].at = "up" => GetTunnelStatus = <<"connected", "none">>
                      /\ sess[s].at = "attempt" => GetTunnelStatus[1] = "connecting"
                      /\ sess[s].at = "sleep" =>
                            GetTunnelStatus[1] \in {"error", "disconnected"}
    BY DEF CleanStatusIsTrue
  <2>1. CASE sess[s].at \in {"up", "attempt", "sleep"}
    <3>1. InControl(s)
      BY <2>1 DEF InControl, Live, Ended
    <3>2. state.running
      BY <3>1 DEF IInv, CleanInv
    <3>3. /\ sess[s].at = "up" => state.status = "connected" /\ state.lastError = "none"
          /\ sess[s].at = "attempt" => state.status = "connecting"
          /\ sess[s].at = "sleep" => state.status \in {"error", "disconnected"}
      BY <3>1 DEF IInv, CleanStatusInv, RecordIsCoherent
    <3> QED
      BY <3>2, <3>3 DEF GetTunnelStatus
  <2> QED
    BY <2>1
<1> QED
  BY <1>1, Invariant, PTL

\* AndroidTunDevice: the file of a session is open while its goroutine may use
\* it and closed once the goroutine has ended.
THEOREM FileFollowsGoroutine == Spec => []FileMatchesGoroutine
<1>1. IInv => FileMatchesGoroutine
  BY DEF IInv, FileInv, FileMatchesGoroutine
<1> QED
  BY <1>1, Invariant, PTL

------------------------------------------------------------------------------
(***************************************************************************)
(* The refinement: every step is a step of TunnelView or leaves the view.  *)
(***************************************************************************)
LEMMA RunningView ==
    ASSUME IInv, state.running
    PROVE  /\ GetTunnelStatus = <<state.status, state.lastError>>
           /\ GetTunnelStatus # View!Stopped
<1>1. GetTunnelStatus = <<state.status, state.lastError>>
  BY DEF GetTunnelStatus
<1>2. state.status # "stopped"
  BY DEF IInv, TypeOK, Statuses
<1> QED
  BY <1>1, <1>2 DEF View!Stopped

LEMMA StoppedView == ASSUME ~state.running PROVE GetTunnelStatus = View!Stopped
BY DEF GetTunnelStatus, View!Stopped

LEMMA SameRecordSameView ==
    ASSUME UNCHANGED state PROVE UNCHANGED GetTunnelStatus
BY DEF GetTunnelStatus

LEMMA StatusCbView ==
    ASSUME IInv, NEW s \in Sessions, StatusCb(s)
    PROVE  View!Next \/ UNCHANGED GetTunnelStatus
<1>1. sess[s].say \in Statuses /\ TypeOK
  BY DEF IInv, TypeOK, Session
<1>2. state' = Reported(sess[s].say)
  BY DEF StatusCb
<1>3. /\ state'.running = state.running /\ state'.status = sess[s].say
      /\ sess[s].say \in {"error", "disconnected"} => state'.lastError = "cause"
      /\ sess[s].say = "connected" => state'.lastError = "none"
      /\ sess[s].say = "connecting" => state'.lastError = state.lastError
  BY <1>1, <1>2, ReportedFacts
<1>4. CASE state.running
  <2>1. GetTunnelStatus' = <<state'.status, state'.lastError>>
    BY <1>3, <1>4 DEF GetTunnelStatus
  <2>2. /\ GetTunnelStatus # View!Stopped
        /\ GetTunnelStatus[2] = state.lastError
    BY <1>4, RunningView
  <2>3. CASE sess[s].say = "connecting"
    BY <1>3, <2>1, <2>2, <2>3 DEF View!Next, View!Connecting
  <2>4. CASE sess[s].say = "connected"
    BY <1>3, <2>1, <2>2, <2>4 DEF View!Next, View!Connected
  <2>5. CASE sess[s].say \in {"error", "disconnected"}
    BY <1>3, <2>1, <2>2, <2>5 DEF View!Next, View!Failed
  <2> QED
    BY <1>1, <2>3, <2>4, <2>5 DEF Statuses
<1>5. CASE ~state.running
  BY <1>3, <1>5 DEF GetTunnelStatus
<1> QED
  BY <1>4, <1>5

LEMMA StepView ==
    ASSUME IInv, IInv', [Next]_vars PROVE [View!Next]_GetTunnelStatus
<1>1. ASSUME NEW proto \in Protocols, StartTunnel(proto) PROVE View!Next
  <2>1. GetTunnelStatus = View!Stopped
    BY <1>1, StoppedView DEF StartTunnel
  <2>2. GetTunnelStatus' = <<"connecting", "none">>
    BY <1>1 DEF StartTunnel, GetTunnelStatus
  <2> QED
    BY <2>1, <2>2 DEF View!Next, View!Start
<1>2. ASSUME NEW file \in {"none", "open"}, StartTunnelFails(file)
      PROVE  UNCHANGED GetTunnelStatus
  BY <1>2, SameRecordSameView DEF StartTunnelFails
<1>3. ASSUME ~state'.running PROVE View!Next \/ UNCHANGED GetTunnelStatus
  <2>1. GetTunnelStatus' = View!Stopped
    BY <1>3 DEF GetTunnelStatus, View!Stopped
  <2> QED
    BY <2>1 DEF View!Next, View!End
<1>4. CASE StopTunnel
  BY <1>3, <1>4 DEF StopTunnel, IInv, TypeOK
<1>5. ASSUME NEW s \in Sessions, SessionStep(s)
      PROVE  View!Next \/ UNCHANGED GetTunnelStatus
  <2>1. CASE StatusCb(s)
    BY <2>1, StatusCbView
  <2>2. CASE FireCallback(s) \/ CloseDevice(s) \/ NotifyClosed(s)
    BY <2>2, SameRecordSameView DEF FireCallback, CloseDevice, NotifyClosed, SharedUnchanged
  <2>3. CASE MasqueStep(s)
    BY <2>3, SameRecordSameView
       DEF MasqueStep, AttemptFails, AttemptSucceeds, ConnectionLost, Retry, SharedUnchanged
  <2>4. CASE WgStep(s)
    BY <2>4, SameRecordSameView
       DEF WgStep, WgSetupFails, WgSetupDone, WgTick, WgCancelled, WgStatusUnavailable,
           WgPolled, SharedUnchanged
  <2>5. CASE ClearRunning(s)
    BY <1>3, <2>5 DEF ClearRunning, IInv, TypeOK
  <2> QED
    BY <1>5, <2>1, <2>2, <2>3, <2>4, <2>5 DEF SessionStep, ExitStep
<1>6. CASE UNCHANGED vars
  BY <1>6, SameRecordSameView DEF vars
<1> QED
  BY <1>1, <1>2, <1>4, <1>5, <1>6 DEF Next, Api

\* GetTunnelStatus over the whole bridge behaves as the view machine: a report
\* never surfaces once the record is stopped, and only a start leaves "stopped".
THEOREM Refinement == Spec => ImplementsView
<1>1. Init => View!Init
  BY StoppedView DEF Init, View!Init
<1>2. IInv /\ IInv' /\ [Next]_vars => [View!Next]_GetTunnelStatus
  BY StepView
<1> QED
  BY <1>1, <1>2, Invariant, PTL DEF Spec, ImplementsView, View!Spec

-----------------------------------------------------------------------------
(* TunnelSession implements TunnelBridge, for any number of sessions.       *)

\* Where the session of record r is in its loop, a report on the way included.
LoopPoint(r) == IF r.at \in {"say", "fire"} THEN r.then ELSE r.at

\* Each protocol keeps to its own loop: only WireGuard ends, and only MASQUE
\* reports a lost tunnel, on its way to the reconnect delay.
KeepsToLoop(r) ==
    /\ LoopPoint(r) \in {"attempt", "up", "sleep"} => r.proto = "masque"
    /\ LoopPoint(r) \in {"configure", "watch", "poll", "closing"} => r.proto = "wg"
    /\ r.at \in {"say", "fire"} /\ r.say = "disconnected" => r.then = "sleep"

ProtoInv == \A s \in Sessions : KeepsToLoop(sess[s])

LEMMA InitProtoInv == Init => ProtoInv
BY DEF Init, ProtoInv, KeepsToLoop, LoopPoint, IdleSession

\* A step that makes r the record of session s.
Becomes(s, r) == sess' = [sess EXCEPT ![s] = r]

LEMMA ProtoMove ==
    ASSUME IInv, ProtoInv, NEW s \in Sessions, NEW r, Becomes(s, r), KeepsToLoop(r)
    PROVE  ProtoInv'
<1>1. sess'[s] = r /\ \A t \in Sessions : t # s => sess'[t] = sess[t]
  BY DEF Becomes, IInv, TypeOK
<1>2. \A t \in Sessions : KeepsToLoop(sess'[t])
  BY <1>1 DEF ProtoInv
<1> QED
  BY <1>2 DEF ProtoInv, KeepsToLoop, LoopPoint

------------------------------------------------------------------------------
(***************************************************************************)
(* What the steps do to the record of their session.                       *)
(***************************************************************************)
\* A report is prepared.
Saying(s, r, status, next) ==
    /\ Becomes(s, r)
    /\ r.at = "say" /\ r.say = status /\ r.then = next /\ r.proto = sess[s].proto

\* The session moves on to point p.
Moving(s, r, p) ==
    /\ Becomes(s, r)
    /\ r.at = p /\ r.say = sess[s].say /\ r.proto = sess[s].proto

LEMMA SayFacts ==
    ASSUME IInv, NEW s \in Sessions, NEW status, NEW next, NEW up,
           sess' = [sess EXCEPT ![s].at = "say", ![s].say = status, ![s].then = next,
                                ![s].wgUp = up]
    PROVE  \E r : Saying(s, r, status, next)
<1> DEFINE r == [sess[s] EXCEPT !.at = "say", !.say = status, !.then = next, !.wgUp = up]
<1>1. sess[s] \in Session /\ sess \in [Sessions -> Session]
  BY DEF IInv, TypeOK
<1>2. Becomes(s, r)
  BY <1>1 DEF Becomes
<1>3. r.at = "say" /\ r.say = status /\ r.then = next /\ r.proto = sess[s].proto
  BY <1>1 DEF Session
<1> HIDE DEF r
<1> QED
  BY <1>2, <1>3 DEF Saying

LEMMA SayFacts2 ==
    ASSUME IInv, NEW s \in Sessions, NEW status, NEW next, Say(s, status, next)
    PROVE  \E r : Saying(s, r, status, next)
<1> DEFINE r == [sess[s] EXCEPT !.at = "say", !.say = status, !.then = next]
<1>1. sess[s] \in Session /\ sess \in [Sessions -> Session]
  BY DEF IInv, TypeOK
<1>2. Becomes(s, r)
  BY <1>1 DEF Say, Becomes
<1>3. r.at = "say" /\ r.say = status /\ r.then = next /\ r.proto = sess[s].proto
  BY <1>1 DEF Session
<1> HIDE DEF r
<1> QED
  BY <1>2, <1>3 DEF Saying

LEMMA GotoFacts ==
    ASSUME IInv, NEW s \in Sessions, NEW p, Goto(s, p)
    PROVE  \E r : Moving(s, r, p)
<1> DEFINE r == [sess[s] EXCEPT !.at = p]
<1>1. sess[s] \in Session /\ sess \in [Sessions -> Session]
  BY DEF IInv, TypeOK
<1>2. Becomes(s, r)
  BY <1>1 DEF Goto, Becomes
<1>3. r.at = p /\ r.say = sess[s].say /\ r.proto = sess[s].proto
  BY <1>1 DEF Session
<1> HIDE DEF r
<1> QED
  BY <1>2, <1>3 DEF Moving

\* After the lock section of statusCb: on its way, or about to call back.
LEMMA StatusCbFacts ==
    ASSUME IInv, NEW s \in Sessions, StatusCb(s)
    PROVE  /\ state'.running = state.running /\ state'.cancel = state.cancel
           /\ \E r : \/ Moving(s, r, sess[s].then)
                    \/ /\ Moving(s, r, "fire")
                       /\ r.say = sess[s].say /\ r.then = sess[s].then
                       /\ r.to = state.cancel
           /\ sess[s].say = "disconnected" =>
                \E r : /\ Moving(s, r, "fire")
                       /\ r.say = sess[s].say /\ r.then = sess[s].then
                       /\ r.to = state.cancel
<1> DEFINE p == [sess[s] EXCEPT !.at = sess[s].then, !.then = "idle"]
           q == [sess[s] EXCEPT !.at = "fire", !.to = state.callback]
<1>1. sess[s] \in Session /\ sess \in [Sessions -> Session]
  BY DEF IInv, TypeOK
<1>2. /\ sess[s].at = "say" /\ state' = Reported(sess[s].say)
      /\ sess[s].say \in Statuses
  BY <1>1 DEF StatusCb, Session
<1>3. state'.running = state.running /\ state'.cancel = state.cancel
  BY <1>2 DEF Reported, IInv, TypeOK
<1>4. state.callback = state.cancel /\ state.callback # NoSession
  BY <1>2 DEF IInv, LatestOwnsRecord, NoSession
<1>5. /\ sess[s].say = "connecting" => Becomes(s, p)
      /\ sess[s].say # "connecting" => Becomes(s, q)
  BY <1>1, <1>4 DEF StatusCb, Becomes
<1>6. /\ p.at = sess[s].then /\ p.say = sess[s].say /\ p.proto = sess[s].proto
      /\ q.at = "fire" /\ q.proto = sess[s].proto /\ q.say = sess[s].say
      /\ q.then = sess[s].then /\ q.to = state.callback
  BY <1>1 DEF Session
<1> HIDE DEF p, q
<1>7. sess[s].say = "connecting" => Moving(s, p, sess[s].then)
  BY <1>5, <1>6 DEF Moving
<1>8. sess[s].say # "connecting" =>
        /\ Moving(s, q, "fire") /\ q.say = sess[s].say /\ q.then = sess[s].then
        /\ q.to = state.cancel
  BY <1>4, <1>5, <1>6 DEF Moving
<1> QED
  BY <1>3, <1>7, <1>8

LEMMA FireCallbackFacts ==
    ASSUME IInv, NEW s \in Sessions, FireCallback(s)
    PROVE  \E r : Moving(s, r, sess[s].then)
<1> DEFINE r == [sess[s] EXCEPT !.at = sess[s].then, !.then = "idle", !.to = NoSession]
<1>1. sess[s] \in Session /\ sess \in [Sessions -> Session]
  BY DEF IInv, TypeOK
<1>2. Becomes(s, r)
  BY <1>1 DEF FireCallback, Becomes
<1>3. r.at = sess[s].then /\ r.say = sess[s].say /\ r.proto = sess[s].proto
  BY <1>1 DEF Session
<1> HIDE DEF r
<1> QED
  BY <1>2, <1>3 DEF Moving

\* The loops in between: a report is prepared, or WireGuard moves on.
LEMMA LoopStepFacts ==
    ASSUME IInv, NEW s \in Sessions, MasqueStep(s) \/ WgStep(s)
    PROVE  \/ \E r, status, next :
                /\ Saying(s, r, status, next)
                /\ \/ sess[s].at \in {"attempt", "up", "sleep"} /\ next \in {"attempt", "up", "sleep"}
                   \/ sess[s].at \in {"configure", "poll"} /\ next \in {"watch", "closing"}
                /\ status = "disconnected" => next = "sleep"
           \/ \E r, p : /\ Moving(s, r, p)
                        /\ sess[s].at \in {"configure", "watch", "poll"}
                        /\ p \in {"watch", "poll", "closing"}
<1>1. CASE AttemptFails(s)
  BY <1>1, SayFacts2 DEF AttemptFails
<1>2. CASE AttemptSucceeds(s)
  BY <1>2, SayFacts2 DEF AttemptSucceeds
<1>3. CASE ConnectionLost(s)
  BY <1>3, SayFacts2 DEF ConnectionLost
<1>4. CASE Retry(s)
  BY <1>4, SayFacts2 DEF Retry
<1>5. CASE WgSetupFails(s)
  BY <1>5, SayFacts2 DEF WgSetupFails
<1>6. CASE WgSetupDone(s) \/ WgTick(s) \/ WgCancelled(s)
  BY <1>6, GotoFacts DEF WgSetupDone, WgTick, WgCancelled
<1>7. CASE WgStatusUnavailable(s)
  <2>1. CASE Cancelled(s)
    BY <1>7, <2>1, GotoFacts DEF WgStatusUnavailable
  <2>2. CASE ~Cancelled(s)
    BY <1>7, <2>2, SayFacts2 DEF WgStatusUnavailable
  <2> QED
    BY <2>1, <2>2
<1>8. CASE WgPolled(s)
  <2>0. sess[s].at = "poll"
    BY <1>8 DEF WgPolled
  <2>1. ASSUME NEW r, Moving(s, r, "watch")
        PROVE  \E q, p : /\ Moving(s, q, p)
                         /\ sess[s].at \in {"configure", "watch", "poll"}
                         /\ p \in {"watch", "poll", "closing"}
    BY <2>0, <2>1
  <2>2. CASE Goto(s, "watch")
    BY <2>1, <2>2, GotoFacts
  <2>3. ASSUME NEW status \in {"connected", "error"}, NEW up,
               sess' = [sess EXCEPT ![s].at = "say", ![s].say = status,
                                    ![s].then = "watch", ![s].wgUp = up]
        PROVE  \E r : Saying(s, r, status, "watch")
    BY <2>3, SayFacts
  <2>4. \/ Goto(s, "watch")
        \/ \E r : Saying(s, r, "connected", "watch")
        \/ \E r : Saying(s, r, "error", "watch")
    BY <1>8, <2>3 DEF WgPolled
  <2> QED
    BY <2>0, <2>2, <2>4
<1> QED
  BY <1>1, <1>2, <1>3, <1>4, <1>5, <1>6, <1>7, <1>8 DEF MasqueStep, WgStep

LEMMA StartFacts ==
    ASSUME IInv, NEW p \in Protocols, StartTunnel(p)
    PROVE  /\ calls + 1 \in Sessions
           /\ \E r : /\ Becomes(calls + 1, r)
                     /\ r.at = "say" /\ r.say = "connecting" /\ r.proto = p
                     /\ r.then = IF p = "wg" THEN "configure" ELSE "attempt"
<1> DEFINE r == [IdleSession EXCEPT !.at = "say", !.proto = p,
                   !.then = IF p = "wg" THEN "configure" ELSE "attempt"]
<1>1. calls + 1 \in Sessions /\ Becomes(calls + 1, r)
  BY DEF StartTunnel, Becomes
<1>2. /\ r.at = "say" /\ r.say = "connecting" /\ r.proto = p
      /\ r.then = IF p = "wg" THEN "configure" ELSE "attempt"
  BY DEF IdleSession
<1> HIDE DEF r
<1> QED
  BY <1>1, <1>2

LEMMA StartFailsFacts ==
    ASSUME IInv, NEW f, StartTunnelFails(f)
    PROVE  calls + 1 \in Sessions /\ \E r : Moving(calls + 1, r, "failed")
<1>1. calls + 1 \in Sessions /\ Goto(calls + 1, "failed")
  BY DEF StartTunnelFails, Goto
<1> QED
  BY <1>1, GotoFacts

LEMMA StepProtoInv == IInv /\ ProtoInv /\ [Next]_vars => ProtoInv'
<1> SUFFICES ASSUME IInv, ProtoInv, [Next]_vars PROVE ProtoInv'
  OBVIOUS
<1>1. ASSUME NEW p \in Protocols, StartTunnel(p) PROVE ProtoInv'
  BY <1>1, StartFacts, ProtoMove DEF KeepsToLoop, LoopPoint, Protocols
<1>2. ASSUME NEW f \in {"none", "open"}, StartTunnelFails(f) PROVE ProtoInv'
  BY <1>2, StartFailsFacts, ProtoMove DEF KeepsToLoop, LoopPoint, Moving
<1>3. ASSUME UNCHANGED sess PROVE ProtoInv'
  BY <1>3 DEF ProtoInv, KeepsToLoop, LoopPoint
<1>4. ASSUME NEW s \in Sessions, SessionStep(s) PROVE ProtoInv'
  <2>0. /\ KeepsToLoop(sess[s])
        /\ sess[s].at \in {"say", "fire"} => sess[s].then \in Continuations
    BY DEF ProtoInv, IInv, Numbering, ReportFits
  <2>1. CASE StatusCb(s)
    <3>1. sess[s].at = "say"
      BY <2>1 DEF StatusCb
    <3>2. ASSUME NEW r, Moving(s, r, sess[s].then) PROVE ProtoInv'
      BY <2>0, <3>1, <3>2, ProtoMove DEF Moving, KeepsToLoop, LoopPoint, Continuations
    <3>3. ASSUME NEW r, Moving(s, r, "fire"), r.say = sess[s].say, r.then = sess[s].then
          PROVE  ProtoInv'
      BY <2>0, <3>1, <3>3, ProtoMove DEF Moving, KeepsToLoop, LoopPoint, Continuations
    <3> QED
      BY <2>1, <3>2, <3>3, StatusCbFacts
  <2>2. CASE FireCallback(s)
    <3>1. sess[s].at = "fire"
      BY <2>2 DEF FireCallback
    <3>2. ASSUME NEW r, Moving(s, r, sess[s].then) PROVE ProtoInv'
      BY <2>0, <3>1, <3>2, ProtoMove DEF Moving, KeepsToLoop, LoopPoint, Continuations
    <3> QED
      BY <2>2, <3>2, FireCallbackFacts
  <2>3. CASE MasqueStep(s) \/ WgStep(s)
    <3>1. ASSUME NEW r, NEW status, NEW next, Saying(s, r, status, next),
                 \/ sess[s].at \in {"attempt", "up", "sleep"} /\ next \in {"attempt", "up", "sleep"}
                 \/ sess[s].at \in {"configure", "poll"} /\ next \in {"watch", "closing"},
                 status = "disconnected" => next = "sleep"
          PROVE  ProtoInv'
      BY <2>0, <3>1, ProtoMove DEF Saying, KeepsToLoop, LoopPoint
    <3>2. ASSUME NEW r, NEW p, Moving(s, r, p), sess[s].at \in {"configure", "watch", "poll"},
                 p \in {"watch", "poll", "closing"}
          PROVE  ProtoInv'
      BY <2>0, <3>2, ProtoMove DEF Moving, KeepsToLoop, LoopPoint
    <3> QED
      BY <2>3, <3>1, <3>2, LoopStepFacts
  <2>4. CASE ExitStep(s)
    <3>1. ASSUME NEW r, NEW p \in {"clear", "notify", "done"}, Moving(s, r, p) PROVE ProtoInv'
      BY <3>1, ProtoMove DEF Moving, KeepsToLoop, LoopPoint
    <3> QED
      BY <2>4, <3>1, GotoFacts DEF ExitStep, CloseDevice, ClearRunning, NotifyClosed
  <2> QED
    BY <1>4, <2>1, <2>2, <2>3, <2>4 DEF SessionStep
<1> QED
  BY <1>1, <1>2, <1>3, <1>4 DEF Next, Api, StopTunnel, vars

\* The loops of the two protocols never mix: only a WireGuard session ends, only a
\* MASQUE session reports a lost tunnel.
THEOREM ProtocolInvariant == Spec => []ProtoInv
<1> QED
  BY InitProtoInv, StepProtoInv, Invariant, PTL DEF Spec

------------------------------------------------------------------------------
(***************************************************************************)
(* The refinement.                                                         *)
(***************************************************************************)
\* The mapping, of one record.
Calling(r) == r.at = "fire" /\ r.say = "disconnected"
PointOf(r) ==
    IF r.at \in Ended \cup {"clear", "notify"} THEN r.at
    ELSE IF Calling(r) THEN "event" ELSE "live"
TargetOf(r) == IF Calling(r) THEN r.to ELSE NoSession

LEMMA Mapping ==
    ASSUME NEW s \in Sessions
    PROVE  /\ bridgeAt[s] = PointOf(sess[s]) /\ bridgeTo[s] = TargetOf(sess[s])
           /\ bridgeProto[s] = sess[s].proto
BY DEF bridgeAt, bridgeTo, bridgeProto, BridgeAt, BridgeTo, InEvent, PointOf, TargetOf, Calling

\* What a step does to the mapped state of session s.
MovesTo(s, point, target, proto) ==
    /\ bridgeAt' = [bridgeAt EXCEPT ![s] = point]
    /\ bridgeTo' = [bridgeTo EXCEPT ![s] = target]
    /\ bridgeProto' = [bridgeProto EXCEPT ![s] = proto]

LEMMA OnePoint ==
    ASSUME NEW S, NEW s \in S, NEW v, NEW f, NEW g,
           f = [t \in S |-> f[t]], g = [t \in S |-> g[t]],
           g[s] = v, \A t \in S : t # s => g[t] = f[t]
    PROVE  g = [f EXCEPT ![s] = v]
OBVIOUS

\* A step that changes one record changes the mapped one at that session only.
LEMMA OneMoves ==
    ASSUME IInv, NEW s \in Sessions, NEW r, Becomes(s, r)
    PROVE  MovesTo(s, PointOf(r), TargetOf(r), r.proto)
<1>1. sess'[s] = r /\ \A t \in Sessions : t # s => sess'[t] = sess[t]
  BY DEF Becomes, IInv, TypeOK
<1>2. \A t \in Sessions : /\ bridgeAt'[t] = PointOf(sess'[t])
                          /\ bridgeTo'[t] = TargetOf(sess'[t])
                          /\ bridgeProto'[t] = sess'[t].proto
  BY DEF bridgeAt, bridgeTo, bridgeProto, BridgeAt, BridgeTo, InEvent, PointOf, TargetOf, Calling
<1>3. /\ bridgeAt'[s] = PointOf(r) /\ bridgeTo'[s] = TargetOf(r) /\ bridgeProto'[s] = r.proto
      /\ \A t \in Sessions : t # s => /\ bridgeAt'[t] = bridgeAt[t]
                                      /\ bridgeTo'[t] = bridgeTo[t]
                                      /\ bridgeProto'[t] = bridgeProto[t]
  BY <1>1, <1>2, Mapping
<1>4. /\ bridgeAt = [t \in Sessions |-> bridgeAt[t]]
      /\ bridgeTo = [t \in Sessions |-> bridgeTo[t]]
      /\ bridgeProto = [t \in Sessions |-> bridgeProto[t]]
  BY DEF bridgeAt, bridgeTo, bridgeProto
<1>5. /\ bridgeAt' = [t \in Sessions |-> bridgeAt'[t]]
      /\ bridgeTo' = [t \in Sessions |-> bridgeTo'[t]]
      /\ bridgeProto' = [t \in Sessions |-> bridgeProto'[t]]
  BY DEF bridgeAt, bridgeTo, bridgeProto
<1> QED
  BY <1>3, <1>4, <1>5, OnePoint DEF MovesTo

\* The record's running flag and owner, the contexts and the count stay.
OwnerUnchanged ==
    /\ state'.running = state.running /\ state'.cancel = state.cancel
    /\ ctxDone' = ctxDone /\ calls' = calls

\* A session that stays where the bridge sees it, whatever it does inside.
LEMMA SameViewStutters ==
    ASSUME IInv, OwnerUnchanged, NEW s \in Sessions, NEW r,
           Becomes(s, r), r.proto = sess[s].proto,
           PointOf(r) = PointOf(sess[s]), TargetOf(r) = TargetOf(sess[s])
    PROVE  UNCHANGED Bridge!bvars
<1>1. MovesTo(s, bridgeAt[s], bridgeTo[s], bridgeProto[s])
  BY OneMoves, Mapping
<1>2. bridgeAt' = bridgeAt /\ bridgeTo' = bridgeTo /\ bridgeProto' = bridgeProto
  BY <1>1 DEF MovesTo, bridgeAt, bridgeTo, bridgeProto
<1> QED
  BY <1>2 DEF Bridge!bvars, OwnerUnchanged

LEMMA SameSessionsStutter ==
    ASSUME OwnerUnchanged, sess' = sess
    PROVE  UNCHANGED Bridge!bvars
BY DEF OwnerUnchanged, Bridge!bvars, bridgeAt, bridgeTo, bridgeProto,
       BridgeAt, BridgeTo, InEvent

LEMMA InitBridge == Init => Bridge!Init
BY DEF Init, Bridge!Init, Bridge!Sessions, Bridge!NoSession, NoSession, IdleSession,
       bridgeAt, bridgeTo, bridgeProto, BridgeAt, BridgeTo, InEvent, Ended

LEMMA StatusCbBridge ==
    ASSUME IInv, ProtoInv, NEW s \in Sessions, StatusCb(s)
    PROVE  Bridge!Lose(s) \/ UNCHANGED Bridge!bvars
<1>1. /\ sess[s].at = "say" /\ sess[s].then \in Continuations
      /\ PointOf(sess[s]) = "live" /\ TargetOf(sess[s]) = NoSession
  BY DEF StatusCb, IInv, Numbering, ReportFits, PointOf, TargetOf, Calling, Ended
<1>2. OwnerUnchanged
  BY StatusCbFacts DEF StatusCb, OwnerUnchanged
<1>3. CASE sess[s].say = "disconnected"
  <2>1. PICK r : Moving(s, r, "fire") /\ r.say = sess[s].say /\ r.to = state.cancel
    BY <1>3, StatusCbFacts
  <2>2. sess[s].proto = "masque"
    BY <1>1, <1>3 DEF ProtoInv, KeepsToLoop, LoopPoint
  <2>3. PointOf(r) = "event" /\ TargetOf(r) = state.cancel
    BY <1>3, <2>1 DEF Moving, PointOf, TargetOf, Calling, Ended
  <2>4. MovesTo(s, "event", state.cancel, bridgeProto[s])
    BY <2>1, <2>3, OneMoves, Mapping DEF Moving
  <2>5. bridgeProto' = bridgeProto
    BY <2>4 DEF MovesTo, bridgeProto
  <2>6. bridgeAt[s] = "live" /\ bridgeProto[s] = "masque"
    BY <1>1, <2>2, Mapping
  <2> QED
    BY <1>2, <2>4, <2>5, <2>6 DEF Bridge!Lose, MovesTo, OwnerUnchanged
<1>4. CASE sess[s].say # "disconnected"
  <2>1. ASSUME NEW r, Moving(s, r, sess[s].then) PROVE UNCHANGED Bridge!bvars
    <3>1. PointOf(r) = "live" /\ TargetOf(r) = NoSession
      BY <1>1, <2>1 DEF Moving, PointOf, TargetOf, Calling, Ended, Continuations
    <3> QED
      BY <1>1, <1>2, <2>1, <3>1, SameViewStutters DEF Moving
  <2>2. ASSUME NEW r, Moving(s, r, "fire"), r.say = sess[s].say
        PROVE  UNCHANGED Bridge!bvars
    <3>1. PointOf(r) = "live" /\ TargetOf(r) = NoSession
      BY <1>4, <2>2 DEF Moving, PointOf, TargetOf, Calling, Ended
    <3> QED
      BY <1>1, <1>2, <2>2, <3>1, SameViewStutters DEF Moving
  <2> QED
    BY <2>1, <2>2, StatusCbFacts
<1> QED
  BY <1>3, <1>4

LEMMA FireCallbackBridge ==
    ASSUME IInv, NEW s \in Sessions, FireCallback(s)
    PROVE  Bridge!Return(s) \/ UNCHANGED Bridge!bvars
<1>1. sess[s].at = "fire" /\ sess[s].then \in Continuations
  BY DEF FireCallback, IInv, Numbering, ReportFits
<1>2. OwnerUnchanged
  BY DEF FireCallback, OwnerUnchanged
<1>3. PICK r : Moving(s, r, sess[s].then)
  BY FireCallbackFacts
<1>4. PointOf(r) = "live" /\ TargetOf(r) = NoSession
  BY <1>1, <1>3 DEF Moving, PointOf, TargetOf, Calling, Ended, Continuations
<1>5. CASE Calling(sess[s])
  <2>1. bridgeAt[s] = "event"
    BY <1>1, <1>5, Mapping DEF PointOf, Ended
  <2>2. MovesTo(s, "live", NoSession, bridgeProto[s])
    BY <1>3, <1>4, OneMoves, Mapping DEF Moving
  <2>3. bridgeProto' = bridgeProto
    BY <2>2 DEF MovesTo, bridgeProto
  <2> QED
    BY <1>2, <2>1, <2>2, <2>3
       DEF Bridge!Return, Bridge!NoSession, MovesTo, NoSession, OwnerUnchanged
<1>6. CASE ~Calling(sess[s])
  <2>1. PointOf(sess[s]) = "live" /\ TargetOf(sess[s]) = NoSession
    BY <1>1, <1>6 DEF PointOf, TargetOf, Ended
  <2> QED
    BY <1>2, <1>3, <1>4, <2>1, SameViewStutters DEF Moving
<1> QED
  BY <1>5, <1>6

LEMMA LoopStepBridge ==
    ASSUME IInv, NEW s \in Sessions, MasqueStep(s) \/ WgStep(s)
    PROVE  UNCHANGED Bridge!bvars
<1>1. OwnerUnchanged
  BY DEF MasqueStep, WgStep, AttemptFails, AttemptSucceeds, ConnectionLost, Retry,
         WgSetupFails, WgSetupDone, WgTick, WgCancelled, WgStatusUnavailable, WgPolled,
         SharedUnchanged, OwnerUnchanged
<1>2. \E r : /\ Becomes(s, r) /\ r.proto = sess[s].proto
             /\ r.at \in {"say", "watch", "poll", "closing"}
             /\ sess[s].at \in {"attempt", "up", "sleep", "configure", "watch", "poll"}
  BY LoopStepFacts DEF Saying, Moving
<1>3. PICK r : /\ Becomes(s, r) /\ r.proto = sess[s].proto
               /\ r.at \in {"say", "watch", "poll", "closing"}
               /\ sess[s].at \in {"attempt", "up", "sleep", "configure", "watch", "poll"}
  BY <1>2
<1>4. /\ PointOf(r) = "live" /\ TargetOf(r) = NoSession
      /\ PointOf(sess[s]) = "live" /\ TargetOf(sess[s]) = NoSession
  BY <1>3 DEF PointOf, TargetOf, Calling, Ended
<1> QED
  BY <1>1, <1>3, <1>4, SameViewStutters

\* A goroutine's end, from point p to q outside the loops, as the bridge sees it.
LEMMA ExitMoves ==
    ASSUME IInv, NEW s \in Sessions, NEW q \in {"clear", "notify", "done"}, Goto(s, q),
           sess[s].at \in {"closing", "clear", "notify"}
    PROVE  /\ bridgeAt' = [bridgeAt EXCEPT ![s] = q]
           /\ bridgeTo' = bridgeTo /\ bridgeProto' = bridgeProto
<1>1. PICK r : Moving(s, r, q)
  BY GotoFacts
<1>2. /\ PointOf(r) = q /\ TargetOf(r) = NoSession /\ TargetOf(sess[s]) = NoSession
  BY <1>1 DEF Moving, PointOf, TargetOf, Calling, Ended
<1>3. MovesTo(s, q, bridgeTo[s], bridgeProto[s])
  BY <1>1, <1>2, OneMoves, Mapping DEF Moving
<1> QED
  BY <1>3 DEF MovesTo, bridgeTo, bridgeProto

LEMMA ExitStepBridge ==
    ASSUME IInv, ProtoInv, NEW s \in Sessions, ExitStep(s)
    PROVE  Bridge!CloseDevice(s) \/ Bridge!ClearRunning(s) \/ Bridge!NotifyClosed(s)
<1>1. CASE CloseDevice(s)
  <2>1. sess[s].at = "closing" /\ Goto(s, "clear")
    BY <1>1 DEF CloseDevice
  <2>2. sess[s].proto = "wg" /\ PointOf(sess[s]) = "live"
    BY <2>1 DEF ProtoInv, KeepsToLoop, LoopPoint, PointOf, Calling, Ended
  <2>3. bridgeAt[s] = "live" /\ bridgeProto[s] = "wg"
    BY <2>2, Mapping
  <2>4. UNCHANGED <<state, ctxDone, calls>>
    BY <1>1 DEF CloseDevice
  <2> QED
    BY <2>1, <2>3, <2>4, ExitMoves DEF Bridge!CloseDevice
<1>2. CASE ClearRunning(s)
  <2>1. sess[s].at = "clear" /\ Goto(s, "notify")
    BY <1>2 DEF ClearRunning
  <2>2. bridgeAt[s] = "clear"
    BY <2>1, Mapping DEF PointOf
  <2>3. state'.running = FALSE /\ state'.cancel = state.cancel /\ UNCHANGED <<ctxDone, calls>>
    BY <1>2 DEF ClearRunning, IInv, TypeOK
  <2> QED
    BY <2>1, <2>2, <2>3, ExitMoves DEF Bridge!ClearRunning
<1>3. CASE NotifyClosed(s)
  <2>1. sess[s].at = "notify" /\ Goto(s, "done")
    BY <1>3 DEF NotifyClosed
  <2>2. bridgeAt[s] = "notify"
    BY <2>1, Mapping DEF PointOf
  <2>3. UNCHANGED <<state, ctxDone, calls>>
    BY <1>3 DEF NotifyClosed, SharedUnchanged
  <2> QED
    BY <2>1, <2>2, <2>3, ExitMoves DEF Bridge!NotifyClosed
<1> QED
  BY <1>1, <1>2, <1>3 DEF ExitStep

\* An unused number: the bridge has nothing at it either.
LEMMA UnusedNumber ==
    ASSUME IInv, calls + 1 \in Sessions
    PROVE  bridgeTo[calls + 1] = NoSession
<1>1. calls + 1 > calls
  BY DEF IInv, TypeOK
<1>2. sess[calls + 1].at = "idle"
  BY <1>1 DEF IInv, Numbering
<1> QED
  BY <1>2, Mapping DEF TargetOf, Calling

LEMMA StartTunnelBridge ==
    ASSUME IInv, NEW p \in Protocols, StartTunnel(p)
    PROVE  Bridge!StartTunnel(p)
<1>1. calls + 1 \in Sessions
  BY StartFacts
<1>2. PICK r : /\ Becomes(calls + 1, r)
               /\ r.at = "say" /\ r.proto = p
  BY StartFacts
<1>3. PointOf(r) = "live" /\ TargetOf(r) = NoSession
  BY <1>2 DEF PointOf, TargetOf, Calling, Ended
<1>4. MovesTo(calls + 1, "live", bridgeTo[calls + 1], p)
  BY <1>1, <1>2, <1>3, OneMoves, UnusedNumber
<1>5. bridgeTo' = bridgeTo
  BY <1>4 DEF MovesTo, bridgeTo
<1>6. /\ ~state.running /\ state'.running = TRUE /\ state'.cancel = calls + 1
      /\ calls' = calls + 1 /\ ctxDone' = ctxDone
  BY DEF StartTunnel
<1> QED
  BY <1>1, <1>4, <1>5, <1>6 DEF Bridge!StartTunnel, Bridge!Sessions, MovesTo

LEMMA StartTunnelFailsBridge ==
    ASSUME IInv, NEW f \in {"none", "open"}, StartTunnelFails(f)
    PROVE  Bridge!StartTunnelFails
<1>1. calls + 1 \in Sessions
  BY StartFailsFacts
<1>2. PICK r : Moving(calls + 1, r, "failed")
  BY StartFailsFacts
<1>3. PointOf(r) = "failed" /\ TargetOf(r) = NoSession
  BY <1>2 DEF Moving, PointOf, TargetOf, Calling, Ended
<1>4. MovesTo(calls + 1, "failed", bridgeTo[calls + 1], bridgeProto[calls + 1])
  BY <1>1, <1>2, <1>3, OneMoves, UnusedNumber, Mapping DEF Moving
<1>5. bridgeTo' = bridgeTo /\ bridgeProto' = bridgeProto
  BY <1>4 DEF MovesTo, bridgeTo, bridgeProto
<1>6. ~state.running /\ calls' = calls + 1 /\ UNCHANGED <<state, ctxDone>>
  BY DEF StartTunnelFails
<1> QED
  BY <1>1, <1>4, <1>5, <1>6 DEF Bridge!StartTunnelFails, Bridge!Sessions, MovesTo

LEMMA StopTunnelBridge ==
    ASSUME IInv, StopTunnel
    PROVE  Bridge!StopTunnel
<1>1. /\ state.running /\ ctxDone' = ctxDone \cup {state.cancel} /\ calls' = calls
      /\ state'.running = FALSE /\ state'.cancel = state.cancel /\ sess' = sess
  BY DEF StopTunnel, IInv, TypeOK
<1>2. bridgeAt' = bridgeAt /\ bridgeTo' = bridgeTo /\ bridgeProto' = bridgeProto
  BY <1>1 DEF bridgeAt, bridgeTo, bridgeProto, BridgeAt, BridgeTo, InEvent
<1> QED
  BY <1>1, <1>2 DEF Bridge!StopTunnel

LEMMA StepBridge ==
    IInv /\ ProtoInv /\ [Next]_vars => [Bridge!Next]_(Bridge!bvars)
<1> SUFFICES ASSUME IInv, ProtoInv, [Next]_vars
             PROVE  Bridge!Next \/ UNCHANGED Bridge!bvars
  OBVIOUS
<1>1. ASSUME NEW p \in Protocols, StartTunnel(p) PROVE Bridge!Next
  BY <1>1, StartTunnelBridge DEF Bridge!Next, Bridge!Protocols, Protocols
<1>2. ASSUME NEW f \in {"none", "open"}, StartTunnelFails(f) PROVE Bridge!Next
  BY <1>2, StartTunnelFailsBridge DEF Bridge!Next
<1>3. CASE StopTunnel
  BY <1>3, StopTunnelBridge DEF Bridge!Next
<1>4. ASSUME NEW s \in Sessions, SessionStep(s)
      PROVE  Bridge!Next \/ UNCHANGED Bridge!bvars
  <2>1. s \in Bridge!Sessions
    BY DEF Bridge!Sessions
  <2>2. CASE StatusCb(s)
    BY <2>1, <2>2, StatusCbBridge DEF Bridge!Next
  <2>3. CASE FireCallback(s)
    BY <2>1, <2>3, FireCallbackBridge DEF Bridge!Next
  <2>4. CASE MasqueStep(s) \/ WgStep(s)
    BY <2>4, LoopStepBridge
  <2>5. CASE ExitStep(s)
    BY <2>1, <2>5, ExitStepBridge DEF Bridge!Next
  <2> QED
    BY <1>4, <2>2, <2>3, <2>4, <2>5 DEF SessionStep
<1>5. CASE UNCHANGED vars
  BY <1>5, SameSessionsStutter DEF vars, OwnerUnchanged
<1> QED
  BY <1>1, <1>2, <1>3, <1>4, <1>5 DEF Next, Api

\* Every behaviour of the bridge, for any number of overlapping sessions, is one
\* the service's view of it (TunnelBridge) allows.
THEOREM BridgeRefinement == Spec => ImplementsBridge
<1>1. Spec => []IInv /\ []ProtoInv
  BY Invariant, ProtocolInvariant, PTL
<1> QED
  BY <1>1, InitBridge, StepBridge, PTL DEF Spec, ImplementsBridge, Bridge!Spec

------------------------------------------------------------------------------
(***************************************************************************)
(* Every MASQUE session implements StatusReports.                          *)
(***************************************************************************)
\* A MASQUE session is where its last report says, and never at the goroutine's
\* end, which only a WireGuard session reaches.
SaysWhereItIs(r) ==
    r.proto = "masque" =>
        /\ r.at \notin {"clear", "notify", "done"}
        /\ r.at = "attempt" => r.say = "connecting"
        /\ r.at = "up" => r.say = "connected"
        /\ r.at = "sleep" => r.say \in {"error", "disconnected"}

LoopInv == \A s \in Sessions : SaysWhereItIs(sess[s])

\* The mapping, of one record.
StatusOf(r) == IF r.proto = "masque" /\ r.at \notin Ended THEN r.say ELSE "none"

\* A record's step, as the order of the reports sees it.
RecordStep(q, r) ==
    \/ /\ StatusOf(q) \in {"none", "error", "disconnected"}
       /\ StatusOf(r) = "connecting"
    \/ StatusOf(q) = "connecting" /\ StatusOf(r) \in {"connected", "error"}
    \/ StatusOf(q) = "connected" /\ StatusOf(r) = "disconnected"
    \/ StatusOf(q) = StatusOf(r)

\* What a session's step turns its record q into.
GoodMove(q, r) == SaysWhereItIs(r) /\ RecordStep(q, r)

LEMMA InitLoopInv == Init => LoopInv
BY DEF Init, LoopInv, SaysWhereItIs, IdleSession

\* A good move of one session keeps the invariant, and the order of each one's reports.
LEMMA GoodMoves ==
    ASSUME IInv, LoopInv, NEW s \in Sessions, NEW r, Becomes(s, r), GoodMove(sess[s], r)
    PROVE  LoopInv' /\ \A t \in Sessions : RecordStep(sess[t], sess'[t])
<1>1. sess'[s] = r /\ \A t \in Sessions : t # s => sess'[t] = sess[t]
  BY DEF Becomes, IInv, TypeOK
<1>2. \A t \in Sessions : SaysWhereItIs(sess'[t])
  BY <1>1 DEF LoopInv, GoodMove
<1>3. ASSUME NEW t \in Sessions PROVE RecordStep(sess[t], sess'[t])
  BY <1>1 DEF GoodMove, RecordStep
<1> QED
  BY <1>2, <1>3 DEF LoopInv, SaysWhereItIs

\* Four steps of the MASQUE loop, each from one report to the next.
LEMMA MasqueFacts ==
    ASSUME IInv, NEW s \in Sessions, MasqueStep(s)
    PROVE  \E r, status, next :
              /\ Saying(s, r, status, next)
              /\ \/ /\ sess[s].at = "attempt"
                    /\ status \in {"error", "connected"}
                 \/ sess[s].at = "up" /\ status = "disconnected"
                 \/ sess[s].at = "sleep" /\ status = "connecting"
<1>1. CASE AttemptFails(s)
  BY <1>1, SayFacts2 DEF AttemptFails
<1>2. CASE AttemptSucceeds(s)
  BY <1>2, SayFacts2 DEF AttemptSucceeds
<1>3. CASE ConnectionLost(s)
  BY <1>3, SayFacts2 DEF ConnectionLost
<1>4. CASE Retry(s)
  BY <1>4, SayFacts2 DEF Retry
<1> QED
  BY <1>1, <1>2, <1>3, <1>4 DEF MasqueStep

\* Whatever a WireGuard session does, the order of reports sees nothing of it.
LEMMA WgMoves ==
    ASSUME NEW q, NEW r, q.proto = "wg", r.proto = "wg"
    PROVE  GoodMove(q, r)
BY DEF GoodMove, SaysWhereItIs, RecordStep, StatusOf

\* After a report a MASQUE session goes where the report says.
LEMMA ContinueMoves ==
    ASSUME IInv, ProtoInv, LoopInv, NEW s \in Sessions, sess[s].at \in {"say", "fire"},
           NEW r, r.at = sess[s].then, r.say = sess[s].say, r.proto = sess[s].proto
    PROVE  GoodMove(sess[s], r)
<1>1. ReportFits(sess[s]) /\ KeepsToLoop(sess[s])
  BY DEF IInv, Numbering, ProtoInv
<1>2. sess[s].proto \in Protocols
  BY DEF IInv, TypeOK, Session
<1>3. CASE sess[s].proto = "wg"
  BY <1>3, WgMoves
<1>4. CASE sess[s].proto = "masque"
  <2>1. sess[s].then \in {"attempt", "up", "sleep"}
    BY <1>1, <1>4 DEF ReportFits, KeepsToLoop, LoopPoint, Continuations
  <2>2. SaysWhereItIs(r)
    BY <1>1, <2>1 DEF SaysWhereItIs, ReportFits
  <2>3. RecordStep(sess[s], r)
    BY <1>1, <1>4, <2>1 DEF RecordStep, StatusOf, ReportFits, Ended
  <2> QED
    BY <2>2, <2>3 DEF GoodMove
<1> QED
  BY <1>2, <1>3, <1>4 DEF Protocols

LEMMA SessionMoves ==
    ASSUME IInv, ProtoInv, LoopInv, NEW s \in Sessions, SessionStep(s)
    PROVE  \E r : Becomes(s, r) /\ GoodMove(sess[s], r)
<1>0. KeepsToLoop(sess[s]) /\ SaysWhereItIs(sess[s]) /\ sess[s].proto \in Protocols
  BY DEF ProtoInv, LoopInv, IInv, TypeOK, Session
<1>1. CASE StatusCb(s)
  <2>1. sess[s].at = "say"
    BY <1>1 DEF StatusCb
  <2>2. ASSUME NEW r, Moving(s, r, sess[s].then)
        PROVE  Becomes(s, r) /\ GoodMove(sess[s], r)
    BY <2>1, <2>2, ContinueMoves DEF Moving
  <2>3. ASSUME NEW r, Moving(s, r, "fire") PROVE Becomes(s, r) /\ GoodMove(sess[s], r)
    BY <2>1, <2>3 DEF Moving, GoodMove, SaysWhereItIs, RecordStep, StatusOf, Ended
  <2> QED
    BY <1>1, <2>2, <2>3, StatusCbFacts
<1>2. CASE FireCallback(s)
  <2>1. sess[s].at = "fire"
    BY <1>2 DEF FireCallback
  <2>2. PICK r : Moving(s, r, sess[s].then)
    BY <1>2, FireCallbackFacts
  <2> QED
    BY <2>1, <2>2, ContinueMoves DEF Moving
<1>3. CASE MasqueStep(s)
  <2>1. PICK r, status, next :
           /\ Saying(s, r, status, next)
           /\ \/ /\ sess[s].at = "attempt"
                 /\ status \in {"error", "connected"}
              \/ sess[s].at = "up" /\ status = "disconnected"
              \/ sess[s].at = "sleep" /\ status = "connecting"
    BY <1>3, MasqueFacts
  <2>2. sess[s].proto = "masque"
    BY <1>0, <2>1 DEF KeepsToLoop, LoopPoint
  <2>3. SaysWhereItIs(r)
    BY <2>1 DEF Saying, SaysWhereItIs
  <2>4. RecordStep(sess[s], r)
    BY <1>0, <2>1, <2>2 DEF Saying, SaysWhereItIs, RecordStep, StatusOf, Ended
  <2> QED
    BY <2>1, <2>3, <2>4 DEF Saying, GoodMove
<1>4. CASE WgStep(s)
  <2>1. \E r : Becomes(s, r) /\ r.proto = sess[s].proto
    BY <1>4, LoopStepFacts DEF Saying, Moving
  <2>2. sess[s].at \in {"configure", "watch", "poll"}
    BY <1>4 DEF WgStep, WgSetupFails, WgSetupDone, WgTick, WgCancelled,
                WgStatusUnavailable, WgPolled
  <2>3. sess[s].proto = "wg"
    BY <1>0, <2>2 DEF KeepsToLoop, LoopPoint
  <2> QED
    BY <2>1, <2>3, WgMoves
<1>5. CASE ExitStep(s)
  <2>1. sess[s].at \in {"closing", "clear", "notify"}
    BY <1>5 DEF ExitStep, CloseDevice, ClearRunning, NotifyClosed
  <2>2. sess[s].proto = "wg"
    BY <1>0, <2>1 DEF KeepsToLoop, LoopPoint, SaysWhereItIs, Protocols
  <2>3. \E r : Becomes(s, r) /\ r.proto = sess[s].proto
    BY <1>5, GotoFacts DEF ExitStep, CloseDevice, ClearRunning, NotifyClosed, Moving
  <2> QED
    BY <2>2, <2>3, WgMoves
<1> QED
  BY <1>1, <1>2, <1>3, <1>4, <1>5 DEF SessionStep

LEMMA StartMoves ==
    ASSUME IInv, NEW r, calls + 1 \in Sessions,
           \/ r.at = "say" /\ r.say = "connecting"
           \/ r.at = "failed"
    PROVE  GoodMove(sess[calls + 1], r)
<1>1. sess[calls + 1].at = "idle"
  BY DEF IInv, TypeOK, Numbering
<1> QED
  BY <1>1 DEF GoodMove, SaysWhereItIs, RecordStep, StatusOf, Ended

LEMMA StepLoop ==
    IInv /\ ProtoInv /\ LoopInv /\ [Next]_vars
        => LoopInv' /\ \A t \in Sessions : RecordStep(sess[t], sess'[t])
<1> DEFINE Goal == LoopInv' /\ \A t \in Sessions : RecordStep(sess[t], sess'[t])
<1> SUFFICES ASSUME IInv, ProtoInv, LoopInv, [Next]_vars PROVE Goal
  OBVIOUS
<1>1. ASSUME NEW p \in Protocols, StartTunnel(p) PROVE Goal
  BY <1>1, StartFacts, StartMoves, GoodMoves
<1>2. ASSUME NEW f \in {"none", "open"}, StartTunnelFails(f) PROVE Goal
  BY <1>2, StartFailsFacts, StartMoves, GoodMoves DEF Moving
<1>3. ASSUME UNCHANGED sess PROVE Goal
  BY <1>3 DEF LoopInv, SaysWhereItIs, RecordStep
<1>4. ASSUME NEW s \in Sessions, SessionStep(s) PROVE Goal
  BY <1>4, SessionMoves, GoodMoves
<1> HIDE DEF Goal
<1> QED
  BY <1>1, <1>2, <1>3, <1>4 DEF Next, Api, StopTunnel, vars

\* A MASQUE session is always where its last report says: "connected" while it
\* forwards, "connecting" while it dials, and no report is skipped.
THEOREM LoopInvariant == Spec => []LoopInv
<1>1. Spec => []IInv /\ []ProtoInv
  BY Invariant, ProtocolInvariant, PTL
<1> QED
  BY <1>1, InitLoopInv, StepLoop, PTL DEF Spec

LEMMA StepReports ==
    ASSUME NEW s \in Sessions
    PROVE  IInv /\ ProtoInv /\ LoopInv /\ [Next]_vars
              => [Reports(s)!Next]_(LoopStatus(s))
<1> SUFFICES ASSUME IInv, ProtoInv, LoopInv, [Next]_vars
             PROVE  Reports(s)!Next \/ UNCHANGED LoopStatus(s)
  OBVIOUS
<1>1. RecordStep(sess[s], sess'[s])
  BY StepLoop
<1>2. LoopStatus(s) = StatusOf(sess[s]) /\ LoopStatus(s)' = StatusOf(sess'[s])
  BY DEF LoopStatus, StatusOf, Live
<1> QED
  BY <1>1, <1>2
     DEF RecordStep, Reports!Next, Reports!Attempt, Reports!Establish, Reports!Fail, Reports!Lose

\* Each MASQUE session of the bridge, among any number of overlapping ones and
\* whatever the app calls, reports in the order StatusCallback documents: no
\* "connected" without a "connecting" before it, a "disconnected" only for a
\* tunnel that was up, and a new attempt only after the last one's end was said.
THEOREM ReportsInOrder ==
    ASSUME NEW s \in Sessions
    PROVE  Spec => Reports(s)!Spec
<1>1. Spec => []IInv /\ []ProtoInv /\ []LoopInv
  BY Invariant, ProtocolInvariant, LoopInvariant, PTL
<1>2. Init => Reports(s)!Init
  BY DEF Init, Reports!Init, LoopStatus, Live, IdleSession, Ended
<1>3. IInv /\ ProtoInv /\ LoopInv /\ [Next]_vars => [Reports(s)!Next]_(LoopStatus(s))
  BY StepReports
<1> QED
  BY <1>1, <1>2, <1>3, PTL DEF Spec, Reports!Spec
==============================================================================
