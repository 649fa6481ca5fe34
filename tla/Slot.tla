---------------------------------- MODULE Slot ----------------------------------
(***************************************************************************)
(* The slot that Scan keeps in scanMu and scanCancel (scanner.go 76-106),  *)
(* and ProbeNetwork and TestSni in probeMu and probeCancel (strategy.go    *)
(* 61-106): one call at a time, what it starts ends before the slot is     *)
(* free, and a request to stop is neither lost while the call runs nor met *)
(* by the next one.                                                        *)
(***************************************************************************)
CONSTANTS
    Callers,    \* who may call
    None        \* no caller

VARIABLES
    holder,     \* the caller whose cancel function is stored
    active,     \* the callers inside a call
    helpers,    \* what works for the call at the moment
    cancelled   \* the holder has been asked to stop

slotVars == <<holder, active, helpers, cancelled>>

Init == holder = None /\ active = {} /\ helpers = {} /\ ~cancelled

Begin(c) ==
    /\ holder = None /\ active = {} /\ helpers = {}
    /\ holder' = c /\ active' = {c} /\ helpers' = {} /\ ~cancelled'

\* The call starts one helper, or one has finished.
Help ==
    /\ holder # None
    /\ \/ \E h \in helpers' : helpers' = helpers \cup {h}
       \/ \E h \in helpers : helpers' = helpers \ {h}
    /\ UNCHANGED <<holder, active, cancelled>>

Cancel ==
    /\ holder # None /\ cancelled'
    /\ UNCHANGED <<holder, active, helpers>>

End ==
    /\ active = {holder} /\ helpers = {}
    /\ holder' = None /\ active' = {} /\ helpers' = {} /\ ~cancelled'

Next == (\E c \in Callers : Begin(c)) \/ Help \/ Cancel \/ End

Spec == Init /\ [][Next]_slotVars
================================================================================
