------------------------------ MODULE MCScanner ------------------------------
(***************************************************************************)
(* Scanner for TLC: two callers of Scan, two workers, two addresses, two   *)
(* primary ports and one alternate.                                        *)
(***************************************************************************)
EXTENDS Scanner, TLC

CONSTANTS c1, c2, w1, w2

MCPrimary == {1, 2}
MCExtended == {3}
MCCallers == {c1, c2}
MCWorkers == {w1, w2}
==============================================================================
