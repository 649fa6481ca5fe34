---------------------------- MODULE MCConfigStore ----------------------------
(* ConfigStore for TLC: two callers. *)
EXTENDS ConfigStore

CONSTANTS c1, c2
MCCallers == {c1, c2}
==============================================================================
