---------------------------- MODULE MCProbeTunnel ----------------------------
(***************************************************************************)
(* ProbeTunnel for TLC: two workers, two targets of every quality, bursts  *)
(* of three echoes with a tail of two, and one loss less than two tails.    *)
(***************************************************************************)
EXTENDS ProbeTunnel

CONSTANTS w1, w2, t1, t2
MCWorkers == {w1, w2}
MCTargets == {t1, t2}
==============================================================================
