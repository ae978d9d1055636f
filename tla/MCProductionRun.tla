---------------------------- MODULE MCProductionRun ----------------------------
(***************************************************************************)
(* ProductionRun on two units and two processes.                           *)
(***************************************************************************)
EXTENDS ProductionRun

\* State constraint: nothing is claimed once the run lock has been lost (what
\* that leads to is the question of the run production_lock).
LockKept == "lock" \notin exposed
=============================================================================
