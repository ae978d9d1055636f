------------------------------ MODULE WorkUnit ------------------------------
(***************************************************************************)
(* What the storage layer promises of one work unit to the coordinators    *)
(* that read it back through verify_serial_work_unit: the unit is either   *)
(* complete, every file intact and of one attempt, or it is not there.  A  *)
(* complete unit changes only by ceasing to be complete, and an attempt    *)
(* that was closed never becomes complete again.                           *)
(***************************************************************************)
EXTENDS Naturals

CONSTANT Siblings  \* the files of the unit

VARIABLES
    phase,    \* "closed", "open" (an attempt is under way) or "complete"
    attempt,  \* the last attempt begun
    files     \* files[i]: the attempt of the intact file i, 0 when there is none

vars == <<phase, attempt, files>>

Init ==
    /\ phase = "closed"
    /\ attempt = 0
    /\ files = [i \in Siblings |-> 0]

\* An attempt begins only where nothing of an earlier one is left.
Begin ==
    /\ phase = "closed"
    /\ files = [i \in Siblings |-> 0]
    /\ phase' = "open"
    /\ attempt' = attempt + 1
    /\ files' = files

\* Files of the open attempt appear, or are spoilt.
Publish ==
    /\ phase = "open"
    /\ files' \in [Siblings -> {0, attempt}]
    /\ UNCHANGED <<phase, attempt>>

\* The attempt becomes visible at once and whole.
Complete ==
    /\ phase = "open"
    /\ files = [i \in Siblings |-> attempt]
    /\ phase' = "complete"
    /\ UNCHANGED <<attempt, files>>

\* The attempt fails, is killed, is spoilt or is moved to quarantine.
Close ==
    /\ phase \in {"open", "complete"}
    /\ phase' = "closed"
    /\ attempt' = attempt
    /\ files' \in [Siblings -> {0, attempt}]

\* What a closed attempt left behind only goes away.
Clear ==
    /\ phase = "closed"
    /\ files' \in [Siblings -> {0, attempt}]
    /\ \A i \in Siblings : files'[i] \in {0, files[i]}
    /\ UNCHANGED <<phase, attempt>>

Next == Begin \/ Publish \/ Complete \/ Close \/ Clear

Spec == Init /\ [][Next]_vars
=============================================================================
