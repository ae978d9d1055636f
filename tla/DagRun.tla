------------------------------- MODULE DagRun -------------------------------
(***************************************************************************)
(* What a calibration launch promises its readers: each task of the graph  *)
(* is decided once, after its dependencies, and is blocked exactly when    *)
(* one of them did not pass; the state count is chosen once, by a passed   *)
(* selection, and every later decision carries it; the launch completes    *)
(* when all is decided, and stays so.                                      *)
(***************************************************************************)
EXTENDS Naturals

CONSTANTS Tasks, Dependencies, SelectionTask, StateCounts

VARIABLES
    verdict,  \* verdict[t]: "absent", "passed", "failed" or "blocked"
    carried,  \* carried[t]: the state count the verdict on t carries, or 0
    done      \* the launch is complete

vars == <<verdict, carried, done>>

Init ==
    /\ verdict = [t \in Tasks |-> "absent"]
    /\ carried = [t \in Tasks |-> 0]
    /\ done = FALSE

Verdicts(t) ==
    IF \A d \in Dependencies[t] : verdict[d] = "passed"
    THEN {"passed", "failed"} ELSE {"blocked"}

Counts(t, v) ==
    IF t = SelectionTask
    THEN IF v = "passed" THEN StateCounts ELSE {0}
    ELSE {carried[SelectionTask]}

Decide(t) ==
    /\ ~done
    /\ verdict[t] = "absent"
    /\ \A d \in Dependencies[t] : verdict[d] # "absent"
    /\ \E v \in Verdicts(t) :
         /\ verdict' = [verdict EXCEPT ![t] = v]
         /\ \E c \in Counts(t, v) : carried' = [carried EXCEPT ![t] = c]
    /\ UNCHANGED done

Finish ==
    /\ ~done
    /\ \A t \in Tasks : verdict[t] # "absent"
    /\ done' = TRUE
    /\ UNCHANGED <<verdict, carried>>

Next == Finish \/ \E t \in Tasks : Decide(t)

Spec == Init /\ [][Next]_vars
=============================================================================
