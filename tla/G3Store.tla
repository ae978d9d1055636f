------------------------------ MODULE G3Store ------------------------------
(***************************************************************************)
(* What model/run_store.py keeps on disk for one calibration run, and what *)
(* its public calls demand of it before they write: the launch marker, one *)
(* result per task and one chain of planned looks per family.              *)
(*                                                                         *)
(* A task result or look is published by _write_or_verify_exact: a         *)
(* temporary in the directory of the record, a hard link from it to the    *)
(* record, the unlink of the temporary.  Every verification of the         *)
(* directory refuses any other entry, so a temporary that a killed process *)
(* left is part of the state.  Fingerprints are left out: a record is what *)
(* it says.  A chain is "continue" up to its last look.                    *)
(***************************************************************************)
EXTENDS G3Graph

CONSTANTS
    SelectionTask,  \* design_predictive_selection, which freezes the state count
    StateCounts     \* the state counts it may select: 2..5

ASSUME SelectionAssumption ==
    SelectionTask \in Tasks /\ StateCounts \subseteq Nat \ {0}

NoCount == 0
NoLook == [count |-> 0, last |-> "none"]

Statuses == {"passed", "failed", "blocked"}
Decisions == {"continue", "pass", "fail"}

VARIABLES
    launch,      \* the state of the launch marker; "none" before plan_launch
    sequence,    \* its sequence number
    markerTmp,   \* the temporary that planned the marker is still linked to it
    status,      \* status[t]: the durable result of task t, or "absent"
    selectedK,   \* selectedK[t]: the state count in the payload of that result
    looks,       \* looks[f]: how many looks of f are durable, and the last decision
    tmps         \* directories with a temporary: 0 for task-results, f for family f

store == <<launch, sequence, markerTmp, status, selectedK, looks, tmps>>

ResultDirectory == 0
Directories == 0..NumFamilies

StoreTypeOK ==
    /\ launch \in {"none", "planned", "running", "completed"}
    /\ sequence \in Nat
    /\ markerTmp \in BOOLEAN
    /\ status \in [Tasks -> Statuses \cup {"absent"}]
    /\ selectedK \in [Tasks -> StateCounts \cup {NoCount}]
    /\ looks \in [Families -> [count : Nat, last : Decisions \cup {"none"}]]
    /\ tmps \subseteq Directories

StoreInit ==
    /\ launch = "none"
    /\ sequence = 0
    /\ markerTmp = FALSE
    /\ status = [t \in Tasks |-> "absent"]
    /\ selectedK = [t \in Tasks |-> NoCount]
    /\ looks = [f \in Families |-> NoLook]
    /\ tmps = {}

-----------------------------------------------------------------------------
(* Verification *)

Present(t) == status[t] # "absent"
BlockedBy(t) == {d \in Dependencies[t] : status[d] # "passed"}
Terminal(f) == looks[f].last \in {"pass", "fail"}

\* verify_task_results(require_complete=False)
ResultsVerify ==
    /\ ResultDirectory \notin tmps
    /\ \A t \in Tasks : Present(t) =>
         /\ \A d \in Dependencies[t] : Present(d)
         /\ status[t] = "blocked" <=> BlockedBy(t) # {}

\* verify_planned_look_receipts(require_terminal=False)
LooksVerify ==
    \A f \in Families :
        /\ f \notin tmps
        /\ looks[f].count = Schedule[f] => looks[f].last # "continue"

\* _assert_active_lease, of a lease whose process holds the lock
LeaseActive == launch = "running" /\ ~markerTmp

\* write_task_result: the graph and the looks allow result s for task t.
ResultAllowed(t, s) ==
    /\ LeaseActive
    /\ ResultsVerify
    /\ ~Present(t)
    /\ \A d \in Dependencies[t] : Present(d)
    /\ s = "blocked" <=> BlockedBy(t) # {}
    /\ Owned(t) # {} => LooksVerify
    /\ \A f \in Owned(t) :
         IF s = "blocked" THEN looks[f] = NoLook ELSE Terminal(f)

\* write_planned_look_receipt: decision d is the next look of family f.
LookAllowed(f, d) ==
    /\ LeaseActive
    /\ ResultsVerify
    /\ LooksVerify
    /\ ~Present(Owner[f])
    /\ \A t \in Dependencies[Owner[f]] : status[t] = "passed"
    /\ ~Terminal(f)
    /\ looks[f].count < Schedule[f]
    /\ looks[f].count + 1 = Schedule[f] => d # "continue"

\* complete_launch: every result is there, every family of a task that ran has
\* its terminal decision.
CompletionAllowed ==
    /\ LeaseActive
    /\ ResultsVerify
    /\ LooksVerify
    /\ \A t \in Tasks : Present(t)
    /\ \A f \in Families :
         IF status[Owner[f]] = "blocked" THEN looks[f] = NoLook ELSE Terminal(f)
=============================================================================
