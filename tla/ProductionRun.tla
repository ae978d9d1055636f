--------------------------- MODULE ProductionRun ---------------------------
(***************************************************************************)
(* The generation of one production root: run_production_generation of     *)
(* src/prpg/simulation/production.py with its run lock, its run-state      *)
(* ledger and markers, and the workers that commit the work units.         *)
(*                                                                         *)
(* Coordinator processes are called, fresh or with resume, by an operator  *)
(* who may call one while another runs.  With one worker a coordinator     *)
(* generates in its own process; with more it runs a pool whose processes  *)
(* outlive it when it is killed, and finish what was dispatched to them.   *)
(*                                                                         *)
(* A work unit is here what its names look like from outside: the commit   *)
(* protocol that GroupCommit models call by call is taken in the steps     *)
(* that another process can tell apart.                                    *)
(***************************************************************************)
EXTENDS Naturals, FiniteSets

CONSTANTS
    NumUnits,    \* work units of the plan
    NumWorkers,  \* the most workers a call may ask for
    Processes,
    NoProcess,
    MaxFaults    \* bound: kills, interrupts, exceptions and outside writes

ASSUME ProductionAssumption ==
    /\ NumUnits \in Nat \ {0}
    /\ NumWorkers \in Nat \ {0}
    /\ IsFiniteSet(Processes)
    /\ NoProcess \notin Processes
    /\ MaxFaults \in Nat

VARIABLES
    root,      \* the output root exists
    lockName,  \* the inode that <root>/.run.lock names, 0 when there is none
    opened,    \* opened[p]: the inode of p's lock descriptor, or 0
    inputs,    \* the frozen run inputs are published
    state,     \* the disposition in run-state.json, or "none"
    markers,   \* the marker files: dispositions in capitals
    result,    \* logs/generation-result.json exists
    form,      \* form[u]: the canonical names of unit u (see Forms)
    by,        \* by[u]: the process whose worker published them
    stage,     \* stage[u]: the processes whose workers have a stage root for u
    jammed,    \* jammed[u]: a stale stage root of u cannot be reconciled
    pc,        \* pc[p]: what coordinator p does next
    fresh,     \* fresh[p]: its call does not resume
    workers,   \* workers[p]: its number of workers
    ending,    \* ending[p]: the disposition its failing call ends with
    task,      \* task[p][u]: what p's workers do with unit u
    exposed,   \* history: "lock" once a running coordinator's lock file was
               \* removed, "orphan" once a killed one left workers behind
    faults

control == <<pc, fresh, workers, ending, task>>
ledger == <<inputs, state, markers, result>>
lock == <<lockName, opened>>
units == <<form, by, stage, jammed>>
vars == <<root, lock, ledger, units, control, exposed, faults>>

Units == 1..NumUnits
Inodes == 1..(Cardinality(Processes) + 1)

\* none: no canonical name.  linked: siblings, still linked to a stage root.
\* bare: siblings alone, no receipt.  half: a receipt linked to its temporary.
\* complete: a group that verifies.  invalid: a receipt that does not verify.
Forms == {"none", "linked", "bare", "half", "complete", "invalid"}
Receipted(u) == form[u] \in {"half", "complete", "invalid"}

\* The steps of the coordinator inside run_production_generation's try block,
\* those of the with block outside it, and the rest.
TrySteps == {"scan", "work", "drain", "verify", "result", "unmark", "generated",
             "return"}
LockedSteps == TrySteps \cup {"inputs", "check", "clear", "state", "running",
                              "stop", "stopState", "stopMarker", "release"}
Steps == LockedSteps \cup {"idle", "lock", "flock", "unname"}

Committing == {"staging", "linked", "bare", "receipt", "load"}
Working == Committing \cup {"abort", "quarantine"}
TaskSteps == Working \cup {"none", "reused", "queued", "done", "failed"}

Dispositions == {"running", "interrupted", "failed", "generated"}

TypeOK ==
    /\ root \in BOOLEAN
    /\ lockName \in Inodes \cup {0}
    /\ opened \in [Processes -> Inodes \cup {0}]
    /\ inputs \in BOOLEAN
    /\ state \in Dispositions \cup {"none"}
    /\ markers \subseteq Dispositions
    /\ result \in BOOLEAN
    /\ form \in [Units -> Forms]
    /\ by \in [Units -> Processes \cup {NoProcess}]
    /\ stage \in [Units -> SUBSET Processes]
    /\ jammed \in [Units -> BOOLEAN]
    /\ pc \in [Processes -> Steps]
    /\ fresh \in [Processes -> BOOLEAN]
    /\ workers \in [Processes -> 1..NumWorkers]
    /\ ending \in [Processes -> {"none", "interrupted", "failed"}]
    /\ task \in [Processes -> [Units -> TaskSteps]]
    /\ exposed \subseteq {"lock", "orphan"}
    /\ faults \in Nat

NoTasks == [u \in Units |-> "none"]

Init ==
    /\ root = FALSE
    /\ lockName = 0
    /\ opened = [p \in Processes |-> 0]
    /\ inputs = FALSE
    /\ state = "none"
    /\ markers = {}
    /\ result = FALSE
    /\ form = [u \in Units |-> "none"]
    /\ by = [u \in Units |-> NoProcess]
    /\ stage = [u \in Units |-> {}]
    /\ jammed = [u \in Units |-> FALSE]
    /\ pc = [p \in Processes |-> "idle"]
    /\ fresh = [p \in Processes |-> FALSE]
    /\ workers = [p \in Processes |-> 1]
    /\ ending = [p \in Processes |-> "none"]
    /\ task = [p \in Processes |-> NoTasks]
    /\ exposed = {}
    /\ faults = 0

GoTo(p, step) == pc' = [pc EXCEPT ![p] = step]
Holding(p) == pc[p] \in LockedSteps

\* A step of coordinator p that leaves its call, the lock and the units alone.
Step(p, from, to) ==
    /\ pc[p] = from
    /\ GoTo(p, to)
    /\ UNCHANGED <<root, lock, units, fresh, workers, ending, task, exposed, faults>>

\* The exception of a failing call is on its way to the except clause.
StopAs(p, disposition) ==
    /\ GoTo(p, "stop")
    /\ ending' = [ending EXCEPT ![p] = disposition]

\* The coordinator goes on to a step, or an exception of its own fails the run.
GoToOrFail(p, ok, step) ==
    IF ok THEN GoTo(p, step) /\ UNCHANGED ending ELSE StopAs(p, "failed")

-----------------------------------------------------------------------------
(* _exclusive_run_lock *)

\* A call.  A fresh one makes the root, a resuming one needs it; one that finds
\* otherwise raises before it touches anything.
Call(p, isFresh) ==
    /\ pc[p] = "idle"
    /\ task[p] = NoTasks
    /\ root = ~isFresh
    /\ root' = TRUE
    /\ fresh' = [fresh EXCEPT ![p] = isFresh]
    /\ GoTo(p, "lock")
    /\ UNCHANGED <<lock, ledger, units, workers, ending, task, exposed, faults>>

CallFresh(p) == Call(p, TRUE)
CallResume(p) == Call(p, FALSE)

\* os.open(O_CREAT) and the check of its one link.
OpenLock(p) ==
    /\ pc[p] = "lock"
    /\ LET inode == IF lockName # 0 THEN lockName
                    ELSE CHOOSE i \in Inodes : \A q \in Processes : opened[q] # i
       IN  /\ lockName' = inode
           /\ opened' = [opened EXCEPT ![p] = inode]
    /\ GoTo(p, "flock")
    /\ UNCHANGED <<root, ledger, units, fresh, workers, ending, task, exposed, faults>>

\* Mutant: a shared lock, which refuses nobody.
TryLockShared(p) ==
    /\ pc[p] = "flock"
    /\ GoTo(p, IF fresh[p] THEN "inputs" ELSE "check")
    /\ exposed' = exposed \cup (IF opened[p] # lockName THEN {"lock"} ELSE {})
    /\ UNCHANGED <<root, lock, ledger, units, fresh, workers, ending, task, faults>>

\* flock(LOCK_EX | LOCK_NB) on the open inode: a call that is refused raises,
\* through the finally clause that closes the descriptor and unlinks the name.
TryLock(p) ==
    /\ pc[p] = "flock"
    /\ IF \E q \in Processes : Holding(q) /\ opened[q] = opened[p]
       THEN /\ opened' = [opened EXCEPT ![p] = 0]
            /\ GoTo(p, "unname")
            /\ UNCHANGED exposed
       ELSE /\ GoTo(p, IF fresh[p] THEN "inputs" ELSE "check")
            /\ exposed' = exposed \cup
                            (IF opened[p] # lockName THEN {"lock"} ELSE {})
            /\ UNCHANGED opened
    /\ UNCHANGED <<root, lockName, ledger, units, fresh, workers, ending, task, faults>>

\* The end of the with block: unlock and close ...
Release(p) ==
    /\ pc[p] = "release"
    /\ opened' = [opened EXCEPT ![p] = 0]
    /\ ending' = [ending EXCEPT ![p] = "none"]
    /\ task' = [task EXCEPT ![p] = NoTasks]
    /\ GoTo(p, "unname")
    /\ UNCHANGED <<root, lockName, ledger, units, fresh, workers, exposed, faults>>

\* ... and unlink whatever has the name of the lock.
UnlinkLock(p) ==
    /\ pc[p] = "unname"
    /\ lockName' = 0
    /\ exposed' = exposed \cup
         (IF \E q \in Processes : Holding(q) /\ opened[q] = lockName
          THEN {"lock"} ELSE {})
    /\ GoTo(p, "idle")
    /\ fresh' = [fresh EXCEPT ![p] = FALSE]
    /\ workers' = [workers EXCEPT ![p] = 1]
    /\ UNCHANGED <<root, opened, ledger, units, ending, task, faults>>

-----------------------------------------------------------------------------
(* _prepare_run_state, before the try block *)

\* Fresh: the frozen inputs, in a root that holds nothing but the lock.
WriteInputs(p) ==
    /\ Step(p, "inputs", "state")
    /\ inputs' = TRUE
    /\ UNCHANGED <<state, markers, result>>

\* Mutants: a failed run may be resumed; a stale running one may not.
CheckResumeAny(p) ==
    /\ Step(p, "check", IF inputs /\ state \in {"running", "interrupted", "failed"}
                        THEN "clear" ELSE "release")
    /\ UNCHANGED ledger
CheckResumeInterrupted(p) ==
    /\ Step(p, "check", IF inputs /\ state = "interrupted" THEN "clear" ELSE "release")
    /\ UNCHANGED ledger

CheckResume(p) ==
    /\ Step(p, "check", IF inputs /\ state \in {"running", "interrupted"}
                        THEN "clear" ELSE "release")
    /\ UNCHANGED ledger

\* Mutant: the marker of the interruption stays.
ClearMarkersRunning(p) ==
    /\ Step(p, "clear", "state")
    /\ markers' = markers \ {"running"}
    /\ UNCHANGED <<inputs, state, result>>

ClearMarkers(p) ==
    /\ Step(p, "clear", "state")
    /\ markers' = markers \ {"running", "interrupted"}
    /\ UNCHANGED <<inputs, state, result>>

WriteRunning(p) ==
    /\ Step(p, "state", "running")
    /\ state' = "running"
    /\ UNCHANGED <<inputs, markers, result>>

\* _publish_no_replace of RUNNING raises where the marker is.
MarkRunning(p) ==
    /\ Step(p, "running", IF "running" \in markers THEN "release" ELSE "scan")
    /\ markers' = markers \cup {"running"}
    /\ UNCHANGED <<inputs, state, result>>

-----------------------------------------------------------------------------
(* The units, in their order: reuse a receipt, quarantine stray siblings *)

Unscanned(p) == {u \in Units : task[p][u] = "none"}
NextUnit(p) == CHOOSE u \in Unscanned(p) : \A v \in Unscanned(p) : u <= v
Reusable(p, u) == ~fresh[p] /\ form[u] = "complete"

\* Unit u becomes absent.
Clears(u) ==
    /\ form' = [form EXCEPT ![u] = "none"]
    /\ by' = [by EXCEPT ![u] = NoProcess]

\* Mutant: a run that is resumed generates everything again.
ScanUnitAnew(p) ==
    /\ pc[p] = "scan"
    /\ Unscanned(p) # {}
    /\ Clears(NextUnit(p))
    /\ task' = [task EXCEPT ![p][NextUnit(p)] = "queued"]
    /\ UNCHANGED <<root, lock, ledger, stage, jammed, pc, fresh, workers, ending,
                   exposed, faults>>

ScanUnit(p) ==
    /\ pc[p] = "scan"
    /\ Unscanned(p) # {}
    /\ LET u == NextUnit(p)
       IN  /\ GoToOrFail(p, Reusable(p, u) \/ form[u] \in {"none", "bare"}, "scan")
           /\ IF form[u] \in {"none", "bare"} THEN Clears(u) ELSE UNCHANGED <<form, by>>
           /\ task' = [task EXCEPT ![p][u] =
                         IF Reusable(p, u) THEN "reused"
                         ELSE IF form[u] \in {"none", "bare"} THEN "queued" ELSE @]
    /\ UNCHANGED <<root, lock, ledger, stage, jammed, fresh, workers, exposed, faults>>

\* How many workers the call asked for matters from here on.
StartWork(p) ==
    /\ pc[p] = "scan"
    /\ Unscanned(p) = {}
    /\ GoTo(p, "work")
    /\ \E n \in 1..NumWorkers : workers' = [workers EXCEPT ![p] = n]
    /\ UNCHANGED <<root, lock, ledger, units, fresh, ending, task, exposed, faults>>

-----------------------------------------------------------------------------
(* The workers.  task[p] outlives p when p was killed with a pool.          *)

Busy(p) == {u \in Units : task[p][u] \in Working}
Queued(p) == {u \in Units : task[p][u] = "queued"}
Failed(p) == {u \in Units : task[p][u] = "failed"}

\* Nobody is left to take the result of an orphan.
Outcome(p, outcome) == IF pc[p] = "idle" THEN "none" ELSE outcome

\* The pool takes the next unit while a worker is free.  After a failure or an
\* interrupt what the pool has already fetched still runs, in the coordinator's
\* own process nothing does.
MayBegin(p, u) ==
    /\ task[p][u] = "queued"
    /\ \A v \in Queued(p) : u <= v
    /\ Cardinality(Busy(p)) < workers[p]
    /\ pc[p] \in {"work", "drain", "idle"}
    /\ workers[p] = 1 => pc[p] = "work" /\ Failed(p) = {}

\* The worker of p at unit u goes on to a step.
Advance(p, u, step) ==
    /\ task' = [task EXCEPT ![p][u] = step]
    /\ UNCHANGED <<root, lock, ledger, jammed, pc, fresh, workers, ending, exposed,
                   faults>>

\* _commit_serial_work_unit up to its stage root, over an absent unit.
BeginUnit(p, u) ==
    /\ MayBegin(p, u)
    /\ form[u] = "none"
    /\ ~jammed[u]
    /\ stage' = [stage EXCEPT ![u] = {p}]
    /\ Advance(p, u, "staging")
    /\ UNCHANGED <<form, by>>

\* It raises and leaves all as it is: over a valid receipt, over what quarantine
\* refuses, over a stage root that a kill, or a writer at work, left unreconcilable.
RefuseUnit(p, u) ==
    /\ MayBegin(p, u)
    /\ \/ form[u] \in {"half", "complete"}
       \/ ~Receipted(u) /\ jammed[u]
       \/ ~Receipted(u) /\ \E q \in stage[u] : task[q][u] = "staging"
    /\ Advance(p, u, Outcome(p, "failed"))
    /\ UNCHANGED <<form, by, stage>>

\* It raises after it has quarantined the canonical names.
QuarantineUnit(p, u) ==
    /\ MayBegin(p, u)
    /\ \/ form[u] = "invalid" /\ UNCHANGED stage
       \/ /\ form[u] \in {"linked", "bare"}
          /\ ~jammed[u]
          /\ stage' = [stage EXCEPT ![u] = {}]
    /\ Clears(u)
    /\ Advance(p, u, Outcome(p, "failed"))

\* The commit's try block takes one more step, as long as the names are those
\* its earlier steps left; otherwise its except clause is next.
Own(p, u, f) == form[u] = f /\ by[u] = p

PublishSiblings(p, u) ==
    /\ task[p][u] = "staging"
    /\ IF p \in stage[u] /\ form[u] = "none"
       THEN /\ form' = [form EXCEPT ![u] = "linked"]
            /\ by' = [by EXCEPT ![u] = p]
            /\ Advance(p, u, "linked")
       ELSE Advance(p, u, "abort") /\ UNCHANGED <<form, by>>
    /\ UNCHANGED stage

DiscardStage(p, u) ==
    /\ task[p][u] = "linked"
    /\ IF Own(p, u, "linked")
       THEN /\ form' = [form EXCEPT ![u] = "bare"]
            /\ stage' = [stage EXCEPT ![u] = @ \ {p}]
            /\ Advance(p, u, "bare")
       ELSE Advance(p, u, "abort") /\ UNCHANGED <<form, stage>>
    /\ UNCHANGED by

PublishReceipt(p, u) ==
    /\ task[p][u] = "bare"
    /\ IF Own(p, u, "bare")
       THEN form' = [form EXCEPT ![u] = "half"] /\ Advance(p, u, "receipt")
       ELSE Advance(p, u, "abort") /\ UNCHANGED form
    /\ UNCHANGED <<by, stage>>

FinishReceipt(p, u) ==
    /\ task[p][u] = "receipt"
    /\ form' = [form EXCEPT ![u] = "complete"]
    /\ Advance(p, u, "load")
    /\ UNCHANGED <<by, stage>>

LoadUnit(p, u) ==
    /\ task[p][u] = "load"
    /\ Advance(p, u, IF Own(p, u, "complete") THEN Outcome(p, "done") ELSE "abort")
    /\ UNCHANGED <<form, by, stage>>

\* The except clause: the stage root goes, if another process has not removed
\* it, which leaves the siblings with one name ...
AbortUnit(p, u) ==
    /\ task[p][u] = "abort"
    /\ stage' = [stage EXCEPT ![u] = @ \ {p}]
    /\ form' = IF Own(p, u, "linked") THEN [form EXCEPT ![u] = "bare"] ELSE form
    /\ Advance(p, u, "quarantine")
    /\ UNCHANGED by

\* ... and whatever has the canonical names is moved, whoever published it.
AbortQuarantine(p, u) ==
    /\ task[p][u] = "quarantine"
    /\ IF form[u] \in {"bare", "complete", "invalid"}
       THEN Clears(u) ELSE UNCHANGED <<form, by>>
    /\ Advance(p, u, Outcome(p, "failed"))
    /\ UNCHANGED stage

\* Mutant: neither the workers' failures nor the receipts are looked at.
EndWorkUnchecked(p) ==
    /\ Busy(p) = {}
    /\ Queued(p) = {} \/ Failed(p) # {}
    /\ Step(p, "work", "result")
    /\ UNCHANGED ledger

\* _run_worker_tasks returns, or raises once the pool is still.
EndWork(p) ==
    /\ pc[p] = "work"
    /\ Busy(p) = {}
    /\ Queued(p) = {} \/ Failed(p) # {}
    /\ GoToOrFail(p, Failed(p) = {}, "verify")
    /\ UNCHANGED <<root, lock, ledger, units, fresh, workers, task, exposed, faults>>

EndDrain(p) ==
    /\ Busy(p) = {}
    /\ Step(p, "drain", "stop")
    /\ UNCHANGED ledger

-----------------------------------------------------------------------------
(* The end of the run *)

\* Every unit verifies again and is the group its worker reported.
VerifyUnits(p) ==
    /\ pc[p] = "verify"
    /\ GoToOrFail(p, \A u \in Units : /\ form[u] = "complete"
                                      /\ task[p][u] = "done" => by[u] = p, "result")
    /\ UNCHANGED <<root, lock, ledger, units, fresh, workers, task, exposed, faults>>

\* _finish_generated_state: a report that exists raises.
PublishResult(p) ==
    /\ pc[p] = "result"
    /\ GoToOrFail(p, ~result, "unmark")
    /\ result' = TRUE
    /\ UNCHANGED <<root, lock, inputs, state, markers, units, fresh, workers, task,
                   exposed, faults>>

UnmarkRunning(p) ==
    /\ Step(p, "unmark", "generated")
    /\ markers' = markers \ {"running"}
    /\ UNCHANGED <<inputs, state, result>>

WriteGenerated(p) ==
    /\ Step(p, "generated", "return")
    /\ state' = "generated"
    /\ UNCHANGED <<inputs, markers, result>>

ReturnResult(p) == Step(p, "return", "release") /\ UNCHANGED ledger

\* _transition_run_state, from the except clauses.
StopUnmark(p) ==
    /\ Step(p, "stop", "stopState")
    /\ markers' = markers \ {"running"}
    /\ UNCHANGED <<inputs, state, result>>

StopState(p) ==
    /\ Step(p, "stopState", "stopMarker")
    /\ state' = ending[p]
    /\ UNCHANGED <<inputs, markers, result>>

StopMarker(p) ==
    /\ Step(p, "stopMarker", "release")
    /\ markers' = markers \cup {ending[p]}
    /\ UNCHANGED <<inputs, state, result>>

-----------------------------------------------------------------------------
(* Faults *)

Fault == faults < MaxFaults /\ faults' = faults + 1

\* What an exception in the commit's try block leaves of unit u: the receipt's
\* temporary, if any, is unlinked, and the except clause is next.
Thrown(p, u) == IF task[p][u] \in Committing THEN "abort" ELSE task[p][u]
AfterThrow(p, u) == IF task[p][u] = "receipt" THEN "complete" ELSE form[u]

\* Ctrl-C or an exception in the coordinator while the workers are at work: a
\* pool runs on, work in its own process aborts.
InterruptWork(p, disposition) ==
    /\ pc[p] = "work"
    /\ Fault
    /\ GoTo(p, "drain")
    /\ ending' = [ending EXCEPT ![p] = disposition]
    /\ IF workers[p] = 1
       THEN /\ task' = [task EXCEPT ![p] = [u \in Units |-> Thrown(p, u)]]
            /\ form' = [u \in Units |-> AfterThrow(p, u)]
       ELSE UNCHANGED <<task, form>>
    /\ UNCHANGED <<root, lock, ledger, by, stage, jammed, fresh, workers, exposed>>

\* The same at another step of the try block, or outside it, where no except
\* clause transitions the run.
Interrupt(p, disposition) ==
    /\ pc[p] \in Steps \ {"idle", "unname", "release", "work", "drain"}
    /\ Fault
    /\ IF pc[p] \in TrySteps THEN StopAs(p, disposition)
       ELSE GoTo(p, IF Holding(p) THEN "release" ELSE "unname") /\ UNCHANGED ending
    /\ opened' = IF Holding(p) THEN opened ELSE [opened EXCEPT ![p] = 0]
    /\ UNCHANGED <<root, lockName, ledger, units, fresh, workers, task, exposed>>

\* An exception in a worker.
FailUnit(p, u) ==
    /\ task[p][u] \in Committing
    /\ Fault
    /\ task' = [task EXCEPT ![p][u] = "abort"]
    /\ form' = [form EXCEPT ![u] = AfterThrow(p, u)]
    /\ UNCHANGED <<root, lock, ledger, by, stage, jammed, pc, fresh, workers,
                   ending, exposed>>

\* SIGKILL of a coordinator.  Its descriptor, and with it the lock, is gone.
Dies(p) ==
    /\ pc[p] # "idle"
    /\ Fault
    /\ GoTo(p, "idle")
    /\ opened' = [opened EXCEPT ![p] = 0]
    /\ ending' = [ending EXCEPT ![p] = "none"]
    /\ fresh' = [fresh EXCEPT ![p] = FALSE]

Orphans(p) == IF workers[p] > 1 THEN Busy(p) \cup Queued(p) ELSE {}

\* It had a pool at work, which goes on with what the pool fetched ahead: every
\* unit of a plan as small as the ones checked.
KillPool(p) ==
    /\ pc[p] \in {"work", "drain"}
    /\ Orphans(p) # {}
    /\ Dies(p)
    /\ task' = [task EXCEPT ![p] =
                  [u \in Units |-> IF u \in Orphans(p) THEN @[u] ELSE "none"]]
    /\ exposed' = exposed \cup {"orphan"}
    /\ UNCHANGED <<root, lockName, ledger, units, workers>>

\* It had none, and its own work stops where it is.  If that is torn, a shard is
\* still linked to its temporary, or a receipt has lost siblings to quarantine.
Kill(p) ==
    /\ pc[p] \in {"work", "drain"} => Orphans(p) = {}
    /\ Dies(p)
    /\ task' = [task EXCEPT ![p] = NoTasks]
    /\ workers' = [workers EXCEPT ![p] = 1]
    /\ \E torn \in BOOLEAN :
         /\ jammed' = [u \in Units |->
              jammed[u] \/ (torn /\ task[p][u] = "staging")]
         /\ form' = [u \in Units |->
              IF torn /\ task[p][u] = "quarantine" /\ form[u] = "complete"
              THEN "invalid" ELSE form[u]]
    /\ UNCHANGED <<root, lockName, ledger, by, stage, exposed>>

\* Another program spoils a file of a complete group.
Damage(u) ==
    /\ form[u] = "complete"
    /\ Fault
    /\ form' = [form EXCEPT ![u] = "invalid"]
    /\ UNCHANGED <<root, lock, ledger, by, stage, jammed, control, exposed>>

-----------------------------------------------------------------------------
Coordinate(p) ==
    \/ OpenLock(p) \/ TryLock(p) \/ Release(p) \/ UnlinkLock(p)
    \/ WriteInputs(p) \/ CheckResume(p) \/ ClearMarkers(p) \/ WriteRunning(p)
    \/ MarkRunning(p) \/ ScanUnit(p) \/ StartWork(p) \/ EndWork(p) \/ EndDrain(p)
    \/ VerifyUnits(p) \/ PublishResult(p) \/ UnmarkRunning(p) \/ WriteGenerated(p)
    \/ ReturnResult(p) \/ StopUnmark(p) \/ StopState(p) \/ StopMarker(p)

Generate(p, u) ==
    \/ BeginUnit(p, u) \/ RefuseUnit(p, u) \/ QuarantineUnit(p, u)
    \/ PublishSiblings(p, u) \/ DiscardStage(p, u) \/ PublishReceipt(p, u)
    \/ FinishReceipt(p, u) \/ LoadUnit(p, u)
    \/ AbortUnit(p, u) \/ AbortQuarantine(p, u)

Next ==
    \/ \E p \in Processes :
         \/ CallFresh(p) \/ CallResume(p) \/ Coordinate(p)
         \/ Kill(p) \/ KillPool(p)
         \/ \E d \in {"interrupted", "failed"} : InterruptWork(p, d) \/ Interrupt(p, d)
         \/ \E u \in Units : Generate(p, u) \/ FailUnit(p, u)
    \/ \E u \in Units : Damage(u)

Spec == Init /\ [][Next]_vars

\* Processes run on, and the operator calls resume again and again.
FairSpec ==
    /\ Spec
    /\ \A p \in Processes : WF_vars(Coordinate(p))
    /\ WF_vars(\E p \in Processes, u \in Units : Generate(p, u))
    /\ SF_vars(\E p \in Processes : CallResume(p))

-----------------------------------------------------------------------------
(* Properties *)

\* "The coordinator obtains an exclusive run lock": two processes are never in
\* the locked section of run_production_generation at once.
OneCoordinator ==
    \A p, q \in Processes : Holding(p) /\ Holding(q) => p = q

\* The lock excludes as long as no refused or leaving call has removed the lock
\* file from under a running coordinator, or locked a file without a name.
OneCoordinatorUnlessExposed == "lock" \in exposed \/ OneCoordinator

\* At every instant, through kills included, a marker file tells the
\* disposition of the ledger, and there is one at most.
MarkerTellsState == "lock" \in exposed \/ markers \subseteq {state}

\* A run is recorded as generated only over groups that were all committed
\* (another program may spoil one afterwards).
GeneratedIsComplete ==
    state = "generated" /\ exposed = {} =>
        \A u \in Units : form[u] \in {"complete", "invalid"}

\* No writer of unit u is at work.
Unwritten(u) == \A p \in Processes : task[p][u] \notin Working

\* What was committed is never generated again, nor quarantined: however often
\* the run is killed and resumed, and whatever orphans and second coordinators
\* are about, a complete unit nobody writes stays, unless a file is spoilt.
CommittedUnitsStay ==
    [][\A u \in Units : form[u] = "complete" /\ Unwritten(u) =>
           form'[u] \in {"complete", "invalid"} /\ Unwritten(u)']_vars

\* Nobody is at work in the run: no call is between its check of the ledger and
\* the release of the lock, no worker works, and no orphan is to begin.
Abandoned ==
    \A p \in Processes :
        /\ pc[p] \in {"idle", "lock", "flock", "check", "release", "unname"}
        /\ Busy(p) = {}
        /\ pc[p] = "release" \/ Queued(p) = {}

\* "FAILED is terminal: remediation creates a new run."  A failed run that nobody
\* is at work in stays failed and as it is, and nobody gets to work in it,
\* whatever is called on it, with or without a lock that excludes.  As long as no
\* lock is exposed and no orphan left, that holds from the failure on.
FailedIsTerminal ==
    [][state = "failed" /\ (exposed' = {} \/ Abandoned) =>
         /\ state' = "failed"
         /\ \A u \in Units : form'[u] \in {form[u], "invalid"}
         /\ Abandoned => Abandoned']_vars

\* "A corrupted completed shard invalidates and regenerates its whole work unit",
\* and "canonical-named sibling files without a valid group receipt are also
\* quarantined and the entire work unit is regenerated": on resume, a unit that
\* is not a complete group is queued, whatever a kill left of it.
ResumeRegenerates ==
    [][\A p \in Processes : ScanUnit(p) /\ form[NextUnit(p)] # "complete" =>
         task'[p][NextUnit(p)] = "queued"]_vars

\* "Recovery must prove that no writer or live lock remains": while a
\* coordinator is past _prepare_run_state, no worker of another is at work.
RecoveredAlone ==
    \A p, q \in Processes : p # q /\ pc[p] \in TrySteps => Busy(q) = {}

\* A run that started ends generated or failed, if it is resumed after every
\* kill and interrupt.
StartedRunEnds == state = "running" ~> state \in {"generated", "failed"}
=============================================================================
