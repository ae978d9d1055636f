--------------------------- MODULE G3Coordinator ---------------------------
(***************************************************************************)
(* Processes that plan, start, resume and coordinate one calibration run:  *)
(* plan_launch, start_launch and complete_launch of model/run_store.py and *)
(* coordinate_g3_smoke_launch of model/g3_coordinator.py, over G3Store.    *)
(*                                                                         *)
(* Several processes contend for the run.  The one that gets the advisory  *)
(* lock works through the tasks in registry order on what it read when it  *)
(* started.  Any of them may be killed between two system calls (Kill: the *)
(* kernel drops its lock, its temporary stays) or raise where it stands    *)
(* (Raise: an IntegrityError, an exception of a handler, a look prefix     *)
(* that a rerun handler does not reproduce, Ctrl-C), and be run again with *)
(* resume set as the marker requires.  A call that only raises is no step. *)
(***************************************************************************)
EXTENDS G3Store

CONSTANTS
    Processes,
    NoProcess,
    MaxFaults   \* bound: kills and exceptions together

ASSUME ProcessAssumption == NoProcess \notin Processes /\ MaxFaults \in Nat

VARIABLES
    lock,      \* the process that holds the flock of the run
    pc,        \* pc[p]: what p does next
    memory,    \* memory[p]: the results p has read or written ("processed")
    selected,  \* selected[p]: the state count p works with
    job,       \* job[p]: the outcome p is recording, and the record it is at
    faults

local == <<pc, memory, selected, job>>
vars == <<store, lock, local, faults>>

Nothing == [t \in Tasks |-> "absent"]
NoPlan == [f \in Families |-> NoLook]

\* outcome: the task's result; plan: the looks its families shall end with;
\* at: the directory of the record under way.
NoJob == [task |-> 1, outcome |-> "blocked", count |-> NoCount,
          plan |-> NoPlan, at |-> ResultDirectory]

Steps == {"idle", "planUnlink", "locked", "load", "task", "record", "link", "unlink"}

TypeOK ==
    /\ StoreTypeOK
    /\ lock \in Processes \cup {NoProcess}
    /\ pc \in [Processes -> Steps]
    /\ memory \in [Processes -> [Tasks -> Statuses \cup {"absent"}]]
    /\ selected \in [Processes -> StateCounts \cup {NoCount}]
    /\ job \in [Processes ->
                 [task : Tasks, outcome : Statuses,
                  count : StateCounts \cup {NoCount},
                  plan : [Families -> [count : Nat, last : Decisions \cup {"none"}]],
                  at : Directories]]
    /\ faults \in Nat

Init ==
    /\ StoreInit
    /\ lock = NoProcess
    /\ pc = [p \in Processes |-> "idle"]
    /\ memory = [p \in Processes |-> Nothing]
    /\ selected = [p \in Processes |-> NoCount]
    /\ job = [p \in Processes |-> NoJob]
    /\ faults = 0

GoTo(p, step) == pc' = [pc EXCEPT ![p] = step]

\* The call of p ends: its with block closes the lease and the lock.
Stop(p) ==
    /\ GoTo(p, "idle")
    /\ lock' = IF lock = p THEN NoProcess ELSE lock
    /\ memory' = [memory EXCEPT ![p] = Nothing]
    /\ selected' = [selected EXCEPT ![p] = NoCount]
    /\ job' = [job EXCEPT ![p] = NoJob]

-----------------------------------------------------------------------------
(* The launch *)

\* plan_launch links the PLANNED marker to its temporary ...
PlanLaunch(p) ==
    /\ pc[p] = "idle"
    /\ launch = "none"
    /\ launch' = "planned"
    /\ markerTmp' = TRUE
    /\ GoTo(p, "planUnlink")
    /\ UNCHANGED <<sequence, status, selectedK, looks, tmps, lock, memory,
                   selected, job, faults>>

\* ... and unlinks that.
UnlinkPlan(p) ==
    /\ pc[p] = "planUnlink"
    /\ markerTmp' = FALSE
    /\ GoTo(p, "idle")
    /\ UNCHANGED <<launch, sequence, status, selectedK, looks, tmps, lock,
                   memory, selected, job, faults>>

\* Mutant: the lock is opened and never tested.
AcquireLockShared(p) ==
    /\ pc[p] = "idle"
    /\ launch # "none"
    /\ lock' = p
    /\ GoTo(p, "locked")
    /\ UNCHANGED <<store, memory, selected, job, faults>>

\* _acquire_launch_lock: flock(LOCK_EX | LOCK_NB).
AcquireLock(p) ==
    /\ pc[p] = "idle"
    /\ launch # "none"
    /\ lock = NoProcess
    /\ lock' = p
    /\ GoTo(p, "locked")
    /\ UNCHANGED <<store, memory, selected, job, faults>>

\* Mutant: a running launch is refused, whoever left it.
StartLaunchOnce(p) ==
    /\ pc[p] = "locked"
    /\ IF ~markerTmp /\ launch = "planned"
       THEN /\ launch' = "running"
            /\ sequence' = sequence + 1
            /\ GoTo(p, "load")
            /\ UNCHANGED <<lock, memory, selected, job>>
       ELSE Stop(p) /\ UNCHANGED <<launch, sequence>>
    /\ UNCHANGED <<markerTmp, status, selectedK, looks, tmps, faults>>

\* start_launch under the lock: PLANNED starts, RUNNING resumes over records
\* that verify, anything else releases the lock and raises.
StartLaunch(p) ==
    /\ pc[p] = "locked"
    /\ IF /\ ~markerTmp
          /\ \/ launch = "planned"
             \/ launch = "running" /\ ResultsVerify /\ LooksVerify
       THEN /\ launch' = "running"
            /\ sequence' = sequence + 1
            /\ GoTo(p, "load")
            /\ UNCHANGED <<lock, memory, selected, job>>
       ELSE Stop(p) /\ UNCHANGED <<launch, sequence>>
    /\ UNCHANGED <<markerTmp, status, selectedK, looks, tmps, faults>>

\* Mutant: a resumed coordinator forgets the state count that was selected.
LoadRunForgetful(p) ==
    /\ pc[p] = "load"
    /\ memory' = [memory EXCEPT ![p] = status]
    /\ GoTo(p, "task")
    /\ UNCHANGED <<store, lock, selected, job, faults>>

\* The coordinator reads the durable results and the state count they froze.
LoadRun(p) ==
    /\ pc[p] = "load"
    /\ memory' = [memory EXCEPT ![p] = status]
    /\ selected' = [selected EXCEPT ![p] =
                      IF status[SelectionTask] = "passed"
                      THEN selectedK[SelectionTask] ELSE NoCount]
    /\ GoTo(p, "task")
    /\ UNCHANGED <<store, lock, job, faults>>

-----------------------------------------------------------------------------
(* One task *)

Remaining(p) == {t \in Tasks : memory[p][t] = "absent"}
Next1(p) == CHOOSE t \in Remaining(p) : \A u \in Remaining(p) : t <= u
Unpassed(p, t) == {d \in Dependencies[t] : memory[p][d] # "passed"}

\* A task with a dependency that did not pass is blocked without its handler.
BlockTask(p) ==
    /\ pc[p] = "task"
    /\ Remaining(p) # {}
    /\ Unpassed(p, Next1(p)) # {}
    /\ job' = [job EXCEPT ![p] = [NoJob EXCEPT !.task = Next1(p),
                                               !.count = selected[p]]]
    /\ GoTo(p, "record")
    /\ UNCHANGED <<store, lock, memory, selected, faults>>

\* How family f may end, given the looks that are durable.
Endings(f) ==
    IF Terminal(f) THEN {looks[f]}
    ELSE [count : (looks[f].count + 1)..Schedule[f], last : {"pass", "fail"}]

\* Mutant: a task may pass on looks that failed.
OutcomesAnyLook(t) ==
    {o \in [outcome : {"passed", "failed"},
            plan : {q \in [Families -> {NoLook} \cup UNION {Endings(f) : f \in Owned(t)}] :
                      \A f \in Families :
                        IF f \in Owned(t) THEN q[f] \in Endings(f) ELSE q[f] = NoLook}] :
       TRUE}

\* What _validate_outcome accepts of the handler of t, and what
\* _scientific_failure_outcome makes of its ModelError: every owned family ends
\* and, if the task passes, every one of them passes.
Outcomes(t) ==
    {o \in [outcome : {"passed", "failed"},
            plan : {q \in [Families -> {NoLook} \cup UNION {Endings(f) : f \in Owned(t)}] :
                      \A f \in Families :
                        IF f \in Owned(t) THEN q[f] \in Endings(f) ELSE q[f] = NoLook}] :
       o.outcome = "passed" => \A f \in Owned(t) : o.plan[f].last = "pass"}

\* The state count the result of t records.
Counts(p, t, outcome) ==
    IF t # SelectionTask THEN {selected[p]}
    ELSE IF outcome = "passed" THEN StateCounts ELSE {NoCount}

RunHandler(p) ==
    /\ pc[p] = "task"
    /\ Remaining(p) # {}
    /\ Unpassed(p, Next1(p)) = {}
    /\ \E o \in Outcomes(Next1(p)) : \E c \in Counts(p, Next1(p), o.outcome) :
         job' = [job EXCEPT ![p] = [NoJob EXCEPT !.task = Next1(p),
                                                 !.outcome = o.outcome,
                                                 !.count = c,
                                                 !.plan = o.plan]]
    /\ GoTo(p, "record")
    /\ UNCHANGED <<store, lock, memory, selected, faults>>

-----------------------------------------------------------------------------
(* One record: the missing looks of the task's families in registry order,   *)
(* then its result                                                           *)

Unfinished(p) == {f \in Owned(job[p].task) : looks[f] # job[p].plan[f]}

\* Mutant: the result is written before the looks it rests on.
NextRecordResultFirst(p) == ResultDirectory

NextRecord(p) ==
    IF Unfinished(p) = {} THEN ResultDirectory
    ELSE CHOOSE f \in Unfinished(p) : \A g \in Unfinished(p) : f <= g

Decision(p, f) ==
    IF looks[f].count + 1 = job[p].plan[f].count THEN job[p].plan[f].last
    ELSE "continue"

RecordAllowed(p) ==
    IF NextRecord(p) = ResultDirectory
    THEN ResultAllowed(job[p].task, job[p].outcome)
    ELSE LookAllowed(NextRecord(p), Decision(p, NextRecord(p)))

\* The store checks the record, or raises, and makes its temporary.
BeginRecord(p) ==
    /\ pc[p] = "record"
    /\ IF RecordAllowed(p)
       THEN /\ tmps' = tmps \cup {NextRecord(p)}
            /\ job' = [job EXCEPT ![p].at = NextRecord(p)]
            /\ GoTo(p, "link")
            /\ UNCHANGED <<lock, memory, selected>>
       ELSE Stop(p) /\ UNCHANGED tmps
    /\ UNCHANGED <<launch, sequence, markerTmp, status, selectedK, looks, faults>>

\* os.link publishes it, under a name that is free.
LinkRecord(p) ==
    /\ pc[p] = "link"
    /\ IF job[p].at = ResultDirectory
       THEN /\ ~Present(job[p].task)
            /\ status' = [status EXCEPT ![job[p].task] = job[p].outcome]
            /\ selectedK' = [selectedK EXCEPT ![job[p].task] = job[p].count]
            /\ UNCHANGED looks
       ELSE /\ looks[job[p].at].count < job[p].plan[job[p].at].count
            /\ looks' = [looks EXCEPT ![job[p].at] =
                           [count |-> @.count + 1, last |-> Decision(p, job[p].at)]]
            /\ UNCHANGED <<status, selectedK>>
    /\ GoTo(p, "unlink")
    /\ UNCHANGED <<launch, sequence, markerTmp, tmps, lock, memory, selected,
                   job, faults>>

\* Its temporary goes, and a result enters the coordinator's memory.
UnlinkRecord(p) ==
    /\ pc[p] = "unlink"
    /\ tmps' = tmps \ {job[p].at}
    /\ IF job[p].at = ResultDirectory
       THEN /\ memory' = [memory EXCEPT ![p][job[p].task] = job[p].outcome]
            /\ selected' = [selected EXCEPT ![p] =
                              IF job[p].task = SelectionTask /\ job[p].outcome = "passed"
                              THEN job[p].count ELSE @]
            /\ job' = [job EXCEPT ![p] = NoJob]
            /\ GoTo(p, "task")
       ELSE GoTo(p, "record") /\ UNCHANGED <<memory, selected, job>>
    /\ UNCHANGED <<launch, sequence, markerTmp, status, selectedK, looks, lock, faults>>

\* complete_launch, and the end of the with block.
CompleteLaunch(p) ==
    /\ pc[p] = "task"
    /\ Remaining(p) = {}
    /\ IF CompletionAllowed
       THEN launch' = "completed" /\ sequence' = sequence + 1
       ELSE UNCHANGED <<launch, sequence>>
    /\ Stop(p)
    /\ UNCHANGED <<markerTmp, status, selectedK, looks, tmps, faults>>

-----------------------------------------------------------------------------
(* Faults *)

Fault == faults < MaxFaults /\ faults' = faults + 1

Kill(p) ==
    /\ pc[p] # "idle"
    /\ Fault
    /\ Stop(p)
    /\ UNCHANGED store

\* Mutant: the cleanup of a record withdraws what it has already published.
RaiseWithdrawing(p) ==
    /\ pc[p] # "idle"
    /\ Fault
    /\ markerTmp' = IF pc[p] = "planUnlink" THEN FALSE ELSE markerTmp
    /\ tmps' = IF pc[p] \in {"link", "unlink"} THEN tmps \ {job[p].at} ELSE tmps
    /\ status' = IF pc[p] = "unlink" /\ job[p].at = ResultDirectory
                 THEN [status EXCEPT ![job[p].task] = "absent"] ELSE status
    /\ Stop(p)
    /\ UNCHANGED <<launch, sequence, selectedK, looks>>

\* An exception runs the finally clauses: the temporary is unlinked.
Raise(p) ==
    /\ pc[p] # "idle"
    /\ Fault
    /\ markerTmp' = IF pc[p] = "planUnlink" THEN FALSE ELSE markerTmp
    /\ tmps' = IF pc[p] \in {"link", "unlink"} THEN tmps \ {job[p].at} ELSE tmps
    /\ Stop(p)
    /\ UNCHANGED <<launch, sequence, status, selectedK, looks>>

-----------------------------------------------------------------------------
Work(p) ==
    \/ UnlinkPlan(p) \/ StartLaunch(p) \/ LoadRun(p)
    \/ BlockTask(p) \/ RunHandler(p)
    \/ BeginRecord(p) \/ LinkRecord(p) \/ UnlinkRecord(p)
    \/ CompleteLaunch(p)

Next ==
    \E p \in Processes :
        PlanLaunch(p) \/ AcquireLock(p) \/ Work(p) \/ Kill(p) \/ Raise(p)

Spec == Init /\ [][Next]_vars

\* A process that has begun runs on, and the operator plans the run and starts
\* or resumes it again while it is not complete.
FairSpec ==
    /\ Spec
    /\ \A p \in Processes : WF_vars(Work(p))
    /\ SF_vars(\E p \in Processes : PlanLaunch(p))
    /\ SF_vars(\E p \in Processes : AcquireLock(p))

-----------------------------------------------------------------------------
(* Properties *)

\* The results a coordinator decides on are the durable ones, and so is the
\* state count: no other process writes behind the back of the one at work.
MemoryMatchesDisk ==
    \A p \in Processes : pc[p] \in {"task", "record", "link", "unlink"} =>
        /\ \A t \in Tasks :
             memory[p][t] =
               IF pc[p] = "unlink" /\ job[p].at = ResultDirectory /\ t = job[p].task
               THEN "absent" ELSE status[t]
        /\ selected[p] = IF memory[p][SelectionTask] = "passed"
                         THEN selectedK[SelectionTask] ELSE NoCount

\* The coordinator and the store check the graph and the looks independently
\* and agree: whatever a coordinator asks to record, or to complete, passes the
\* store's validation, in every resumption.
StoreNeverRefuses ==
    \A p \in Processes :
        /\ pc[p] = "record" => RecordAllowed(p)
        /\ pc[p] = "task" /\ Remaining(p) = {} => CompletionAllowed

\* A passed task rests on looks that all passed, though the store itself only
\* asks that they ended.
PassedOnPassingLooks ==
    \A t \in Tasks : status[t] = "passed" =>
        \A f \in Owned(t) : looks[f].last = "pass"

\* Durable records are final: a result and the state count in it never change
\* or vanish, a chain of looks only grows, never after its terminal look or the
\* result of its owner, and a completed launch never moves again.
RecordsAreFinal ==
    [][/\ \A t \in Tasks : Present(t) =>
            status'[t] = status[t] /\ selectedK'[t] = selectedK[t]
       /\ \A f \in Families : looks'[f] # looks[f] =>
            /\ looks'[f].count = looks[f].count + 1
            /\ ~Terminal(f)
            /\ ~Present(Owner[f])
       /\ launch = "completed" => UNCHANGED <<launch, sequence, status, looks>>]_vars

Run == INSTANCE DagRun WITH
         verdict <- status, carried <- selectedK, done <- (launch = "completed")

\* Whatever the kills and resumptions, the run decides each task once, in
\* dependency order, and carries one state count throughout.
ImplementsDagRun == Run!Spec

\* A temporary whose process is gone.
Residue ==
    \/ markerTmp /\ \A p \in Processes : pc[p] # "planUnlink"
    \/ \E d \in tmps : ~\E p \in Processes :
                            pc[p] \in {"link", "unlink"} /\ job[p].at = d

\* A launch that is resumed after every fault completes, unless a kill left a
\* temporary beside a record.
CompletesUnlessResidue == <>(launch = "completed" \/ Residue)
=============================================================================
