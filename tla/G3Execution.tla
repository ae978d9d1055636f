---------------------------- MODULE G3Execution ----------------------------
(***************************************************************************)
(* The canonical G3 launch as the command runs it: g3_launch.py prepares   *)
(* the run (manifest, preflight receipt, launch marker), takes the lock,   *)
(* starts the launch once, and g3_success_execution.py publishes the tasks *)
(* of the registry in order, each with its looks, its checkpoint and its   *)
(* result, then the pair of artifacts, the last task, the completion and   *)
(* the evidence.  Nothing is resumed: a call that finds a launch running   *)
(* is refused, and a task that does not pass ends the call.                *)
(*                                                                         *)
(* The stores of checkpoints, artifacts and evidence publish in one step   *)
(* (see ContentStore).  A checkpoint is known by the state count in it.    *)
(***************************************************************************)
EXTENDS G3Store, Sequences

CONSTANTS
    Processes,     \* processes that run the command
    NoProcess,
    Observations,  \* the free disk space a preflight may observe
    StageStarts,   \* the first task of each stage but the last
    FixedCount,    \* OWNER_FIXED_N_STATES
    MaxFaults      \* bound: kills and exceptions

Unwritten == "unwritten"
RunIdentity == "run"

ASSUME ExecutionAssumption ==
    /\ NoProcess \notin Processes
    /\ Observations # {} /\ Unwritten \notin Observations
    /\ StageStarts \subseteq Tasks
    /\ FixedCount \in StateCounts
    /\ NumTasks > SelectionTask
    /\ \A t \in Tasks : t > SelectionTask => \E d \in Dependencies[t] : d >= SelectionTask
    /\ \A t \in Tasks \ {NumTasks} : \E u \in Tasks : t \in Dependencies[u]
    /\ MaxFaults \in Nat

VARIABLES
    prepared,    \* what the manifest, the receipt and the marker were written for
    hanging,     \* which of the first two still have a second link
    checkpoint,  \* checkpoint[t]: the counts of the checkpoints of t
    pair,        \* how much of the pair is published: design, production, receipt
    evidence,    \* the evidence is published
    lock,        \* who holds the launch lock
    pc, seen,    \* seen[p]: the free space that p's preflight has in it
    position,    \* position[p]: the record, then the task, that p is at
    job          \* job[p]: the outcome p publishes, and the record it is at

VARIABLE faults

published == <<launch, sequence, status, selectedK, looks, checkpoint, pair, evidence>>
durable == <<store, prepared, hanging, checkpoint, pair, evidence>>
local == <<pc, seen, position, job>>
vars == <<durable, lock, local, faults>>

Setup == <<"manifest", "receipt", "marker">>
NoJob == [outcome |-> "failed", count |-> NoCount, plan |-> <<>>, at |-> ResultDirectory]

\* How the families of t may end.
Plans(t) ==
    {plan \in [Owned(t) -> [count : 1..NumTasks, last : {"pass", "fail"}]] :
        \A f \in Owned(t) : plan[f].count <= Schedule[f]}

Endings == {<<>>} \cup UNION {Plans(t) : t \in Tasks}

Jobs ==
    [outcome : {"passed", "failed"},
     count   : StateCounts \cup {NoCount},
     plan    : Endings,
     at      : Directories]

Steps == {"idle", "open", "linkSetup", "unlinkSetup", "lock", "start", "enter",
          "science", "looks", "bind", "checkpoint", "record", "link", "unlink",
          "reverify", "assemble", "pair", "complete", "evidence", "return", "returned"}

TypeOK ==
    /\ StoreTypeOK
    /\ prepared \in [{"manifest", "receipt", "marker"} ->
                        {Unwritten, RunIdentity} \cup Observations]
    /\ hanging \subseteq {"manifest", "receipt"}
    /\ checkpoint \in [Tasks -> SUBSET (StateCounts \cup {NoCount})]
    /\ pair \in 0..3
    /\ evidence \in BOOLEAN
    /\ lock \in Processes \cup {NoProcess}
    /\ pc \in [Processes -> Steps]
    /\ seen \in [Processes -> Observations]
    /\ position \in [Processes -> Tasks \cup DOMAIN Setup]
    /\ job \in [Processes -> Jobs]
    /\ faults \in 0..MaxFaults

Init ==
    /\ StoreInit
    /\ prepared = [r \in {"manifest", "receipt", "marker"} |-> Unwritten]
    /\ hanging = {}
    /\ checkpoint = [t \in Tasks |-> {}]
    /\ pair = 0
    /\ evidence = FALSE
    /\ lock = NoProcess
    /\ pc = [p \in Processes |-> "idle"]
    /\ seen = [p \in Processes |-> CHOOSE o \in Observations : TRUE]
    /\ position = [p \in Processes |-> 1]
    /\ job = [p \in Processes |-> NoJob]
    /\ faults = 0

GoTo(p, step) == pc' = [pc EXCEPT ![p] = step]
MoveTo(p, n) == position' = [position EXCEPT ![p] = n]
Here(p) == UNCHANGED <<lock, seen, position, job>>

\* The call of p is over; the with block lets go of the lock.
End(p, step) ==
    /\ GoTo(p, step)
    /\ lock' = IF lock = p THEN NoProcess ELSE lock
    /\ seen' = [seen EXCEPT ![p] = CHOOSE o \in Observations : TRUE]
    /\ MoveTo(p, 1)
    /\ job' = [job EXCEPT ![p] = NoJob]
Stop(p) == End(p, "idle")

\* p goes on if the condition holds, and raises otherwise.
Proceed(p, condition, step) ==
    IF condition THEN GoTo(p, step) /\ Here(p) ELSE Stop(p)

-----------------------------------------------------------------------------
(* The run is prepared: _write_or_verify_exact, three times *)

\* The preflight is made, with the free space it observes.
Call(p) ==
    /\ pc[p] = "idle"
    /\ \E o \in Observations : seen' = [seen EXCEPT ![p] = o]
    /\ GoTo(p, "open")
    /\ UNCHANGED <<durable, lock, position, job, faults>>

Written(r) == prepared[r] # Unwritten
Wanted(p, r) == IF r = "manifest" THEN RunIdentity ELSE seen[p]

\* A record that is there has one link and says what this call would write.
Same(p, r) ==
    /\ IF r = "marker" THEN ~markerTmp /\ launch = "planned" ELSE r \notin hanging
    /\ prepared[r] = Wanted(p, r)

\* CalibrationRunStore.verify, which every later call of the store begins with.
RunVerifies == Written("manifest") /\ "manifest" \notin hanging

Advance(p) ==
    IF position[p] < Len(Setup)
    THEN GoTo(p, "open") /\ MoveTo(p, position[p] + 1) /\ UNCHANGED <<lock, seen, job>>
    ELSE GoTo(p, "lock") /\ MoveTo(p, 1) /\ UNCHANGED <<lock, seen, job>>

OpenRecord(p) ==
    LET r == Setup[position[p]]
    IN /\ pc[p] = "open"
       /\ IF r # "manifest" /\ ~RunVerifies THEN Stop(p)
          ELSE IF ~Written(r) THEN GoTo(p, "linkSetup") /\ Here(p)
          ELSE IF Same(p, r) THEN Advance(p) ELSE Stop(p)
       /\ UNCHANGED <<durable, faults>>

\* os.link, unless somebody else was faster.
LinkSetup(p) ==
    LET r == Setup[position[p]]
    IN /\ pc[p] = "linkSetup"
       /\ \/ /\ Written(r)
             /\ IF Same(p, r) THEN Advance(p) ELSE Stop(p)
             /\ UNCHANGED <<prepared, hanging, launch, markerTmp>>
          \/ /\ ~Written(r)
             /\ prepared' = [prepared EXCEPT ![r] = Wanted(p, r)]
             /\ hanging' = hanging \cup ({r} \ {"marker"})
             /\ markerTmp' = (r = "marker")
             /\ launch' = IF r = "marker" THEN "planned" ELSE launch
             /\ GoTo(p, "unlinkSetup") /\ Here(p)
       /\ UNCHANGED <<sequence, status, selectedK, looks, tmps, checkpoint, pair,
                      evidence, faults>>

Unhang(p) ==
    /\ hanging' = hanging \ {Setup[position[p]]}
    /\ markerTmp' = (markerTmp /\ Setup[position[p]] # "marker")

UnlinkSetup(p) ==
    /\ pc[p] = "unlinkSetup"
    /\ Unhang(p)
    /\ Advance(p)
    /\ UNCHANGED <<prepared, launch, sequence, status, selectedK, looks, tmps,
                   checkpoint, pair, evidence, faults>>

-----------------------------------------------------------------------------
(* The launch is started, once *)

\* _acquire_launch_lock
AcquireLock(p) ==
    /\ pc[p] = "lock"
    /\ IF RunVerifies /\ lock = NoProcess
       THEN lock' = p /\ GoTo(p, "start") /\ UNCHANGED <<seen, position, job>>
       ELSE Stop(p)
    /\ UNCHANGED <<durable, faults>>

\* Mutant: a launch that is running is started again.
StartableAgain(p) ==
    /\ ~markerTmp
    /\ prepared["marker"] = seen[p]
    /\ launch \in {"planned", "running"}

\* start_launch with resume=False
Startable(p) ==
    /\ ~markerTmp
    /\ prepared["marker"] = seen[p]
    /\ launch = "planned"

StartLaunch(p) ==
    /\ pc[p] = "start"
    /\ launch' = IF Startable(p) THEN "running" ELSE launch
    /\ sequence' = IF Startable(p) THEN sequence + 1 ELSE sequence
    /\ Proceed(p, Startable(p), "enter")
    /\ UNCHANGED <<markerTmp, status, selectedK, looks, tmps, prepared, hanging,
                   checkpoint, pair, evidence, faults>>

\* _verify_fresh_execution_inputs: the receipt and the marker are this call's,
\* and no task has a result.
FreshInputs(p) ==
    /\ LeaseActive
    /\ "receipt" \notin hanging /\ prepared["receipt"] = seen[p]
    /\ ResultsVerify
    /\ \A t \in Tasks : ~Present(t)

Enter(p) ==
    /\ pc[p] = "enter"
    /\ Proceed(p, FreshInputs(p), "science")
    /\ UNCHANGED <<durable, faults>>

-----------------------------------------------------------------------------
(* One task: its science, its looks, its binding, its checkpoint, its result *)

ExactPrefix(n) == \A t \in Tasks : Present(t) <=> t <= n
AllPassed(set) == \A t \in set : status[t] = "passed"

\* _verify_fresh_design_launch and _verify_stage_inputs: what is durable is what
\* the stages before have published.
StageOpens(t) ==
    t \in StageStarts =>
        LeaseActive /\ ResultsVerify /\ ExactPrefix(t - 1) /\ AllPassed(1..(t - 1))

\* The evidence of the task is computed: it decides, or it is none to decide on.
Science(p) ==
    LET t == position[p]
    IN /\ pc[p] = "science"
       /\ \/ Stop(p)
          \/ /\ StageOpens(t)
             /\ \E outcome \in {"passed", "failed"}, plan \in Plans(t),
                   k \in IF t = SelectionTask THEN StateCounts ELSE {NoCount} :
                    job' = [job EXCEPT ![p] = [outcome |-> outcome, count |-> k,
                                               plan |-> plan, at |-> ResultDirectory]]
             /\ GoTo(p, "looks")
             /\ UNCHANGED <<lock, seen, position>>
       /\ UNCHANGED <<durable, faults>>

\* _require_owner_dependencies, before the looks of task t.
LooksOpen(t) ==
    /\ ResultsVerify /\ LooksVerify
    /\ ExactPrefix(t - 1) /\ AllPassed(1..(t - 1))
    /\ \A f \in Families : /\ Owner[f] > t => looks[f] = NoLook
                           /\ Owner[f] < t => looks[f].last = "pass"

Unfinished(p) == {f \in Owned(position[p]) : looks[f] # job[p].plan[f]}
NextFamily(p) == CHOOSE f \in Unfinished(p) : \A g \in Unfinished(p) : f <= g
Decision(p, f) ==
    IF looks[f].count + 1 = job[p].plan[f].count THEN job[p].plan[f].last ELSE "continue"
LookOpen(p) == /\ LooksOpen(position[p])
               /\ LookAllowed(NextFamily(p), Decision(p, NextFamily(p)))

\* publish_raw_planned_look_prefix: the looks of the families, in registry order.
PublishLook(p) ==
    /\ pc[p] = "looks"
    /\ IF Unfinished(p) = {} THEN GoTo(p, "bind") /\ Here(p) /\ UNCHANGED tmps
       ELSE IF ~LookOpen(p) THEN Stop(p) /\ UNCHANGED tmps
       ELSE /\ tmps' = tmps \cup {NextFamily(p)}
            /\ job' = [job EXCEPT ![p].at = NextFamily(p)]
            /\ GoTo(p, "link")
            /\ UNCHANGED <<lock, seen, position>>
    /\ UNCHANGED <<launch, sequence, markerTmp, status, selectedK, looks, prepared,
                   hanging, checkpoint, pair, evidence, faults>>

\* The tasks that the checkpoint of t names, and those that they name.
Ancestors ==
    LET Above[t \in Tasks] == Dependencies[t] \cup UNION {Above[d] : d \in Dependencies[t]}
    IN  [t \in Tasks |-> Above[t]]

\* load_from_task_result: the checkpoint of a passed result loads, with all that
\* it rests on.
Loads(t) ==
    \A a \in Ancestors[t] \cup {t} : status[a] = "passed" /\ selectedK[a] \in checkpoint[a]

\* The counts that the checkpoints of the dependencies bring.
Frozen(t) == {selectedK[d] : d \in Dependencies[t]} \ {NoCount}

\* _derive_binding and the first half of publish_exact_next_scientific_task.
Bindable(t) ==
    /\ LeaseActive /\ ResultsVerify /\ LooksVerify
    /\ "receipt" \notin hanging
    /\ ExactPrefix(t - 1)
    /\ \A d \in Dependencies[t] : Loads(d)
    /\ \A f \in Families : /\ Owner[f] > t => looks[f] = NoLook
                           /\ Owner[f] = t => Terminal(f)
    /\ IF t <= SelectionTask THEN Frozen(t) = {} ELSE \E k \in StateCounts : Frozen(t) = {k}

\* Mutant: every task keeps the count that was bound on its entry.
CountOfEntry(t, outcome, k) ==
    IF t <= SelectionTask THEN NoCount ELSE CHOOSE c \in StateCounts : c \in Frozen(t)

\* Mutant: a selection that fails keeps what it chose.
CountOfChosen(t, outcome, k) ==
    IF t < SelectionTask THEN NoCount
    ELSE IF t = SelectionTask THEN k
    ELSE CHOOSE c \in StateCounts : c \in Frozen(t)

\* _selected_n_states: the selection freezes what it chose, if it passed.
CountOf(t, outcome, k) ==
    IF t < SelectionTask THEN NoCount
    ELSE IF t = SelectionTask THEN IF outcome = "passed" THEN k ELSE NoCount
    ELSE CHOOSE c \in StateCounts : c \in Frozen(t)

\* A task does not pass on looks that failed.
LooksAgree(t, outcome) == outcome = "passed" => \A f \in Owned(t) : looks[f].last = "pass"

\* Only what passed has a checkpoint, which comes before the result.
AfterBinding(outcome) == IF outcome = "passed" THEN "checkpoint" ELSE "record"

Bind(p) ==
    LET t == position[p]
    IN /\ pc[p] = "bind"
       /\ IF Bindable(t) /\ LooksAgree(t, job[p].outcome)
          THEN /\ job' = [job EXCEPT ![p].count =
                                CountOf(t, job[p].outcome, job[p].count)]
               /\ GoTo(p, AfterBinding(job[p].outcome))
               /\ UNCHANGED <<lock, seen, position>>
          ELSE Stop(p)
       /\ UNCHANGED <<durable, faults>>

\* CalibrationCheckpointStore.create, which loads the dependencies again.
CreateCheckpoint(p) ==
    LET t == position[p]
    IN /\ pc[p] = "checkpoint"
       /\ IF \A d \in Dependencies[t] : Loads(d)
          THEN /\ checkpoint' = [checkpoint EXCEPT ![t] = @ \cup {job[p].count}]
               /\ GoTo(p, "record") /\ Here(p)
          ELSE Stop(p) /\ UNCHANGED checkpoint
       /\ UNCHANGED <<store, prepared, hanging, pair, evidence, faults>>

\* write_task_result checks the result and makes its temporary.
BeginResult(p) ==
    LET allowed == ResultAllowed(position[p], job[p].outcome)
    IN /\ pc[p] = "record"
       /\ tmps' = IF allowed THEN tmps \cup {ResultDirectory} ELSE tmps
       /\ IF allowed
          THEN /\ job' = [job EXCEPT ![p].at = ResultDirectory]
               /\ GoTo(p, "link")
               /\ UNCHANGED <<lock, seen, position>>
          ELSE Stop(p)
       /\ UNCHANGED <<launch, sequence, markerTmp, status, selectedK, looks, prepared,
                      hanging, checkpoint, pair, evidence, faults>>

Link(p) ==
    LET t == position[p]
        f == job[p].at
    IN /\ pc[p] = "link"
       /\ IF f = ResultDirectory
          THEN /\ status' = [status EXCEPT ![t] = job[p].outcome]
               /\ selectedK' = [selectedK EXCEPT ![t] = job[p].count]
               /\ UNCHANGED looks
          ELSE /\ looks' = [looks EXCEPT ![f] = [count |-> @.count + 1, last |-> Decision(p, f)]]
               /\ UNCHANGED <<status, selectedK>>
       /\ GoTo(p, "unlink") /\ Here(p)
       /\ UNCHANGED <<launch, sequence, markerTmp, tmps, prepared, hanging, checkpoint,
                      pair, evidence, faults>>

Unlink(p) ==
    /\ pc[p] = "unlink"
    /\ tmps' = tmps \ {job[p].at}
    /\ GoTo(p, IF job[p].at = ResultDirectory THEN "reverify" ELSE "looks")
    /\ Here(p)
    /\ UNCHANGED <<launch, sequence, markerTmp, status, selectedK, looks, prepared,
                   hanging, checkpoint, pair, evidence, faults>>

\* reverify_published_scientific_task
Reverifies(t) == ResultsVerify /\ (status[t] = "passed" => Loads(t))

\* Mutant: the artifacts do not wait for the count that the owner fixed.
AfterUnassembled(t) ==
    CASE t = NumTasks -> "complete"
      [] t = NumTasks - 1 -> "pair"
      [] OTHER -> "science"

After(t) ==
    CASE t = NumTasks -> "complete"
      [] t = NumTasks - 1 -> "assemble"
      [] OTHER -> "science"

\* _publish_pass: a result that is not a pass ends the launch here.
Reverify(p) ==
    LET t == position[p]
    IN /\ pc[p] = "reverify"
       /\ IF Reverifies(t) /\ status[t] = "passed"
          THEN /\ GoTo(p, After(t))
               /\ MoveTo(p, IF t = NumTasks THEN t ELSE t + 1)
               /\ job' = [job EXCEPT ![p] = NoJob]
               /\ UNCHANGED <<lock, seen>>
          ELSE Stop(p)
       /\ UNCHANGED <<durable, faults>>

-----------------------------------------------------------------------------
(* The finalization *)

Rests == Tasks \ {NumTasks}

\* assemble_exact_v2_first_25_prefix, with the lineage of the state count.
Assembles ==
    /\ LeaseActive /\ ResultsVerify
    /\ ExactPrefix(NumTasks - 1)
    /\ \A t \in Rests :
        /\ Loads(t)
        /\ selectedK[t] = IF t < SelectionTask THEN NoCount ELSE selectedK[SelectionTask]

\* _require_owner_fixed_k4_before_finalization
OwnerFixed == selectedK[SelectionTask] = FixedCount

Assemble(p) ==
    /\ pc[p] = "assemble"
    /\ Proceed(p, OwnerFixed /\ Assembles, "pair")
    /\ UNCHANGED <<durable, faults>>

\* ScientificArtifactPairStore.publish: the design artifact, the production
\* artifact, the receipt.
PublishPair(p) ==
    /\ pc[p] = "pair"
    /\ pair' = pair + 1
    /\ GoTo(p, IF pair + 1 = 3 THEN "science" ELSE "pair") /\ Here(p)
    /\ UNCHANGED <<store, prepared, hanging, checkpoint, evidence, faults>>

Completes == CompletionAllowed /\ AllPassed(Tasks)

CompleteLaunch(p) ==
    /\ pc[p] = "complete"
    /\ launch' = IF Completes THEN "completed" ELSE launch
    /\ sequence' = IF Completes THEN sequence + 1 ELSE sequence
    /\ Proceed(p, Completes, "evidence")
    /\ UNCHANGED <<markerTmp, status, selectedK, looks, tmps, prepared, hanging,
                   checkpoint, pair, evidence, faults>>

\* _verify_external_state: everything is read again.
Attestable ==
    /\ launch = "completed" /\ ~markerTmp
    /\ ResultsVerify /\ LooksVerify
    /\ \A t \in Tasks : Loads(t)
    /\ \A f \in Families : looks[f].last = "pass"
    /\ pair = 3

PublishEvidence(p) ==
    /\ pc[p] = "evidence"
    /\ evidence' = (evidence \/ Attestable)
    /\ Proceed(p, Attestable, "return")
    /\ UNCHANGED <<store, prepared, hanging, checkpoint, pair, faults>>

Return(p) ==
    /\ pc[p] = "return"
    /\ End(p, "returned")
    /\ UNCHANGED <<durable, faults>>

-----------------------------------------------------------------------------
(* Faults *)

Fault(p) ==
    /\ pc[p] \notin {"idle", "returned"}
    /\ faults < MaxFaults
    /\ faults' = faults + 1
    /\ Stop(p)

Kill(p) == Fault(p) /\ UNCHANGED durable

\* An exception runs the finally clauses.
Raise(p) ==
    /\ Fault(p)
    /\ IF pc[p] = "unlinkSetup" THEN Unhang(p) ELSE UNCHANGED <<hanging, markerTmp>>
    /\ tmps' = IF pc[p] \in {"link", "unlink"} THEN tmps \ {job[p].at} ELSE tmps
    /\ UNCHANGED <<launch, sequence, status, selectedK, looks, prepared, checkpoint,
                   pair, evidence>>

-----------------------------------------------------------------------------
Prepare(p) == Call(p) \/ OpenRecord(p) \/ LinkSetup(p) \/ UnlinkSetup(p)
Begin(p) == AcquireLock(p) \/ StartLaunch(p) \/ Enter(p)
Task(p) == \/ Science(p) \/ PublishLook(p) \/ Bind(p) \/ CreateCheckpoint(p)
           \/ BeginResult(p) \/ Link(p) \/ Unlink(p) \/ Reverify(p)
Finalize(p) == \/ Assemble(p) \/ PublishPair(p)
               \/ CompleteLaunch(p) \/ PublishEvidence(p) \/ Return(p)

Next == \E p \in Processes :
            Prepare(p) \/ Begin(p) \/ Task(p) \/ Finalize(p) \/ Kill(p) \/ Raise(p)

Spec == Init /\ [][Next]_vars

-----------------------------------------------------------------------------
(* Properties *)

BeforeStart == {"idle", "open", "linkSetup", "unlinkSetup", "lock", "start", "returned"}
Executing == {p \in Processes : pc[p] \notin BeforeStart}

\* Invariant.  The state is well typed.  The launch checks before, between and
\* after its steps what it has published itself, over and over, and none of
\* these checks ever fails.  What else may end a launch that has started is left
\* out: its science, which stops, fails or passes on a failed look, a fault, and
\* the state count that its owner fixed.
OnlyScienceStops ==
    /\ TypeOK
    /\ \A p \in Processes : LET t == position[p] IN
            /\ pc[p] = "enter" => FreshInputs(p)
            /\ pc[p] = "science" => StageOpens(t)
            /\ pc[p] = "looks" => Unfinished(p) = {} \/ LookOpen(p)
            /\ pc[p] = "bind" => Bindable(t)
            /\ pc[p] = "checkpoint" => \A d \in Dependencies[t] : Loads(d)
            /\ pc[p] = "record" => ResultAllowed(t, job[p].outcome)
            /\ pc[p] = "reverify" => Reverifies(t)
            /\ pc[p] = "assemble" => Assembles
            /\ pc[p] = "complete" => Completes
            /\ pc[p] = "evidence" => Attestable

\* Invariant.  What a reader may rely on: a passed result has its checkpoint,
\* and so has all that it rests on; artifacts stand on everything but the last
\* task, and on the owner's state count; a completed launch has both artifacts
\* and their receipt, and no failed look; and evidence attests a completed
\* launch whose last checkpoint names, through the others, every task.
EvidenceIsBacked ==
    /\ \A t \in Tasks : status[t] = "passed" => Loads(t)
    /\ pair > 0 => AllPassed(Rests) /\ selectedK[SelectionTask] = FixedCount
    /\ launch = "completed" =>
        pair = 3 /\ AllPassed(Tasks) /\ \A f \in Families : looks[f].last = "pass"
    /\ evidence => launch = "completed" /\ Ancestors[NumTasks] = Rests

\* Action property.  A launch is executed by one call: once it runs, no other
\* process comes past the start, though it was let past the marker before; and
\* when that call is over, however it ended, nothing that it published changes.
OneExecution ==
    [][(launch \in {"running", "completed"}) =>
         /\ Executing' \subseteq Executing
         /\ Executing = {} => UNCHANGED published]_vars

Run == INSTANCE DagRun WITH
         verdict <- status, carried <- selectedK, done <- (launch = "completed")

\* Refinement.  The command decides the tasks as the abstract run does, like the coordinator
\* that can also resume: once each, in dependency order, with one state count.
ImplementsDagRun == Run!Spec
=============================================================================
