# TLA+ verification of PRPG

PRPG fits a regime model to market data, gates it through a fixed sequence of
scientific checks, and generates portfolios of simulated return paths as CSV
shards. Most numbers are floating-point array code. What this project verifies
is what surrounds them, protocols on a file system that promise all-or-nothing
publication, records that never change, one coordinator at a time, and a run
that can be resumed after it was killed; and, of the numerical core, the discrete
part on which every path rests: which state each month has and which row of
history each position takes.

Paths below are relative to `src/src/prpg/` unless they start with `src/`.

## 1. Inventory

| Part | State it keeps | Operations | What makes it correct | Here |
|---|---|---|---|---|
| Work-unit group commit: `storage/group_commit.py`, `storage/csv_v1.py` | CSV siblings, a JSON receipt, stage roots, temporaries, quarantine directories under one output root | commit, verify, quarantine, reconcile stale stage roots | a receipt that verifies covers a whole group of one attempt; nothing is shown half; a killed commit can be cleaned and repeated | `GroupCommit`, `WorkUnit`, proofs |
| Calibration run store: `model/run_store.py` | launch marker, advisory lock, task results, planned-look chains | initialize, plan, start or resume, write result, write look, complete | records are final, graph-valid, written by one process; a running launch can be resumed | `G3Store`, `G3Coordinator` |
| G3 launch coordinator: `model/g3_coordinator.py` | results processed so far, selected state count | run or resume the DAG of 26 tasks | each task decided once in dependency order; failures block exactly what is downstream; one state count throughout | `G3Coordinator`, `DagRun` |
| G3 registry: `model/g3_registry.py` | the closed task and look tables | - | topological, everything leads to the artifact | `G3Graph`, `G3Registry` |
| Production run: `simulation/production.py` | run lock, `run-state.json`, marker files, frozen inputs, result report, work units | run fresh, resume; workers in process or in a pool | one coordinator; marker and ledger agree; committed units are reused; `FAILED` is terminal; `generated` only over complete units | `ProductionRun` |
| Practical production: `simulation/practical_production.py` | a fresh root | one-shot run | final checksums cover the receipts | not modelled |
| Version 5 generation: `v5/generation.py`, `v5/validation.py`, `execution.py` | a root, four siblings per shard, checksums, manifest | one-shot run with a pool of workers; validation of the tree | the manifest comes last, over rehashed files of one call, and every path is in them once | `V5Plan`, `V5Generation`, proofs |
| Data stores: `data/snapshot.py`, `data/processed.py` | content-addressed directories | publish by rename of a stage, verify, reuse | racing publishers agree on one whole directory | `Publication`, `ContentStore`, proofs |
| Artifacts and evidence: `model/artifact.py`, `model/g3_evidence_store.py`, `model/scientific_artifact_pair.py`, `model/g3_artifact_handoff.py`, `model/practical_k4.py`, `model/g5_evidence_store.py`, `validation/store.py` | content-addressed records and pairs of them | publish, verify, hand off | no receipt without what it binds; what a caller was told survives | `Publication`, `ContentStore`, proofs |
| Bridge drivers: `model/bridge_driver.py` | immutable checkpoints, a chain of events | benchmark, Tier A batches, Tier B looks, FINAL; one staged action at a time, recovered | the chain reverifies; FINAL is what the checkpoints give | `BridgeDriver` |
| Release: `validation/release.py`, `validation/structural.py`, `validation/scientific.py` | lists, validation reports, markers and attestation of a run | list, validate, finalize, attest, release | COMPLETE covers files of one finalization; a release is attested by somebody else; markers go one way | `ReleaseLifecycle`, proofs |
| G3 launch command and runners: `g3_launch.py`, `model/g3_success_execution.py`, its three stages, `model/g3_exact_v2_finalization.py`, `model/g3_task_publication.py`, `model/g3_planned_look_execution.py`, `model/g3_checkpoint.py` | checkpoints, the pair of artifacts and the evidence, beside the run store | one execution of all tasks, without resumption | executed once; no check refuses what the execution itself published; evidence rests on a checkpoint for every task | `G3Execution`, `DagRun` |
| Simulation engine: `model/bootstrap.py`, `model/block_execution.py`, `model/block_length.py`, `simulation/serial.py`, and copies of the bootstrap in `validation/outer_null.py`, `validation/size_aware_null.py`, `model/calibration.py`, `model/bridge_history.py` | none that outlives a call | state chain, expansion of months to days, source trace, ideal trace, support and block statistics | all copies take the same rows from the same draws; a block is a piece of history; the diagnostics say what they claim | `BootstrapTrace`, `SampledPath`, proofs |
| Estimation, aggregation, statistics: `model/hmm.py`, `model/selection.py`, `simulation/aggregation.py`, `v5/hmm.py`, `validation/statistics.py`, and others | none | numerical functions | numerical accuracy | out of reach |
| CLI, configuration, provenance: `cli.py`, `config.py`, `provenance.py` | none | argument handling, reads, hashing | - | not modelled |

How they interact: the production run holds the run lock, decides per unit
whether to reuse, quarantine or generate, and calls the group commit from worker
processes. The G3 coordinator holds the launch lease of the run store, calls a
handler for each task, and records looks and results through the store, which
validates each call against the registry again. So does the launch command, which
does not use the coordinator: it executes the tasks of the registry in their order
in one call, and adds checkpoints, artifacts and evidence. A work unit's paths are sampled
by the simulation engine, whose block lengths the calibration chose by running
the same bootstrap in another form. Everything else they share is in
directories: processes communicate by creating, linking, renaming and unlinking
files, and by `flock`.

The hard behaviours are therefore kills between two system calls (the
directories keep a half-finished step), exceptions that run cleanup over a
half-published state, two processes at one root, and retries over what earlier
ones left; and in the engine, boundaries that are one row apart, in algorithms
that are written several times over. `PROJECT.json` lists them line by line under `hazards`.

## 2. Modules

    WorkUnit            what a work unit promises its readers
    GroupCommit         the commit, quarantine and reconciliation protocol
      GroupCommitProofs       type, safety, publication order and refinement, proved
    G3Graph             any graph that passes _validate_registries
      G3Registry        the graph and look families of the program
      G3Store           the durable records and the store's own checks
        G3Coordinator   processes that plan, start, resume, coordinate
          G3CoordinatorProofs   type, safety and refinement of DagRun, proved
        G3Execution     the launch command: one call from preflight to evidence
          G3ExecutionProofs     one execution, refinement, checks and evidence, proved
    DagRun              what a launch promises its readers
    ProductionRun       run lock, ledger, markers, scan, workers, finish
      ProductionRunProofs     type, exclusion, ledger, markers and committed units, proved
    ContentStore        what a content-addressed store promises its callers
    Publication         stages, renames, links, syncs, racing publishers, power loss
      PublicationProofs       type, safety and refinement of ContentStore, proved
      MCPublication           the stores of the program and who publishes what
    V5Plan              how the paths of a run are cut into shards
      V5Generation      calls, pools, siblings, checksums, manifest, validator
        V5GenerationProofs    type, truth of the manifest, every path once, proved
    ReleaseLifecycle    lists, validation, COMPLETE, attestation, RELEASED
      ReleaseLifecycleProofs  type and the three safety properties, proved
    BridgeDriver        the canonical and the staged driver over their checkpoints
    BootstrapTrace      six implementations of the bootstrap, and the ideal trace
      SampledPath             state chain, expansion to days, and then the trace
    BootstrapBridgeProofs     what both drivers leave, and what the traces promise, proved
    MC*                 instances for TLC

### GroupCommit

Publication in this code is `os.link(temporary, destination)` and then the
unlink of the temporary, so the state is a namespace of hard links. An inode is
identified by the attempt of the commit call that wrote it; `names[place][i]` says
which inode sibling `i` has as shard temporary, in the stage root and under its
canonical name. Each action is one system call or one verification of
`_commit_serial_work_unit`, `write_serial_csv_shard`, `_publish_group_receipt`,
`_reconcile_stale_stage_roots`, `_discard_stage_root` or
`quarantine_serial_work_unit`. `Crash` stops the process between any two of
them, `Fail` raises in the try block and runs the cleanup of the code, and
`Damage` overwrites a file from outside. File contents are reduced to "all bytes
written" and "overwritten since"; a directory sync is part of the call it
follows, since a kill (as opposed to a power loss) loses no completed call.

`WorkUnit` is the abstract unit: closed, open, complete, with the files of one
attempt. The mapping is `Phase` and `IntactFiles`, what a reader gets from
`verify_serial_work_unit` and from reading the canonical names.

### G3Store, G3Coordinator, DagRun

`G3Store` has the durable state and, as operators, what each public call of the
store checks (`ResultAllowed`, `LookAllowed`, `CompletionAllowed`,
`ResultsVerify`, `LooksVerify`). A temporary that sits in a record directory is
state, because every verification of the directory refuses it.
`G3Coordinator` has the processes: `PlanLaunch`, `AcquireLock`, `StartLaunch`,
`LoadRun` (what the coordinator reads once), `BlockTask` or `RunHandler` for the
next task in registry order, and `BeginRecord`, `LinkRecord`, `UnlinkRecord` for
each missing look and the result. A handler returns anything that
`_validate_outcome` accepts; one that raises `ModelError` is the "failed" outcome
of `_scientific_failure_outcome`. `Kill` drops the lock and leaves a temporary;
`Raise` runs the finally clauses. `DagRun` is the abstract launch: every task is
decided once, after its dependencies, with the one state count.

`G3Registry` transcribes the 26 tasks and six look families, on which
`MCG3Execution` runs; the graph of `MCG3Coordinator` is a small one of the same
shapes.

### G3Execution

The command prepares the run with `_write_or_verify_exact` for manifest, preflight
receipt and launch marker (`OpenRecord`, `LinkSetup`, `UnlinkSetup`, once for
each), takes the lock, starts the launch and executes the tasks in the order of
the registry. A preflight observes the free disk space, so those of two calls may
differ (`Observations`, `seen`). A task is `Science` (what its evidence decides,
or that there is none to decide on), `PublishLook` for the looks it owns, `Bind`,
`CreateCheckpoint` if it passed, `BeginResult`, and `Reverify`, which ends the
call unless the result is a pass; looks and result are linked and unlinked as in
the coordinator (`Link`, `Unlink`). `Assemble`, `PublishPair`, the last task,
`CompleteLaunch` and `PublishEvidence` are the finalization. A checkpoint is known
by the state count in it, and `Loads` is the recursion of `_load` over those that
it depends on. A kill leaves what is durable; the lock goes with its process.

### ProductionRun

Coordinators (`Processes`) are called fresh or with resume, several at a time.
The lock is modelled by inodes: `lockName` is what `<root>/.run.lock` names,
`opened[p]` what a process has open, and `flock` excludes on the inode, which is
what decides whether it excludes at all once the name is unlinked. The ledger
(`state`), the marker files, the frozen inputs and the result report are written
in the order of `_prepare_run_state`, `_finish_generated_state` and
`_transition_run_state`, one step each. A unit is what its canonical names look
like to another process (`form`), and a commit takes the steps that another
process can tell apart: `GroupCommit` has the detail. With one worker the
coordinator generates itself and takes its unit down with it when it is killed;
with more, `task[p]` outlives `p`.

Faults are kills, Ctrl-C or an exception in the coordinator (`Interrupt`,
`InterruptWork`), an exception in a worker (`FailUnit`) and an outside write
(`Damage`).

`exposed` is a history variable: "lock" once a running coordinator's lock file
has been unlinked (or a file without a name has been locked), "orphan" once a
killed coordinator left workers behind. Properties that hold only while that has
not happened say so (`OneCoordinatorUnlessExposed`: nothing else breaks the
exclusion); the two runs `production_lock` and `production_orphans` show that the
code lets it happen.

### ContentStore, Publication, MCPublication

Ten stores publish in one of three ways: a stage directory is renamed onto the
fingerprint of its content, a temporary file is linked to it, or a destination is
filled in place (the hand-off of a runtime). They differ in what they force to
disk and when, in whether an entry that is found is verified and reused, in what
they need before and what a load of them reads. `Shape` is the record of these
differences; `MCPublication` has a value of it for each store, and the queues in
which callers publish (a snapshot and what is processed from it, two artifacts
and the receipt of the pair, thresholds and qualification, events of the bridge,
an evidence and the copy it is for).

A content has two parts, payload and manifest. `entry` is what stands under an
address, `loose` the parts that only the system's cache has, `settled` the
addresses whose name in their directory is on disk. A store makes its directory,
with those above it, when it first uses it (`MakeDirectory` in `Check`), and syncs
it after a publication (`Flush`); that puts the names in it on disk, but the name
of the directory is in the one above, which no store syncs. So `directory` has
three values: not there, made since, and on disk, as it is from the start for the
stores that were used before (`Founded`). An address is on disk for good when its
name, its content and its directory are (`Durable`).

`PowerLoss` takes any directory that was made since, with all that is in it, and
any names and parts of contents that are not on disk; what it leaves is on disk
from then on, and everybody is stopped. A kill loses nothing that was completed
and leaves the private name behind (`litter`). The handling of a failed directory
sync differs: `data/` takes it for a lost race (`FlushFails` with "swallow").
`hasty` and `newly` are history variables: the addresses of which a caller was
last told while they were not on disk, or their directory was not.

`ContentStore` is the abstract store: addresses appear whole, after those before
them, and go only by a power loss that spares what was kept. What is kept is what
is `Durable`, which says nothing of what was returned: that is for
`ReturnedSurvives`. Addresses that are filled in place are not mapped.

### V5Plan, V5Generation

`V5Plan` has `_build_plan` and the cutting of ranges into shards as operators; the
plans of `V5Generation` are computed from the ranges and the shard size a call is
given (`Geometries`).
`V5Generation` has several calls of `run_v5_generation` for one root: the making
of the root, a pool of workers or a single process, for each shard the link of a
temporary for each sibling (`MakeTemporary`, `Link`, `Unlink`), the rehash, the
checksums and the manifest, each created and then written. A parent that is
killed leaves workers that finish what they hold, and somebody may remove the
root and make it again. The validator is the second actor: it reads manifest,
checksums, tree and files in its own order. A file is the call that wrote it, with
what it holds.

### ReleaseLifecycle

One run root that was generated, and people who call `publish` of the lists,
`validate`, `finalize_complete`, the attestation and `publish_released` in any
order and at once. A file is published by a temporary, a link and an unlink
(`Make`, `Write`, `Link`, `Unlink`), except for those that are written in place
(`Open`). A call first verifies the exact tree and marker set it expects
(`Verify`), so a temporary of another call, or one that a kill left, refuses it.

### BridgeDriver

`mode` says which driver works on a root. The canonical driver, which several
processes may call, goes over the stages benchmark, Tier A and Tier B of both
data generating processes, and FINAL; the staged one, which the launch lease
makes alone, takes the one next action of a chain of events, recovers or does
its work and appends the event, after it verified the chain against the
checkpoints (`Reverifies`). `science` is what the request's numbers decide, which
is the same whenever it is computed; only the benchmark is measured, and may
differ. All files go through `_write_or_verify_exact` (`MakeTemporary`,
`LinkFile`, `UnlinkTemporary`): equal bytes are reused, others refused. Listings
of events, batches and looks refuse a name they do not know (`Clean`).
What a link and a sync are to the disk is in `Publication`, not here.

### BootstrapTrace, SampledPath

The stationary bootstrap gives each position of a path a row of history: the next
row after the last one, or, at a restart, one drawn among the rows of the
position's state. The program has it as `conditioned_source_index_trace` (which
generates) and `_conditioned_trace_matrix` (which calibrates the block length),
twice without states for null distributions, and twice over row masks for macro
histories. In `BootstrapTrace` all run in lock-step, `Sample` being one position
with its two draws; `Running` says which of them the inputs are for, and each
keeps its own way to find a boundary (`DeterministicReason`, `SafeNext`,
`MaskOf`). `ideal` is the trace that has no history to run out of, which the
diagnostics set against the real one. A uniform is a point of a grid, so that
thresholds and ranks are integer arithmetic. `realized_block_statistics` and
`state_support` are the readers (`AcceptsSource`, `EligibleStarts`). The length
caps of the bridge's copy (at most an eighth of its rows) are not imposed.

`SampledPath` comes before it: the Markov chain draws a state for each month,
segment by segment, by the four categorical draws of the program
(`CategoricalIndex`, `CategoricalColumns`, `SearchSorted`,
`CategoricalFromUniform`); `Expand` turns months into sessions by division, as the
calibration does, against repetition and cutting, as `ExpandedStates` does. Where
months and segments start is `TotalOf`, the running sum that the code keeps in
`offset` and `boundary`. The
sessions of a month, 21 in the program, are a parameter.

## 3. Runs

| Run | Question | Bounds |
|---|---|---|
| `group_commit` | Safety, refinement of `WorkUnit`, and convergence of one unit | 3 siblings (an LF unit), 4 attempts, 3 faults |
| `g3_coordinator` | Finality, exclusion, refinement of `DagRun`, completion | 6 tasks, 2 families of up to 2 looks with one owner, 2 state counts, 2 processes, 3 faults |
| `g3_execution` | One execution, agreement of its checks with its publications, what evidence rests on, refinement of `DagRun` | the 26 tasks and 6 families of the program, the last with 2 looks, 2 state counts, 2 processes with 2 preflights, 2 faults |
| `production_run` | Markers, reuse, terminal states, end of a run | 2 units, pool of up to 2, 2 processes, 2 faults, until the lock is lost |
| `production_lock` (violation) | Is the run lock exclusive? | 1 unit, no fault |
| `production_resume` (violation) | Is what a kill leaves of a unit regenerated? | 1 unit, 1 kill |
| `production_orphans` (violation) | Is no writer left when a run is resumed? | 2 units, pool of 2, 1 kill |
| `publication` | Wholeness, order, durability, refinement of `ContentStore`, and the end of a call, in every store | all 10 stores in 6 queues, 4 of their 11 directories on disk from earlier use, 2 publishers, 2 faults, 1 power loss |
| `release_lifecycle` | Coverage, independence, one way, and the end of a finalization | 2 people, 2 kills or failures |
| `v5_generation` | What a manifest stands for, and the end of an undisturbed call | a pool of 2 and a single process on one root, 2 of 4 frequencies, 1 fault, 1 removal of the root |
| `sampled_path` | Agreement of all implementations of a path, and what the traces and diagnostics promise | every history and link mask of 4 rows, 2 states, 4 positions, 3 geometries, 6 values of a uniform, block length 3 |
| `bridge_driver` | Recovery of the chain, races of callers, the end of the work | 2 batches, 2 looks, 10 outcomes of the science, 2 callers, 2 faults |

Why the bounds are enough to be interesting. Three faults in the group commit
allow a kill, a kill of the retry that reconciles it, and an exception after
that; a fourth attempt is then clean. The small graph has each shape of the
registry: the selection, a branch with looks and one without, a join. Two faults
of a production run allow a kill within a run that already resumed a killed one,
or a spoilt file after it. Two units and a pool of two make a worker's failure
overlap with another worker's commit. In `publication` two faults and a power
loss allow a kill of one publisher, a failed sync of the other, and the loss
after it; a queue of three addresses has a first, a middle and a last. Every queue
has a store whose directory is new, and four have beside it one whose directory is
on disk (`MCFounded`), so that the loss may take parents (both artifacts, a raw
snapshot) and leave what rests on them (their receipt, the processed data). One
removal of a root is what puts orphans of one call into the tree of another. Two
batches and two looks have a first, a last and a part; `MCSciences` has every
sequence of looks of one process, a late failure of the other, and a Tier A that
fails for either. In `sampled_path` four rows and a block length of three
leave room for an eligible start that is not the first row, for one that ends
with the history, and for a gap beside a change of state; the transition law has
a zero and a row that is short of one, and the geometries are a path with a gap
that is cut short in both segments, a whole one, and a monthly one. In `g3_execution` two
processes let one call start while another is already past the marker, and the two
faults hit two calls or one after the other. Every action of every module fires in
a passing run. Deadlock is checked in `g3_execution`, where somebody can always
call, and in no other run: the bounds on attempts and faults stop the models where
the program would go on, and a completed launch and a generated run do end.

Types are checked where they are not proved (§4), as a conjunct of
`OnlyScienceStops` and of `PrefixReverifies`. What the passing runs show
beyond them:

- `ReceiptCoversGroup`, `OneAttemptAtATime`, `ImplementsWorkUnit`: readers of a unit see a whole group of one attempt, or
  none. `CommittedUnlessHalfLinked`: repeated commits end in a committed unit,
  unless a kill hit one of the two windows in which a temporary is still linked.
- `MemoryMatchesDisk`, `StoreNeverRefuses`: the coordinator's one-time reading
  stays right, and its own checks and those of the store never disagree.
  `RecordsAreFinal`, `ImplementsDagRun`,
  `PassedOnPassingLooks` (the store itself does not ask for it).
  `CompletesUnlessResidue`: a launch that is resumed completes, unless a kill
  left a temporary beside a record.
- `OnlyScienceStops`: a launch that takes days is not lost to a check that is
  stricter than the publication before it; each of the checks, of the store, the
  bindings, the stages and the finalization, finds what it asks for. What the
  science decides, and whether it chose the owner's state count, may end it.
  `EvidenceIsBacked`: a passed result has its checkpoint and all those below it,
  and evidence the checkpoint of every task, which no single entry of the graph
  states. `OneExecution`: a launch that was started is never executed again, even
  by a call that had found it planned. `ImplementsDagRun` again, now of the command.
- `VisibleIsWhole`, `ParentsStand`, `ReturnedSurvives`, `ImplementsStore`: what
  stands under an address is whole and stands on its parents, and what a caller
  was told stays, as long as the power does. A power loss may take what a caller
  was told too early, and with it a parent of what is left: `Risked` names when
  that is, a directory that was new, or a store that reuses, does not sync, takes
  a failed sync for a lost race, or does not force all content; it takes nothing
  else (§5). `CallSucceeds`: where an entry of
  another publisher is reused, a call that nothing disturbs ends well.
- `ManifestIsTrue`: a whole manifest stands on whole files and checksums of one
  call, in spite of orphans and of a root made twice. `EveryPathOnce`: they hold
  every path of the plan once. `Delivers`: an undisturbed call is accepted by the
  validator.
- `CompleteIsCovered`, `ReleaseIsAttested`, `OneWay`: however calls race and break
  off, COMPLETE covers one validation and one finalization, RELEASED rests on the
  attestation of another person; markers come one by one and stay, no file or
  attestation is replaced, and RELEASED goes on naming the same one.
  `FinalizationSucceeds`: a finalization of a clean root that is left alone ends
  with COMPLETE.
- `PrefixReverifies`: the chain of events is at every instant one that the next
  call accepts, with no checkpoint beyond its next action. `FinalReverifies`:
  FINAL is what the checkpoints reconstruct, though two callers measured the
  benchmark differently. `BridgeEnds`: a driver that is called again ends, unless
  a kill's temporary or an invalid pair blocks it for good.
- `TwinsAgree`, `PathsAgree`: on the same draws, all implementations of chain,
  expansion, trace and ideal trace give the same path, whatever boundary is met.
  `BlocksAreHistory`: within a block a path is history as it was.
  `IdealIsCounterfactual`: what the real trace restarts beyond the ideal one is
  what the history forced. `SupportIsHonest`: what `state_support` counts is what
  the sampler can use.
- `OneCoordinatorUnlessExposed`: until a call unlinks the lock under it, one
  coordinator is at work, whatever is killed and called again.
  `MarkerTellsState`: at every instant at most one marker, and it agrees with
  the ledger. `GeneratedIsComplete`, `CommittedUnitsStay`, `FailedIsTerminal`,
  `StartedRunEnds`: a run that is resumed ends generated or failed, never loses
  or repeats a committed unit on the way, even beside orphans. A failed run that
  nobody is at work in any more (`Abandoned`) stays failed whatever is called on
  it; while somebody is, it stays failed unless an exposed lock lets a second
  coordinator, or a kill leaves orphans, beside it. A kill between
  `logs/generation-result.json` and the ledger is an end of this kind too: the
  resumed run fails over the report it finds, and `StartedRunEnds` counts that.

The violation runs are disagreements of the code with what its documents say of
it; `PROJECT.json` quotes both under `findings`. In short: a refused call unlinks the run lock of the running
coordinator; a resuming run quarantines before it reconciles, and so fails for
good over siblings that a kill left linked to their stage root; and workers of a
killed pool go on under the next coordinator.

### Fairness

- `GroupCommit`: weak fairness of a call's steps (a process that runs goes on),
  strong fairness of `CallCommit` (the caller retries, whatever else is called).
- `G3Execution`: none. The command promises no end: its science may fail.
- `G3Coordinator`: weak fairness of each process's work, strong fairness of
  planning and of acquiring the lock by some process (the operator plans the run
  and resumes it while it is not complete).
- `ProductionRun`: weak fairness of each coordinator and of the workers together,
  strong fairness of a resuming call by some process. None of the models assumes
  that faults stop other than by their bound. In `production_run` the liveness
  property is checked over the behaviours in which the lock is never lost, hence
  over those in which no call is refused for good.
- `Publication`, `ReleaseLifecycle`: weak fairness of each caller's steps alone.
  Nobody has to call, so the liveness properties are about calls that were made.
- `V5Generation`: weak fairness of each parent, of each worker, of the taking of a
  queued unit while its parent lives (the pool hands it out), and of the
  validator, which is run again after a refusal.
- `BridgeDriver`: weak fairness of each caller's work and of calling again.

The retries are the operator's: no code of the repository resumes on its own.

## 4. Proofs

`GroupCommitProofs` holds for every number of
siblings, attempts and faults, from `NumSiblingsAssumption` and
`BoundsAssumption` alone.

None of the invariants of the run is inductive. `IInv` adds what the code relies
on without saying so: canonical names are those of the last attempt
(`LastAttemptOnly`: a new attempt starts only where reconciliation and quarantine
left nothing), there is no receipt before its link (`NoReceiptYet`), the stage
root is gone from the discard on (`StageRootGone`), the shard writer's temporary
is its own and whole once linked (`WriterAtTemporary`), the stage tree is complete
when publication starts and the canonical names are when the receipt is made
(`StageComplete`, `RootComplete`), and a quarantine directory belongs to one call
(`QuarantineByCall`, `QuarantineUniform`). The step lemma has one case for each
action and under it one for each conjunct the action can disturb.

`StageFirst` proves the action property `StagedBeforePublished` from the same
invariant. `CommitImplementsUnit` proves that `Spec` implements `WorkUnit`: initial
states map to initial states, and each action maps to a step of the unit or
stutters, according to how it changes `Phase` and `IntactFiles`.

`G3CoordinatorProofs` holds for every graph and look schedule that pass
`RegistryAssumption`, and any number of processes, state counts and faults
(`SelectionAssumption`, `ProcessAssumption`). Its `IInv` has three parts:

- `Exclusive`: whoever is past `_acquire_launch_lock` holds the lock. With it the
  proof of a step treats one process; the others promise nothing (`NotAtWork`) or
  are not disturbed (`Undisturbed`).
- `DiskValid`: what the verifications of the store ask for holds on disk at every
  instant (`GraphValid`, `LooksValid`), with two facts they do not ask for: only a
  passed selection records a state count, and there are no temporaries before the
  launch starts.
- `AtWork(p)`: the process that holds the lock works on a running launch among
  temporaries of its own (`LeaseHeld`), remembers what is durable
  (`MemoryMatches`), records an outcome the graph asks for (`JobDecided`) with
  looks that lead from the durable ones to a planned end (`JobPlanned`), and the
  record it is at is still missing until it links it (`JobPending`).

`StoreAgrees` then says that the validation in `write_task_result`,
`write_planned_look_receipt` and `complete_launch` never refuses what the
coordinator asks: the two implementations of the graph and look rules agree on
every registry, in every resumption. `Finality` and `LaunchImplementsRun` rest on
two lemmas on who writes (`OnlyLinksWrite`, `MarkerMoves`). `LeastElement` gives
the CHOOSE of the next task and the next record its witness.

`G3ExecutionProofs` holds for every graph that passes `_validate_registries`, any
stages, state counts, processes, preflights and faults (`RegistryAssumption`,
`SelectionAssumption`, `ExecutionAssumption`). `OneAtATime` and `ExecutedOnce` need
little: who is past the lock has it (`Exclusive`), and where there is a launch its
marker was written (`MarkerFirst`), so that whoever prepares the run another time
finds it and publishes nothing. `ExecutionImplementsRun` needs what a call carries
from its science to its result, through three records and the steps of others
between them (`RInv`): a count that the selection may choose (`Chosen`), and from
the binding on the passed dependencies, the missing results and the right count
(`Decided`). The binding takes the count from the one that its dependencies bring;
that this is the count of the selection is `OneLineage`, used in
`BindingDecides`. `OthersKeep` is where the lock is needed: who has not got it
leaves what another has decided as it is (`OutsiderSpares`).

`ScienceAloneStops` and `EvidenceCorrect` need the order of everything a launch
does (`OInv`). For the call that executes, `InOrder` ties its step and position to
what is on disk: the results up to its task and no other, the looks of its task up
to its record, its job, the pair and the lease; `SetupInOrder` does the same for
the files of the preparation. `NothingBefore` says that there are no results,
checkpoints or artifacts before the start, `ResultsBacked` and `EndBacked` what
results, artifacts and evidence stand on. Each action of the executor has a lemma
(`BindInOrder` to `FinalizeInOrder`), and whoever does not execute disturbs none of
it (`OutsiderSpares`, `OutsiderTidies`). The checks of checkpoints go through the
graph by a recursive function (`Ancestors`): that there is such a function is
shown from least closed sets (`LeastClosed`, `AncestorsOf`), what it gives by taking
a least counterexample (`LeastElement`), as induction theorems cannot be
instantiated here. The result that the last checkpoint rests on every task
(`LastRestsOnAll`) is where the registry comes in: `ExecutionAssumption` asks that
every task but the last is a dependency of some task, and that every task after the
selection depends on one at or after it. Both hold of `model/g3_registry.py`, and TLC
evaluates them on it. `ScienceAloneStops` is about the checks of what was published;
it does not say that the science goes on, or passes.

`PublicationProofs` holds for any addresses, shapes and queues that pass
`PublicationAssumption`, and any number of publishers, faults and power losses.
Its `IInv` says of each publisher what its step may rely on: where in a call the
step can be (`Controlled`), what the stage holds (`Prepared`), that the one who
fills a destination made it (`Filled`, `OneFiller`), what was read back
(`Accepting`) and that what is earlier in the queue was returned (`Behind`); and
of each address that a careful store's content is on disk (`CarefulOnDisk`), that
what was settled is visible (`SettledVisible`), that the directory of what is
visible is there (`Housed`, and `Based` for a publisher that is about to publish),
that the order holds (`InOrder`) and that what was returned is there, or was told
too early and the power was lost (`Returned`).
`StoresImplement` proves the refinement of `ContentStore` from it: a power loss
leaves what is `Durable`, and no other step takes anything.

`V5GenerationProofs` needs three things for `ManifestIsTrue`: a name under the
root is of one file (`UniqueNames`), the files a call has rehashed are still there
(`Rehashed`), and it finds its checksums and manifest as it left them
(`OwnFinals`), all of which a removal of the root ends together with the call. No
assumption on when roots are removed is needed. `EveryPathOnce` adds that a file is
of a work unit of its call (`OfPlan`) and that the work units cut the selected
ranges (`UnitsCut`), whatever ranges a plan accepts and whatever its shard size:
the shards of one range are disjoint and leave nothing out (`ShardsCut`, by
division with remainder), and so are those of all (`FlattenLays`, which says where
in the flattened sequence each element of each is). `FlattenSeq` is a recursive
function; that it exists for every length, and what it is at each, is shown by the
least length for which it would fail (`LeastNumber`), so without an induction
theorem.

`ReleaseLifecycleProofs` follows each caller (`Controlled`, `Validating`,
`Finalizing`, `Completing`, `Releasing`, `Signing`) and the order of a validation
(`Chain`): two finalizations exclude each other although no lock does, because
each links `consumerSums` first and verifies an exact tree before. `Grows` is what
no step takes back, of the root and of the attestations; `LifecycleOneWay` is that
and the order of the markers.

`ProductionRunProofs` holds for any number of units, workers, processes and faults
(`ProductionAssumption`), where the run stops at two. What TLC checks until the
lock is lost is proved without that constraint. `LockSound` says why the lock
excludes: a holder has the inode that the name leads to (`HolderHasName`), so
whoever opens the name meets it; a new file has a new inode, as there is one more
than processes (`FreeInode`). Then only the holder writes ledger and markers, and
where it is tells what they are (`LedgerAt`), from the first call on, which is the
only one to find no inputs (`FirstCall`, `NothingBeforeInputs`). Workers are at work
only while their coordinator waits for them (`WorkersAttended`), so what it has
verified stays (`VerifiedComplete`). `CommittedAlwaysStay` needs none of that: each
step by itself leaves a complete unit that nobody is writing. `FailedForGood` has
two halves: nothing was exposed, so whoever writes the ledger holds the lock and has
passed its check (`FailedStep`), or nobody is left in the run, and then no call gets
past its check, whatever lock it holds (`AbandonedStep`).

`BootstrapBridgeProofs` proves two components that have nothing in common but the
module. What it says of `BootstrapTrace` holds for every history, target, number of states, rows and
positions, grid and block length (`BootstrapAssumption`). Its `IInv` adds to the
properties what a trace says position by position (`TraceSound`: each row is of
the state asked for, a block goes on by a link and within a segment, a reason of
the history is one; `IdealSound`; `RestartsReached`). The proof of a step first
shows that all implementations restart or none (`SameRestarts`, from the one
characterisation `ScalarCases`), that a new block starts at the same row
(`SameNewRow`; `RankedRow` shows by an injection that every rank below the number
of rows is the rank of one, `RankInRange` that clipping it changes nothing) and
that a continued one goes on to the same (`SameNextRow`); what remains is about
the scalar trace alone (`ScalarExtends`). `ReaderAlwaysAccepts` and
`SupportAlwaysHonest` follow from the invariant without another induction: a
block is history, so its length is the distance between two rows.

`SampledPath` is proved for any laws, also those that rounding leaves short of one,
and any segments that pass `PathAssumption` (positive lengths, each segment cut
within its last month, as `_validated_segment_lengths` and
`_validate_daily_expansion` demand). `SameDraw` shows that the four draws are one:
partial sums do not decrease (`CumulativeIs`), so the states whose sum does not
exceed the uniform are the first ones, and their number is the first state above.
`SameExpansion` shows that division and repetition agree: where each part of a
flattened sequence is (`FlattenAt`), which part a position is in (`SegmentIs`), and
that a segment cut short still has the position, by `TerminalTruncation`. The
invariant `PathInv` adds that a path still at its chain has a history in which each
state has rows, and a fresh trace (`ChainFirst`); so `Expand` leads to an initial state of
`BootstrapTrace`, and the trace that follows keeps `IInv` by the lemma that was
proved for a given target (`PathStep`). `PathsAreTraces` states what that gives: the
properties of traces, of the paths that the run checks. All sums and flattened
sequences are recursive functions, handled as in `V5GenerationProofs`
(`SumsExist`, `FlattensExists`).

What it says of `BridgeDriver` holds for any science, number of batches, looks and
callers, timings and faults (`BridgeAssumption`), of either driver. `BInv` says of
the disk that each file fits what the science decides and rests on those before it
in its directory (`DiskRight`: `Fits`, `Rests`), and of each caller that the file
it is about to link may be there (`Writer`) and that it counts receipts that are
there (`Counts`). Of the canonical driver, whose callers race, every file and every
caller is at something that is ready (`Ready`: all that goes before it is on disk,
and no gate before it failed), which no other caller can undo, as the disk only
grows (`Grows`, `GrowthKeeps`). Of the staged one, whose chain is computed again
from its own events, `Planned` is the chain in closed form: the n-th action and
its outcome (`ActionAt`, `OutcomeAt`), where it ends early (`Open`), and `NextIs`
shows that `NextAction` of its first n events is the one after them, `LiveIs` that
the checkpoints say the same of it. `Chain` then says that the events are the first
of the plan, without a gap (`NoGap`), and that no file belongs to an action beyond
the next. `FinalFollows` and `PrefixFollows` get the two properties from the
invariant, and `FinalReverifies` turns out not to need that the benchmark is
measured once: FINAL quotes the one that is on disk.

Only model-checked: every liveness property (fairness and ENABLED are beyond the
prover here, so `BridgeEnds` too). Every invariant and every action property that
a passing run checks is stated by a theorem. `NoTornFile`, `StagedBeforePublished` and `ReaderAccepts`
are proved and have no run of their own, nor have the type invariants that are
proved.

## 5. Not modelled

Outside every model: symbolic links and other hostile file types that the code
refuses everywhere, contents of receipts and hashes (a hash is what it is of),
resource preflights, time, and the rest of the numerical code (returns, kernel
offsets and the rounding of floats: `BootstrapTrace` has exact thresholds). Power loss (a completed call that
was never synced) is in `Publication` only. Two committers of one unit are in
`ProductionRun` at the level of its steps, not in `GroupCommit`. The older
`read_receipt` / `complete` interface of the run store, the publication of failures
by `model/g3_failure_publication.py`, which the command does not use,
`failure_propagation`, which nothing but tests calls, and `practical_production`
are not modelled. What a binding binds (the fingerprints of the science behind a
task) is not in `G3Execution`: `Bind` has its conditions on the store alone.

What the models leave out although it bears on their subject, or exclude, and why:

- A store makes its directories with `mkdir` and never syncs those above them
  (`data/snapshot.py:88`, `data/processed.py:111`, `model/artifact.py:388-396`,
  `model/scientific_artifact_pair.py:440-449`, `model/g3_evidence_store.py:1464`,
  `model/g5_evidence_store.py:565`, `validation/store.py:149`,
  `model/bridge_driver.py:776`). A power loss may therefore take the first
  records of a new store after they were synced and returned, with the whole
  store, and may take an artifact and leave, in the store beside it, the receipt
  that binds it. `Publication` has this; `ParentsStand` and `ReturnedSurvives`
  exempt it (`newly`), and what a store in use returns is not affected. A directory
  that a power loss has left is taken to be on disk after it.
- `CommittedUnlessHalfLinked` exempts a receipt that is still linked to its
  temporary. Verification and quarantine both refuse it, although
  `storage/group_commit.py:8-9` says that partial groups can be moved as a whole
  to a quarantine.
- `V5Generation` has two of the four frequencies; the protocol treats all alike.
  `_build_plan` allows two ranges of one role while the validator
  (`v5/validation.py:908-912`) refuses such a tree; `Delivers` is about plans with
  one range for each role (`OneRangePerRole`). Orphans of a killed call may make
  the tree of the next one be refused.
- A kill between the temporary of a task result or look and its unlink
  (`model/run_store.py:1440-1461`) leaves an entry that every later verification
  of the directory refuses, and nothing removes it, although the module calls
  itself a "crash-safe, resumable receipt store" (line 1).
  `CompletesUnlessResidue` exempts it (`Residue`).
- Stores of G5 records refuse an entry that is there, so a publication of several
  records that broke off cannot be repeated (`validation/qualification.py:1337`);
  `CallSucceeds` is about the stores that reuse (`Forgiving`).
- Two callers of the staged bridge at once would wedge its chain; the launch lease
  excludes them, and so does the model.
- The canonical bridge lists its batches, or its looks, and then reads them one by
  one (`model/bridge_driver.py:927-937`, 1091-1101): one that another caller
  publishes in between makes it raise, and the next call goes on. `BridgeDriver`
  reads a directory in one step and has no such refusal.
- A kill between a temporary and its unlink in the events, batches or looks of the
  bridge blocks every later call, although `model/bridge_driver.py:1306` prepares
  or resumes and 3134-3135 says that later calls reverify and reuse every
  completed receipt. `BridgeEnds` exempts it (`Blocked`).
- The design log (line 4257) speaks of recovery for a finalization that broke off;
  `validation/release.py:16-17` says there is none, and the model has none.
  DATA_VALIDATED is written in place and its directory not synced
  (`validation/scientific.py:162-171`, against line 4256 of the log).

## 6. Plan

What is left, in this order:

1. `practical_production`, which has the shape of `V5Generation` over group commits.
2. The escalation over block lengths that reads the traces
   (`model/block_execution.py`, `execute_block_calibration`), the period arithmetic
   of the aggregation, and the addressing of random streams.
