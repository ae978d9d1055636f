------------------------ MODULE G3CoordinatorProofs ------------------------
(***************************************************************************)
(* Proofs about G3Coordinator, for every valid registry, every number of   *)
(* processes and of faults: type correctness, the safety properties of its *)
(* run that need no induction over the graph, and the refinement of        *)
(* DagRun.                                                                 *)
(***************************************************************************)
EXTENDS G3Coordinator, TLAPS, WellFoundedInduction

Active == {"load", "task", "record", "link", "unlink"}
Working == {"task", "record", "link", "unlink"}
Recording == {"record", "link", "unlink"}

-----------------------------------------------------------------------------
(* What holds of the disk *)

\* No record is begun before the launch is started.
CleanStart == launch \in {"none", "planned"} => tmps = {}

\* Results come in dependency order and are blocked exactly when a dependency
\* did not pass.
GraphValid ==
    \A t \in Tasks : Present(t) =>
        /\ \A d \in Dependencies[t] : Present(d)
        /\ status[t] = "blocked" <=> BlockedBy(t) # {}

\* Only a passed selection records a state count.
CountOnlyIfPassed ==
    status[SelectionTask] # "passed" => selectedK[SelectionTask] = NoCount

\* The last planned look is terminal, looks are taken for a task whose
\* dependencies passed, and a task that ran has ended all of its families.
LooksValid ==
    \A f \in Families :
        /\ looks[f].count = Schedule[f] => looks[f].last # "continue"
        /\ looks[f] # NoLook => \A d \in Dependencies[Owner[f]] : status[d] = "passed"
        /\ Present(Owner[f]) /\ status[Owner[f]] # "blocked" => Terminal(f)

DiskValid ==
    /\ CleanStart
    /\ GraphValid
    /\ CountOnlyIfPassed
    /\ LooksValid
    /\ PassedOnPassingLooks

-----------------------------------------------------------------------------
(* What holds of the process at work *)

\* The flock admits one process.
Exclusive == \A p \in Processes : pc[p] \in Active \cup {"locked"} => lock = p

\* It works on a running launch, among temporaries of its own only.
LeaseHeld(p) ==
    /\ launch = "running" /\ ~markerTmp
    /\ pc[p] \in {"load", "task", "record"} => tmps = {}
    /\ pc[p] \in {"link", "unlink"} => tmps = {job[p].at}

\* The body of MemoryMatchesDisk.
MemoryMatches(p) ==
    /\ \A t \in Tasks :
         memory[p][t] =
           IF pc[p] = "unlink" /\ job[p].at = ResultDirectory /\ t = job[p].task
           THEN "absent" ELSE status[t]
    /\ selected[p] = IF memory[p][SelectionTask] = "passed"
                     THEN selectedK[SelectionTask] ELSE NoCount

\* The outcome it records is one that the graph asks for.
JobDecided(p) ==
    /\ \A d \in Dependencies[job[p].task] : Present(d)
    /\ job[p].outcome = "blocked" <=> BlockedBy(job[p].task) # {}
    /\ job[p].count \in Counts(p, job[p].task, job[p].outcome)

\* The looks its families shall end with: none if the task is blocked, else a
\* terminal one, within the schedule, that the durable looks lead to.
JobPlanned(p) ==
    \A f \in Owned(job[p].task) :
        /\ job[p].outcome = "blocked" => job[p].plan[f] = NoLook
        /\ job[p].outcome # "blocked" => job[p].plan[f].last \in {"pass", "fail"}
        /\ job[p].outcome = "passed" => job[p].plan[f].last = "pass"
        /\ \/ looks[f] = job[p].plan[f]
           \/ /\ ~Terminal(f)
              /\ job[p].outcome # "blocked"
              /\ looks[f].count < job[p].plan[f].count
              /\ job[p].plan[f].count <= Schedule[f]

\* The record it is at is missing until it is linked.
JobPending(p) ==
    /\ pc[p] \in {"record", "link"} => ~Present(job[p].task)
    /\ pc[p] = "link" =>
         IF job[p].at = ResultDirectory THEN Unfinished(p) = {}
         ELSE job[p].at \in Unfinished(p)
    /\ pc[p] = "unlink" =>
         IF job[p].at = ResultDirectory
         THEN /\ status[job[p].task] = job[p].outcome
              /\ selectedK[job[p].task] = job[p].count
         ELSE job[p].at \in Owned(job[p].task) /\ ~Present(job[p].task)

AtWork(p) ==
    /\ pc[p] \in Active => LeaseHeld(p)
    /\ pc[p] \in Working => MemoryMatches(p)
    /\ pc[p] \in Recording => JobDecided(p) /\ JobPlanned(p) /\ JobPending(p)

\* The inductive invariant.
IInv ==
    /\ TypeOK
    /\ DiskValid
    /\ Exclusive
    /\ \A p \in Processes : AtWork(p)

-----------------------------------------------------------------------------
(* Minima: CHOOSE finds the least missing task and the first missing look *)

\* A set of naturals that is not empty has a least element.
LEMMA LeastElement ==
    ASSUME NEW T \in SUBSET Nat, T # {}
    PROVE  \E x \in T : \A y \in T : x <= y
<1>1. IsWellFoundedOn(OpToRel(<, Nat), Nat)
  BY NatLessThanWellFounded
<1>2. PICK x \in T : \A y \in T : ~(<<y, x>> \in OpToRel(<, Nat))
  BY <1>1, WFMin
<1>3. \A y \in T : ~(y < x)
  BY <1>2 DEF OpToRel
<1>4. QED
  BY <1>3

\* The next task is missing, and its dependencies are not.
LEMMA NextTask ==
    ASSUME NEW p \in Processes, Remaining(p) # {}
    PROVE  /\ Next1(p) \in Remaining(p)
           /\ Next1(p) \in Tasks
           /\ \A d \in Dependencies[Next1(p)] : d \in Tasks /\ d \notin Remaining(p)
<1> USE RegistryAssumption DEF Tasks
<1>1. Remaining(p) \in SUBSET Tasks
  BY DEF Remaining
<1>2. \E t \in Remaining(p) : \A u \in Remaining(p) : t <= u
  BY <1>1, LeastElement
<1>3. /\ Next1(p) \in Remaining(p)
      /\ \A u \in Remaining(p) : Next1(p) <= u
  BY <1>2 DEF Next1
<1>4. \A d \in Dependencies[Next1(p)] : d \in Tasks /\ d < Next1(p)
  BY <1>1, <1>3
<1>5. QED
  BY <1>1, <1>3, <1>4

\* The next record is the task's result once no look is missing, and a missing
\* look of one of its families before.
LEMMA NextRecordIs ==
    ASSUME NEW p \in Processes
    PROVE  /\ NextRecord(p) \in Directories
           /\ Unfinished(p) = {} => NextRecord(p) = ResultDirectory
           /\ Unfinished(p) # {} => NextRecord(p) \in Unfinished(p)
           /\ ResultDirectory \notin Families
           /\ Unfinished(p) \subseteq Families
<1> USE RegistryAssumption DEF Families, Directories, ResultDirectory
<1>1. Unfinished(p) \in SUBSET Families
  BY DEF Unfinished, Owned
<1>2. CASE Unfinished(p) = {}
  BY <1>1, <1>2 DEF NextRecord
<1>3. CASE Unfinished(p) # {}
  <2>a. Unfinished(p) \in SUBSET Nat
    BY <1>1
  <2>1. \E f \in Unfinished(p) : \A g \in Unfinished(p) : f <= g
    BY <1>3, <2>a, LeastElement
  <2>2. NextRecord(p) \in Unfinished(p)
    BY <1>3, <2>1 DEF NextRecord
  <2>3. QED
    BY <1>1, <1>3, <2>2
<1>4. QED
  BY <1>2, <1>3

-----------------------------------------------------------------------------
(* Type correctness *)

LookType == [count : Nat, last : Decisions \cup {"none"}]
JobType == [task : Tasks, outcome : Statuses, count : StateCounts \cup {NoCount},
            plan : [Families -> LookType], at : Directories]

\* The job of a process that records nothing is well typed.
LEMMA NoJobType == NoJob \in JobType
<1>1. NoPlan \in [Families -> LookType]
  BY DEF NoPlan, NoLook, LookType
<1>2. 1 \in Tasks /\ ResultDirectory \in Directories
  BY RegistryAssumption DEF Tasks, ResultDirectory, Directories
<1>3. QED
  BY <1>1, <1>2 DEF NoJob, JobType, Statuses, NoCount

\* The plans that a handler may make are well typed.
LEMMA OutcomeType ==
    ASSUME TypeOK, NEW t \in Tasks, NEW o \in Outcomes(t)
    PROVE  /\ o.outcome \in {"passed", "failed"}
           /\ o.plan \in [Families -> LookType]
           /\ \A f \in Owned(t) : o.plan[f] \in Endings(f)
           /\ o.outcome = "passed" => \A f \in Owned(t) : o.plan[f].last = "pass"
<1>1. /\ o.outcome \in {"passed", "failed"}
      /\ o.plan \in [Families -> {NoLook} \cup UNION {Endings(f) : f \in Owned(t)}]
      /\ \A f \in Families : f \in Owned(t) => o.plan[f] \in Endings(f)
      /\ o.outcome = "passed" => \A f \in Owned(t) : o.plan[f].last = "pass"
  BY DEF Outcomes
<1>2. \A f \in Families : Endings(f) \subseteq LookType
  <2> SUFFICES ASSUME NEW f \in Families PROVE Endings(f) \subseteq LookType
    OBVIOUS
  <2>1. looks[f] \in LookType /\ Schedule[f] \in Nat /\ looks[f].count \in Nat
    BY RegistryAssumption DEF TypeOK, StoreTypeOK, LookType
  <2>2. (looks[f].count + 1)..Schedule[f] \subseteq Nat
    BY <2>1
  <2>3. QED
    BY <2>1, <2>2 DEF Endings, LookType, Decisions
<1>3. UNION {Endings(f) : f \in Owned(t)} \subseteq LookType
  BY <1>2 DEF Owned
<1>a. NoLook \in LookType
  BY DEF NoLook, LookType
<1>4. o.plan \in [Families -> LookType]
  <2> DEFINE Range1 == {NoLook} \cup UNION {Endings(f) : f \in Owned(t)}
  <2>1. Range1 \subseteq LookType
    BY <1>3, <1>a
  <2>2. o.plan \in [Families -> Range1]
    BY <1>1
  <2> HIDE DEF Range1
  <2>3. QED
    BY <2>1, <2>2
<1>5. QED
  BY <1>1, <1>4 DEF Owned

\* No step leaves the types.
LEMMA TypeStep == TypeOK /\ [Next]_vars => TypeOK'
<1> SUFFICES ASSUME TypeOK, [Next]_vars PROVE TypeOK'
  OBVIOUS
<1> USE DEF TypeOK, StoreTypeOK
<1>0. CASE UNCHANGED vars
  BY <1>0 DEF vars, store, local
<1> SUFFICES ASSUME NEW p \in Processes,
                    PlanLaunch(p) \/ AcquireLock(p) \/ Work(p) \/ Kill(p) \/ Raise(p)
             PROVE  TypeOK'
  BY <1>0 DEF Next
<1>a. ASSUME NEW s \in Steps, GoTo(p, s)
      PROVE  pc' \in [Processes -> Steps]
  BY <1>a DEF GoTo
<1>b. ASSUME Stop(p)
      PROVE  /\ pc' \in [Processes -> Steps]
             /\ lock' \in Processes \cup {NoProcess}
             /\ memory' \in [Processes -> [Tasks -> Statuses \cup {"absent"}]]
             /\ selected' \in [Processes -> StateCounts \cup {NoCount}]
             /\ job' \in [Processes -> JobType]
  <2>1. Nothing \in [Tasks -> Statuses \cup {"absent"}]
    BY DEF Nothing
  <2>2. job \in [Processes -> JobType]
    BY DEF JobType, LookType
  <2>3. job' \in [Processes -> JobType]
    BY <1>b, <2>2, NoJobType DEF Stop
  <2>4. pc' \in [Processes -> Steps]
    BY <1>b DEF Stop, GoTo, Steps
  <2>5. QED
    BY <1>b, <2>1, <2>3, <2>4 DEF Stop
<1>1. CASE PlanLaunch(p)
  BY <1>1, <1>a DEF PlanLaunch, Steps
<1>2. CASE AcquireLock(p)
  BY <1>2, <1>a DEF AcquireLock, Steps, store
<1>3. CASE UnlinkPlan(p)
  BY <1>3, <1>a DEF UnlinkPlan, Steps
<1>4. CASE StartLaunch(p)
  <2>1. CASE Stop(p) /\ UNCHANGED <<launch, sequence>>
    BY <1>4, <1>b, <2>1 DEF StartLaunch, JobType, LookType
  <2>2. CASE ~(Stop(p) /\ UNCHANGED <<launch, sequence>>)
    BY <1>4, <1>a, <2>2 DEF StartLaunch, Steps
  <2>3. QED
    BY <2>1, <2>2
<1>5. CASE LoadRun(p)
  <2>1. pc' \in [Processes -> Steps]
    BY <1>5, <1>a DEF LoadRun, Steps
  <2>2. selectedK[SelectionTask] \in StateCounts \cup {NoCount}
    BY SelectionAssumption
  <2>3. QED
    BY <1>5, <2>1, <2>2 DEF LoadRun, store
<1>6. CASE BlockTask(p)
  <2>1. [NoJob EXCEPT !.task = Next1(p), !.count = selected[p]] \in JobType
    BY <1>6, NoJobType, NextTask DEF BlockTask, JobType
  <2>2. job' \in [Processes -> JobType]
    BY <1>6, <2>1 DEF BlockTask, JobType, LookType
  <2>3. QED
    BY <1>6, <1>a, <2>2 DEF BlockTask, Steps, store, JobType, LookType
<1>7. CASE RunHandler(p)
  <2>1. Next1(p) \in Tasks
    BY <1>7, NextTask DEF RunHandler
  <2>a. PICK o \in Outcomes(Next1(p)) : \E c \in Counts(p, Next1(p), o.outcome) :
          job' = [job EXCEPT ![p] = [NoJob EXCEPT !.task = Next1(p),
                                                  !.outcome = o.outcome,
                                                  !.count = c,
                                                  !.plan = o.plan]]
    BY <1>7 DEF RunHandler
  <2>2. PICK c \in Counts(p, Next1(p), o.outcome) :
          job' = [job EXCEPT ![p] = [NoJob EXCEPT !.task = Next1(p),
                                                  !.outcome = o.outcome,
                                                  !.count = c,
                                                  !.plan = o.plan]]
    BY <2>a
  <2>3. c \in StateCounts \cup {NoCount}
    BY <2>2 DEF Counts
  <2>4. o.outcome \in Statuses /\ o.plan \in [Families -> LookType]
    BY <2>1, OutcomeType DEF Statuses
  <2>5. [NoJob EXCEPT !.task = Next1(p), !.outcome = o.outcome, !.count = c,
                      !.plan = o.plan] \in JobType
    BY <2>1, <2>3, <2>4, NoJobType DEF JobType
  <2>6. job' \in [Processes -> JobType]
    BY <2>2, <2>5 DEF JobType, LookType
  <2>7. QED
    BY <1>7, <1>a, <2>6 DEF RunHandler, Steps, store, JobType, LookType
<1>8. CASE BeginRecord(p)
  <2>1. CASE Stop(p) /\ UNCHANGED tmps
    BY <1>8, <1>b, <2>1 DEF BeginRecord, JobType, LookType
  <2>2. CASE RecordAllowed(p)
    <3>1. NextRecord(p) \in Directories
      BY NextRecordIs
    <3>2. job' = [job EXCEPT ![p].at = NextRecord(p)]
      BY <1>8, <2>2 DEF BeginRecord
    <3>3. job' \in [Processes -> JobType]
      BY <3>1, <3>2 DEF JobType, LookType
    <3>4. QED
      BY <1>8, <1>a, <2>2, <3>1, <3>3 DEF BeginRecord, Steps, JobType, LookType
  <2>3. QED
    BY <1>8, <2>1, <2>2 DEF BeginRecord
<1>9. CASE LinkRecord(p)
  <2>1. pc' \in [Processes -> Steps]
    BY <1>9, <1>a DEF LinkRecord, Steps
  <2>2. CASE job[p].at = ResultDirectory
    BY <1>9, <2>1, <2>2 DEF LinkRecord
  <2>3. CASE job[p].at # ResultDirectory
    <3>1. job[p].at \in Families
      BY <2>3 DEF Directories, ResultDirectory, Families
    <3>2. Decision(p, job[p].at) \in Decisions \cup {"none"}
      BY <3>1 DEF Decision, Decisions
    <3>a. [count |-> looks[job[p].at].count + 1, last |-> Decision(p, job[p].at)]
            \in [count : Nat, last : Decisions \cup {"none"}]
      BY <3>1, <3>2
    <3>b. looks' = [looks EXCEPT ![job[p].at] =
                      [count |-> looks[job[p].at].count + 1,
                       last |-> Decision(p, job[p].at)]]
      BY <1>9, <2>3, <3>1 DEF LinkRecord
    <3>3. looks' \in [Families -> [count : Nat, last : Decisions \cup {"none"}]]
      BY <3>a, <3>b
    <3>4. QED
      BY <1>9, <2>1, <2>3, <3>3 DEF LinkRecord
  <2>4. QED
    BY <2>2, <2>3
<1>10. CASE UnlinkRecord(p)
  <2>1. CASE job[p].at = ResultDirectory
    <3>1. job \in [Processes -> JobType]
      BY DEF JobType, LookType
    <3>2. job' \in [Processes -> JobType]
      BY <1>10, <2>1, <3>1, NoJobType DEF UnlinkRecord
    <3>a. /\ job[p].task \in Tasks
          /\ job[p].outcome \in Statuses
          /\ job[p].count \in StateCounts \cup {NoCount}
      OBVIOUS
    <3>3. memory' \in [Processes -> [Tasks -> Statuses \cup {"absent"}]]
      <4>1. memory' = [memory EXCEPT ![p] = [memory[p] EXCEPT ![job[p].task] = job[p].outcome]]
        BY <1>10, <2>1 DEF UnlinkRecord
      <4>2. [memory[p] EXCEPT ![job[p].task] = job[p].outcome] \in [Tasks -> Statuses \cup {"absent"}]
        BY <3>a
      <4>3. QED
        BY <4>1, <4>2
    <3>4. selected' \in [Processes -> StateCounts \cup {NoCount}]
      <4>1. PICK c \in StateCounts \cup {NoCount} : selected' = [selected EXCEPT ![p] = c]
        BY <1>10, <2>1, <3>a DEF UnlinkRecord
      <4>2. QED
        BY <4>1
    <3>5. QED
      BY <1>10, <1>a, <2>1, <3>2, <3>3, <3>4 DEF UnlinkRecord, Steps, JobType, LookType
  <2>2. CASE job[p].at # ResultDirectory
    BY <1>10, <1>a, <2>2 DEF UnlinkRecord, Steps
  <2>3. QED
    BY <2>1, <2>2
<1>11. CASE CompleteLaunch(p)
  BY <1>11, <1>b DEF CompleteLaunch, JobType, LookType
<1>12. CASE Kill(p)
  BY <1>12, <1>b DEF Kill, Fault, store, JobType, LookType
<1>13. CASE Raise(p)
  <2>1. markerTmp' \in BOOLEAN
    BY <1>13 DEF Raise
  <2>3. tmps' \subseteq Directories
    BY <1>13 DEF Raise
  <2>4. faults' \in Nat
    BY <1>13 DEF Raise, Fault
  <2>2. QED
    BY <1>13, <1>b, <2>1, <2>3, <2>4 DEF Raise, JobType, LookType
<1>14. QED
  BY <1>1, <1>2, <1>3, <1>4, <1>5, <1>6, <1>7, <1>8, <1>9, <1>10, <1>11, <1>12,
     <1>13 DEF Work

-----------------------------------------------------------------------------
(* Exclusion *)

\* While one process holds the lock, no other is at work.
LEMMA OthersIdle ==
    ASSUME Exclusive, NEW p \in Processes, NEW q \in Processes, p # q,
           pc[p] \in Active \cup {"locked"}
    PROVE  pc[q] \notin Active \cup {"locked"}
BY DEF Exclusive

\* What Stop does to the process that stops and to the others.
LEMMA StopEffect ==
    ASSUME TypeOK, NEW p \in Processes, Stop(p)
    PROVE  /\ pc'[p] = "idle"
           /\ \A q \in Processes \ {p} : /\ pc'[q] = pc[q]
                                         /\ memory'[q] = memory[q]
                                         /\ selected'[q] = selected[q]
                                         /\ job'[q] = job[q]
                                         /\ lock = q => lock' = q
BY DEF Stop, GoTo, TypeOK

\* The flock excludes.
LEMMA ExclusiveStep == TypeOK /\ Exclusive /\ [Next]_vars => Exclusive'
<1> SUFFICES ASSUME TypeOK, Exclusive, [Next]_vars PROVE Exclusive'
  OBVIOUS
<1>0. CASE UNCHANGED vars
  BY <1>0 DEF vars, local, Exclusive
<1> SUFFICES ASSUME NEW p \in Processes,
                    PlanLaunch(p) \/ AcquireLock(p) \/ Work(p) \/ Kill(p) \/ Raise(p)
             PROVE  Exclusive'
  BY <1>0 DEF Next
<1>a. pc \in [Processes -> Steps] /\ NoProcess \notin Processes
  BY ProcessAssumption DEF TypeOK
<1>b. ASSUME Stop(p)
      PROVE  Exclusive'
  BY <1>b, StopEffect DEF Exclusive, Active
<1>c. ASSUME NEW s \in Active, GoTo(p, s), lock' = lock, pc[p] \in Active \cup {"locked"}
      PROVE  Exclusive'
  BY <1>a, <1>c DEF Exclusive, GoTo
<1>d. ASSUME NEW s \in {"idle", "planUnlink"}, GoTo(p, s), lock' = lock
      PROVE  Exclusive'
  BY <1>a, <1>d DEF Exclusive, GoTo, Active
<1>1. CASE PlanLaunch(p)
  BY <1>1, <1>d DEF PlanLaunch
<1>2. CASE AcquireLock(p)
  BY <1>2, <1>a DEF AcquireLock, GoTo, Exclusive
<1>3. CASE UnlinkPlan(p)
  BY <1>3, <1>d DEF UnlinkPlan
<1>4. CASE StartLaunch(p)
  <2>1. CASE Stop(p)
    BY <2>1, <1>b
  <2>2. CASE ~Stop(p)
    BY <2>2, <1>4, <1>c DEF StartLaunch, Active
  <2>3. QED
    BY <2>1, <2>2
<1>5. CASE LoadRun(p)
  BY <1>5, <1>c DEF LoadRun, Active
<1>6. CASE BlockTask(p)
  BY <1>6, <1>c DEF BlockTask, Active
<1>7. CASE RunHandler(p)
  BY <1>7, <1>c DEF RunHandler, Active
<1>8. CASE BeginRecord(p)
  <2>1. CASE Stop(p)
    BY <2>1, <1>b
  <2>2. CASE ~Stop(p)
    BY <2>2, <1>8, <1>c DEF BeginRecord, Active
  <2>3. QED
    BY <2>1, <2>2
<1>9. CASE LinkRecord(p)
  BY <1>9, <1>c DEF LinkRecord, Active
<1>10. CASE UnlinkRecord(p)
  BY <1>10, <1>c DEF UnlinkRecord, Active
<1>11. CASE CompleteLaunch(p)
  BY <1>11, <1>b DEF CompleteLaunch
<1>12. CASE Kill(p)
  BY <1>12, <1>b DEF Kill
<1>13. CASE Raise(p)
  BY <1>13, <1>b DEF Raise
<1>14. QED
  BY <1>1, <1>2, <1>3, <1>4, <1>5, <1>6, <1>7, <1>8, <1>9, <1>10, <1>11, <1>12,
     <1>13 DEF Work

-----------------------------------------------------------------------------
(* The disk *)

\* A look that is linked takes its family one step along the plan.
LEMMA LookLinked ==
    ASSUME IInv, NEW p \in Processes, LinkRecord(p), job[p].at # ResultDirectory
    PROVE  LET f == job[p].at IN
           /\ f \in Families /\ f \in Owned(job[p].task) /\ Owner[f] = job[p].task
           /\ \A g \in Families \ {f} : looks'[g] = looks[g]
           /\ ~Terminal(f)
           /\ job[p].outcome # "blocked"
           /\ looks'[f].count = looks[f].count + 1
           /\ looks'[f].count <= job[p].plan[f].count
           /\ looks'[f].count = job[p].plan[f].count => looks'[f] = job[p].plan[f]
           /\ looks'[f].count # job[p].plan[f].count => looks'[f].last = "continue"
           /\ job[p].plan[f].count <= Schedule[f]
           /\ looks[f].count \in Nat /\ job[p].plan[f].count \in Nat
           /\ job[p].plan[f].last \in {"pass", "fail"}
<1> DEFINE f == job[p].at
<1>1. AtWork(p) /\ pc[p] = "link" /\ TypeOK
  BY DEF IInv, LinkRecord
<1>2. f \in Unfinished(p) /\ JobPlanned(p)
  BY <1>1 DEF AtWork, JobPending, Active, Recording
<1>3. f \in Families /\ f \in Owned(job[p].task) /\ Owner[f] = job[p].task
  BY <1>2 DEF Unfinished, Owned
<1>4. /\ looks[f] # job[p].plan[f]
      /\ ~Terminal(f)
      /\ job[p].outcome # "blocked"
      /\ looks[f].count < job[p].plan[f].count
      /\ job[p].plan[f].count <= Schedule[f]
      /\ job[p].plan[f].last \in {"pass", "fail"}
  BY <1>2, <1>3 DEF Unfinished, JobPlanned
<1>5. looks \in [Families -> LookType] /\ job[p].plan[f] \in LookType
  BY <1>1, <1>3 DEF TypeOK, StoreTypeOK, LookType
<1>6. looks' = [looks EXCEPT ![f] = [count |-> looks[f].count + 1, last |-> Decision(p, f)]]
  BY <1>3, <1>5 DEF LinkRecord
<1>7. looks'[f] = [count |-> looks[f].count + 1, last |-> Decision(p, f)]
  BY <1>3, <1>5, <1>6
<1>8. looks[f].count \in Nat /\ job[p].plan[f].count \in Nat
  BY <1>3, <1>5 DEF LookType
<1>9. job[p].plan[f] = [count |-> job[p].plan[f].count, last |-> job[p].plan[f].last]
  BY <1>5 DEF LookType
<1>10. looks'[f].count = job[p].plan[f].count => looks'[f] = job[p].plan[f]
  BY <1>7, <1>9 DEF Decision
<1>11. looks'[f].count # job[p].plan[f].count => looks'[f].last = "continue"
  BY <1>7 DEF Decision
<1>12. \A g \in Families \ {f} : looks'[g] = looks[g]
  BY <1>5, <1>6
<1>13. looks'[f].count = looks[f].count + 1 /\ looks'[f].count <= job[p].plan[f].count
  BY <1>4, <1>7, <1>8
<1>14. QED
  BY <1>3, <1>4, <1>8, <1>10, <1>11, <1>12, <1>13

\* A result that is linked adds the outcome and the count of the job.
LEMMA ResultLinked ==
    ASSUME IInv, NEW p \in Processes, LinkRecord(p), job[p].at = ResultDirectory
    PROVE  LET t == job[p].task IN
           /\ t \in Tasks /\ ~Present(t)
           /\ status'[t] = job[p].outcome /\ job[p].outcome \in Statuses
           /\ selectedK'[t] = job[p].count
           /\ \A u \in Tasks \ {t} : status'[u] = status[u] /\ selectedK'[u] = selectedK[u]
           /\ looks' = looks
           /\ \A f \in Owned(t) : looks[f] = job[p].plan[f]
           /\ Unfinished(p) = {}
<1>1. AtWork(p) /\ pc[p] = "link" /\ TypeOK
  BY DEF IInv, LinkRecord
<1>2. Unfinished(p) = {}
  BY <1>1 DEF AtWork, JobPending, Active, Recording
<1>3. job[p].task \in Tasks /\ job[p].outcome \in Statuses
  BY <1>1 DEF TypeOK
<1>4. QED
  BY <1>1, <1>2, <1>3 DEF LinkRecord, TypeOK, StoreTypeOK, Unfinished

\* Linking keeps the disk valid.
LEMMA LinkKeepsDisk ==
    ASSUME IInv, NEW p \in Processes, LinkRecord(p)
    PROVE  DiskValid'
<1>1. AtWork(p) /\ pc[p] = "link" /\ TypeOK /\ DiskValid
  BY DEF IInv, LinkRecord
<1>2. /\ launch = "running" /\ launch' = launch
      /\ JobDecided(p) /\ JobPlanned(p)
      /\ job[p].task \in Tasks
  BY <1>1 DEF AtWork, Active, Recording, LeaseHeld, LinkRecord, TypeOK
<1>3. CleanStart'
  BY <1>2 DEF CleanStart
<1>4. CASE job[p].at # ResultDirectory
  <2> DEFINE f == job[p].at
  <2>1. status' = status /\ selectedK' = selectedK
    BY <1>4 DEF LinkRecord
  <2>2. GraphValid' /\ CountOnlyIfPassed'
    BY <1>1, <2>1 DEF DiskValid, GraphValid, CountOnlyIfPassed, Present, BlockedBy
  <2>3. /\ f \in Families /\ Owner[f] = job[p].task
        /\ \A g \in Families \ {f} : looks'[g] = looks[g]
        /\ ~Terminal(f)
        /\ job[p].outcome # "blocked"
    BY <1>4, LookLinked
  <2>4. /\ ~Present(job[p].task)
        /\ \A d \in Dependencies[job[p].task] : status[d] = "passed"
    BY <1>1, <1>2, <1>4, <2>3 DEF JobDecided, BlockedBy, AtWork, JobPending, Recording
  <2>5. looks'[f].count = Schedule[f] => looks'[f].last # "continue"
    <3>1. Schedule[f] \in Nat
      BY <2>3, RegistryAssumption
    <3>2. /\ looks'[f].count <= job[p].plan[f].count
          /\ job[p].plan[f].count <= Schedule[f]
          /\ looks'[f].count = looks[f].count + 1
          /\ looks[f].count \in Nat /\ job[p].plan[f].count \in Nat
          /\ looks'[f].count = job[p].plan[f].count => looks'[f] = job[p].plan[f]
          /\ job[p].plan[f].last \in {"pass", "fail"}
      BY <1>4, LookLinked
    <3>3. QED
      BY <3>1, <3>2
  <2>6. LooksValid'
    BY <1>1, <2>1, <2>3, <2>4, <2>5 DEF DiskValid, LooksValid, Present, Terminal
  <2>7. PassedOnPassingLooks'
    BY <1>1, <2>1, <2>3, <2>4
       DEF DiskValid, PassedOnPassingLooks, Owned, Present
  <2>8. QED
    BY <1>3, <2>2, <2>6, <2>7 DEF DiskValid
<1>5. CASE job[p].at = ResultDirectory
  <2> DEFINE t == job[p].task
  <2>1. /\ t \in Tasks /\ ~Present(t)
        /\ status'[t] = job[p].outcome /\ job[p].outcome \in Statuses
        /\ selectedK'[t] = job[p].count
        /\ \A u \in Tasks \ {t} : status'[u] = status[u] /\ selectedK'[u] = selectedK[u]
        /\ looks' = looks
        /\ \A f \in Owned(t) : looks[f] = job[p].plan[f]
    BY <1>5, ResultLinked
  <2>2. \A u \in Tasks : Dependencies[u] \subseteq Tasks
    BY RegistryAssumption
  <2>3. /\ \A u \in Tasks : Present(u) => Present(u)' /\ u # t
        /\ \A u \in Tasks : u # t /\ Present(u)' => Present(u)
        /\ status'[t] # "absent"
    <3>1. status'[t] # "absent" /\ status[t] = "absent"
      BY <2>1 DEF Present, Statuses
    <3>2. \A u \in Tasks \ {t} : status'[u] = status[u]
      BY <2>1
    <3>3. QED
      BY <2>1, <3>1, <3>2 DEF Present
  <2>4. ASSUME NEW u \in Tasks, \A d \in Dependencies[u] : Present(d)
        PROVE  /\ BlockedBy(u)' = BlockedBy(u)
               /\ \A d \in Dependencies[u] : status'[d] = status[d]
    BY <2>1, <2>2, <2>3, <2>4 DEF BlockedBy
  <2>5. GraphValid'
    <3> SUFFICES ASSUME NEW u \in Tasks, Present(u)'
                 PROVE  /\ \A d \in Dependencies[u] : Present(d)'
                        /\ status'[u] = "blocked" <=> BlockedBy(u)' # {}
      BY DEF GraphValid
    <3>1. \A d \in Dependencies[u] : Present(d)
      BY <1>1, <1>2, <2>3 DEF DiskValid, GraphValid, JobDecided
    <3>2. \A d \in Dependencies[u] : Present(d)'
      BY <2>2, <2>3, <3>1
    <3>3. status'[u] = "blocked" <=> BlockedBy(u) # {}
      BY <1>1, <1>2, <2>1, <2>3 DEF DiskValid, GraphValid, JobDecided
    <3>4. QED
      BY <2>4, <3>1, <3>2, <3>3
  <2>6. CountOnlyIfPassed'
    <3>1. CASE t = SelectionTask
      BY <1>2, <2>1, <3>1 DEF CountOnlyIfPassed, JobDecided, Counts
    <3>2. CASE t # SelectionTask
      BY <1>1, <2>1, <3>2, SelectionAssumption DEF DiskValid, CountOnlyIfPassed
    <3>3. QED
      BY <3>1, <3>2
  <2>7. LooksValid'
    <3> SUFFICES ASSUME NEW f \in Families
                 PROVE  /\ looks[f].count = Schedule[f] => looks[f].last # "continue"
                        /\ looks[f] # NoLook =>
                             \A d \in Dependencies[Owner[f]] : status'[d] = "passed"
                        /\ Present(Owner[f])' /\ status'[Owner[f]] # "blocked" => Terminal(f)
      BY <2>1 DEF LooksValid, Terminal
    <3>1. /\ looks[f].count = Schedule[f] => looks[f].last # "continue"
          /\ looks[f] # NoLook =>
               \A d \in Dependencies[Owner[f]] : status[d] = "passed"
          /\ Present(Owner[f]) /\ status[Owner[f]] # "blocked" => Terminal(f)
      BY <1>1 DEF DiskValid, LooksValid
    <3>2. Owner[f] \in Tasks
      BY RegistryAssumption
    <3>3. looks[f] # NoLook => \A d \in Dependencies[Owner[f]] : status'[d] = "passed"
      BY <2>1, <2>2, <3>1, <3>2 DEF Present
    <3>4. CASE Owner[f] = t
      BY <1>2, <2>1, <3>1, <3>3, <3>4 DEF Owned, JobPlanned, Terminal
    <3>5. CASE Owner[f] # t
      BY <2>1, <2>3, <3>1, <3>2, <3>3, <3>5
    <3>6. QED
      BY <3>4, <3>5
  <2>8. PassedOnPassingLooks'
    BY <1>1, <1>2, <2>1 DEF DiskValid, PassedOnPassingLooks, JobPlanned, Owned
  <2>9. QED
    BY <1>3, <2>5, <2>6, <2>7, <2>8 DEF DiskValid
<1>6. QED
  BY <1>4, <1>5

\* No step makes the disk invalid.
LEMMA DiskStep == IInv /\ [Next]_vars => DiskValid'
<1> SUFFICES ASSUME IInv, [Next]_vars PROVE DiskValid'
  OBVIOUS
<1>a. DiskValid
  BY DEF IInv
<1>b. ASSUME UNCHANGED <<status, selectedK, looks>>, CleanStart'
      PROVE  DiskValid'
  BY <1>a, <1>b DEF DiskValid, GraphValid, CountOnlyIfPassed, LooksValid,
                    PassedOnPassingLooks, Present, BlockedBy, Terminal
<1>0. CASE UNCHANGED vars
  BY <1>0, <1>a, <1>b DEF vars, store, CleanStart, DiskValid
<1> SUFFICES ASSUME NEW p \in Processes,
                    PlanLaunch(p) \/ AcquireLock(p) \/ Work(p) \/ Kill(p) \/ Raise(p)
             PROVE  DiskValid'
  BY <1>0 DEF Next
<1>c. CleanStart /\ AtWork(p)
  BY DEF IInv, DiskValid
<1>1. CASE PlanLaunch(p)
  BY <1>1, <1>b, <1>c DEF PlanLaunch, CleanStart
<1>2. CASE AcquireLock(p)
  BY <1>2, <1>b, <1>c DEF AcquireLock, CleanStart, store
<1>3. CASE UnlinkPlan(p)
  BY <1>3, <1>b, <1>c DEF UnlinkPlan, CleanStart
<1>4. CASE StartLaunch(p)
  BY <1>4, <1>b, <1>c DEF StartLaunch, CleanStart
<1>5. CASE LoadRun(p)
  BY <1>5, <1>b, <1>c DEF LoadRun, CleanStart, store
<1>6. CASE BlockTask(p)
  BY <1>6, <1>b, <1>c DEF BlockTask, CleanStart, store
<1>7. CASE RunHandler(p)
  BY <1>7, <1>b, <1>c DEF RunHandler, CleanStart, store
<1>8. CASE BeginRecord(p)
  BY <1>8, <1>b, <1>c DEF BeginRecord, CleanStart, AtWork, LeaseHeld, Active
<1>9. CASE LinkRecord(p)
  BY <1>9, LinkKeepsDisk
<1>10. CASE UnlinkRecord(p)
  BY <1>10, <1>b, <1>c DEF UnlinkRecord, CleanStart
<1>11. CASE CompleteLaunch(p)
  BY <1>11, <1>b, <1>c DEF CompleteLaunch, CleanStart
<1>12. CASE Kill(p)
  BY <1>12, <1>b, <1>c DEF Kill, CleanStart, store
<1>13. CASE Raise(p)
  BY <1>13, <1>b, <1>c DEF Raise, CleanStart
<1>14. QED
  BY <1>1, <1>2, <1>3, <1>4, <1>5, <1>6, <1>7, <1>8, <1>9, <1>10, <1>11, <1>12,
     <1>13 DEF Work

-----------------------------------------------------------------------------
(* The process at work *)

\* A process that is not at work promises nothing.
LEMMA NotAtWork ==
    ASSUME NEW q \in Processes, pc'[q] \notin Active
    PROVE  AtWork(q)'
BY DEF AtWork, Active, Working, Recording

\* The process at work is not disturbed by a step that leaves it and the disk
\* alone.
LEMMA Undisturbed ==
    ASSUME NEW q \in Processes, AtWork(q),
           pc'[q] = pc[q], memory'[q] = memory[q], selected'[q] = selected[q],
           job'[q] = job[q],
           UNCHANGED <<launch, status, selectedK, looks, tmps>>,
           ~markerTmp => ~markerTmp'
    PROVE  AtWork(q)'
<1>1. LeaseHeld(q) => LeaseHeld(q)'
  BY DEF LeaseHeld
<1>2. MemoryMatches(q) => MemoryMatches(q)'
  BY DEF MemoryMatches
<1>3. JobDecided(q) => JobDecided(q)'
  BY DEF JobDecided, Present, BlockedBy, Counts
<1>4. JobPlanned(q) => JobPlanned(q)'
  BY DEF JobPlanned, Terminal
<1>5. JobPending(q) => JobPending(q)'
  BY DEF JobPending, Present, Unfinished
<1>6. QED
  BY <1>1, <1>2, <1>3, <1>4, <1>5 DEF AtWork

\* What stays of a job while the results do: every step but the link of a
\* result.
LEMMA JobKept ==
    ASSUME NEW p \in Processes,
           UNCHANGED <<status, selectedK, looks>>, selected'[p] = selected[p],
           job'[p].task = job[p].task, job'[p].outcome = job[p].outcome,
           job'[p].count = job[p].count, job'[p].plan = job[p].plan
    PROVE  /\ JobDecided(p) => JobDecided(p)'
           /\ JobPlanned(p) => JobPlanned(p)'
           /\ Unfinished(p)' = Unfinished(p)
<1>1. JobDecided(p) => JobDecided(p)'
  BY DEF JobDecided, Present, BlockedBy, Counts
<1>2. JobPlanned(p) => JobPlanned(p)'
  BY DEF JobPlanned, Terminal
<1>3. Unfinished(p)' = Unfinished(p)
  BY DEF Unfinished
<1>4. QED
  BY <1>1, <1>2, <1>3

\* BlockTask leaves a job that the graph asks for and that plans no looks.
LEMMA BlockTaskAtWork ==
    ASSUME IInv, NEW p \in Processes, BlockTask(p)
    PROVE  AtWork(p)'
<1> DEFINE t == Next1(p)
<1>1. TypeOK /\ AtWork(p) /\ pc[p] = "task" /\ DiskValid
  BY DEF IInv, BlockTask
<1>2. LeaseHeld(p) /\ MemoryMatches(p)
  BY <1>1 DEF AtWork, Active, Working
<1>3. /\ pc'[p] = "record"
      /\ UNCHANGED <<store, memory, selected>>
      /\ job' = [job EXCEPT ![p] = [NoJob EXCEPT !.task = t, !.count = selected[p]]]
  BY <1>1 DEF BlockTask, GoTo, TypeOK
<1>4. /\ job'[p].task = t /\ job'[p].outcome = "blocked"
      /\ job'[p].count = selected[p] /\ job'[p].plan = NoPlan
  BY <1>1, <1>3 DEF TypeOK, NoJob
<1>5. /\ t \in Tasks /\ t \in Remaining(p)
      /\ \A d \in Dependencies[t] : d \in Tasks /\ d \notin Remaining(p)
  BY NextTask DEF BlockTask
<1>6. \A u \in Tasks : memory[p][u] = status[u]
  BY <1>1, <1>2 DEF MemoryMatches
<1>7. ~Present(t) /\ \A d \in Dependencies[t] : Present(d)
  BY <1>5, <1>6 DEF Present, Remaining
<1>8. BlockedBy(t) # {}
  BY <1>5, <1>6 DEF BlockTask, Unpassed, BlockedBy
<1>9. LeaseHeld(p)'
  BY <1>1, <1>2, <1>3 DEF LeaseHeld, store
<1>10. MemoryMatches(p)'
  BY <1>1, <1>2, <1>3 DEF MemoryMatches, store
<1>11. JobDecided(p)'
  <2>1. t = SelectionTask => selected[p] = NoCount
    BY <1>2, <1>5 DEF MemoryMatches, Remaining
  <2>2. selected[p] \in Counts(p, t, "blocked")
    BY <2>1 DEF Counts
  <2>3. QED
    BY <1>3, <1>4, <1>7, <1>8, <2>2 DEF JobDecided, Present, BlockedBy, store, Counts
<1>12. JobPlanned(p)'
  <2> SUFFICES ASSUME NEW f \in Owned(t)
               PROVE  looks[f] = NoLook /\ NoPlan[f] = NoLook
    BY <1>3, <1>4 DEF JobPlanned, store, Owned
  <2>1. f \in Families /\ Owner[f] = t
    BY DEF Owned
  <2>2. \E d \in Dependencies[t] : status[d] # "passed"
    BY <1>8 DEF BlockedBy
  <2>3. QED
    BY <1>1, <2>1, <2>2 DEF DiskValid, LooksValid, NoPlan
<1>13. JobPending(p)'
  BY <1>3, <1>4, <1>7 DEF JobPending, store, Present
<1>14. QED
  BY <1>9, <1>10, <1>11, <1>12, <1>13 DEF AtWork

\* RunHandler leaves a job that the graph asks for and that ends every family.
LEMMA RunHandlerAtWork ==
    ASSUME IInv, NEW p \in Processes, RunHandler(p)
    PROVE  AtWork(p)'
<1> DEFINE t == Next1(p)
<1>1. TypeOK /\ AtWork(p) /\ pc[p] = "task" /\ DiskValid
  BY DEF IInv, RunHandler
<1>2. LeaseHeld(p) /\ MemoryMatches(p)
  BY <1>1 DEF AtWork, Active, Working
<1>3. pc'[p] = "record" /\ UNCHANGED <<store, memory, selected>>
  BY <1>1 DEF RunHandler, GoTo, TypeOK
<1>4. PICK o \in Outcomes(t) : \E c \in Counts(p, t, o.outcome) :
        job' = [job EXCEPT ![p] = [NoJob EXCEPT !.task = t,
                                                !.outcome = o.outcome,
                                                !.count = c,
                                                !.plan = o.plan]]
  BY DEF RunHandler
<1>5. PICK c \in Counts(p, t, o.outcome) :
        job' = [job EXCEPT ![p] = [NoJob EXCEPT !.task = t,
                                                !.outcome = o.outcome,
                                                !.count = c,
                                                !.plan = o.plan]]
  BY <1>4
<1>6. /\ job'[p].task = t /\ job'[p].outcome = o.outcome
      /\ job'[p].count = c /\ job'[p].plan = o.plan
  BY <1>1, <1>5 DEF TypeOK, NoJob
<1>7. /\ t \in Tasks /\ t \in Remaining(p)
      /\ \A d \in Dependencies[t] : d \in Tasks /\ d \notin Remaining(p)
  BY NextTask DEF RunHandler
<1>8. \A u \in Tasks : memory[p][u] = status[u]
  BY <1>1, <1>2 DEF MemoryMatches
<1>9. ~Present(t) /\ \A d \in Dependencies[t] : Present(d)
  BY <1>7, <1>8 DEF Present, Remaining
<1>10. BlockedBy(t) = {}
  BY <1>7, <1>8 DEF RunHandler, Unpassed, BlockedBy
<1>11. /\ o.outcome \in {"passed", "failed"}
       /\ \A f \in Owned(t) : o.plan[f] \in Endings(f)
       /\ o.outcome = "passed" => \A f \in Owned(t) : o.plan[f].last = "pass"
  BY <1>1, <1>7, OutcomeType
<1>12. LeaseHeld(p)'
  BY <1>1, <1>2, <1>3 DEF LeaseHeld, store
<1>13. MemoryMatches(p)'
  BY <1>1, <1>2, <1>3 DEF MemoryMatches, store
<1>14. JobDecided(p)'
  BY <1>3, <1>5, <1>6, <1>9, <1>10, <1>11
     DEF JobDecided, Present, BlockedBy, store, Counts
<1>15. JobPlanned(p)'
  <2> SUFFICES ASSUME NEW f \in Owned(t)
               PROVE  /\ o.plan[f].last \in {"pass", "fail"}
                      /\ \/ looks[f] = o.plan[f]
                         \/ /\ ~Terminal(f)
                            /\ looks[f].count < o.plan[f].count
                            /\ o.plan[f].count <= Schedule[f]
    BY <1>3, <1>6, <1>11 DEF JobPlanned, store, Owned, Terminal
  <2>1. f \in Families /\ looks[f].count \in Nat /\ Schedule[f] \in Nat
    BY <1>1, RegistryAssumption DEF Owned, TypeOK, StoreTypeOK
  <2>2. CASE Terminal(f)
    BY <1>11, <2>2 DEF Endings, Terminal
  <2>3. CASE ~Terminal(f)
    <3>1. /\ o.plan[f].count \in (looks[f].count + 1)..Schedule[f]
          /\ o.plan[f].last \in {"pass", "fail"}
      BY <1>11, <2>3 DEF Endings
    <3>2. QED
      BY <2>1, <2>3, <3>1
  <2>4. QED
    BY <2>2, <2>3
<1>16. JobPending(p)'
  BY <1>3, <1>6, <1>9 DEF JobPending, store, Present
<1>17. QED
  BY <1>12, <1>13, <1>14, <1>15, <1>16 DEF AtWork

\* BeginRecord turns to what is missing.
LEMMA BeginRecordAtWork ==
    ASSUME IInv, NEW p \in Processes, BeginRecord(p), ~Stop(p)
    PROVE  AtWork(p)'
<1>1. TypeOK /\ AtWork(p) /\ pc[p] = "record"
  BY DEF IInv, BeginRecord
<1>2. LeaseHeld(p) /\ MemoryMatches(p) /\ JobDecided(p) /\ JobPlanned(p) /\ JobPending(p)
  BY <1>1 DEF AtWork, Active, Working, Recording
<1>3. /\ pc'[p] = "link" /\ tmps' = tmps \cup {NextRecord(p)}
      /\ job' = [job EXCEPT ![p].at = NextRecord(p)]
      /\ UNCHANGED <<launch, markerTmp, status, selectedK, looks, memory, selected>>
  BY <1>1 DEF BeginRecord, GoTo, TypeOK
<1>4. /\ job'[p].at = NextRecord(p)
      /\ job'[p].task = job[p].task /\ job'[p].outcome = job[p].outcome
      /\ job'[p].count = job[p].count /\ job'[p].plan = job[p].plan
  BY <1>1, <1>3 DEF TypeOK
<1>5. /\ JobDecided(p)' /\ JobPlanned(p)'
      /\ Unfinished(p)' = Unfinished(p)
  BY <1>2, <1>3, <1>4, JobKept
<1>6. LeaseHeld(p)'
  BY <1>1, <1>2, <1>3, <1>4 DEF LeaseHeld
<1>7. MemoryMatches(p)'
  BY <1>1, <1>2, <1>3 DEF MemoryMatches
<1>8. JobPending(p)'
  <2>1. ~Present(job[p].task)
    BY <1>1, <1>2 DEF JobPending
  <2>2. IF NextRecord(p) = ResultDirectory THEN Unfinished(p) = {}
        ELSE NextRecord(p) \in Unfinished(p)
    BY NextRecordIs
  <2>3. QED
    BY <1>3, <1>4, <1>5, <2>1, <2>2 DEF JobPending, Present
<1>9. QED
  BY <1>5, <1>6, <1>7, <1>8 DEF AtWork

\* LinkRecord publishes what the job says.
LEMMA LinkRecordAtWork ==
    ASSUME IInv, NEW p \in Processes, LinkRecord(p)
    PROVE  AtWork(p)'
<1>1. TypeOK /\ AtWork(p) /\ pc[p] = "link"
  BY DEF IInv, LinkRecord
<1>2. LeaseHeld(p) /\ MemoryMatches(p) /\ JobDecided(p) /\ JobPlanned(p) /\ JobPending(p)
  BY <1>1 DEF AtWork, Active, Working, Recording
<1>3. /\ pc'[p] = "unlink"
      /\ UNCHANGED <<launch, markerTmp, tmps, memory, selected, job>>
  BY <1>1 DEF LinkRecord, GoTo, TypeOK
<1>4. LeaseHeld(p)'
  BY <1>1, <1>2, <1>3 DEF LeaseHeld
<1>5. \A t \in Tasks : Dependencies[t] \subseteq Tasks
  BY RegistryAssumption
<1>6. CASE job[p].at # ResultDirectory
  <2> DEFINE f == job[p].at
  <2>1. UNCHANGED <<status, selectedK>>
    BY <1>6 DEF LinkRecord
  <2>2. /\ f \in Families /\ f \in Owned(job[p].task)
        /\ \A g \in Families \ {f} : looks'[g] = looks[g]
        /\ job[p].outcome # "blocked"
        /\ looks'[f].count = looks[f].count + 1
        /\ looks'[f].count <= job[p].plan[f].count
        /\ looks'[f].count = job[p].plan[f].count => looks'[f] = job[p].plan[f]
        /\ looks'[f].count # job[p].plan[f].count => looks'[f].last = "continue"
        /\ job[p].plan[f].count <= Schedule[f]
        /\ looks[f].count \in Nat /\ job[p].plan[f].count \in Nat
    BY <1>6, LookLinked
  <2>3. MemoryMatches(p)'
    BY <1>1, <1>2, <1>3, <1>6, <2>1 DEF MemoryMatches
  <2>4. JobDecided(p)'
    BY <1>2, <1>3, <2>1 DEF JobDecided, Present, BlockedBy, Counts
  <2>5. JobPlanned(p)'
    <3> SUFFICES ASSUME NEW g \in Owned(job[p].task)
                 PROVE  \/ looks'[g] = job[p].plan[g]
                        \/ /\ ~Terminal(g)'
                           /\ job[p].outcome # "blocked"
                           /\ looks'[g].count < job[p].plan[g].count
                           /\ job[p].plan[g].count <= Schedule[g]
      BY <1>2, <1>3 DEF JobPlanned
    <3>1. CASE g # f
      BY <1>2, <2>2, <3>1 DEF JobPlanned, Terminal, Owned
    <3>2. CASE g = f
      <4>1. looks'[g].last = "continue" => ~Terminal(g)'
        BY DEF Terminal
      <4>2. looks'[f].count # job[p].plan[f].count => looks'[f].count < job[p].plan[f].count
        BY <2>2
      <4>3. QED
        BY <2>2, <3>2, <4>1, <4>2
    <3>3. QED
      BY <3>1, <3>2
  <2>6. JobPending(p)'
    BY <1>1, <1>2, <1>3, <1>6, <2>1, <2>2 DEF JobPending, Present
  <2>7. QED
    BY <1>4, <2>3, <2>4, <2>5, <2>6 DEF AtWork
<1>7. CASE job[p].at = ResultDirectory
  <2> DEFINE t == job[p].task
  <2>1. /\ t \in Tasks /\ ~Present(t)
        /\ status'[t] = job[p].outcome
        /\ selectedK'[t] = job[p].count
        /\ \A u \in Tasks \ {t} : status'[u] = status[u] /\ selectedK'[u] = selectedK[u]
        /\ looks' = looks
        /\ \A f \in Owned(t) : looks[f] = job[p].plan[f]
    BY <1>7, ResultLinked
  <2>2. MemoryMatches(p)'
    <3>1. \A u \in Tasks : memory[p][u] = status[u]
      BY <1>1, <1>2 DEF MemoryMatches
    <3>2. memory[p][t] = "absent"
      BY <2>1, <3>1 DEF Present
    <3>3. \A u \in Tasks : memory'[p][u] = IF u = t THEN "absent" ELSE status'[u]
      BY <1>3, <2>1, <3>1, <3>2
    <3>4. selected[p] = IF memory[p][SelectionTask] = "passed"
                        THEN selectedK'[SelectionTask] ELSE NoCount
      BY <1>2, <2>1, <3>2, SelectionAssumption DEF MemoryMatches
    <3>5. QED
      BY <1>3, <1>7, <3>3, <3>4 DEF MemoryMatches
  <2>3. JobDecided(p)'
    <3>1. \A d \in Dependencies[t] : d \in Tasks /\ d # t /\ status'[d] = status[d]
      BY <1>2, <1>5, <2>1 DEF JobDecided
    <3>2. BlockedBy(t)' = BlockedBy(t)
      BY <1>3, <3>1 DEF BlockedBy
    <3>3. QED
      BY <1>2, <1>3, <3>1, <3>2 DEF JobDecided, Present, Counts
  <2>4. JobPlanned(p)'
    BY <1>2, <1>3, <2>1 DEF JobPlanned, Terminal
  <2>5. JobPending(p)'
    BY <1>3, <1>7, <2>1 DEF JobPending
  <2>6. QED
    BY <1>4, <2>2, <2>3, <2>4, <2>5 DEF AtWork
<1>8. QED
  BY <1>6, <1>7

\* UnlinkRecord takes the next record, or the next task with the result in
\* memory.
LEMMA UnlinkRecordAtWork ==
    ASSUME IInv, NEW p \in Processes, UnlinkRecord(p)
    PROVE  AtWork(p)'
<1>1. TypeOK /\ AtWork(p) /\ pc[p] = "unlink"
  BY DEF IInv, UnlinkRecord
<1>2. LeaseHeld(p) /\ MemoryMatches(p) /\ JobDecided(p) /\ JobPlanned(p) /\ JobPending(p)
  BY <1>1 DEF AtWork, Active, Working, Recording
<1>3. /\ tmps' = {}
      /\ UNCHANGED <<launch, markerTmp, status, selectedK, looks>>
  BY <1>1, <1>2 DEF UnlinkRecord, LeaseHeld
<1>4. CASE job[p].at # ResultDirectory
  <2>1. pc'[p] = "record" /\ UNCHANGED <<memory, selected, job>>
    BY <1>1, <1>4 DEF UnlinkRecord, GoTo, TypeOK
  <2>2. LeaseHeld(p)'
    BY <1>2, <1>3, <2>1 DEF LeaseHeld
  <2>3. MemoryMatches(p)'
    BY <1>1, <1>2, <1>3, <1>4, <2>1 DEF MemoryMatches
  <2>4. JobDecided(p)' /\ JobPlanned(p)'
    BY <1>2, <1>3, <2>1, JobKept
  <2>5. JobPending(p)'
    BY <1>1, <1>2, <1>3, <1>4, <2>1 DEF JobPending, Present
  <2>6. QED
    BY <2>2, <2>3, <2>4, <2>5 DEF AtWork
<1>5. CASE job[p].at = ResultDirectory
  <2> DEFINE t == job[p].task
  <2>1. /\ pc'[p] = "task" /\ t \in Tasks
        /\ memory' = [memory EXCEPT ![p][t] = job[p].outcome]
        /\ selected' = [selected EXCEPT ![p] =
                          IF t = SelectionTask /\ job[p].outcome = "passed"
                          THEN job[p].count ELSE @]
    BY <1>1, <1>5 DEF UnlinkRecord, GoTo, TypeOK
  <2>2. status[t] = job[p].outcome /\ selectedK[t] = job[p].count
    BY <1>1, <1>2, <1>5 DEF JobPending
  <2>3. LeaseHeld(p)'
    BY <1>2, <1>3, <2>1 DEF LeaseHeld
  <2>4. \A u \in Tasks : memory'[p][u] = status[u]
    <3>1. memory[p] \in [Tasks -> Statuses \cup {"absent"}]
      BY <1>1 DEF TypeOK
    <3>2. memory'[p] = [memory[p] EXCEPT ![t] = job[p].outcome]
      BY <1>1, <2>1 DEF TypeOK
    <3>3. \A u \in Tasks \ {t} : memory[p][u] = status[u]
      BY <1>1, <1>2 DEF MemoryMatches
    <3>4. QED
      BY <2>1, <2>2, <3>1, <3>2, <3>3
  <2>5. selected'[p] = IF status[SelectionTask] = "passed"
                       THEN selectedK[SelectionTask] ELSE NoCount
    <3>1. selected'[p] = IF t = SelectionTask /\ job[p].outcome = "passed"
                         THEN job[p].count ELSE selected[p]
      BY <1>1, <2>1 DEF TypeOK
    <3>2. CASE t = SelectionTask
      <4>1. memory[p][t] = "absent"
        BY <1>1, <1>2, <1>5, <2>1 DEF MemoryMatches
      <4>2. selected[p] = NoCount
        BY <1>2, <3>2, <4>1 DEF MemoryMatches
      <4>3. QED
        BY <2>2, <3>1, <3>2, <4>2
    <3>3. CASE t # SelectionTask
      <4>1. memory[p][SelectionTask] = status[SelectionTask]
        BY <1>2, <3>3, SelectionAssumption DEF MemoryMatches
      <4>2. QED
        BY <1>2, <3>1, <3>3, <4>1 DEF MemoryMatches
    <3>4. QED
      BY <3>2, <3>3
  <2>6. MemoryMatches(p)'
    BY <1>3, <2>1, <2>4, <2>5, SelectionAssumption DEF MemoryMatches
  <2>7. QED
    BY <2>1, <2>3, <2>6 DEF AtWork, Recording
<1>6. QED
  BY <1>4, <1>5

\* LoadRun takes over what is durable.
LEMMA LoadRunAtWork ==
    ASSUME IInv, NEW p \in Processes, LoadRun(p)
    PROVE  AtWork(p)'
<1>1. TypeOK /\ AtWork(p) /\ pc[p] = "load"
  BY DEF IInv, LoadRun
<1>2. LeaseHeld(p)
  BY <1>1 DEF AtWork, Active
<1>3. /\ pc'[p] = "task" /\ UNCHANGED store
      /\ memory'[p] = status
      /\ selected'[p] = IF status[SelectionTask] = "passed"
                        THEN selectedK[SelectionTask] ELSE NoCount
  BY <1>1 DEF LoadRun, GoTo, TypeOK
<1>4. LeaseHeld(p)'
  BY <1>1, <1>2, <1>3 DEF LeaseHeld, store
<1>5. MemoryMatches(p)'
  BY <1>3 DEF MemoryMatches, store
<1>6. QED
  BY <1>3, <1>4, <1>5 DEF AtWork, Recording

\* StartLaunch starts over a directory without temporaries.
LEMMA StartLaunchAtWork ==
    ASSUME IInv, NEW p \in Processes, StartLaunch(p), ~Stop(p)
    PROVE  AtWork(p)'
<1>1. TypeOK /\ CleanStart
  BY DEF IInv, DiskValid
<1>2. /\ pc'[p] = "load" /\ launch' = "running" /\ ~markerTmp
      /\ UNCHANGED <<markerTmp, tmps>>
      /\ launch = "planned" \/ (ResultsVerify /\ LooksVerify)
  <2>1. /\ launch' = "running" /\ ~markerTmp /\ GoTo(p, "load")
        /\ UNCHANGED <<markerTmp, tmps>>
        /\ launch = "planned" \/ (ResultsVerify /\ LooksVerify)
    BY DEF StartLaunch
  <2>2. QED
    BY <1>1, <2>1 DEF GoTo, TypeOK
<1>3. ASSUME ResultsVerify, LooksVerify
      PROVE  tmps = {}
  BY <1>1, <1>3, RegistryAssumption
     DEF TypeOK, StoreTypeOK, ResultsVerify, LooksVerify, Directories, Families,
         ResultDirectory
<1>4. tmps = {}
  BY <1>1, <1>2, <1>3 DEF CleanStart
<1>5. QED
  BY <1>2, <1>4 DEF AtWork, LeaseHeld, Active, Working, Recording

\* Every step keeps what holds of the process at work.
LEMMA AtWorkStep ==
    IInv /\ [Next]_vars => \A q \in Processes : AtWork(q)'
<1> SUFFICES ASSUME IInv, [Next]_vars, NEW q \in Processes PROVE AtWork(q)'
  OBVIOUS
<1>a. TypeOK /\ Exclusive /\ DiskValid /\ AtWork(q)
  BY DEF IInv
<1>0. CASE UNCHANGED vars
  BY <1>0, <1>a, Undisturbed DEF vars, store, local
<1> SUFFICES ASSUME NEW p \in Processes,
                    PlanLaunch(p) \/ AcquireLock(p) \/ Work(p) \/ Kill(p) \/ Raise(p)
             PROVE  AtWork(q)'
  BY <1>0 DEF Next
<1>b. ASSUME NEW s, GoTo(p, s)
      PROVE  pc'[p] = s /\ (q # p => pc'[q] = pc[q])
  BY <1>a, <1>b DEF GoTo, TypeOK
<1>c. ASSUME pc[p] \in Active \cup {"locked"}, q # p => pc'[q] = pc[q], AtWork(p)'
      PROVE  AtWork(q)'
  BY <1>a, <1>c, OthersIdle, NotAtWork
<1>d. ASSUME Stop(p), pc[p] \in Active \cup {"locked"}
      PROVE  AtWork(q)'
  BY <1>a, <1>c, <1>d, StopEffect, NotAtWork DEF Active
<1>e. ASSUME Stop(p), pc[p] = "planUnlink",
             UNCHANGED <<launch, status, selectedK, looks, tmps>>,
             ~markerTmp => ~markerTmp'
      PROVE  AtWork(q)'
  BY <1>a, <1>e, StopEffect, NotAtWork, Undisturbed DEF Active
<1>f. pc[p] # "idle" => pc[p] \in Active \cup {"locked", "planUnlink"}
  BY <1>a DEF TypeOK, Steps, Active
<1>1. CASE PlanLaunch(p)
  <2>1. pc'[p] = "planUnlink" /\ launch = "none" /\ (q # p => pc'[q] = pc[q])
    BY <1>1, <1>b DEF PlanLaunch
  <2>2. pc[q] \notin Active
    BY <1>a, <2>1 DEF AtWork, LeaseHeld
  <2>3. QED
    BY <2>1, <2>2, NotAtWork DEF Active
<1>2. CASE AcquireLock(p)
  <2>1. pc'[p] = "locked" /\ lock = NoProcess /\ (q # p => pc'[q] = pc[q])
    BY <1>2, <1>b DEF AcquireLock
  <2>2. pc[q] \notin Active
    BY <1>a, <2>1, ProcessAssumption DEF Exclusive
  <2>3. QED
    BY <2>1, <2>2, NotAtWork DEF Active
<1>3. CASE UnlinkPlan(p)
  <2>1. pc'[p] = "idle" /\ (q # p => pc'[q] = pc[q])
    BY <1>3, <1>b DEF UnlinkPlan
  <2>2. CASE q = p
    BY <2>1, <2>2, NotAtWork DEF Active
  <2>3. CASE q # p
    BY <1>3, <1>a, <2>1, <2>3, Undisturbed DEF UnlinkPlan
  <2>4. QED
    BY <2>2, <2>3
<1>4. CASE StartLaunch(p)
  <2>1. CASE Stop(p)
    BY <1>4, <1>d, <2>1 DEF StartLaunch
  <2>2. CASE ~Stop(p)
    BY <1>4, <1>b, <1>c, <2>2, StartLaunchAtWork DEF StartLaunch
  <2>3. QED
    BY <2>1, <2>2
<1>5. CASE LoadRun(p)
  BY <1>5, <1>b, <1>c, LoadRunAtWork DEF LoadRun, Active
<1>6. CASE BlockTask(p)
  BY <1>6, <1>b, <1>c, BlockTaskAtWork DEF BlockTask, Active
<1>7. CASE RunHandler(p)
  BY <1>7, <1>b, <1>c, RunHandlerAtWork DEF RunHandler, Active
<1>8. CASE BeginRecord(p)
  <2>1. CASE Stop(p)
    BY <1>8, <1>d, <2>1 DEF BeginRecord, Active
  <2>2. CASE ~Stop(p)
    BY <1>8, <1>b, <1>c, <2>2, BeginRecordAtWork DEF BeginRecord, Active
  <2>3. QED
    BY <2>1, <2>2
<1>9. CASE LinkRecord(p)
  BY <1>9, <1>b, <1>c, LinkRecordAtWork DEF LinkRecord, Active
<1>10. CASE UnlinkRecord(p)
  <2>1. GoTo(p, "task") \/ GoTo(p, "record")
    BY <1>10 DEF UnlinkRecord
  <2>2. q # p => pc'[q] = pc[q]
    BY <1>b, <2>1
  <2>3. QED
    BY <1>10, <1>c, <2>2, UnlinkRecordAtWork DEF UnlinkRecord, Active
<1>11. CASE CompleteLaunch(p)
  BY <1>11, <1>d DEF CompleteLaunch, Active
<1>12. CASE Kill(p)
  BY <1>12, <1>d, <1>e, <1>f DEF Kill, store
<1>13. CASE Raise(p)
  <2>1. CASE pc[p] \in Active \cup {"locked"}
    BY <1>13, <1>d, <2>1 DEF Raise
  <2>2. CASE pc[p] = "planUnlink"
    BY <1>13, <1>e, <2>2 DEF Raise
  <2>3. QED
    BY <1>13, <1>f, <2>1, <2>2 DEF Raise
<1>14. QED
  BY <1>1, <1>2, <1>3, <1>4, <1>5, <1>6, <1>7, <1>8, <1>9, <1>10, <1>11, <1>12,
     <1>13 DEF Work

-----------------------------------------------------------------------------
(* The invariants *)

\* The strengthened invariant holds in every behaviour.
LEMMA InvHolds == Spec => []IInv
<1>1. Init => IInv
  <2> SUFFICES ASSUME Init PROVE IInv
    OBVIOUS
  <2>1. TypeOK
    <3>1. NoJob \in JobType
      BY NoJobType
    <3>2. job \in [Processes -> JobType]
      BY <3>1 DEF Init
    <3>3. StoreTypeOK
      BY DEF Init, StoreInit, StoreTypeOK, NoLook
    <3>4. QED
      BY <3>2, <3>3 DEF Init, TypeOK, JobType, LookType, Steps, Nothing
  <2>2. DiskValid
    <3>1. \A f \in Families : looks[f] = NoLook /\ Owner[f] \in Tasks /\ Schedule[f] # 0
      BY RegistryAssumption DEF Init, StoreInit
    <3>2. \A t \in Tasks : status[t] = "absent" /\ selectedK[t] = NoCount
      BY DEF Init, StoreInit
    <3>3. CleanStart
      BY DEF Init, StoreInit, CleanStart
    <3>4. GraphValid /\ CountOnlyIfPassed /\ PassedOnPassingLooks
      BY <3>2, SelectionAssumption
         DEF GraphValid, CountOnlyIfPassed, PassedOnPassingLooks, Present
    <3>5. LooksValid
      BY <3>1, <3>2 DEF LooksValid, Present, NoLook
    <3>6. QED
      BY <3>3, <3>4, <3>5 DEF DiskValid
  <2>3. \A p \in Processes : pc[p] = "idle"
    BY DEF Init
  <2>4. QED
    BY <2>1, <2>2, <2>3 DEF IInv, Exclusive, AtWork, Active, Working, Recording
<1>2. IInv /\ [Next]_vars => IInv'
  BY TypeStep, DiskStep, ExclusiveStep, AtWorkStep DEF IInv
<1>3. QED
  BY <1>1, <1>2, PTL DEF Spec

\* Every value of the launch, its records and its processes has its type.
THEOREM TypeCorrect == Spec => []TypeOK
<1>1. IInv => TypeOK
  BY DEF IInv
<1>2. QED
  BY <1>1, InvHolds, PTL

\* A coordinator decides on the durable results, however many contend and
\* crash: the flock and the read at the start are enough.
THEOREM MemoryCorrect == Spec => []MemoryMatchesDisk
<1>1. IInv => MemoryMatchesDisk
  BY DEF IInv, AtWork, Working, MemoryMatches, MemoryMatchesDisk
<1>2. QED
  BY <1>1, InvHolds, PTL

\* No passed task rests on a look that failed.
THEOREM PassedCorrect == Spec => []PassedOnPassingLooks
<1>1. IInv => PassedOnPassingLooks
  BY DEF IInv, DiskValid
<1>2. QED
  BY <1>1, InvHolds, PTL

\* A record that the coordinator begins passes the validation of the store.
LEMMA RecordPasses ==
    ASSUME IInv, NEW p \in Processes, pc[p] = "record"
    PROVE  RecordAllowed(p)
<1> DEFINE t == job[p].task
           f == NextRecord(p)
<1>1. TypeOK /\ DiskValid /\ AtWork(p)
  BY DEF IInv
<1>2. /\ LeaseActive /\ tmps = {}
      /\ JobDecided(p) /\ JobPlanned(p) /\ ~Present(t)
      /\ t \in Tasks
  BY <1>1 DEF AtWork, Active, Recording, LeaseHeld, LeaseActive, JobPending, TypeOK
<1>3. ResultsVerify /\ LooksVerify
  BY <1>1, <1>2 DEF DiskValid, GraphValid, LooksValid, ResultsVerify, LooksVerify
<1>4. CASE Unfinished(p) = {}
  <2>1. f = ResultDirectory
    BY <1>4 DEF NextRecord
  <2>2. \A g \in Owned(t) : looks[g] = job[p].plan[g]
    BY <1>4 DEF Unfinished
  <2>3. \A g \in Owned(t) : IF job[p].outcome = "blocked" THEN looks[g] = NoLook
                            ELSE Terminal(g)
    BY <1>2, <2>2 DEF JobPlanned, Terminal
  <2>4. QED
    BY <1>2, <1>3, <2>1, <2>3 DEF RecordAllowed, ResultAllowed, JobDecided
<1>5. CASE Unfinished(p) # {}
  <2>1. f \in Families /\ f # ResultDirectory /\ f \in Unfinished(p)
    BY <1>5, NextRecordIs
  <2>2. f \in Owned(t) /\ Owner[f] = t /\ looks[f] # job[p].plan[f]
    BY <2>1 DEF Unfinished, Owned
  <2>3. /\ ~Terminal(f)
        /\ job[p].outcome # "blocked"
        /\ job[p].plan[f].last \in {"pass", "fail"}
        /\ looks[f].count < job[p].plan[f].count
        /\ job[p].plan[f].count <= Schedule[f]
    BY <1>2, <2>2 DEF JobPlanned
  <2>4. /\ looks[f].count \in Nat /\ Schedule[f] \in Nat
        /\ job[p].plan[f].count \in Nat
    BY <1>1, <2>1, RegistryAssumption DEF TypeOK, StoreTypeOK
  <2>5. looks[f].count < Schedule[f]
    BY <2>3, <2>4
  <2>6. looks[f].count + 1 = Schedule[f] => Decision(p, f) # "continue"
    <3>1. looks[f].count + 1 = Schedule[f] => looks[f].count + 1 = job[p].plan[f].count
      BY <2>3, <2>4
    <3>2. QED
      BY <2>3, <3>1 DEF Decision
  <2>7. \A d \in Dependencies[t] : status[d] = "passed"
    BY <1>2, <2>3 DEF JobDecided, BlockedBy
  <2>8. LookAllowed(f, Decision(p, f))
    BY <1>2, <1>3, <2>2, <2>3, <2>5, <2>6, <2>7 DEF LookAllowed
  <2>9. QED
    BY <2>1, <2>8 DEF RecordAllowed
<1>6. QED
  BY <1>4, <1>5

\* A coordinator that has every result may complete the launch.
LEMMA CompletionPasses ==
    ASSUME IInv, NEW p \in Processes, pc[p] = "task", Remaining(p) = {}
    PROVE  CompletionAllowed
<1>1. TypeOK /\ DiskValid /\ AtWork(p)
  BY DEF IInv
<1>2. LeaseActive /\ tmps = {} /\ MemoryMatches(p)
  BY <1>1 DEF AtWork, Active, Working, LeaseHeld, LeaseActive
<1>3. ResultsVerify /\ LooksVerify
  BY <1>1, <1>2 DEF DiskValid, GraphValid, LooksValid, ResultsVerify, LooksVerify
<1>4. \A t \in Tasks : Present(t)
  BY <1>2 DEF MemoryMatches, Remaining, Present
<1>5. ASSUME NEW f \in Families
      PROVE  IF status[Owner[f]] = "blocked" THEN looks[f] = NoLook ELSE Terminal(f)
  <2>1. Owner[f] \in Tasks
    BY RegistryAssumption
  <2>2. CASE status[Owner[f]] = "blocked"
    <3>1. BlockedBy(Owner[f]) # {}
      BY <1>1, <1>4, <2>1, <2>2 DEF DiskValid, GraphValid
    <3>2. QED
      BY <1>1, <2>2, <3>1 DEF DiskValid, LooksValid, BlockedBy
  <2>3. CASE status[Owner[f]] # "blocked"
    BY <1>1, <1>4, <2>1, <2>3 DEF DiskValid, LooksValid
  <2>4. QED
    BY <2>2, <2>3
<1>6. QED
  BY <1>2, <1>3, <1>4, <1>5 DEF CompletionAllowed

\* The checks of the coordinator imply those of the store, in every resumption.
THEOREM StoreAgrees == Spec => []StoreNeverRefuses
<1>1. IInv => StoreNeverRefuses
  BY RecordPasses, CompletionPasses DEF StoreNeverRefuses
<1>2. QED
  BY <1>1, InvHolds, PTL

-----------------------------------------------------------------------------
(* Steps *)

\* Results and looks change only when a process links a record.
LEMMA OnlyLinksWrite ==
    ASSUME IInv, Next
    PROVE  \/ UNCHANGED <<status, selectedK, looks>>
           \/ \E p \in Processes : LinkRecord(p)
BY DEF Next, Work, PlanLaunch, AcquireLock, UnlinkPlan, StartLaunch, LoadRun, BlockTask,
       RunHandler, BeginRecord, UnlinkRecord, CompleteLaunch, Kill, Raise, store

\* The marker moves only when a launch is planned, started or completed.
LEMMA MarkerMoves ==
    ASSUME IInv, Next
    PROVE  \/ UNCHANGED <<launch, sequence>>
           \/ launch = "none" /\ launch' = "planned"
           \/ launch \in {"planned", "running"} /\ launch' = "running"
           \/ \E p \in Processes : /\ CompleteLaunch(p) /\ CompletionAllowed
                                   /\ launch = "running" /\ launch' = "completed"
BY DEF Next, Work, PlanLaunch, AcquireLock, UnlinkPlan, StartLaunch, LoadRun, BlockTask,
       RunHandler, BeginRecord, LinkRecord, UnlinkRecord, CompleteLaunch, Kill, Raise,
       store, CompletionAllowed, LeaseActive

\* Records are written on a running launch.
LEMMA LinksOnlyRunning ==
    ASSUME IInv, NEW p \in Processes, LinkRecord(p)
    PROVE  launch = "running" /\ launch' = launch /\ sequence' = sequence
BY DEF IInv, AtWork, LeaseHeld, Active, LinkRecord

\* What is durable is final, whoever is killed and whoever resumes.
THEOREM Finality == Spec => RecordsAreFinal
<1> DEFINE Final ==
      /\ \A t \in Tasks : Present(t) =>
           status'[t] = status[t] /\ selectedK'[t] = selectedK[t]
      /\ \A f \in Families : looks'[f] # looks[f] =>
           /\ looks'[f].count = looks[f].count + 1
           /\ ~Terminal(f)
           /\ ~Present(Owner[f])
      /\ launch = "completed" => UNCHANGED <<launch, sequence, status, looks>>
<1>1. IInv /\ [Next]_vars => [Final]_vars
  <2> SUFFICES ASSUME IInv, Next PROVE Final
    OBVIOUS
  <2>1. CASE UNCHANGED <<status, selectedK, looks>>
    BY <2>1, MarkerMoves
  <2>2. CASE \E p \in Processes : LinkRecord(p)
    <3>1. PICK p \in Processes : LinkRecord(p)
      BY <2>2
    <3>2. launch = "running"
      BY <3>1, LinksOnlyRunning
    <3>3. CASE job[p].at = ResultDirectory
      <4>1. /\ ~Present(job[p].task) /\ looks' = looks
            /\ \A u \in Tasks \ {job[p].task} :
                 status'[u] = status[u] /\ selectedK'[u] = selectedK[u]
        BY <3>1, <3>3, ResultLinked
      <4>2. QED
        BY <3>2, <4>1
    <3>4. CASE job[p].at # ResultDirectory
      <4>1. /\ Owner[job[p].at] = job[p].task
            /\ \A g \in Families \ {job[p].at} : looks'[g] = looks[g]
            /\ ~Terminal(job[p].at)
            /\ looks'[job[p].at].count = looks[job[p].at].count + 1
        BY <3>1, <3>4, LookLinked
      <4>2. ~Present(job[p].task)
        BY <3>1 DEF IInv, AtWork, Recording, JobPending, LinkRecord
      <4>3. status' = status /\ selectedK' = selectedK
        BY <3>1, <3>4 DEF LinkRecord
      <4>4. QED
        BY <3>2, <4>1, <4>2, <4>3
    <3>5. QED
      BY <3>3, <3>4
  <2>3. QED
    BY <2>1, <2>2, OnlyLinksWrite
<1>2. QED
  BY <1>1, InvHolds, PTL DEF Spec, RecordsAreFinal

-----------------------------------------------------------------------------
(* Refinement *)

\* Linking a result decides its task.
LEMMA LinkDecides ==
    ASSUME IInv, NEW p \in Processes, LinkRecord(p), job[p].at = ResultDirectory
    PROVE  Run!Decide(job[p].task)
<1> DEFINE t == job[p].task
<1>1. TypeOK /\ DiskValid /\ AtWork(p) /\ pc[p] = "link"
  BY DEF IInv, LinkRecord
<1>2. JobDecided(p) /\ MemoryMatches(p) /\ t \in Tasks
  BY <1>1 DEF AtWork, Recording, Working, TypeOK
<1>3. launch = "running" /\ launch' = launch
  BY LinksOnlyRunning
<1>4. status[t] = "absent" /\ \A d \in Dependencies[t] : status[d] # "absent"
  BY <1>2, ResultLinked DEF JobDecided, Present
<1>5. job[p].outcome \in Run!Verdicts(t)
  BY <1>2, ResultLinked DEF JobDecided, BlockedBy, Run!Verdicts, Statuses
<1>6. job[p].count \in Run!Counts(t, job[p].outcome)
  <2>1. CASE t = SelectionTask
    BY <1>2, <2>1 DEF JobDecided, Counts, Run!Counts, NoCount
  <2>2. CASE t # SelectionTask
    <3>1. memory[p][SelectionTask] = status[SelectionTask]
      BY <1>1, <1>2, SelectionAssumption DEF MemoryMatches
    <3>2. selected[p] = selectedK[SelectionTask]
      BY <1>1, <1>2, <3>1 DEF MemoryMatches, DiskValid, CountOnlyIfPassed
    <3>3. QED
      BY <1>2, <2>2, <3>2 DEF JobDecided, Counts, Run!Counts
  <2>3. QED
    BY <2>1, <2>2
<1>7. /\ status' = [status EXCEPT ![t] = job[p].outcome]
      /\ selectedK' = [selectedK EXCEPT ![t] = job[p].count]
  BY DEF LinkRecord
<1>8. QED
  BY <1>3, <1>4, <1>5, <1>6, <1>7 DEF Run!Decide

\* The launch decides each task once, in dependency order, with one state
\* count, and completes once.
THEOREM LaunchImplementsRun == Spec => ImplementsDagRun
<1>1. Init => Run!Init
  BY DEF Init, StoreInit, Run!Init, NoCount
<1>2. IInv /\ [Next]_vars => [Run!Next]_(Run!vars)
  <2> SUFFICES ASSUME IInv, Next PROVE [Run!Next]_(Run!vars)
    BY DEF vars, store, Run!vars
  <2>1. CASE \E p \in Processes : LinkRecord(p)
    <3>1. PICK p \in Processes : LinkRecord(p)
      BY <2>1
    <3>2. CASE job[p].at = ResultDirectory
      <4>1. job[p].task \in Tasks
        BY DEF IInv, TypeOK
      <4>2. QED
        BY <3>1, <3>2, <4>1, LinkDecides DEF Run!Next
    <3>3. CASE job[p].at # ResultDirectory
      BY <3>1, <3>3 DEF LinkRecord, Run!vars
    <3>4. QED
      BY <3>2, <3>3
  <2>2. CASE UNCHANGED <<status, selectedK, looks>>
    <3>1. CASE launch = "running" /\ launch' = "completed" /\ CompletionAllowed
      BY <2>2, <3>1 DEF Run!Next, Run!Finish, CompletionAllowed, Present
    <3>2. CASE (launch' = "completed") = (launch = "completed")
      BY <2>2, <3>2 DEF Run!vars
    <3>3. QED
      BY <3>1, <3>2, MarkerMoves
  <2>3. QED
    BY <2>1, <2>2, OnlyLinksWrite
<1>3. QED
  BY <1>1, <1>2, InvHolds, PTL DEF Spec, ImplementsDagRun, Run!Spec
=============================================================================
