------------------------ MODULE ProductionRunProofs ------------------------
(***************************************************************************)
(* Proofs about ProductionRun, for every number of units, workers,         *)
(* processes and faults: type correctness, the exclusion of the run lock   *)
(* until it is exposed, the agreement of markers, ledger and units at      *)
(* every instant, and what a step may never do to a committed unit or to a *)
(* failed run.                                                             *)
(***************************************************************************)
EXTENDS ProductionRun, FunctionTheorems, FiniteSetTheorems, TLAPS

-----------------------------------------------------------------------------
(* The inductive invariant *)

\* A holder holds the inode that the lock's name leads to, so that a call which
\* opens the name meets the lock.
HolderHasName ==
    "lock" \in exposed \/
        \A p \in Processes : Holding(p) => opened[p] = lockName /\ lockName # 0

\* What is about to be locked is a file.
TriesAFile == \A p \in Processes : pc[p] = "flock" => opened[p] # 0

\* The one fresh call is the one that makes the root and writes the inputs;
\* until it has, no call gets beyond the check, and there is no ledger.
Beyond == LockedSteps \ {"inputs", "check", "release"}

FirstCall ==
    /\ ~root => ~inputs /\ \A p \in Processes : pc[p] = "idle"
    /\ \A p, q \in Processes : fresh[p] /\ fresh[q] => p = q
    /\ \A p \in Processes :
         /\ pc[p] = "idle" => ~fresh[p]
         /\ pc[p] = "inputs" => fresh[p]
         /\ fresh[p] /\ pc[p] \in {"lock", "flock", "inputs"} => ~inputs

NothingBeforeInputs ==
    ~inputs =>
        /\ state = "none"
        /\ markers = {}
        /\ \A p \in Processes : pc[p] \notin Beyond

\* A failing call has a disposition to end with.
EndingNamed ==
    \A p \in Processes :
        pc[p] \in {"drain", "stop", "stopState", "stopMarker"} => ending[p] # "none"

\* Where the coordinator is tells the ledger and what markers there can be.
LedgerAt(p) ==
    /\ pc[p] = "clear" => state \in {"running", "interrupted"}
    /\ pc[p] = "state" => state \in {"none", "running", "interrupted"}
    /\ pc[p] \in {"running", "scan", "work", "drain", "verify", "result", "unmark",
                  "generated"} => state = "running"
    /\ pc[p] = "return" => state = "generated"
    /\ pc[p] \in {"stop", "stopState"} => state \in {"running", "generated"}
    /\ pc[p] = "stop" => markers \subseteq {"running"}
    /\ pc[p] = "stopMarker" => state = ending[p]
    /\ pc[p] \in {"state", "running", "generated", "return", "stopState",
                  "stopMarker"} => markers = {}

LedgerFollows == "lock" \in exposed \/ \A p \in Processes : LedgerAt(p)

\* Until a pool is orphaned, workers are at work only while their coordinator
\* waits for them, and a process outside its run has no tasks.
WorkersAttended ==
    "orphan" \in exposed \/
        \A p \in Processes :
            /\ pc[p] \notin {"work", "drain"} => Busy(p) = {}
            /\ pc[p] \notin TrySteps \cup {"stop", "stopState", "stopMarker", "release"}
                 => Queued(p) = {}

\* Past the verification every unit is complete, or spoilt since.
VerifiedComplete ==
    exposed = {} =>
        \A p \in Processes : pc[p] \in {"result", "unmark", "generated", "return"}
            => \A u \in Units : form[u] \in {"complete", "invalid"}

LockSound == TriesAFile /\ HolderHasName /\ OneCoordinatorUnlessExposed
InputsFirst == FirstCall /\ NothingBeforeInputs
LedgerSound == LedgerFollows /\ MarkerTellsState
UnitsSound == VerifiedComplete /\ GeneratedIsComplete

IInv ==
    /\ TypeOK
    /\ LockSound
    /\ InputsFirst
    /\ EndingNamed
    /\ LedgerSound
    /\ WorkersAttended
    /\ UnitsSound

-----------------------------------------------------------------------------
(* Type correctness *)

\* There is one inode more than processes: a file that is created is new.
LEMMA FreeInode ==
    ASSUME TypeOK
    PROVE  \E i \in Inodes : \A q \in Processes : opened[q] # i
<1> DEFINE used == {opened[q] : q \in Processes}
<1>1. opened \in Surjection(Processes, used)
  BY DEF TypeOK, Surjection
<1>2. IsFiniteSet(used) /\ Cardinality(used) <= Cardinality(Processes)
  BY <1>1, FS_Surjection, ProductionAssumption
<1>3. Cardinality(Processes) \in Nat
  BY FS_CardinalityType, ProductionAssumption
<1>4. Cardinality(Inodes) = Cardinality(Processes) + 1
  BY <1>3, FS_Interval DEF Inodes
<1>5. Cardinality(used) \in Nat
  BY <1>2, FS_CardinalityType
<1>6. ASSUME Inodes \subseteq used PROVE FALSE
  BY <1>2, <1>3, <1>4, <1>5, <1>6, FS_Subset
<1>7. QED
  BY <1>6

\* OpenLock gives the lock's name the inode it has, or a new one.
LEMMA LockFile ==
    ASSUME NEW p \in Processes, TypeOK, OpenLock(p)
    PROVE  /\ lockName' \in Inodes
           /\ lockName' # 0
           /\ lockName # 0 => lockName' = lockName
           /\ opened' = [opened EXCEPT ![p] = lockName']
<1>1. (CHOOSE i \in Inodes : \A q \in Processes : opened[q] # i) \in Inodes
  BY FreeInode
<1>2. 0 \notin Inodes
  BY DEF Inodes
<1>3. QED
  BY <1>1, <1>2 DEF OpenLock, TypeOK

\* A worker's step keeps the table of tasks well typed.
LEMMA TaskUpdated ==
    ASSUME NEW f \in [Processes -> [Units -> TaskSteps]],
           NEW p \in Processes, NEW u, NEW step \in TaskSteps
    PROVE  [f EXCEPT ![p][u] = step] \in [Processes -> [Units -> TaskSteps]]
OBVIOUS

LEMMA AdvanceTyped ==
    ASSUME TypeOK, NEW p \in Processes, NEW u, NEW step \in TaskSteps,
           Advance(p, u, step)
    PROVE  task' \in [Processes -> [Units -> TaskSteps]]
<1>1. task' = [task EXCEPT ![p][u] = step]
  BY DEF Advance
<1>2. QED
  BY <1>1, TaskUpdated DEF TypeOK

\* So does the choice between going on and failing.
LEMMA GoToTyped ==
    ASSUME TypeOK, NEW p \in Processes, NEW ok, NEW step \in Steps,
           GoToOrFail(p, ok, step)
    PROVE  /\ pc' \in [Processes -> Steps]
           /\ ending' \in [Processes -> {"none", "interrupted", "failed"}]
<1>1. CASE ok
  BY <1>1 DEF TypeOK, GoToOrFail, GoTo
<1>2. CASE ~ok
  BY <1>2 DEF TypeOK, GoToOrFail, StopAs, GoTo, Steps, LockedSteps
<1>3. QED
  BY <1>1, <1>2

\* The scan clears a unit and queues it, or reuses it, or leaves it.
LEMMA ScanTyped ==
    ASSUME TypeOK, NEW p \in Processes, ScanUnit(p)
    PROVE  /\ form' \in [Units -> Forms]
           /\ task' \in [Processes -> [Units -> TaskSteps]]
<1> DEFINE u == NextUnit(p)
<1>1. form' = form \/ form' = [form EXCEPT ![u] = "none"]
  <2>1. CASE form[u] \in {"none", "bare"}
    BY <2>1 DEF ScanUnit, Clears
  <2>2. CASE form[u] \notin {"none", "bare"}
    BY <2>2 DEF ScanUnit
  <2>3. QED
    BY <2>1, <2>2
<1>2. \/ task' = [task EXCEPT ![p][u] = "reused"]
      \/ task' = [task EXCEPT ![p][u] = "queued"]
      \/ task' = [task EXCEPT ![p][u] = task[p][u]]
  <2>1. CASE Reusable(p, u)
    BY <2>1 DEF ScanUnit
  <2>2. CASE ~Reusable(p, u) /\ form[u] \in {"none", "bare"}
    BY <2>2 DEF ScanUnit
  <2>3. CASE ~Reusable(p, u) /\ form[u] \notin {"none", "bare"}
    BY <2>3 DEF ScanUnit
  <2>4. QED
    BY <2>1, <2>2, <2>3
<1> HIDE DEF u
<1>3. form \in [Units -> Forms] /\ task \in [Processes -> [Units -> TaskSteps]]
  BY DEF TypeOK
<1>4. form' \in [Units -> Forms]
  BY <1>1, <1>3 DEF Forms
<1>5. "reused" \in TaskSteps /\ "queued" \in TaskSteps
  BY DEF TaskSteps
<1>6. task' \in [Processes -> [Units -> TaskSteps]]
  <2>1. CASE task' = [task EXCEPT ![p][u] = "reused"]
    BY <2>1, <1>3, <1>5, TaskUpdated
  <2>2. CASE task' = [task EXCEPT ![p][u] = "queued"]
    BY <2>2, <1>3, <1>5, TaskUpdated
  <2>3. CASE task' = [task EXCEPT ![p][u] = task[p][u]]
    BY <2>3, <1>3
  <2>4. QED
    BY <1>2, <2>1, <2>2, <2>3
<1>7. QED
  BY <1>4, <1>6

\* Where the steps lead that can fail the run.
LEMMA MayFail ==
    ASSUME NEW p \in Processes
    PROVE  /\ ScanUnit(p) =>
                \/ pc' = [pc EXCEPT ![p] = "scan"] /\ ending' = ending
                \/ /\ pc' = [pc EXCEPT ![p] = "stop"]
                   /\ ending' = [ending EXCEPT ![p] = "failed"]
           /\ EndWork(p) =>
                \/ pc' = [pc EXCEPT ![p] = "verify"] /\ ending' = ending
                \/ /\ pc' = [pc EXCEPT ![p] = "stop"]
                   /\ ending' = [ending EXCEPT ![p] = "failed"]
           /\ VerifyUnits(p) =>
                \/ /\ pc' = [pc EXCEPT ![p] = "result"] /\ ending' = ending
                   /\ \A u \in Units : form[u] = "complete"
                \/ /\ pc' = [pc EXCEPT ![p] = "stop"]
                   /\ ending' = [ending EXCEPT ![p] = "failed"]
           /\ PublishResult(p) =>
                \/ pc' = [pc EXCEPT ![p] = "unmark"] /\ ending' = ending
                \/ /\ pc' = [pc EXCEPT ![p] = "stop"]
                   /\ ending' = [ending EXCEPT ![p] = "failed"]
<1> USE DEF GoToOrFail, StopAs, GoTo
<1>1. QED
  BY Zenon DEF ScanUnit, EndWork, VerifyUnits, PublishResult

\* The two ways to leave flock.
LEMMA LockOrRefuse ==
    ASSUME NEW p \in Processes, TryLock(p)
    PROVE  \/ /\ pc' = [pc EXCEPT ![p] = "unname"]
              /\ opened' = [opened EXCEPT ![p] = 0]
              /\ exposed' = exposed
           \/ /\ pc' = [pc EXCEPT ![p] = IF fresh[p] THEN "inputs" ELSE "check"]
              /\ opened' = opened
              /\ \A q \in Processes : Holding(q) => opened[q] # opened[p]
              /\ exposed \subseteq exposed'
              /\ "lock" \in exposed' \/ opened[p] = lockName
BY DEF TryLock, GoTo

\* No call, step of a coordinator or of a worker, or fault leaves the types.
LEMMA TypeStep == TypeOK /\ EndingNamed /\ [Next]_vars => TypeOK'
<1> SUFFICES ASSUME TypeOK, EndingNamed, [Next]_vars PROVE TypeOK'
  OBVIOUS
<1> USE ProductionAssumption
    DEF TypeOK, lock, ledger, units, control, GoTo, Steps, LockedSteps, TrySteps,
        Dispositions, Forms, TaskSteps, Working, Committing, NoTasks
<1>1. ASSUME NEW p \in Processes, CallFresh(p) PROVE TypeOK'
  BY <1>1 DEF CallFresh, Call
<1>2. ASSUME NEW p \in Processes, CallResume(p) PROVE TypeOK'
  BY <1>2 DEF CallResume, Call
<1>3. ASSUME NEW p \in Processes, OpenLock(p) PROVE TypeOK'
  BY <1>3, LockFile DEF OpenLock
<1>4. ASSUME NEW p \in Processes, TryLock(p) PROVE TypeOK'
  BY <1>4 DEF TryLock
<1>5. ASSUME NEW p \in Processes, Release(p) PROVE TypeOK'
  BY <1>5 DEF Release
<1>6. ASSUME NEW p \in Processes, UnlinkLock(p) PROVE TypeOK'
  BY <1>6 DEF UnlinkLock
<1>7. ASSUME NEW p \in Processes, WriteInputs(p) PROVE TypeOK'
  BY <1>7 DEF WriteInputs, Step
<1>8. ASSUME NEW p \in Processes, CheckResume(p) PROVE TypeOK'
  BY <1>8 DEF CheckResume, Step
<1>9. ASSUME NEW p \in Processes, ClearMarkers(p) PROVE TypeOK'
  BY <1>9 DEF ClearMarkers, Step
<1>10. ASSUME NEW p \in Processes, WriteRunning(p) PROVE TypeOK'
  BY <1>10 DEF WriteRunning, Step
<1>11. ASSUME NEW p \in Processes, MarkRunning(p) PROVE TypeOK'
  BY <1>11 DEF MarkRunning, Step
<1>12. ASSUME NEW p \in Processes, ScanUnit(p) PROVE TypeOK'
  <2>1. /\ pc' \in [Processes -> Steps]
        /\ ending' \in [Processes -> {"none", "interrupted", "failed"}]
    <3>1. "scan" \in Steps
      OBVIOUS
    <3> HIDE DEF TypeOK, Steps
    <3>2. QED
      BY <1>12, <3>1, GoToTyped DEF ScanUnit
  <2>2. form' \in [Units -> Forms]
    BY <1>12, ScanTyped
  <2>3. by' \in [Units -> Processes \cup {NoProcess}]
    BY <1>12 DEF ScanUnit, Reusable, Clears, GoToOrFail, StopAs
  <2>4. task' \in [Processes -> [Units -> TaskSteps]]
    BY <1>12, ScanTyped
  <2>5. QED
    BY <1>12, <2>1, <2>2, <2>3, <2>4 DEF ScanUnit, Reusable, Clears, GoToOrFail,
       StopAs
<1>13. ASSUME NEW p \in Processes, StartWork(p) PROVE TypeOK'
  BY <1>13 DEF StartWork
<1>14. ASSUME NEW p \in Processes, EndWork(p) PROVE TypeOK'
  BY <1>14 DEF EndWork, GoToOrFail, StopAs
<1>15. ASSUME NEW p \in Processes, EndDrain(p) PROVE TypeOK'
  BY <1>15 DEF EndDrain, Step
<1>16. ASSUME NEW p \in Processes, VerifyUnits(p) PROVE TypeOK'
  BY <1>16 DEF VerifyUnits, GoToOrFail, StopAs
<1>17. ASSUME NEW p \in Processes, PublishResult(p) PROVE TypeOK'
  BY <1>17 DEF PublishResult, GoToOrFail, StopAs
<1>18. ASSUME NEW p \in Processes, UnmarkRunning(p) PROVE TypeOK'
  BY <1>18 DEF UnmarkRunning, Step
<1>19. ASSUME NEW p \in Processes, WriteGenerated(p) PROVE TypeOK'
  BY <1>19 DEF WriteGenerated, Step
<1>20. ASSUME NEW p \in Processes, ReturnResult(p) PROVE TypeOK'
  BY <1>20 DEF ReturnResult, Step
<1>21. ASSUME NEW p \in Processes, StopUnmark(p) PROVE TypeOK'
  BY <1>21 DEF StopUnmark, Step
<1>22. ASSUME NEW p \in Processes, StopState(p) PROVE TypeOK'
  BY <1>22 DEF StopState, Step
<1>23. ASSUME NEW p \in Processes, StopMarker(p) PROVE TypeOK'
  BY <1>23 DEF EndingNamed, StopMarker, Step
<1>24. ASSUME NEW p \in Processes, Kill(p) PROVE TypeOK'
  BY <1>24 DEF Kill, Dies, Fault
<1>25. ASSUME NEW p \in Processes, KillPool(p) PROVE TypeOK'
  BY <1>25 DEF KillPool, Dies, Fault
<1>26. ASSUME NEW p \in Processes, NEW d \in {"interrupted", "failed"},
              InterruptWork(p, d)
       PROVE  TypeOK'
  <2>1. form' \in [Units -> Forms]
    BY <1>26 DEF InterruptWork, Fault, Thrown, AfterThrow
  <2>2. ending' \in [Processes -> {"none", "interrupted", "failed"}]
    BY <1>26 DEF InterruptWork, Fault, Thrown, AfterThrow
  <2>3. task' \in [Processes -> [Units -> TaskSteps]]
    BY <1>26 DEF InterruptWork, Fault, Thrown, AfterThrow
  <2>4. QED
    BY <1>26, <2>1, <2>2, <2>3 DEF InterruptWork, Fault, Thrown, AfterThrow
<1>27. ASSUME NEW p \in Processes, NEW d \in {"interrupted", "failed"},
              Interrupt(p, d)
       PROVE  TypeOK'
  <2>1. pc' \in [Processes -> Steps]
    BY <1>27 DEF Interrupt, Fault, StopAs
  <2>2. ending' \in [Processes -> {"none", "interrupted", "failed"}]
    BY <1>27 DEF Interrupt, Fault, StopAs
  <2>3. opened' \in [Processes -> Inodes \cup {0}]
    BY <1>27 DEF Interrupt, Fault, StopAs
  <2>4. QED
    BY <1>27, <2>1, <2>2, <2>3 DEF Interrupt, Fault, StopAs
<1>28. ASSUME NEW p \in Processes, NEW u \in Units, BeginUnit(p, u) PROVE TypeOK'
  BY <1>28 DEF BeginUnit, MayBegin, Advance
<1>29. ASSUME NEW p \in Processes, NEW u \in Units, RefuseUnit(p, u) PROVE TypeOK'
  BY <1>29 DEF RefuseUnit, MayBegin, Outcome, Advance
<1>30. ASSUME NEW p \in Processes, NEW u \in Units, QuarantineUnit(p, u)
       PROVE  TypeOK'
  <2>1. form' \in [Units -> Forms]
    BY <1>30 DEF QuarantineUnit, Clears, MayBegin, Outcome, Advance
  <2>2. stage' \in [Units -> SUBSET Processes]
    BY <1>30 DEF QuarantineUnit, Clears, MayBegin, Outcome, Advance
  <2>3. task' \in [Processes -> [Units -> TaskSteps]]
    BY <1>30, TaskUpdated DEF QuarantineUnit, Clears, MayBegin, Outcome, Advance
  <2>4. QED
    BY <1>30, <2>1, <2>2, <2>3 DEF QuarantineUnit, Clears, MayBegin, Outcome,
       Advance
<1>31. ASSUME NEW p \in Processes, NEW u \in Units, PublishSiblings(p, u)
       PROVE  TypeOK'
  <2>1. form' \in [Units -> Forms]
    <3>1. CASE p \in stage[u] /\ form[u] = "none"
      BY <1>31, <3>1 DEF PublishSiblings, Advance
    <3>2. CASE ~(p \in stage[u] /\ form[u] = "none")
      BY <1>31, <3>2 DEF PublishSiblings, Advance
    <3>3. QED
      BY <3>1, <3>2
  <2>2. by' \in [Units -> Processes \cup {NoProcess}]
    <3>1. CASE p \in stage[u] /\ form[u] = "none"
      BY <1>31, <3>1 DEF PublishSiblings, Advance
    <3>2. CASE ~(p \in stage[u] /\ form[u] = "none")
      BY <1>31, <3>2 DEF PublishSiblings, Advance
    <3>3. QED
      BY <3>1, <3>2
  <2>3. task' \in [Processes -> [Units -> TaskSteps]]
    <3>1. Advance(p, u, "linked") \/ Advance(p, u, "abort")
      BY <1>31 DEF PublishSiblings
    <3>2. QED
      BY <3>1, AdvanceTyped
  <2>4. QED
    BY <1>31, <2>1, <2>2, <2>3 DEF PublishSiblings, Advance
<1>32. ASSUME NEW p \in Processes, NEW u \in Units, DiscardStage(p, u) PROVE TypeOK'
  <2>1. form' \in [Units -> Forms]
    <3>1. CASE Own(p, u, "linked")
      BY <1>32, <3>1 DEF DiscardStage, Advance
    <3>2. CASE ~(Own(p, u, "linked"))
      BY <1>32, <3>2 DEF DiscardStage, Advance
    <3>3. QED
      BY <3>1, <3>2
  <2>2. stage' \in [Units -> SUBSET Processes]
    <3>1. stage' = [stage EXCEPT ![u] = stage[u] \ {p}] \/ stage' = stage
      BY <1>32 DEF DiscardStage
    <3>2. QED
      BY <3>1
  <2>3. task' \in [Processes -> [Units -> TaskSteps]]
    <3>1. Advance(p, u, "bare") \/ Advance(p, u, "abort")
      BY <1>32 DEF DiscardStage
    <3>2. QED
      BY <3>1, AdvanceTyped
  <2>4. QED
    BY <1>32, <2>1, <2>2, <2>3 DEF DiscardStage, Own, Advance
<1>33. ASSUME NEW p \in Processes, NEW u \in Units, PublishReceipt(p, u)
       PROVE  TypeOK'
  <2>1. form' \in [Units -> Forms]
    <3>1. CASE Own(p, u, "bare")
      BY <1>33, <3>1 DEF PublishReceipt, Advance
    <3>2. CASE ~(Own(p, u, "bare"))
      BY <1>33, <3>2 DEF PublishReceipt, Advance
    <3>3. QED
      BY <3>1, <3>2
  <2>2. task' \in [Processes -> [Units -> TaskSteps]]
    <3>1. Advance(p, u, "receipt") \/ Advance(p, u, "abort")
      BY <1>33 DEF PublishReceipt
    <3>2. QED
      BY <3>1, AdvanceTyped
  <2>3. QED
    BY <1>33, <2>1, <2>2 DEF PublishReceipt, Own, Advance
<1>34. ASSUME NEW p \in Processes, NEW u \in Units, FinishReceipt(p, u)
       PROVE  TypeOK'
  BY <1>34 DEF FinishReceipt, Advance
<1>35. ASSUME NEW p \in Processes, NEW u \in Units, LoadUnit(p, u) PROVE TypeOK'
  BY <1>35 DEF LoadUnit, Own, Outcome, Advance
<1>36. ASSUME NEW p \in Processes, NEW u \in Units, AbortUnit(p, u) PROVE TypeOK'
  BY <1>36 DEF AbortUnit, Own, Advance
<1>37. ASSUME NEW p \in Processes, NEW u \in Units, AbortQuarantine(p, u)
       PROVE  TypeOK'
  BY <1>37 DEF AbortQuarantine, Clears, Outcome, Advance
<1>38. ASSUME NEW p \in Processes, NEW u \in Units, FailUnit(p, u) PROVE TypeOK'
  BY <1>38 DEF FailUnit, Fault, AfterThrow
<1>39. ASSUME NEW u \in Units, Damage(u) PROVE TypeOK'
  BY <1>39 DEF Damage, Fault
<1>40. CASE UNCHANGED vars
  BY <1>40 DEF vars
<1> HIDE DEF TypeOK
<1>41. QED
  BY <1>1, <1>2, <1>3, <1>4, <1>5, <1>6, <1>7, <1>8, <1>9, <1>10, <1>11, <1>12,
     <1>13, <1>14, <1>15, <1>16, <1>17, <1>18, <1>19, <1>20, <1>21, <1>22, <1>23,
     <1>24, <1>25, <1>26, <1>27, <1>28, <1>29, <1>30, <1>31, <1>32, <1>33, <1>34,
     <1>35, <1>36, <1>37, <1>38, <1>39, <1>40
  DEF Next, Coordinate, Generate

-----------------------------------------------------------------------------
(* The run lock *)

\* The step of a worker leaves lock, ledger and coordinators alone.
LEMMA GenerateFrame ==
    ASSUME NEW p \in Processes, NEW u \in Units, Generate(p, u)
    PROVE  UNCHANGED <<root, lockName, opened, inputs, state, markers, result, pc,
                       fresh, ending, exposed>>
BY DEF Generate, BeginUnit, RefuseUnit, QuarantineUnit, PublishSiblings,
   DiscardStage,
       PublishReceipt, FinishReceipt, LoadUnit, AbortUnit, AbortQuarantine, Advance,
       lock, ledger

\* A holder has the file the lock's name leads to, so that there is one, until the
\* step that removes the name under it says so.
LEMMA LockStep ==
    TypeOK /\ LockSound /\ [Next]_vars
        => LockSound'
<1> SUFFICES ASSUME TypeOK, LockSound, [Next]_vars
             PROVE  LockSound'
  OBVIOUS
<1> USE DEF TypeOK, LockSound, TriesAFile, HolderHasName, OneCoordinatorUnlessExposed,
        OneCoordinator, Holding, lock, ledger, units, control, GoTo, Steps,
        LockedSteps, TrySteps
<1>1. ASSUME NEW p \in Processes, CallFresh(p) PROVE LockSound'
  BY <1>1 DEF CallFresh, Call
<1>2. ASSUME NEW p \in Processes, CallResume(p) PROVE LockSound'
  BY <1>2 DEF CallResume, Call
<1>3. ASSUME NEW p \in Processes, OpenLock(p) PROVE LockSound'
  <2>1. /\ lockName' # 0
        /\ lockName # 0 => lockName' = lockName
        /\ opened' = [opened EXCEPT ![p] = lockName']
    BY <1>3, LockFile
  <2>2. /\ pc[p] = "lock" /\ pc' = [pc EXCEPT ![p] = "flock"]
        /\ exposed' = exposed
    BY <1>3 DEF OpenLock
  <2>3. TriesAFile'
    BY <2>1, <2>2
  <2>4. HolderHasName'
    BY <2>1, <2>2
  <2>5. OneCoordinatorUnlessExposed'
    BY <2>1, <2>2
  <2>6. QED
    BY <2>3, <2>4, <2>5
<1>4. ASSUME NEW p \in Processes, TryLock(p) PROVE LockSound'
  <2>1. \/ /\ pc' = [pc EXCEPT ![p] = "unname"]
           /\ opened' = [opened EXCEPT ![p] = 0]
           /\ exposed' = exposed
        \/ /\ pc' = [pc EXCEPT ![p] = IF fresh[p] THEN "inputs" ELSE "check"]
           /\ opened' = opened
           /\ \A q \in Processes : Holding(q) => opened[q] # opened[p]
           /\ exposed \subseteq exposed'
           /\ "lock" \in exposed' \/ opened[p] = lockName
    BY <1>4, LockOrRefuse
  <2>2. pc[p] = "flock" /\ UNCHANGED <<root, lockName, ledger, fresh, ending>>
    BY <1>4 DEF TryLock
  <2>3. TriesAFile'
    BY <2>1, <2>2
  <2>4. HolderHasName'
    BY <2>1, <2>2
  <2>5. OneCoordinatorUnlessExposed'
    BY <2>1, <2>2
  <2>6. QED
    BY <2>3, <2>4, <2>5
<1>5. ASSUME NEW p \in Processes, Release(p) PROVE LockSound'
  BY <1>5 DEF Release
<1>6. ASSUME NEW p \in Processes, UnlinkLock(p) PROVE LockSound'
  BY <1>6 DEF UnlinkLock
<1>7. ASSUME NEW p \in Processes, WriteInputs(p) PROVE LockSound'
  BY <1>7 DEF WriteInputs, Step
<1>8. ASSUME NEW p \in Processes, CheckResume(p) PROVE LockSound'
  BY <1>8 DEF CheckResume, Step
<1>9. ASSUME NEW p \in Processes, ClearMarkers(p) PROVE LockSound'
  BY <1>9 DEF ClearMarkers, Step
<1>10. ASSUME NEW p \in Processes, WriteRunning(p) PROVE LockSound'
  BY <1>10 DEF WriteRunning, Step
<1>11. ASSUME NEW p \in Processes, MarkRunning(p) PROVE LockSound'
  BY <1>11 DEF MarkRunning, Step
<1>12. ASSUME NEW p \in Processes, ScanUnit(p) PROVE LockSound'
  <2>1. \/ pc' = [pc EXCEPT ![p] = "scan"] /\ ending' = ending
        \/ /\ pc' = [pc EXCEPT ![p] = "stop"]
           /\ ending' = [ending EXCEPT ![p] = "failed"]
    BY <1>12, MayFail
  <2>2. /\ pc[p] = "scan"
        /\ UNCHANGED <<root, lockName, opened, fresh, inputs, state, markers, exposed>>
    BY <1>12 DEF ScanUnit
  <2>3. TriesAFile'
    BY <2>1, <2>2
  <2>4. HolderHasName'
    BY <2>1, <2>2
  <2>5. OneCoordinatorUnlessExposed'
    BY <2>1, <2>2
  <2>6. QED
    BY <2>3, <2>4, <2>5
<1>13. ASSUME NEW p \in Processes, StartWork(p) PROVE LockSound'
  BY <1>13 DEF StartWork
<1>14. ASSUME NEW p \in Processes, EndWork(p) PROVE LockSound'
  <2>1. \/ pc' = [pc EXCEPT ![p] = "verify"] /\ ending' = ending
        \/ /\ pc' = [pc EXCEPT ![p] = "stop"]
           /\ ending' = [ending EXCEPT ![p] = "failed"]
    BY <1>14, MayFail
  <2>2. /\ pc[p] = "work"
        /\ UNCHANGED <<root, lockName, opened, fresh, inputs, state, markers, exposed>>
    BY <1>14 DEF EndWork
  <2>3. TriesAFile'
    BY <2>1, <2>2
  <2>4. HolderHasName'
    BY <2>1, <2>2
  <2>5. OneCoordinatorUnlessExposed'
    BY <2>1, <2>2
  <2>6. QED
    BY <2>3, <2>4, <2>5
<1>15. ASSUME NEW p \in Processes, EndDrain(p) PROVE LockSound'
  BY <1>15 DEF EndDrain, Step
<1>16. ASSUME NEW p \in Processes, VerifyUnits(p) PROVE LockSound'
  <2>1. \/ pc' = [pc EXCEPT ![p] = "result"] /\ ending' = ending
        \/ /\ pc' = [pc EXCEPT ![p] = "stop"]
           /\ ending' = [ending EXCEPT ![p] = "failed"]
    BY <1>16, MayFail
  <2>2. /\ pc[p] = "verify"
        /\ UNCHANGED <<root, lockName, opened, fresh, inputs, state, markers, exposed>>
    BY <1>16 DEF VerifyUnits
  <2>3. TriesAFile'
    BY <2>1, <2>2
  <2>4. HolderHasName'
    BY <2>1, <2>2
  <2>5. OneCoordinatorUnlessExposed'
    BY <2>1, <2>2
  <2>6. QED
    BY <2>3, <2>4, <2>5
<1>17. ASSUME NEW p \in Processes, PublishResult(p) PROVE LockSound'
  <2>1. \/ pc' = [pc EXCEPT ![p] = "unmark"] /\ ending' = ending
        \/ /\ pc' = [pc EXCEPT ![p] = "stop"]
           /\ ending' = [ending EXCEPT ![p] = "failed"]
    BY <1>17, MayFail
  <2>2. /\ pc[p] = "result"
        /\ UNCHANGED <<root, lockName, opened, fresh, inputs, state, markers, exposed>>
    BY <1>17 DEF PublishResult
  <2>3. TriesAFile'
    BY <2>1, <2>2
  <2>4. HolderHasName'
    BY <2>1, <2>2
  <2>5. OneCoordinatorUnlessExposed'
    BY <2>1, <2>2
  <2>6. QED
    BY <2>3, <2>4, <2>5
<1>18. ASSUME NEW p \in Processes, UnmarkRunning(p) PROVE LockSound'
  BY <1>18 DEF UnmarkRunning, Step
<1>19. ASSUME NEW p \in Processes, WriteGenerated(p) PROVE LockSound'
  BY <1>19 DEF WriteGenerated, Step
<1>20. ASSUME NEW p \in Processes, ReturnResult(p) PROVE LockSound'
  BY <1>20 DEF ReturnResult, Step
<1>21. ASSUME NEW p \in Processes, StopUnmark(p) PROVE LockSound'
  BY <1>21 DEF StopUnmark, Step
<1>22. ASSUME NEW p \in Processes, StopState(p) PROVE LockSound'
  BY <1>22 DEF StopState, Step
<1>23. ASSUME NEW p \in Processes, StopMarker(p) PROVE LockSound'
  BY <1>23 DEF StopMarker, Step
<1>24. ASSUME NEW p \in Processes, Kill(p) PROVE LockSound'
  BY <1>24 DEF Kill, Dies, Fault
<1>25. ASSUME NEW p \in Processes, KillPool(p) PROVE LockSound'
  BY <1>25 DEF KillPool, Dies, Fault
<1>26. ASSUME NEW p \in Processes, NEW d \in {"interrupted", "failed"},
              InterruptWork(p, d)
       PROVE  LockSound'
  BY <1>26 DEF InterruptWork, Fault, Thrown, AfterThrow
<1>27. ASSUME NEW p \in Processes, NEW d \in {"interrupted", "failed"},
              Interrupt(p, d)
       PROVE  LockSound'
  <2>1. CASE pc[p] \in TrySteps
    BY <1>27, <2>1 DEF Interrupt, Fault, StopAs, Holding
  <2>2. CASE pc[p] \in LockedSteps \ TrySteps
    BY <1>27, <2>2 DEF Interrupt, Fault, StopAs, Holding
  <2>3. CASE pc[p] \notin LockedSteps
    BY <1>27, <2>3 DEF Interrupt, Fault, StopAs, Holding
  <2>4. QED
    BY <2>1, <2>2, <2>3
<1>28. ASSUME NEW p \in Processes, NEW u \in Units, Generate(p, u) PROVE LockSound'
  BY <1>28, GenerateFrame
<1>29. ASSUME NEW p \in Processes, NEW u \in Units, FailUnit(p, u) PROVE LockSound'
  BY <1>29 DEF FailUnit, Fault, AfterThrow
<1>30. ASSUME NEW u \in Units, Damage(u) PROVE LockSound'
  BY <1>30 DEF Damage, Fault
<1>31. CASE UNCHANGED vars
  BY <1>31 DEF vars
<1> HIDE DEF TypeOK, LockSound, TriesAFile, HolderHasName, OneCoordinatorUnlessExposed,
        OneCoordinator, Holding, lock, ledger, units, control, GoTo, Steps,
        LockedSteps, TrySteps
<1>32. QED
  BY <1>1, <1>2, <1>3, <1>4, <1>5, <1>6, <1>7, <1>8, <1>9, <1>10, <1>11, <1>12,
     <1>13, <1>14, <1>15, <1>16, <1>17, <1>18, <1>19, <1>20, <1>21, <1>22, <1>23,
     <1>24, <1>25, <1>26, <1>27, <1>28, <1>29, <1>30, <1>31
  DEF Next, Coordinate

-----------------------------------------------------------------------------
(* The first call *)

\* One fresh call makes the root and writes the inputs, and there is no ledger before.
LEMMA FirstCallStep ==
    TypeOK /\ InputsFirst /\ [Next]_vars
        => InputsFirst'
<1> SUFFICES ASSUME TypeOK, InputsFirst, [Next]_vars
             PROVE  InputsFirst'
  OBVIOUS
<1> USE DEF TypeOK, InputsFirst, FirstCall, NothingBeforeInputs, Beyond, Holding, lock,
        ledger, units, control, GoTo, Steps, LockedSteps, TrySteps
<1>1. ASSUME NEW p \in Processes, CallFresh(p) PROVE InputsFirst'
  BY <1>1 DEF CallFresh, Call
<1>2. ASSUME NEW p \in Processes, CallResume(p) PROVE InputsFirst'
  BY <1>2 DEF CallResume, Call
<1>3. ASSUME NEW p \in Processes, OpenLock(p) PROVE InputsFirst'
  BY <1>3 DEF OpenLock
<1>4. ASSUME NEW p \in Processes, TryLock(p) PROVE InputsFirst'
  <2>1. \/ /\ pc' = [pc EXCEPT ![p] = "unname"]
           /\ opened' = [opened EXCEPT ![p] = 0]
           /\ exposed' = exposed
        \/ /\ pc' = [pc EXCEPT ![p] = IF fresh[p] THEN "inputs" ELSE "check"]
           /\ opened' = opened
           /\ \A q \in Processes : Holding(q) => opened[q] # opened[p]
           /\ exposed \subseteq exposed'
           /\ "lock" \in exposed' \/ opened[p] = lockName
    BY <1>4, LockOrRefuse
  <2>2. pc[p] = "flock" /\ UNCHANGED <<root, lockName, ledger, fresh, ending>>
    BY <1>4 DEF TryLock
  <2>3. QED
    BY <2>1, <2>2
<1>5. ASSUME NEW p \in Processes, Release(p) PROVE InputsFirst'
  BY <1>5 DEF Release
<1>6. ASSUME NEW p \in Processes, UnlinkLock(p) PROVE InputsFirst'
  BY <1>6 DEF UnlinkLock
<1>7. ASSUME NEW p \in Processes, WriteInputs(p) PROVE InputsFirst'
  BY <1>7 DEF WriteInputs, Step
<1>8. ASSUME NEW p \in Processes, CheckResume(p) PROVE InputsFirst'
  BY <1>8 DEF CheckResume, Step
<1>9. ASSUME NEW p \in Processes, ClearMarkers(p) PROVE InputsFirst'
  BY <1>9 DEF ClearMarkers, Step
<1>10. ASSUME NEW p \in Processes, WriteRunning(p) PROVE InputsFirst'
  BY <1>10 DEF WriteRunning, Step
<1>11. ASSUME NEW p \in Processes, MarkRunning(p) PROVE InputsFirst'
  BY <1>11 DEF MarkRunning, Step
<1>12. ASSUME NEW p \in Processes, ScanUnit(p) PROVE InputsFirst'
  <2>1. \/ pc' = [pc EXCEPT ![p] = "scan"] /\ ending' = ending
        \/ /\ pc' = [pc EXCEPT ![p] = "stop"]
           /\ ending' = [ending EXCEPT ![p] = "failed"]
    BY <1>12, MayFail
  <2>2. /\ pc[p] = "scan"
        /\ UNCHANGED <<root, lockName, opened, fresh, inputs, state, markers, exposed>>
    BY <1>12 DEF ScanUnit
  <2>3. QED
    BY <2>1, <2>2
<1>13. ASSUME NEW p \in Processes, StartWork(p) PROVE InputsFirst'
  BY <1>13 DEF StartWork
<1>14. ASSUME NEW p \in Processes, EndWork(p) PROVE InputsFirst'
  <2>1. \/ pc' = [pc EXCEPT ![p] = "verify"] /\ ending' = ending
        \/ /\ pc' = [pc EXCEPT ![p] = "stop"]
           /\ ending' = [ending EXCEPT ![p] = "failed"]
    BY <1>14, MayFail
  <2>2. /\ pc[p] = "work"
        /\ UNCHANGED <<root, lockName, opened, fresh, inputs, state, markers, exposed>>
    BY <1>14 DEF EndWork
  <2>3. QED
    BY <2>1, <2>2
<1>15. ASSUME NEW p \in Processes, EndDrain(p) PROVE InputsFirst'
  BY <1>15 DEF EndDrain, Step
<1>16. ASSUME NEW p \in Processes, VerifyUnits(p) PROVE InputsFirst'
  <2>1. \/ pc' = [pc EXCEPT ![p] = "result"] /\ ending' = ending
        \/ /\ pc' = [pc EXCEPT ![p] = "stop"]
           /\ ending' = [ending EXCEPT ![p] = "failed"]
    BY <1>16, MayFail
  <2>2. /\ pc[p] = "verify"
        /\ UNCHANGED <<root, lockName, opened, fresh, inputs, state, markers, exposed>>
    BY <1>16 DEF VerifyUnits
  <2>3. QED
    BY <2>1, <2>2
<1>17. ASSUME NEW p \in Processes, PublishResult(p) PROVE InputsFirst'
  <2>1. \/ pc' = [pc EXCEPT ![p] = "unmark"] /\ ending' = ending
        \/ /\ pc' = [pc EXCEPT ![p] = "stop"]
           /\ ending' = [ending EXCEPT ![p] = "failed"]
    BY <1>17, MayFail
  <2>2. /\ pc[p] = "result"
        /\ UNCHANGED <<root, lockName, opened, fresh, inputs, state, markers, exposed>>
    BY <1>17 DEF PublishResult
  <2>3. QED
    BY <2>1, <2>2
<1>18. ASSUME NEW p \in Processes, UnmarkRunning(p) PROVE InputsFirst'
  BY <1>18 DEF UnmarkRunning, Step
<1>19. ASSUME NEW p \in Processes, WriteGenerated(p) PROVE InputsFirst'
  BY <1>19 DEF WriteGenerated, Step
<1>20. ASSUME NEW p \in Processes, ReturnResult(p) PROVE InputsFirst'
  BY <1>20 DEF ReturnResult, Step
<1>21. ASSUME NEW p \in Processes, StopUnmark(p) PROVE InputsFirst'
  BY <1>21 DEF StopUnmark, Step
<1>22. ASSUME NEW p \in Processes, StopState(p) PROVE InputsFirst'
  BY <1>22 DEF StopState, Step
<1>23. ASSUME NEW p \in Processes, StopMarker(p) PROVE InputsFirst'
  BY <1>23 DEF StopMarker, Step
<1>24. ASSUME NEW p \in Processes, Kill(p) PROVE InputsFirst'
  BY <1>24 DEF Kill, Dies, Fault
<1>25. ASSUME NEW p \in Processes, KillPool(p) PROVE InputsFirst'
  BY <1>25 DEF KillPool, Dies, Fault
<1>26. ASSUME NEW p \in Processes, NEW d \in {"interrupted", "failed"},
              InterruptWork(p, d)
       PROVE  InputsFirst'
  BY <1>26 DEF InterruptWork, Fault, Thrown, AfterThrow
<1>27. ASSUME NEW p \in Processes, NEW d \in {"interrupted", "failed"},
              Interrupt(p, d)
       PROVE  InputsFirst'
  <2>1. CASE pc[p] \in TrySteps
    BY <1>27, <2>1 DEF Interrupt, Fault, StopAs, Holding
  <2>2. CASE pc[p] \in LockedSteps \ TrySteps
    BY <1>27, <2>2 DEF Interrupt, Fault, StopAs, Holding
  <2>3. CASE pc[p] \notin LockedSteps
    BY <1>27, <2>3 DEF Interrupt, Fault, StopAs, Holding
  <2>4. QED
    BY <2>1, <2>2, <2>3
<1>28. ASSUME NEW p \in Processes, NEW u \in Units, Generate(p, u)
       PROVE  InputsFirst'
  BY <1>28, GenerateFrame
<1>29. ASSUME NEW p \in Processes, NEW u \in Units, FailUnit(p, u)
       PROVE  InputsFirst'
  BY <1>29 DEF FailUnit, Fault, AfterThrow
<1>30. ASSUME NEW u \in Units, Damage(u) PROVE InputsFirst'
  BY <1>30 DEF Damage, Fault
<1>31. CASE UNCHANGED vars
  BY <1>31 DEF vars
<1> HIDE DEF TypeOK, InputsFirst, FirstCall, NothingBeforeInputs, Beyond, Holding, lock,
        ledger, units, control, GoTo, Steps, LockedSteps, TrySteps
<1>32. QED
  BY <1>1, <1>2, <1>3, <1>4, <1>5, <1>6, <1>7, <1>8, <1>9, <1>10, <1>11, <1>12,
     <1>13, <1>14, <1>15, <1>16, <1>17, <1>18, <1>19, <1>20, <1>21, <1>22, <1>23,
     <1>24, <1>25, <1>26, <1>27, <1>28, <1>29, <1>30, <1>31
  DEF Next, Coordinate

\* A failing call has a disposition until the lock is released.
LEMMA EndingStep ==
    TypeOK /\ EndingNamed /\ [Next]_vars
        => EndingNamed'
<1> SUFFICES ASSUME TypeOK, EndingNamed, [Next]_vars
             PROVE  EndingNamed'
  OBVIOUS
<1> USE DEF TypeOK, EndingNamed, Holding, lock, ledger, units, control, GoTo, Steps,
        LockedSteps, TrySteps
<1>1. ASSUME NEW p \in Processes, CallFresh(p) PROVE EndingNamed'
  BY <1>1 DEF CallFresh, Call
<1>2. ASSUME NEW p \in Processes, CallResume(p) PROVE EndingNamed'
  BY <1>2 DEF CallResume, Call
<1>3. ASSUME NEW p \in Processes, OpenLock(p) PROVE EndingNamed'
  BY <1>3 DEF OpenLock
<1>4. ASSUME NEW p \in Processes, TryLock(p) PROVE EndingNamed'
  <2>1. \/ /\ pc' = [pc EXCEPT ![p] = "unname"]
           /\ opened' = [opened EXCEPT ![p] = 0]
           /\ exposed' = exposed
        \/ /\ pc' = [pc EXCEPT ![p] = IF fresh[p] THEN "inputs" ELSE "check"]
           /\ opened' = opened
           /\ \A q \in Processes : Holding(q) => opened[q] # opened[p]
           /\ exposed \subseteq exposed'
           /\ "lock" \in exposed' \/ opened[p] = lockName
    BY <1>4, LockOrRefuse
  <2>2. pc[p] = "flock" /\ UNCHANGED <<root, lockName, ledger, fresh, ending>>
    BY <1>4 DEF TryLock
  <2>3. QED
    BY <2>1, <2>2
<1>5. ASSUME NEW p \in Processes, Release(p) PROVE EndingNamed'
  BY <1>5 DEF Release
<1>6. ASSUME NEW p \in Processes, UnlinkLock(p) PROVE EndingNamed'
  BY <1>6 DEF UnlinkLock
<1>7. ASSUME NEW p \in Processes, WriteInputs(p) PROVE EndingNamed'
  BY <1>7 DEF WriteInputs, Step
<1>8. ASSUME NEW p \in Processes, CheckResume(p) PROVE EndingNamed'
  BY <1>8 DEF CheckResume, Step
<1>9. ASSUME NEW p \in Processes, ClearMarkers(p) PROVE EndingNamed'
  BY <1>9 DEF ClearMarkers, Step
<1>10. ASSUME NEW p \in Processes, WriteRunning(p) PROVE EndingNamed'
  BY <1>10 DEF WriteRunning, Step
<1>11. ASSUME NEW p \in Processes, MarkRunning(p) PROVE EndingNamed'
  BY <1>11 DEF MarkRunning, Step
<1>12. ASSUME NEW p \in Processes, ScanUnit(p) PROVE EndingNamed'
  <2>1. \/ pc' = [pc EXCEPT ![p] = "scan"] /\ ending' = ending
        \/ /\ pc' = [pc EXCEPT ![p] = "stop"]
           /\ ending' = [ending EXCEPT ![p] = "failed"]
    BY <1>12, MayFail
  <2>2. /\ pc[p] = "scan"
        /\ UNCHANGED <<root, lockName, opened, fresh, inputs, state, markers, exposed>>
    BY <1>12 DEF ScanUnit
  <2>3. QED
    BY <2>1, <2>2
<1>13. ASSUME NEW p \in Processes, StartWork(p) PROVE EndingNamed'
  BY <1>13 DEF StartWork
<1>14. ASSUME NEW p \in Processes, EndWork(p) PROVE EndingNamed'
  <2>1. \/ pc' = [pc EXCEPT ![p] = "verify"] /\ ending' = ending
        \/ /\ pc' = [pc EXCEPT ![p] = "stop"]
           /\ ending' = [ending EXCEPT ![p] = "failed"]
    BY <1>14, MayFail
  <2>2. /\ pc[p] = "work"
        /\ UNCHANGED <<root, lockName, opened, fresh, inputs, state, markers, exposed>>
    BY <1>14 DEF EndWork
  <2>3. QED
    BY <2>1, <2>2
<1>15. ASSUME NEW p \in Processes, EndDrain(p) PROVE EndingNamed'
  BY <1>15 DEF EndDrain, Step
<1>16. ASSUME NEW p \in Processes, VerifyUnits(p) PROVE EndingNamed'
  <2>1. \/ pc' = [pc EXCEPT ![p] = "result"] /\ ending' = ending
        \/ /\ pc' = [pc EXCEPT ![p] = "stop"]
           /\ ending' = [ending EXCEPT ![p] = "failed"]
    BY <1>16, MayFail
  <2>2. /\ pc[p] = "verify"
        /\ UNCHANGED <<root, lockName, opened, fresh, inputs, state, markers, exposed>>
    BY <1>16 DEF VerifyUnits
  <2>3. QED
    BY <2>1, <2>2
<1>17. ASSUME NEW p \in Processes, PublishResult(p) PROVE EndingNamed'
  <2>1. \/ pc' = [pc EXCEPT ![p] = "unmark"] /\ ending' = ending
        \/ /\ pc' = [pc EXCEPT ![p] = "stop"]
           /\ ending' = [ending EXCEPT ![p] = "failed"]
    BY <1>17, MayFail
  <2>2. /\ pc[p] = "result"
        /\ UNCHANGED <<root, lockName, opened, fresh, inputs, state, markers, exposed>>
    BY <1>17 DEF PublishResult
  <2>3. QED
    BY <2>1, <2>2
<1>18. ASSUME NEW p \in Processes, UnmarkRunning(p) PROVE EndingNamed'
  BY <1>18 DEF UnmarkRunning, Step
<1>19. ASSUME NEW p \in Processes, WriteGenerated(p) PROVE EndingNamed'
  BY <1>19 DEF WriteGenerated, Step
<1>20. ASSUME NEW p \in Processes, ReturnResult(p) PROVE EndingNamed'
  BY <1>20 DEF ReturnResult, Step
<1>21. ASSUME NEW p \in Processes, StopUnmark(p) PROVE EndingNamed'
  BY <1>21 DEF StopUnmark, Step
<1>22. ASSUME NEW p \in Processes, StopState(p) PROVE EndingNamed'
  BY <1>22 DEF StopState, Step
<1>23. ASSUME NEW p \in Processes, StopMarker(p) PROVE EndingNamed'
  BY <1>23 DEF StopMarker, Step
<1>24. ASSUME NEW p \in Processes, Kill(p) PROVE EndingNamed'
  BY <1>24 DEF Kill, Dies, Fault
<1>25. ASSUME NEW p \in Processes, KillPool(p) PROVE EndingNamed'
  BY <1>25 DEF KillPool, Dies, Fault
<1>26. ASSUME NEW p \in Processes, NEW d \in {"interrupted", "failed"},
              InterruptWork(p, d)
       PROVE  EndingNamed'
  BY <1>26 DEF InterruptWork, Fault, Thrown, AfterThrow
<1>27. ASSUME NEW p \in Processes, NEW d \in {"interrupted", "failed"},
              Interrupt(p, d)
       PROVE  EndingNamed'
  <2>1. CASE pc[p] \in TrySteps
    BY <1>27, <2>1 DEF Interrupt, Fault, StopAs, Holding
  <2>2. CASE pc[p] \in LockedSteps \ TrySteps
    BY <1>27, <2>2 DEF Interrupt, Fault, StopAs, Holding
  <2>3. CASE pc[p] \notin LockedSteps
    BY <1>27, <2>3 DEF Interrupt, Fault, StopAs, Holding
  <2>4. QED
    BY <2>1, <2>2, <2>3
<1>28. ASSUME NEW p \in Processes, NEW u \in Units, Generate(p, u)
       PROVE  EndingNamed'
  BY <1>28, GenerateFrame
<1>29. ASSUME NEW p \in Processes, NEW u \in Units, FailUnit(p, u)
       PROVE  EndingNamed'
  BY <1>29 DEF FailUnit, Fault, AfterThrow
<1>30. ASSUME NEW u \in Units, Damage(u) PROVE EndingNamed'
  BY <1>30 DEF Damage, Fault
<1>31. CASE UNCHANGED vars
  BY <1>31 DEF vars
<1> HIDE DEF TypeOK, EndingNamed, Holding, lock, ledger, units, control, GoTo, Steps,
        LockedSteps, TrySteps
<1>32. QED
  BY <1>1, <1>2, <1>3, <1>4, <1>5, <1>6, <1>7, <1>8, <1>9, <1>10, <1>11, <1>12,
     <1>13, <1>14, <1>15, <1>16, <1>17, <1>18, <1>19, <1>20, <1>21, <1>22, <1>23,
     <1>24, <1>25, <1>26, <1>27, <1>28, <1>29, <1>30, <1>31
  DEF Next, Coordinate

-----------------------------------------------------------------------------
(* Ledger and markers *)

\* Only the holder of the lock writes ledger and markers, and where it is tells
\* what they are: each write leaves at most the marker of the disposition.
LEMMA LedgerStep ==
    TypeOK /\ OneCoordinatorUnlessExposed /\ InputsFirst /\ EndingNamed /\
    LedgerSound /\ [Next]_vars
        => LedgerSound'
<1> SUFFICES ASSUME TypeOK, OneCoordinatorUnlessExposed, InputsFirst, EndingNamed,
                    LedgerSound, [Next]_vars
             PROVE  LedgerSound'
  OBVIOUS
<1> USE DEF TypeOK, OneCoordinatorUnlessExposed, OneCoordinator, InputsFirst,
        FirstCall, NothingBeforeInputs, Beyond, EndingNamed, LedgerSound, LedgerFollows,
        LedgerAt,
        MarkerTellsState, Holding, lock, ledger, units, control, GoTo, Steps,
        LockedSteps, TrySteps, Dispositions
<1>1. ASSUME NEW p \in Processes, CallFresh(p) PROVE LedgerSound'
  BY <1>1 DEF CallFresh, Call
<1>2. ASSUME NEW p \in Processes, CallResume(p) PROVE LedgerSound'
  BY <1>2 DEF CallResume, Call
<1>3. ASSUME NEW p \in Processes, OpenLock(p) PROVE LedgerSound'
  BY <1>3 DEF OpenLock
<1>4. ASSUME NEW p \in Processes, TryLock(p) PROVE LedgerSound'
  <2>1. \/ /\ pc' = [pc EXCEPT ![p] = "unname"]
           /\ opened' = [opened EXCEPT ![p] = 0]
           /\ exposed' = exposed
        \/ /\ pc' = [pc EXCEPT ![p] = IF fresh[p] THEN "inputs" ELSE "check"]
           /\ opened' = opened
           /\ \A q \in Processes : Holding(q) => opened[q] # opened[p]
           /\ exposed \subseteq exposed'
           /\ "lock" \in exposed' \/ opened[p] = lockName
    BY <1>4, LockOrRefuse
  <2>2. pc[p] = "flock" /\ UNCHANGED <<root, lockName, ledger, fresh, ending>>
    BY <1>4 DEF TryLock
  <2>3. LedgerFollows'
    BY <2>1, <2>2
  <2>4. MarkerTellsState'
    BY <2>1, <2>2
  <2>5. QED
    BY <2>3, <2>4
<1>5. ASSUME NEW p \in Processes, Release(p) PROVE LedgerSound'
  BY <1>5 DEF Release
<1>6. ASSUME NEW p \in Processes, UnlinkLock(p) PROVE LedgerSound'
  BY <1>6 DEF UnlinkLock
<1>7. ASSUME NEW p \in Processes, WriteInputs(p) PROVE LedgerSound'
  BY <1>7 DEF WriteInputs, Step
<1>8. ASSUME NEW p \in Processes, CheckResume(p) PROVE LedgerSound'
  BY <1>8 DEF CheckResume, Step
<1>9. ASSUME NEW p \in Processes, ClearMarkers(p) PROVE LedgerSound'
  BY <1>9 DEF ClearMarkers, Step
<1>10. ASSUME NEW p \in Processes, WriteRunning(p) PROVE LedgerSound'
  BY <1>10 DEF WriteRunning, Step
<1>11. ASSUME NEW p \in Processes, MarkRunning(p) PROVE LedgerSound'
  BY <1>11 DEF MarkRunning, Step
<1>12. ASSUME NEW p \in Processes, ScanUnit(p) PROVE LedgerSound'
  <2>1. \/ pc' = [pc EXCEPT ![p] = "scan"] /\ ending' = ending
        \/ /\ pc' = [pc EXCEPT ![p] = "stop"]
           /\ ending' = [ending EXCEPT ![p] = "failed"]
    BY <1>12, MayFail
  <2>2. /\ pc[p] = "scan"
        /\ UNCHANGED <<root, lockName, opened, fresh, inputs, state, markers, exposed>>
    BY <1>12 DEF ScanUnit
  <2>3. LedgerFollows'
    BY <2>1, <2>2
  <2>4. MarkerTellsState'
    BY <2>1, <2>2
  <2>5. QED
    BY <2>3, <2>4
<1>13. ASSUME NEW p \in Processes, StartWork(p) PROVE LedgerSound'
  BY <1>13 DEF StartWork
<1>14. ASSUME NEW p \in Processes, EndWork(p) PROVE LedgerSound'
  <2>1. \/ pc' = [pc EXCEPT ![p] = "verify"] /\ ending' = ending
        \/ /\ pc' = [pc EXCEPT ![p] = "stop"]
           /\ ending' = [ending EXCEPT ![p] = "failed"]
    BY <1>14, MayFail
  <2>2. /\ pc[p] = "work"
        /\ UNCHANGED <<root, lockName, opened, fresh, inputs, state, markers, exposed>>
    BY <1>14 DEF EndWork
  <2>3. LedgerFollows'
    BY <2>1, <2>2
  <2>4. MarkerTellsState'
    BY <2>1, <2>2
  <2>5. QED
    BY <2>3, <2>4
<1>15. ASSUME NEW p \in Processes, EndDrain(p) PROVE LedgerSound'
  BY <1>15 DEF EndDrain, Step
<1>16. ASSUME NEW p \in Processes, VerifyUnits(p) PROVE LedgerSound'
  <2>1. \/ pc' = [pc EXCEPT ![p] = "result"] /\ ending' = ending
        \/ /\ pc' = [pc EXCEPT ![p] = "stop"]
           /\ ending' = [ending EXCEPT ![p] = "failed"]
    BY <1>16, MayFail
  <2>2. /\ pc[p] = "verify"
        /\ UNCHANGED <<root, lockName, opened, fresh, inputs, state, markers, exposed>>
    BY <1>16 DEF VerifyUnits
  <2>3. LedgerFollows'
    BY <2>1, <2>2
  <2>4. MarkerTellsState'
    BY <2>1, <2>2
  <2>5. QED
    BY <2>3, <2>4
<1>17. ASSUME NEW p \in Processes, PublishResult(p) PROVE LedgerSound'
  <2>1. \/ pc' = [pc EXCEPT ![p] = "unmark"] /\ ending' = ending
        \/ /\ pc' = [pc EXCEPT ![p] = "stop"]
           /\ ending' = [ending EXCEPT ![p] = "failed"]
    BY <1>17, MayFail
  <2>2. /\ pc[p] = "result"
        /\ UNCHANGED <<root, lockName, opened, fresh, inputs, state, markers, exposed>>
    BY <1>17 DEF PublishResult
  <2>3. LedgerFollows'
    BY <2>1, <2>2
  <2>4. MarkerTellsState'
    BY <2>1, <2>2
  <2>5. QED
    BY <2>3, <2>4
<1>18. ASSUME NEW p \in Processes, UnmarkRunning(p) PROVE LedgerSound'
  BY <1>18 DEF UnmarkRunning, Step
<1>19. ASSUME NEW p \in Processes, WriteGenerated(p) PROVE LedgerSound'
  BY <1>19 DEF WriteGenerated, Step
<1>20. ASSUME NEW p \in Processes, ReturnResult(p) PROVE LedgerSound'
  BY <1>20 DEF ReturnResult, Step
<1>21. ASSUME NEW p \in Processes, StopUnmark(p) PROVE LedgerSound'
  BY <1>21 DEF StopUnmark, Step
<1>22. ASSUME NEW p \in Processes, StopState(p) PROVE LedgerSound'
  BY <1>22 DEF StopState, Step
<1>23. ASSUME NEW p \in Processes, StopMarker(p) PROVE LedgerSound'
  BY <1>23 DEF StopMarker, Step
<1>24. ASSUME NEW p \in Processes, Kill(p) PROVE LedgerSound'
  BY <1>24 DEF Kill, Dies, Fault
<1>25. ASSUME NEW p \in Processes, KillPool(p) PROVE LedgerSound'
  BY <1>25 DEF KillPool, Dies, Fault
<1>26. ASSUME NEW p \in Processes, NEW d \in {"interrupted", "failed"},
              InterruptWork(p, d)
       PROVE  LedgerSound'
  BY <1>26 DEF InterruptWork, Fault, Thrown, AfterThrow
<1>27. ASSUME NEW p \in Processes, NEW d \in {"interrupted", "failed"},
              Interrupt(p, d)
       PROVE  LedgerSound'
  <2>1. CASE pc[p] \in TrySteps
    BY <1>27, <2>1 DEF Interrupt, Fault, StopAs, Holding
  <2>2. CASE pc[p] \in LockedSteps \ TrySteps
    BY <1>27, <2>2 DEF Interrupt, Fault, StopAs, Holding
  <2>3. CASE pc[p] \notin LockedSteps
    BY <1>27, <2>3 DEF Interrupt, Fault, StopAs, Holding
  <2>4. QED
    BY <2>1, <2>2, <2>3
<1>28. ASSUME NEW p \in Processes, NEW u \in Units, Generate(p, u)
       PROVE  LedgerSound'
  BY <1>28, GenerateFrame
<1>29. ASSUME NEW p \in Processes, NEW u \in Units, FailUnit(p, u)
       PROVE  LedgerSound'
  BY <1>29 DEF FailUnit, Fault, AfterThrow
<1>30. ASSUME NEW u \in Units, Damage(u) PROVE LedgerSound'
  BY <1>30 DEF Damage, Fault
<1>31. CASE UNCHANGED vars
  BY <1>31 DEF vars
<1> HIDE DEF TypeOK, OneCoordinatorUnlessExposed, OneCoordinator, InputsFirst,
        FirstCall, NothingBeforeInputs, Beyond, EndingNamed, LedgerSound, LedgerFollows,
        LedgerAt,
        MarkerTellsState, Holding, lock, ledger, units, control, GoTo, Steps,
        LockedSteps, TrySteps, Dispositions
<1>32. QED
  BY <1>1, <1>2, <1>3, <1>4, <1>5, <1>6, <1>7, <1>8, <1>9, <1>10, <1>11, <1>12,
     <1>13, <1>14, <1>15, <1>16, <1>17, <1>18, <1>19, <1>20, <1>21, <1>22, <1>23,
     <1>24, <1>25, <1>26, <1>27, <1>28, <1>29, <1>30, <1>31
  DEF Next, Coordinate

-----------------------------------------------------------------------------
(* Workers and units *)

\* Workers are at work only while their coordinator waits for them, until a kill
\* that leaves them says so.
LEMMA WorkersStep ==
    TypeOK /\ WorkersAttended /\ [Next]_vars
        => WorkersAttended'
<1> SUFFICES ASSUME TypeOK, WorkersAttended, [Next]_vars
             PROVE  WorkersAttended'
  OBVIOUS
<1> USE DEF TypeOK, WorkersAttended, Holding, lock, ledger, units, control, GoTo, Steps,
        LockedSteps, TrySteps, Busy, Queued, Working, Committing, TaskSteps, NoTasks
<1>1. ASSUME NEW p \in Processes, CallFresh(p) PROVE WorkersAttended'
  BY <1>1 DEF CallFresh, Call
<1>2. ASSUME NEW p \in Processes, CallResume(p) PROVE WorkersAttended'
  BY <1>2 DEF CallResume, Call
<1>3. ASSUME NEW p \in Processes, OpenLock(p) PROVE WorkersAttended'
  BY <1>3 DEF OpenLock
<1>4. ASSUME NEW p \in Processes, TryLock(p) PROVE WorkersAttended'
  <2>1. /\ \E step \in {"unname", "inputs", "check"} : pc' = [pc EXCEPT ![p] = step]
        /\ exposed \subseteq exposed'
    BY <1>4, LockOrRefuse
  <2>2. pc[p] = "flock" /\ task' = task
    BY <1>4 DEF TryLock
  <2>3. \A q \in Processes : Busy(q)' = Busy(q) /\ Queued(q)' = Queued(q)
    BY <2>2
  <2>4. QED
    BY <2>1, <2>2, <2>3
<1>5. ASSUME NEW p \in Processes, Release(p) PROVE WorkersAttended'
  BY <1>5 DEF Release
<1>6. ASSUME NEW p \in Processes, UnlinkLock(p) PROVE WorkersAttended'
  BY <1>6 DEF UnlinkLock
<1>7. ASSUME NEW p \in Processes, WriteInputs(p) PROVE WorkersAttended'
  BY <1>7 DEF WriteInputs, Step
<1>8. ASSUME NEW p \in Processes, CheckResume(p) PROVE WorkersAttended'
  BY <1>8 DEF CheckResume, Step
<1>9. ASSUME NEW p \in Processes, ClearMarkers(p) PROVE WorkersAttended'
  BY <1>9 DEF ClearMarkers, Step
<1>10. ASSUME NEW p \in Processes, WriteRunning(p) PROVE WorkersAttended'
  BY <1>10 DEF WriteRunning, Step
<1>11. ASSUME NEW p \in Processes, MarkRunning(p) PROVE WorkersAttended'
  BY <1>11 DEF MarkRunning, Step
<1>12. ASSUME NEW p \in Processes, ScanUnit(p) PROVE WorkersAttended'
  BY <1>12 DEF ScanUnit, Reusable, Clears, GoToOrFail, StopAs
<1>13. ASSUME NEW p \in Processes, StartWork(p) PROVE WorkersAttended'
  BY <1>13 DEF StartWork
<1>14. ASSUME NEW p \in Processes, EndWork(p) PROVE WorkersAttended'
  <2>1. pc' = [pc EXCEPT ![p] = "verify"] \/ pc' = [pc EXCEPT ![p] = "stop"]
    BY <1>14, MayFail
  <2>2. Busy(p) = {} /\ pc[p] = "work" /\ UNCHANGED <<task, exposed>>
    BY <1>14 DEF EndWork
  <2>3. QED
    BY <2>1, <2>2
<1>15. ASSUME NEW p \in Processes, EndDrain(p) PROVE WorkersAttended'
  BY <1>15 DEF EndDrain, Step
<1>16. ASSUME NEW p \in Processes, VerifyUnits(p) PROVE WorkersAttended'
  BY <1>16 DEF VerifyUnits, GoToOrFail, StopAs
<1>17. ASSUME NEW p \in Processes, PublishResult(p) PROVE WorkersAttended'
  <2>1. \/ pc' = [pc EXCEPT ![p] = "unmark"]
        \/ pc' = [pc EXCEPT ![p] = "stop"]
    BY <1>17, MayFail
  <2>2. pc[p] = "result" /\ UNCHANGED <<form, state, task, exposed>>
    BY <1>17 DEF PublishResult
  <2>3. QED
    BY <2>1, <2>2
<1>18. ASSUME NEW p \in Processes, UnmarkRunning(p) PROVE WorkersAttended'
  BY <1>18 DEF UnmarkRunning, Step
<1>19. ASSUME NEW p \in Processes, WriteGenerated(p) PROVE WorkersAttended'
  BY <1>19 DEF WriteGenerated, Step
<1>20. ASSUME NEW p \in Processes, ReturnResult(p) PROVE WorkersAttended'
  BY <1>20 DEF ReturnResult, Step
<1>21. ASSUME NEW p \in Processes, StopUnmark(p) PROVE WorkersAttended'
  BY <1>21 DEF StopUnmark, Step
<1>22. ASSUME NEW p \in Processes, StopState(p) PROVE WorkersAttended'
  BY <1>22 DEF StopState, Step
<1>23. ASSUME NEW p \in Processes, StopMarker(p) PROVE WorkersAttended'
  BY <1>23 DEF StopMarker, Step
<1>24. ASSUME NEW p \in Processes, Kill(p) PROVE WorkersAttended'
  BY <1>24 DEF Kill, Dies, Fault
<1>25. ASSUME NEW p \in Processes, KillPool(p) PROVE WorkersAttended'
  BY <1>25 DEF KillPool, Dies, Fault
<1>26. ASSUME NEW p \in Processes, NEW d \in {"interrupted", "failed"},
              InterruptWork(p, d)
       PROVE  WorkersAttended'
  BY <1>26 DEF InterruptWork, Fault, Thrown, AfterThrow
<1>27. ASSUME NEW p \in Processes, NEW d \in {"interrupted", "failed"},
              Interrupt(p, d)
       PROVE  WorkersAttended'
  <2>1. CASE pc[p] \in TrySteps
    <3>1. /\ pc[p] \notin {"work", "drain"} /\ pc' = [pc EXCEPT ![p] = "stop"]
          /\ UNCHANGED <<form, state, task, exposed>>
      BY <1>27, <2>1 DEF Interrupt, StopAs
    <3>2. QED
      BY <2>1, <3>1
  <2>2. CASE pc[p] \in LockedSteps \ TrySteps
    BY <1>27, <2>2 DEF Interrupt, Fault, StopAs, Holding
  <2>3. CASE pc[p] \notin LockedSteps
    BY <1>27, <2>3 DEF Interrupt, Fault, StopAs, Holding
  <2>4. QED
    BY <2>1, <2>2, <2>3
<1>28. ASSUME NEW p \in Processes, NEW u \in Units, BeginUnit(p, u)
       PROVE  WorkersAttended'
  BY <1>28 DEF BeginUnit, MayBegin, Advance
<1>29. ASSUME NEW p \in Processes, NEW u \in Units, RefuseUnit(p, u)
       PROVE  WorkersAttended'
  BY <1>29 DEF RefuseUnit, MayBegin, Outcome, Advance
<1>30. ASSUME NEW p \in Processes, NEW u \in Units, QuarantineUnit(p, u)
       PROVE  WorkersAttended'
  BY <1>30 DEF QuarantineUnit, Clears, MayBegin, Outcome, Advance
<1>31. ASSUME NEW p \in Processes, NEW u \in Units, PublishSiblings(p, u)
       PROVE  WorkersAttended'
  <2>1. Advance(p, u, "linked") \/ Advance(p, u, "abort")
    BY <1>31 DEF PublishSiblings
  <2>2. u \in Busy(p)
    BY <1>31 DEF PublishSiblings
  <2>3. QED
    BY <2>1, <2>2 DEF Advance
<1>32. ASSUME NEW p \in Processes, NEW u \in Units, DiscardStage(p, u)
       PROVE  WorkersAttended'
  BY <1>32 DEF DiscardStage, Own, Advance
<1>33. ASSUME NEW p \in Processes, NEW u \in Units, PublishReceipt(p, u)
       PROVE  WorkersAttended'
  BY <1>33 DEF PublishReceipt, Own, Advance
<1>34. ASSUME NEW p \in Processes, NEW u \in Units, FinishReceipt(p, u)
       PROVE  WorkersAttended'
  BY <1>34 DEF FinishReceipt, Advance
<1>35. ASSUME NEW p \in Processes, NEW u \in Units, LoadUnit(p, u)
       PROVE  WorkersAttended'
  BY <1>35 DEF LoadUnit, Own, Outcome, Advance
<1>36. ASSUME NEW p \in Processes, NEW u \in Units, AbortUnit(p, u)
       PROVE  WorkersAttended'
  BY <1>36 DEF AbortUnit, Own, Advance
<1>37. ASSUME NEW p \in Processes, NEW u \in Units, AbortQuarantine(p, u)
       PROVE  WorkersAttended'
  BY <1>37 DEF AbortQuarantine, Clears, Outcome, Advance
<1>38. ASSUME NEW p \in Processes, NEW u \in Units, FailUnit(p, u)
       PROVE  WorkersAttended'
  BY <1>38 DEF FailUnit, Fault, AfterThrow
<1>39. ASSUME NEW u \in Units, Damage(u) PROVE WorkersAttended'
  BY <1>39 DEF Damage, Fault
<1>40. CASE UNCHANGED vars
  BY <1>40 DEF vars
<1> HIDE DEF TypeOK, WorkersAttended, Holding, lock, ledger, units, control, GoTo, Steps,
        LockedSteps, TrySteps, Busy, Queued, Working, Committing, TaskSteps, NoTasks
<1>41. QED
  BY <1>1, <1>2, <1>3, <1>4, <1>5, <1>6, <1>7, <1>8, <1>9, <1>10, <1>11, <1>12,
     <1>13, <1>14, <1>15, <1>16, <1>17, <1>18, <1>19, <1>20, <1>21, <1>22, <1>23,
     <1>24, <1>25, <1>26, <1>27, <1>28, <1>29, <1>30, <1>31, <1>32, <1>33, <1>34,
     <1>35, <1>36, <1>37, <1>38, <1>39, <1>40
  DEF Next, Coordinate, Generate

\* What is verified stays complete, since nobody who could change it is at work.
LEMMA CompleteStep ==
    TypeOK /\ OneCoordinatorUnlessExposed /\ LedgerSound /\ WorkersAttended /\
    UnitsSound /\ [Next]_vars
        => UnitsSound'
<1> SUFFICES ASSUME TypeOK, OneCoordinatorUnlessExposed, LedgerSound,
                    WorkersAttended, UnitsSound, [Next]_vars
             PROVE  UnitsSound'
  OBVIOUS
<1> USE DEF TypeOK, OneCoordinatorUnlessExposed, OneCoordinator, LedgerSound,
        LedgerFollows, LedgerAt, WorkersAttended, UnitsSound, VerifiedComplete,
        GeneratedIsComplete, Holding, lock, ledger, units,
        control, GoTo, Steps, LockedSteps, TrySteps, Busy, Queued, Working,
        Committing, TaskSteps, NoTasks
<1>1. ASSUME NEW p \in Processes, CallFresh(p) PROVE UnitsSound'
  BY <1>1 DEF CallFresh, Call
<1>2. ASSUME NEW p \in Processes, CallResume(p) PROVE UnitsSound'
  BY <1>2 DEF CallResume, Call
<1>3. ASSUME NEW p \in Processes, OpenLock(p) PROVE UnitsSound'
  BY <1>3 DEF OpenLock
<1>4. ASSUME NEW p \in Processes, TryLock(p) PROVE UnitsSound'
  BY <1>4 DEF TryLock
<1>5. ASSUME NEW p \in Processes, Release(p) PROVE UnitsSound'
  BY <1>5 DEF Release
<1>6. ASSUME NEW p \in Processes, UnlinkLock(p) PROVE UnitsSound'
  BY <1>6 DEF UnlinkLock
<1>7. ASSUME NEW p \in Processes, WriteInputs(p) PROVE UnitsSound'
  BY <1>7 DEF WriteInputs, Step
<1>8. ASSUME NEW p \in Processes, CheckResume(p) PROVE UnitsSound'
  BY <1>8 DEF CheckResume, Step
<1>9. ASSUME NEW p \in Processes, ClearMarkers(p) PROVE UnitsSound'
  BY <1>9 DEF ClearMarkers, Step
<1>10. ASSUME NEW p \in Processes, WriteRunning(p) PROVE UnitsSound'
  BY <1>10 DEF WriteRunning, Step
<1>11. ASSUME NEW p \in Processes, MarkRunning(p) PROVE UnitsSound'
  BY <1>11 DEF MarkRunning, Step
<1>12. ASSUME NEW p \in Processes, ScanUnit(p) PROVE UnitsSound'
  BY <1>12 DEF ScanUnit, Reusable, Clears, GoToOrFail, StopAs
<1>13. ASSUME NEW p \in Processes, StartWork(p) PROVE UnitsSound'
  BY <1>13 DEF StartWork
<1>14. ASSUME NEW p \in Processes, EndWork(p) PROVE UnitsSound'
  BY <1>14 DEF EndWork, GoToOrFail, StopAs
<1>15. ASSUME NEW p \in Processes, EndDrain(p) PROVE UnitsSound'
  BY <1>15 DEF EndDrain, Step
<1>16. ASSUME NEW p \in Processes, VerifyUnits(p) PROVE UnitsSound'
  BY <1>16 DEF VerifyUnits, GoToOrFail, StopAs
<1>17. ASSUME NEW p \in Processes, PublishResult(p) PROVE UnitsSound'
  BY <1>17 DEF PublishResult, GoToOrFail, StopAs
<1>18. ASSUME NEW p \in Processes, UnmarkRunning(p) PROVE UnitsSound'
  BY <1>18 DEF UnmarkRunning, Step
<1>19. ASSUME NEW p \in Processes, WriteGenerated(p) PROVE UnitsSound'
  BY <1>19 DEF WriteGenerated, Step
<1>20. ASSUME NEW p \in Processes, ReturnResult(p) PROVE UnitsSound'
  BY <1>20 DEF ReturnResult, Step
<1>21. ASSUME NEW p \in Processes, StopUnmark(p) PROVE UnitsSound'
  BY <1>21 DEF StopUnmark, Step
<1>22. ASSUME NEW p \in Processes, StopState(p) PROVE UnitsSound'
  BY <1>22 DEF StopState, Step
<1>23. ASSUME NEW p \in Processes, StopMarker(p) PROVE UnitsSound'
  BY <1>23 DEF StopMarker, Step
<1>24. ASSUME NEW p \in Processes, Kill(p) PROVE UnitsSound'
  BY <1>24 DEF Kill, Dies, Fault
<1>25. ASSUME NEW p \in Processes, KillPool(p) PROVE UnitsSound'
  BY <1>25 DEF KillPool, Dies, Fault
<1>26. ASSUME NEW p \in Processes, NEW d \in {"interrupted", "failed"},
              InterruptWork(p, d)
       PROVE  UnitsSound'
  BY <1>26 DEF InterruptWork, Fault, Thrown, AfterThrow
<1>27. ASSUME NEW p \in Processes, NEW d \in {"interrupted", "failed"},
              Interrupt(p, d)
       PROVE  UnitsSound'
  <2>1. CASE pc[p] \in TrySteps
    BY <1>27, <2>1 DEF Interrupt, Fault, StopAs, Holding
  <2>2. CASE pc[p] \in LockedSteps \ TrySteps
    BY <1>27, <2>2 DEF Interrupt, Fault, StopAs, Holding
  <2>3. CASE pc[p] \notin LockedSteps
    BY <1>27, <2>3 DEF Interrupt, Fault, StopAs, Holding
  <2>4. QED
    BY <2>1, <2>2, <2>3
<1>28. ASSUME NEW p \in Processes, NEW u \in Units, BeginUnit(p, u)
       PROVE  UnitsSound'
  BY <1>28 DEF BeginUnit, MayBegin, Advance
<1>29. ASSUME NEW p \in Processes, NEW u \in Units, RefuseUnit(p, u)
       PROVE  UnitsSound'
  BY <1>29 DEF RefuseUnit, MayBegin, Outcome, Advance
<1>30. ASSUME NEW p \in Processes, NEW u \in Units, QuarantineUnit(p, u)
       PROVE  UnitsSound'
  BY <1>30 DEF QuarantineUnit, Clears, MayBegin, Outcome, Advance
<1>31. ASSUME NEW p \in Processes, NEW u \in Units, PublishSiblings(p, u)
       PROVE  UnitsSound'
  BY <1>31 DEF PublishSiblings, Advance
<1>32. ASSUME NEW p \in Processes, NEW u \in Units, DiscardStage(p, u)
       PROVE  UnitsSound'
  BY <1>32 DEF DiscardStage, Own, Advance
<1>33. ASSUME NEW p \in Processes, NEW u \in Units, PublishReceipt(p, u)
       PROVE  UnitsSound'
  BY <1>33 DEF PublishReceipt, Own, Advance
<1>34. ASSUME NEW p \in Processes, NEW u \in Units, FinishReceipt(p, u)
       PROVE  UnitsSound'
  BY <1>34 DEF FinishReceipt, Advance
<1>35. ASSUME NEW p \in Processes, NEW u \in Units, LoadUnit(p, u) PROVE UnitsSound'
  BY <1>35 DEF LoadUnit, Own, Outcome, Advance
<1>36. ASSUME NEW p \in Processes, NEW u \in Units, AbortUnit(p, u)
       PROVE  UnitsSound'
  BY <1>36 DEF AbortUnit, Own, Advance
<1>37. ASSUME NEW p \in Processes, NEW u \in Units, AbortQuarantine(p, u)
       PROVE  UnitsSound'
  <2>1. u \in Busy(p)
    BY <1>37 DEF AbortQuarantine
  <2>2. UNCHANGED <<pc, state, exposed>> /\ \A v \in Units : v # u => form'[v] = form[v]
    BY <1>37 DEF AbortQuarantine, Clears, Advance
  <2>3. QED
    BY <2>1, <2>2
<1>38. ASSUME NEW p \in Processes, NEW u \in Units, FailUnit(p, u) PROVE UnitsSound'
  BY <1>38 DEF FailUnit, Fault, AfterThrow
<1>39. ASSUME NEW u \in Units, Damage(u) PROVE UnitsSound'
  BY <1>39 DEF Damage, Fault
<1>40. CASE UNCHANGED vars
  BY <1>40 DEF vars
<1> HIDE DEF TypeOK, OneCoordinatorUnlessExposed, OneCoordinator, LedgerSound,
        LedgerFollows, LedgerAt, WorkersAttended, UnitsSound, VerifiedComplete,
        GeneratedIsComplete, Holding, lock, ledger, units,
        control, GoTo, Steps, LockedSteps, TrySteps, Busy, Queued, Working,
        Committing, TaskSteps, NoTasks
<1>41. QED
  BY <1>1, <1>2, <1>3, <1>4, <1>5, <1>6, <1>7, <1>8, <1>9, <1>10, <1>11, <1>12,
     <1>13, <1>14, <1>15, <1>16, <1>17, <1>18, <1>19, <1>20, <1>21, <1>22, <1>23,
     <1>24, <1>25, <1>26, <1>27, <1>28, <1>29, <1>30, <1>31, <1>32, <1>33, <1>34,
     <1>35, <1>36, <1>37, <1>38, <1>39, <1>40
  DEF Next, Coordinate, Generate

-----------------------------------------------------------------------------
(* What a step never does *)

\* The steps that CommittedUnitsStay and FailedIsTerminal allow; the latter in a
\* run that nothing was exposed in, and in one that is abandoned.
KeepsCommitted ==
    \A u \in Units : form[u] = "complete" /\ Unwritten(u) =>
        form'[u] \in {"complete", "invalid"} /\ Unwritten(u)'

LeavesFailed ==
    exposed' = {} /\ state = "failed" =>
        state' = "failed" /\ \A u \in Units : form'[u] \in {form[u], "invalid"}

LeavesAbandoned ==
    state = "failed" /\ Abandoned =>
        /\ state' = "failed"
        /\ \A u \in Units : form'[u] \in {form[u], "invalid"}
        /\ Abandoned'

\* The stage root of siblings that a worker has not published is not its to discard.
LEMMA DiscardedForm ==
    ASSUME NEW p \in Processes, NEW u \in Units, DiscardStage(p, u)
    PROVE  form' = form \/ (form[u] = "linked" /\ form' = [form EXCEPT ![u] = "bare"])
BY DEF DiscardStage, Own

\* Siblings are published over an absent unit only.
LEMMA PublishedForm ==
    ASSUME NEW p \in Processes, NEW u \in Units, PublishSiblings(p, u)
    PROVE  form' = form \/ (form[u] = "none" /\ form' = [form EXCEPT ![u] = "linked"])
BY DEF PublishSiblings

\* Whoever takes the names of a complete unit, or sets out to, was writing it.
LEMMA CommittedStep ==
    TypeOK /\ [Next]_vars
        => KeepsCommitted
<1> SUFFICES ASSUME TypeOK, [Next]_vars
             PROVE  KeepsCommitted
  OBVIOUS
<1> USE DEF TypeOK, KeepsCommitted, Unwritten, lock, ledger, units, control, GoTo, Steps,
        LockedSteps, TrySteps, Working, Committing, TaskSteps, NoTasks
<1>1. ASSUME NEW p \in Processes, CallFresh(p) PROVE KeepsCommitted
  BY <1>1 DEF CallFresh, Call
<1>2. ASSUME NEW p \in Processes, CallResume(p) PROVE KeepsCommitted
  BY <1>2 DEF CallResume, Call
<1>3. ASSUME NEW p \in Processes, OpenLock(p) PROVE KeepsCommitted
  BY <1>3 DEF OpenLock
<1>4. ASSUME NEW p \in Processes, TryLock(p) PROVE KeepsCommitted
  BY <1>4 DEF TryLock
<1>5. ASSUME NEW p \in Processes, Release(p) PROVE KeepsCommitted
  BY <1>5 DEF Release
<1>6. ASSUME NEW p \in Processes, UnlinkLock(p) PROVE KeepsCommitted
  BY <1>6 DEF UnlinkLock
<1>7. ASSUME NEW p \in Processes, WriteInputs(p) PROVE KeepsCommitted
  BY <1>7 DEF WriteInputs, Step
<1>8. ASSUME NEW p \in Processes, CheckResume(p) PROVE KeepsCommitted
  BY <1>8 DEF CheckResume, Step
<1>9. ASSUME NEW p \in Processes, ClearMarkers(p) PROVE KeepsCommitted
  BY <1>9 DEF ClearMarkers, Step
<1>10. ASSUME NEW p \in Processes, WriteRunning(p) PROVE KeepsCommitted
  BY <1>10 DEF WriteRunning, Step
<1>11. ASSUME NEW p \in Processes, MarkRunning(p) PROVE KeepsCommitted
  BY <1>11 DEF MarkRunning, Step
<1>12. ASSUME NEW p \in Processes, ScanUnit(p) PROVE KeepsCommitted
  BY <1>12 DEF ScanUnit, Reusable, Clears, GoToOrFail, StopAs
<1>13. ASSUME NEW p \in Processes, StartWork(p) PROVE KeepsCommitted
  BY <1>13 DEF StartWork
<1>14. ASSUME NEW p \in Processes, EndWork(p) PROVE KeepsCommitted
  BY <1>14 DEF EndWork, GoToOrFail, StopAs
<1>15. ASSUME NEW p \in Processes, EndDrain(p) PROVE KeepsCommitted
  BY <1>15 DEF EndDrain, Step
<1>16. ASSUME NEW p \in Processes, VerifyUnits(p) PROVE KeepsCommitted
  BY <1>16 DEF VerifyUnits, GoToOrFail, StopAs
<1>17. ASSUME NEW p \in Processes, PublishResult(p) PROVE KeepsCommitted
  BY <1>17 DEF PublishResult, GoToOrFail, StopAs
<1>18. ASSUME NEW p \in Processes, UnmarkRunning(p) PROVE KeepsCommitted
  BY <1>18 DEF UnmarkRunning, Step
<1>19. ASSUME NEW p \in Processes, WriteGenerated(p) PROVE KeepsCommitted
  BY <1>19 DEF WriteGenerated, Step
<1>20. ASSUME NEW p \in Processes, ReturnResult(p) PROVE KeepsCommitted
  BY <1>20 DEF ReturnResult, Step
<1>21. ASSUME NEW p \in Processes, StopUnmark(p) PROVE KeepsCommitted
  BY <1>21 DEF StopUnmark, Step
<1>22. ASSUME NEW p \in Processes, StopState(p) PROVE KeepsCommitted
  BY <1>22 DEF StopState, Step
<1>23. ASSUME NEW p \in Processes, StopMarker(p) PROVE KeepsCommitted
  BY <1>23 DEF StopMarker, Step
<1>24. ASSUME NEW p \in Processes, Kill(p) PROVE KeepsCommitted
  BY <1>24 DEF Kill, Dies, Fault
<1>25. ASSUME NEW p \in Processes, KillPool(p) PROVE KeepsCommitted
  BY <1>25 DEF KillPool, Dies, Fault
<1>26. ASSUME NEW p \in Processes, NEW d \in {"interrupted", "failed"},
              InterruptWork(p, d)
       PROVE  KeepsCommitted
  BY <1>26 DEF InterruptWork, Fault, Thrown, AfterThrow
<1>27. ASSUME NEW p \in Processes, NEW d \in {"interrupted", "failed"},
              Interrupt(p, d)
       PROVE  KeepsCommitted
  BY <1>27 DEF Interrupt, Fault, StopAs
<1>28. ASSUME NEW p \in Processes, NEW u \in Units, BeginUnit(p, u)
       PROVE  KeepsCommitted
  BY <1>28 DEF BeginUnit, MayBegin, Advance
<1>29. ASSUME NEW p \in Processes, NEW u \in Units, RefuseUnit(p, u)
       PROVE  KeepsCommitted
  BY <1>29 DEF RefuseUnit, MayBegin, Outcome, Advance
<1>30. ASSUME NEW p \in Processes, NEW u \in Units, QuarantineUnit(p, u)
       PROVE  KeepsCommitted
  BY <1>30 DEF QuarantineUnit, Clears, MayBegin, Outcome, Advance
<1>31. ASSUME NEW p \in Processes, NEW u \in Units, PublishSiblings(p, u)
       PROVE  KeepsCommitted
  <2>1. Advance(p, u, "linked") \/ Advance(p, u, "abort")
    BY <1>31 DEF PublishSiblings
  <2>2. form' = form \/ (form[u] = "none" /\ form' = [form EXCEPT ![u] = "linked"])
    BY <1>31, PublishedForm
  <2>3. task[p][u] = "staging"
    BY <1>31 DEF PublishSiblings
  <2>4. \A v \in Units : v # u => \A q \in Processes : task'[q][v] = task[q][v]
    <3>1. CASE Advance(p, u, "linked")
      BY <3>1 DEF Advance
    <3>2. CASE Advance(p, u, "abort")
      BY <3>2 DEF Advance
    <3>3. QED
      BY <2>1, <3>1, <3>2
  <2>5. \A v \in Units : form[v] = "complete" => form'[v] = "complete"
    BY <2>2
  <2>6. QED
    BY <2>3, <2>4, <2>5
<1>32. ASSUME NEW p \in Processes, NEW u \in Units, DiscardStage(p, u)
       PROVE  KeepsCommitted
  <2>1. Advance(p, u, "bare") \/ Advance(p, u, "abort")
    BY <1>32 DEF DiscardStage
  <2>2. form' = form \/ (form[u] = "linked" /\ form' = [form EXCEPT ![u] = "bare"])
    BY <1>32, DiscardedForm
  <2>3. task[p][u] = "linked"
    BY <1>32 DEF DiscardStage
  <2>4. \A v \in Units : v # u => \A q \in Processes : task'[q][v] = task[q][v]
    <3>1. CASE Advance(p, u, "bare")
      BY <3>1 DEF Advance
    <3>2. CASE Advance(p, u, "abort")
      BY <3>2 DEF Advance
    <3>3. QED
      BY <2>1, <3>1, <3>2
  <2>5. \A v \in Units : form[v] = "complete" => form'[v] = "complete"
    BY <2>2
  <2>6. QED
    BY <2>3, <2>4, <2>5
<1>33. ASSUME NEW p \in Processes, NEW u \in Units, PublishReceipt(p, u)
       PROVE  KeepsCommitted
  BY <1>33 DEF PublishReceipt, Own, Advance
<1>34. ASSUME NEW p \in Processes, NEW u \in Units, FinishReceipt(p, u)
       PROVE  KeepsCommitted
  BY <1>34 DEF FinishReceipt, Advance
<1>35. ASSUME NEW p \in Processes, NEW u \in Units, LoadUnit(p, u)
       PROVE  KeepsCommitted
  BY <1>35 DEF LoadUnit, Own, Outcome, Advance
<1>36. ASSUME NEW p \in Processes, NEW u \in Units, AbortUnit(p, u)
       PROVE  KeepsCommitted
  BY <1>36 DEF AbortUnit, Own, Advance
<1>37. ASSUME NEW p \in Processes, NEW u \in Units, AbortQuarantine(p, u)
       PROVE  KeepsCommitted
  BY <1>37 DEF AbortQuarantine, Clears, Outcome, Advance
<1>38. ASSUME NEW p \in Processes, NEW u \in Units, FailUnit(p, u)
       PROVE  KeepsCommitted
  BY <1>38 DEF FailUnit, Fault, AfterThrow
<1>39. ASSUME NEW u \in Units, Damage(u) PROVE KeepsCommitted
  BY <1>39 DEF Damage, Fault
<1>40. CASE UNCHANGED vars
  BY <1>40 DEF vars
<1> HIDE DEF TypeOK, KeepsCommitted, Unwritten, lock, ledger, units, control, GoTo, Steps,
        LockedSteps, TrySteps, Working, Committing, TaskSteps, NoTasks
<1>41. QED
  BY <1>1, <1>2, <1>3, <1>4, <1>5, <1>6, <1>7, <1>8, <1>9, <1>10, <1>11, <1>12,
     <1>13, <1>14, <1>15, <1>16, <1>17, <1>18, <1>19, <1>20, <1>21, <1>22, <1>23,
     <1>24, <1>25, <1>26, <1>27, <1>28, <1>29, <1>30, <1>31, <1>32, <1>33, <1>34,
     <1>35, <1>36, <1>37, <1>38, <1>39, <1>40
  DEF Next, Coordinate, Generate

\* In a failed run nobody is between the check and the release of the lock, so
\* nobody writes.
LEMMA FailedStep ==
    TypeOK /\ OneCoordinatorUnlessExposed /\ InputsFirst /\ LedgerSound /\
    WorkersAttended /\ [Next]_vars
        => LeavesFailed
<1> SUFFICES ASSUME TypeOK, OneCoordinatorUnlessExposed, InputsFirst, LedgerSound,
                    WorkersAttended, [Next]_vars
             PROVE  LeavesFailed
  OBVIOUS
<1> USE DEF TypeOK, LeavesFailed, OneCoordinatorUnlessExposed, OneCoordinator,
        InputsFirst, FirstCall, NothingBeforeInputs, Beyond, LedgerSound, LedgerFollows, LedgerAt,
        WorkersAttended, Holding,
        lock, ledger, units, control, GoTo, Steps, LockedSteps, TrySteps, Busy, Queued,
        Working, Committing, TaskSteps, NoTasks
<1>1. ASSUME NEW p \in Processes, CallFresh(p) PROVE LeavesFailed
  BY <1>1 DEF CallFresh, Call
<1>2. ASSUME NEW p \in Processes, CallResume(p) PROVE LeavesFailed
  BY <1>2 DEF CallResume, Call
<1>3. ASSUME NEW p \in Processes, OpenLock(p) PROVE LeavesFailed
  BY <1>3 DEF OpenLock
<1>4. ASSUME NEW p \in Processes, TryLock(p) PROVE LeavesFailed
  BY <1>4 DEF TryLock
<1>5. ASSUME NEW p \in Processes, Release(p) PROVE LeavesFailed
  BY <1>5 DEF Release
<1>6. ASSUME NEW p \in Processes, UnlinkLock(p) PROVE LeavesFailed
  BY <1>6 DEF UnlinkLock
<1>7. ASSUME NEW p \in Processes, WriteInputs(p) PROVE LeavesFailed
  BY <1>7 DEF WriteInputs, Step
<1>8. ASSUME NEW p \in Processes, CheckResume(p) PROVE LeavesFailed
  BY <1>8 DEF CheckResume, Step
<1>9. ASSUME NEW p \in Processes, ClearMarkers(p) PROVE LeavesFailed
  BY <1>9 DEF ClearMarkers, Step
<1>10. ASSUME NEW p \in Processes, WriteRunning(p) PROVE LeavesFailed
  BY <1>10 DEF WriteRunning, Step
<1>11. ASSUME NEW p \in Processes, MarkRunning(p) PROVE LeavesFailed
  BY <1>11 DEF MarkRunning, Step
<1>12. ASSUME NEW p \in Processes, ScanUnit(p) PROVE LeavesFailed
  BY <1>12 DEF ScanUnit, Reusable, Clears, GoToOrFail, StopAs
<1>13. ASSUME NEW p \in Processes, StartWork(p) PROVE LeavesFailed
  BY <1>13 DEF StartWork
<1>14. ASSUME NEW p \in Processes, EndWork(p) PROVE LeavesFailed
  BY <1>14 DEF EndWork, GoToOrFail, StopAs
<1>15. ASSUME NEW p \in Processes, EndDrain(p) PROVE LeavesFailed
  BY <1>15 DEF EndDrain, Step
<1>16. ASSUME NEW p \in Processes, VerifyUnits(p) PROVE LeavesFailed
  BY <1>16 DEF VerifyUnits, GoToOrFail, StopAs
<1>17. ASSUME NEW p \in Processes, PublishResult(p) PROVE LeavesFailed
  BY <1>17 DEF PublishResult, GoToOrFail, StopAs
<1>18. ASSUME NEW p \in Processes, UnmarkRunning(p) PROVE LeavesFailed
  BY <1>18 DEF UnmarkRunning, Step
<1>19. ASSUME NEW p \in Processes, WriteGenerated(p) PROVE LeavesFailed
  BY <1>19 DEF WriteGenerated, Step
<1>20. ASSUME NEW p \in Processes, ReturnResult(p) PROVE LeavesFailed
  BY <1>20 DEF ReturnResult, Step
<1>21. ASSUME NEW p \in Processes, StopUnmark(p) PROVE LeavesFailed
  BY <1>21 DEF StopUnmark, Step
<1>22. ASSUME NEW p \in Processes, StopState(p) PROVE LeavesFailed
  BY <1>22 DEF StopState, Step
<1>23. ASSUME NEW p \in Processes, StopMarker(p) PROVE LeavesFailed
  BY <1>23 DEF StopMarker, Step
<1>24. ASSUME NEW p \in Processes, Kill(p) PROVE LeavesFailed
  BY <1>24 DEF Kill, Dies, Fault
<1>25. ASSUME NEW p \in Processes, KillPool(p) PROVE LeavesFailed
  BY <1>25 DEF KillPool, Dies, Fault
<1>26. ASSUME NEW p \in Processes, NEW d \in {"interrupted", "failed"},
              InterruptWork(p, d)
       PROVE  LeavesFailed
  BY <1>26 DEF InterruptWork, Fault, Thrown, AfterThrow
<1>27. ASSUME NEW p \in Processes, NEW d \in {"interrupted", "failed"},
              Interrupt(p, d)
       PROVE  LeavesFailed
  BY <1>27 DEF Interrupt, Fault, StopAs
<1>28. ASSUME NEW p \in Processes, NEW u \in Units, BeginUnit(p, u)
       PROVE  LeavesFailed
  BY <1>28 DEF BeginUnit, MayBegin, Advance
<1>29. ASSUME NEW p \in Processes, NEW u \in Units, RefuseUnit(p, u)
       PROVE  LeavesFailed
  BY <1>29 DEF RefuseUnit, MayBegin, Outcome, Advance
<1>30. ASSUME NEW p \in Processes, NEW u \in Units, QuarantineUnit(p, u)
       PROVE  LeavesFailed
  BY <1>30 DEF QuarantineUnit, Clears, MayBegin, Outcome, Advance
<1>31. ASSUME NEW p \in Processes, NEW u \in Units, PublishSiblings(p, u)
       PROVE  LeavesFailed
  BY <1>31 DEF PublishSiblings, Advance
<1>32. ASSUME NEW p \in Processes, NEW u \in Units, DiscardStage(p, u)
       PROVE  LeavesFailed
  BY <1>32 DEF DiscardStage, Own, Advance
<1>33. ASSUME NEW p \in Processes, NEW u \in Units, PublishReceipt(p, u)
       PROVE  LeavesFailed
  BY <1>33 DEF PublishReceipt, Own, Advance
<1>34. ASSUME NEW p \in Processes, NEW u \in Units, FinishReceipt(p, u)
       PROVE  LeavesFailed
  BY <1>34 DEF FinishReceipt, Advance
<1>35. ASSUME NEW p \in Processes, NEW u \in Units, LoadUnit(p, u)
       PROVE  LeavesFailed
  BY <1>35 DEF LoadUnit, Own, Outcome, Advance
<1>36. ASSUME NEW p \in Processes, NEW u \in Units, AbortUnit(p, u)
       PROVE  LeavesFailed
  BY <1>36 DEF AbortUnit, Own, Advance
<1>37. ASSUME NEW p \in Processes, NEW u \in Units, AbortQuarantine(p, u)
       PROVE  LeavesFailed
  BY <1>37 DEF AbortQuarantine, Clears, Outcome, Advance
<1>38. ASSUME NEW p \in Processes, NEW u \in Units, FailUnit(p, u)
       PROVE  LeavesFailed
  BY <1>38 DEF FailUnit, Fault, AfterThrow
<1>39. ASSUME NEW u \in Units, Damage(u) PROVE LeavesFailed
  BY <1>39 DEF Damage, Fault
<1>40. CASE UNCHANGED vars
  BY <1>40 DEF vars
<1> HIDE DEF TypeOK, LeavesFailed, OneCoordinatorUnlessExposed, OneCoordinator,
        InputsFirst, FirstCall, NothingBeforeInputs, Beyond, LedgerSound, LedgerFollows, LedgerAt,
        WorkersAttended, Holding,
        lock, ledger, units, control, GoTo, Steps, LockedSteps, TrySteps, Busy, Queued,
        Working, Committing, TaskSteps, NoTasks
<1>41. QED
  BY <1>1, <1>2, <1>3, <1>4, <1>5, <1>6, <1>7, <1>8, <1>9, <1>10, <1>11, <1>12,
     <1>13, <1>14, <1>15, <1>16, <1>17, <1>18, <1>19, <1>20, <1>21, <1>22, <1>23,
     <1>24, <1>25, <1>26, <1>27, <1>28, <1>29, <1>30, <1>31, <1>32, <1>33, <1>34,
     <1>35, <1>36, <1>37, <1>38, <1>39, <1>40
  DEF Next, Coordinate, Generate

\* Nobody gets to work in a failed run that was abandoned: a fresh call finds the
\* root, and a resuming one the ledger.
LEMMA AbandonedStep ==
    TypeOK /\ InputsFirst /\ [Next]_vars => LeavesAbandoned
<1> SUFFICES ASSUME TypeOK, InputsFirst, [Next]_vars, state = "failed", Abandoned
             PROVE  /\ state' = "failed"
                    /\ \A u \in Units : form'[u] \in {form[u], "invalid"}
                    /\ Abandoned'
  BY DEF LeavesAbandoned
<1> DEFINE Outside == {"idle", "lock", "flock", "check", "release", "unname"}
           Left == /\ state' = "failed"
                   /\ \A u \in Units : form'[u] \in {form[u], "invalid"}
                   /\ Abandoned'
<1>a. /\ pc \in [Processes -> Steps]
      /\ task \in [Processes -> [Units -> TaskSteps]]
      /\ form \in [Units -> Forms]
  BY DEF TypeOK
<1>b. \A p \in Processes : fresh[p] => pc[p] # "flock"
  BY DEF InputsFirst, FirstCall, NothingBeforeInputs
<1>c. \A p \in Processes :
        /\ pc[p] \in Outside
        /\ \A u \in Units : task[p][u] \notin Working
        /\ pc[p] = "release" \/ \A u \in Units : task[p][u] # "queued"
  BY DEF Abandoned, Busy, Queued
<1>d. ASSUME NEW p \in Processes, NEW step \in Outside, GoTo(p, step),
             pc[p] # "release" \/ step = "release", UNCHANGED <<state, form, task>>
      PROVE  Left
  BY <1>a, <1>c, <1>d DEF GoTo, Abandoned, Busy, Queued
<1>e. ASSUME NEW p \in Processes, NEW step \in Outside, GoTo(p, step),
             task' = [task EXCEPT ![p] = NoTasks], UNCHANGED state,
             \A u \in Units : form'[u] \in {form[u], "invalid"}
      PROVE  Left
  BY <1>a, <1>c, <1>e DEF GoTo, Abandoned, Busy, Queued, NoTasks, Working, Committing
<1>1. ASSUME NEW p \in Processes, CallFresh(p) \/ CallResume(p) PROVE Left
  BY <1>1, <1>c, <1>d DEF CallFresh, CallResume, Call, ledger, units
<1>2. ASSUME NEW p \in Processes, OpenLock(p) PROVE Left
  BY <1>2, <1>c, <1>d DEF OpenLock, ledger, units
<1>3. ASSUME NEW p \in Processes, TryLock(p) PROVE Left
  BY <1>3, <1>b, <1>c, <1>d DEF TryLock, ledger, units
<1>4. ASSUME NEW p \in Processes, Release(p) PROVE Left
  BY <1>4, <1>e DEF Release, ledger, units
<1>5. ASSUME NEW p \in Processes, UnlinkLock(p) PROVE Left
  BY <1>5, <1>d DEF UnlinkLock, ledger, units
<1>6. ASSUME NEW p \in Processes, CheckResume(p) PROVE Left
  BY <1>6, <1>d DEF CheckResume, Step, ledger, units
<1>7. ASSUME NEW p \in Processes, Kill(p) PROVE Left
  <2>1. /\ GoTo(p, "idle") /\ task' = [task EXCEPT ![p] = NoTasks] /\ UNCHANGED state
        /\ \A u \in Units : form'[u] \in {form[u], "invalid"}
    BY <1>7 DEF Kill, Dies, ledger
  <2>2. QED
    BY <1>e, <2>1
<1>8. ASSUME NEW p \in Processes, NEW d \in {"interrupted", "failed"}, Interrupt(p, d)
      PROVE  Left
  <2>1. pc[p] \in {"lock", "flock", "check"} /\ UNCHANGED <<state, form, task>>
    BY <1>8, <1>c DEF Interrupt, ledger, units
  <2>2. GoTo(p, "release") \/ GoTo(p, "unname")
    BY <1>8, <2>1 DEF Interrupt, TrySteps
  <2>3. QED
    BY <1>d, <2>1, <2>2
<1>9. ASSUME NEW u \in Units, Damage(u) PROVE Left
  <2>1. UNCHANGED <<state, pc, task>> /\ \A v \in Units : form'[v] \in {form[v], "invalid"}
    BY <1>9, <1>a DEF Damage, ledger, control
  <2>2. QED
    BY <2>1 DEF Abandoned, Busy, Queued
<1>10. ASSUME UNCHANGED vars PROVE Left
  BY <1>10 DEF vars, control, ledger, units, Abandoned, Busy, Queued
<1>11. ASSUME NEW p \in Processes
       PROVE  /\ ~(WriteInputs(p) \/ ClearMarkers(p) \/ WriteRunning(p) \/ MarkRunning(p))
              /\ ~(ScanUnit(p) \/ StartWork(p) \/ EndWork(p) \/ EndDrain(p))
              /\ ~(VerifyUnits(p) \/ PublishResult(p) \/ UnmarkRunning(p))
              /\ ~(WriteGenerated(p) \/ ReturnResult(p) \/ KillPool(p))
              /\ ~(StopUnmark(p) \/ StopState(p) \/ StopMarker(p))
              /\ \A d \in {"interrupted", "failed"} : ~InterruptWork(p, d)
  BY <1>c DEF WriteInputs, ClearMarkers, WriteRunning, MarkRunning, ScanUnit, StartWork,
     EndWork, EndDrain, VerifyUnits, PublishResult, UnmarkRunning, WriteGenerated,
     ReturnResult, KillPool, StopUnmark, StopState, StopMarker, InterruptWork, Step
<1>12. ASSUME NEW p \in Processes, NEW u \in Units
       PROVE  ~Generate(p, u) /\ ~FailUnit(p, u)
  <2>1. ~MayBegin(p, u)
    BY <1>c DEF MayBegin
  <2>2. task[p][u] \notin Working
    BY <1>c
  <2>3. QED
    BY <2>1, <2>2 DEF Generate, BeginUnit, RefuseUnit, QuarantineUnit, PublishSiblings,
       DiscardStage, PublishReceipt, FinishReceipt, LoadUnit, AbortUnit, AbortQuarantine,
       FailUnit, Working, Committing
<1> HIDE DEF Left
<1>13. Left
  BY <1>1, <1>2, <1>3, <1>4, <1>5, <1>6, <1>7, <1>8, <1>9, <1>10, <1>11, <1>12
  DEF Next, Coordinate
<1>14. QED
  BY <1>13 DEF Left

-----------------------------------------------------------------------------
(* Theorems *)

LEMMA InitInvariant == Init => IInv
<1> SUFFICES ASSUME Init PROVE IInv
  OBVIOUS
<1> USE ProductionAssumption DEF Init
<1>1. TypeOK
  <2>1. 1 \in 1..NumWorkers
    BY DEF Init
  <2>2. workers \in [Processes -> 1..NumWorkers]
    BY <2>1
  <2>3. task \in [Processes -> [Units -> TaskSteps]]
    BY DEF NoTasks, TaskSteps
  <2>4. by \in [Units -> Processes \cup {NoProcess}]
    OBVIOUS
  <2>5. QED
    BY <2>2, <2>3, <2>4 DEF TypeOK, Steps, Forms
<1>2. LockSound
  BY DEF LockSound, TriesAFile, HolderHasName, OneCoordinatorUnlessExposed,
     OneCoordinator,
         Holding, LockedSteps, TrySteps
<1>3. InputsFirst /\ EndingNamed
  BY DEF InputsFirst, FirstCall, NothingBeforeInputs, Beyond, EndingNamed,
     LockedSteps, TrySteps
<1>4. LedgerSound
  BY DEF LedgerSound, LedgerFollows, LedgerAt, MarkerTellsState
<1>5. WorkersAttended /\ UnitsSound
  BY DEF UnitsSound, WorkersAttended, VerifiedComplete, GeneratedIsComplete, Busy,
     Queued, NoTasks,
         Working, Committing
<1>6. QED
  BY <1>1, <1>2, <1>3, <1>4, <1>5 DEF IInv

\* The invariant holds of every run of the system, whatever is killed, interrupted
\* or called twice.
THEOREM Invariant == Spec => []IInv
<1>1. IInv /\ [Next]_vars => IInv'
  BY TypeStep, LockStep, FirstCallStep, EndingStep, LedgerStep, WorkersStep,
     CompleteStep DEF IInv, LockSound
<1>2. QED
  BY InitInvariant, <1>1, PTL DEF Spec

\* Every variable keeps its type.
THEOREM TypeCorrect == Spec => []TypeOK
<1>1. IInv => TypeOK
  BY DEF IInv
<1>2. QED
  BY <1>1, Invariant, PTL

\* _exclusive_run_lock: two coordinators are in the locked section at once only
\* after the unlink of a refused or leaving call has exposed the lock; that unlink
\* is the only way in.
THEOREM LockExcludes == Spec => []OneCoordinatorUnlessExposed
<1>1. IInv => OneCoordinatorUnlessExposed
  BY DEF IInv, LockSound
<1>2. QED
  BY <1>1, Invariant, PTL

\* _prepare_run_state, _finish_generated_state and _transition_run_state: between any
\* two of their writes, and wherever they are killed, the one marker file there can
\* be is that of the ledger's disposition.
THEOREM MarkersAlwaysTell == Spec => []MarkerTellsState
<1>1. IInv => MarkerTellsState
  BY DEF IInv, LedgerSound
<1>2. QED
  BY <1>1, Invariant, PTL

\* run_production_generation: the ledger says "generated" only over groups that are
\* all committed.
THEOREM GeneratedAlwaysComplete == Spec => []GeneratedIsComplete
<1>1. IInv => GeneratedIsComplete
  BY DEF IInv, UnitsSound
<1>2. QED
  BY <1>1, Invariant, PTL

\* The scan and the commit: no call, resumed or fresh, alone or beside orphans, takes
\* or regenerates a complete unit that nobody is writing.
THEOREM CommittedAlwaysStay == Spec => CommittedUnitsStay
<1>1. IInv /\ [Next]_vars => [KeepsCommitted]_vars
  BY CommittedStep DEF IInv
<1>2. Spec => [][KeepsCommitted]_vars
  BY <1>1, Invariant, PTL DEF Spec
<1>3. QED
  BY <1>2 DEF CommittedUnitsStay, KeepsCommitted

\* _prepare_run_state refuses a failed run.  One that no coordinator and no worker
\* is left in stays failed, and its units stay, through any calls, kills and exposed
\* locks; one that a coordinator is still leaving, as long as nothing is exposed.
THEOREM FailedForGood == Spec => FailedIsTerminal
<1>1. IInv /\ [Next]_vars => [LeavesFailed /\ LeavesAbandoned]_vars
  BY FailedStep, AbandonedStep DEF IInv, LockSound
<1>2. Spec => [][LeavesFailed /\ LeavesAbandoned]_vars
  BY <1>1, Invariant, PTL DEF Spec
<1>3. LeavesFailed /\ LeavesAbandoned =>
        (state = "failed" /\ (exposed' = {} \/ Abandoned) =>
            /\ state' = "failed"
            /\ \A u \in Units : form'[u] \in {form[u], "invalid"}
            /\ Abandoned => Abandoned')
  BY DEF LeavesFailed, LeavesAbandoned
<1>4. QED
  BY <1>2, <1>3, PTL DEF FailedIsTerminal
=============================================================================
