------------------------- MODULE G3ExecutionProofs -------------------------
(***************************************************************************)
(* Proofs about G3Execution, for every registry and any number of          *)
(* processes, preflights and faults: the lock excludes, and a launch is    *)
(* executed by one call, and decides its tasks as the abstract run does;   *)
(* none of its own checks ever stops it, and what it cites is there.       *)
(***************************************************************************)
EXTENDS G3Execution, TLAPS, WellFoundedInduction

\* The types that the proofs need.
Typed ==
    /\ pc \in [Processes -> Steps]
    /\ seen \in [Processes -> Observations]
    /\ prepared \in [{"manifest", "receipt", "marker"} ->
                        {Unwritten, RunIdentity} \cup Observations]
    /\ lock \in Processes \cup {NoProcess}

Locked == {p \in Processes : pc[p] \notin BeforeStart \ {"start"}}

\* Whoever is past the lock has it.
Exclusive == \A p \in Locked : lock = p

\* There is a launch only where its marker was written.
MarkerFirst == launch # "none" => prepared["marker"] # Unwritten

IInv == Typed /\ Exclusive /\ MarkerFirst

\* Invariant.  At most one call executes at any time.
OneExecutor == \A p, q \in Executing : p = q

-----------------------------------------------------------------------------
LEMMA InitHolds == Init => IInv
<1> SUFFICES ASSUME Init PROVE IInv
  OBVIOUS
<1>1. (CHOOSE o \in Observations : TRUE) \in Observations
  BY ExecutionAssumption
<1>2. Typed
  BY <1>1 DEF Init, Typed, Steps
<1>3. Exclusive
  BY DEF Init, Exclusive, Locked, BeforeStart
<1>4. MarkerFirst
  BY DEF Init, StoreInit, MarkerFirst
<1> QED
  BY <1>2, <1>3, <1>4 DEF IInv

\* How most steps move a process: its call ends, or it goes on where it has the
\* lock or does not need it.
Moves(p) ==
    \/ \E step \in {"idle", "returned"} : End(p, step)
    \/ \E step \in Steps :
        /\ GoTo(p, step) /\ UNCHANGED <<lock, seen>>
        /\ p \in Locked \/ step \in BeforeStart \ {"start"}

\* Such a move keeps the types and the exclusion.
LEMMA MovesKeep ==
  ASSUME IInv, NEW p \in Processes, Moves(p)
  PROVE  /\ pc' \in [Processes -> Steps] /\ seen' \in [Processes -> Observations]
         /\ lock' \in Processes \cup {NoProcess}
         /\ Exclusive'
<1>1. CASE \E step \in {"idle", "returned"} : End(p, step)
  <2>1. (CHOOSE o \in Observations : TRUE) \in Observations
    BY ExecutionAssumption
  <2> QED
    BY <1>1, <2>1 DEF IInv, Typed, Exclusive, Locked, End, GoTo, Steps, BeforeStart
<1>2. CASE \E step \in Steps :
             /\ GoTo(p, step) /\ UNCHANGED <<lock, seen>>
             /\ p \in Locked \/ step \in BeforeStart \ {"start"}
  BY <1>2 DEF IInv, Typed, Exclusive, Locked, GoTo, Steps, BeforeStart
<1> QED
  BY <1>1, <1>2 DEF Moves

\* The steps of a launch move a process that has the lock, and leave the marker
\* as it was written.
LEMMA LaunchMoves ==
  ASSUME IInv, NEW p \in Processes,
         \/ Enter(p) \/ Task(p) \/ Finalize(p) \/ Kill(p) \/ Raise(p)
  PROVE  Moves(p) /\ UNCHANGED prepared /\ (launch' # "none" => launch # "none")
<1> USE DEF Moves, Locked, Steps, BeforeStart, Proceed, Stop, Here, durable, store
<1>1. CASE Enter(p)
  BY <1>1 DEF Enter
<1>2. CASE Science(p)
  BY <1>2 DEF Science
<1>3. CASE PublishLook(p)
  BY <1>3 DEF PublishLook
<1>4. CASE Bind(p)
  BY <1>4 DEF Bind, AfterBinding
<1>5. CASE CreateCheckpoint(p)
  BY <1>5 DEF CreateCheckpoint
<1>6. CASE BeginResult(p)
  BY <1>6 DEF BeginResult
<1>7. CASE Link(p)
  BY <1>7 DEF Link
<1>8. CASE Unlink(p)
  BY <1>8 DEF Unlink
<1>9. CASE Reverify(p)
  BY <1>9 DEF Reverify, After
<1>10. CASE Assemble(p)
  BY <1>10 DEF Assemble
<1>11. CASE PublishPair(p)
  BY <1>11 DEF PublishPair
<1>12. CASE CompleteLaunch(p)
  BY <1>12 DEF CompleteLaunch, Completes, CompletionAllowed, LeaseActive
<1>13. CASE PublishEvidence(p)
  BY <1>13 DEF PublishEvidence
<1>14. CASE Return(p)
  BY <1>14 DEF Return
<1>15. CASE Kill(p)
  BY <1>15 DEF Kill, Fault
<1>16. CASE Raise(p)
  BY <1>16 DEF Raise, Fault
<1> QED
  BY <1>1, <1>2, <1>3, <1>4, <1>5, <1>6, <1>7, <1>8, <1>9, <1>10, <1>11, <1>12,
     <1>13, <1>14, <1>15, <1>16 DEF Task, Finalize

LEMMA StepHolds == IInv /\ [Next]_vars => IInv'
<1> SUFFICES ASSUME IInv, [Next]_vars PROVE IInv'
  OBVIOUS
<1>1. CASE UNCHANGED vars
  BY <1>1 DEF vars, durable, local, store, IInv, Typed, Exclusive, Locked, MarkerFirst
<1>2. ASSUME NEW p \in Processes, Call(p) PROVE IInv'
  BY <1>2 DEF Call, GoTo, durable, store, IInv, Typed, Exclusive, Locked, MarkerFirst,
              Steps, BeforeStart
<1>3. ASSUME NEW p \in Processes, OpenRecord(p) PROVE IInv'
  <2>1. Moves(p) /\ UNCHANGED <<prepared, launch>>
    BY <1>3 DEF OpenRecord, Advance, Stop, Here, Moves, durable, store, Steps, BeforeStart
  <2> QED
    BY <2>1, MovesKeep DEF IInv, Typed, MarkerFirst
<1>4. ASSUME NEW p \in Processes, LinkSetup(p) PROVE IInv'
  <2>1. Moves(p)
    BY <1>4 DEF LinkSetup, Advance, Stop, Here, Moves, Steps, BeforeStart
  <2>2. /\ prepared' \in [{"manifest", "receipt", "marker"} ->
                            {Unwritten, RunIdentity} \cup Observations]
        /\ MarkerFirst'
    BY <1>4, ExecutionAssumption
    DEF LinkSetup, Written, Wanted, IInv, Typed, MarkerFirst, Unwritten, RunIdentity
  <2> QED
    BY <2>1, <2>2, MovesKeep DEF IInv, Typed
<1>5. ASSUME NEW p \in Processes, UnlinkSetup(p) PROVE IInv'
  <2>1. Moves(p) /\ UNCHANGED <<prepared, launch>>
    BY <1>5 DEF UnlinkSetup, Advance, Moves, Steps, BeforeStart
  <2> QED
    BY <2>1, MovesKeep DEF IInv, Typed, MarkerFirst
<1>6. ASSUME NEW p \in Processes, AcquireLock(p) PROVE IInv'
  <2>1. CASE Stop(p)
    BY <1>6, <2>1, MovesKeep
    DEF AcquireLock, Stop, Moves, durable, store, IInv, Typed, MarkerFirst
  <2>2. CASE ~Stop(p)
    BY <1>6, <2>2, ExecutionAssumption
    DEF AcquireLock, GoTo, durable, store, IInv, Typed, Exclusive, Locked, MarkerFirst,
        Steps, BeforeStart
  <2> QED
    BY <2>1, <2>2
<1>7. ASSUME NEW p \in Processes, StartLaunch(p) PROVE IInv'
  <2>1. Moves(p)
    BY <1>7 DEF StartLaunch, Proceed, Stop, Here, Moves, Locked, Steps, BeforeStart
  <2>2. UNCHANGED prepared /\ (launch' # "none" => launch # "none")
    BY <1>7 DEF StartLaunch, Startable
  <2> QED
    BY <2>1, <2>2, MovesKeep DEF IInv, Typed, MarkerFirst
<1>8. ASSUME NEW p \in Processes,
             \/ Enter(p) \/ Task(p) \/ Finalize(p) \/ Kill(p) \/ Raise(p)
      PROVE  IInv'
  BY <1>8, LaunchMoves, MovesKeep DEF IInv, Typed, MarkerFirst
<1> QED
  BY <1>1, <1>2, <1>3, <1>4, <1>5, <1>6, <1>7, <1>8 DEF Next, Prepare, Begin

\* The invariant holds in every behaviour.
LEMMA InvHolds == Spec => []IInv
BY InitHolds, StepHolds, PTL DEF Spec

-----------------------------------------------------------------------------
(* One execution *)

\* Whoever executes is past the lock.
LEMMA ExecutorLocked == Executing \subseteq Locked
BY DEF Executing, Locked, BeforeStart

\* At any time one call executes the launch.
THEOREM OneAtATime == Spec => []OneExecutor
<1>1. IInv => OneExecutor
  BY ExecutorLocked DEF IInv, Exclusive, OneExecutor
<1> QED
  BY <1>1, InvHolds, PTL

\* The preparation of a run publishes nothing once its launch has started.
LEMMA PreparationSpares ==
  ASSUME IInv, launch # "none", NEW p \in Processes, Prepare(p) \/ AcquireLock(p)
  PROVE  UNCHANGED published
<1> USE DEF published, durable, store
<1>1. CASE Call(p)
  BY <1>1 DEF Call
<1>2. CASE OpenRecord(p)
  BY <1>2 DEF OpenRecord
<1>3. CASE LinkSetup(p)
  BY <1>3 DEF LinkSetup, Written, IInv, MarkerFirst
<1>4. CASE UnlinkSetup(p)
  BY <1>4 DEF UnlinkSetup
<1>5. CASE AcquireLock(p)
  BY <1>5 DEF AcquireLock
<1> QED
  BY <1>1, <1>2, <1>3, <1>4, <1>5 DEF Prepare

\* Nobody gets past the start by preparing or waiting.
LEMMA PreparationStays ==
  ASSUME IInv, NEW p \in Processes, Prepare(p) \/ AcquireLock(p)
  PROVE  Executing' \subseteq Executing
<1> USE DEF GoTo, End, Stop, Here, IInv, Typed, Executing, BeforeStart
<1>1. CASE Call(p)
  BY <1>1 DEF Call
<1>2. CASE OpenRecord(p)
  BY <1>2 DEF OpenRecord, Advance
<1>3. CASE LinkSetup(p)
  BY <1>3 DEF LinkSetup, Advance
<1>4. CASE UnlinkSetup(p)
  BY <1>4 DEF UnlinkSetup, Advance
<1>5. CASE AcquireLock(p)
  BY <1>5 DEF AcquireLock
<1> QED
  BY <1>1, <1>2, <1>3, <1>4, <1>5 DEF Prepare

\* The steps of an execution are those of an executing process.
LEMMA ExecutorActs ==
  ASSUME NEW p \in Processes, Enter(p) \/ Task(p) \/ Finalize(p)
  PROVE  p \in Executing
BY DEF Executing, BeforeStart, Enter, Task, Finalize, Science, PublishLook, Bind,
       CreateCheckpoint, BeginResult, Link, Unlink, Reverify, Assemble, PublishPair,
       CompleteLaunch, PublishEvidence, Return

\* A launch that was started is executed by no other call, and left as it is when
\* that call is over: what is behind OneExecution.
THEOREM ExecutedOnce == Spec => OneExecution
<1> DEFINE Once == (launch \in {"running", "completed"}) =>
                     /\ Executing' \subseteq Executing
                     /\ Executing = {} => UNCHANGED published
<1>1. IInv /\ [Next]_vars => [Once]_vars
  <2> SUFFICES ASSUME IInv, Next, launch \in {"running", "completed"}
               PROVE  /\ Executing' \subseteq Executing
                      /\ Executing = {} => UNCHANGED published
    BY DEF Once
  <2>1. ASSUME NEW p \in Processes, Prepare(p) \/ AcquireLock(p)
        PROVE  Executing' \subseteq Executing /\ UNCHANGED published
    BY <2>1, PreparationSpares, PreparationStays
  <2>2. ASSUME NEW p \in Processes, StartLaunch(p)
        PROVE  Executing' \subseteq Executing /\ UNCHANGED published
    <3>1. ~Startable(p)
      BY DEF Startable
    <3>2. Stop(p) /\ UNCHANGED published
      BY <2>2, <3>1 DEF StartLaunch, Proceed, published
    <3> QED
      BY <3>2 DEF Stop, End, GoTo, IInv, Typed, Executing, BeforeStart
  <2>3. ASSUME NEW p \in Processes, Enter(p) \/ Task(p) \/ Finalize(p)
        PROVE  p \in Executing /\ Executing' \subseteq Executing
    <3>1. p \in Executing
      BY <2>3, ExecutorActs
    <3>2. Moves(p)
      BY <2>3, LaunchMoves
    <3> QED
      BY <3>1, <3>2 DEF Moves, End, GoTo, IInv, Typed, Executing
  <2>4. ASSUME NEW p \in Processes, Kill(p) \/ Raise(p)
        PROVE  Executing' \subseteq Executing /\ UNCHANGED published
    BY <2>4 DEF Kill, Raise, Fault, Stop, End, GoTo, durable, store, published, IInv,
                Typed, Executing, BeforeStart
  <2> QED
    BY <2>1, <2>2, <2>3, <2>4 DEF Next, Begin
<1> QED
  BY <1>1, InvHolds, PTL DEF Spec, OneExecution, Once

-----------------------------------------------------------------------------
(* Refinement: what a call carries from its science to its result *)

RunTyped ==
    /\ status \in [Tasks -> Statuses \cup {"absent"}]
    /\ selectedK \in [Tasks -> StateCounts \cup {NoCount}]
    /\ position \in [Processes -> Nat]
    /\ job \in [Processes -> Jobs]

\* Whoever waits for the lock or is past it is at a task.
AtTask(p) == pc[p] = "lock" \/ p \in Locked => position[p] \in Tasks

\* p has computed its task, and not yet bound what it found.
Choosing(p) ==
    \/ pc[p] \in {"looks", "bind"}
    \/ pc[p] \in {"link", "unlink"} /\ job[p].at # ResultDirectory

Chosen(p) == Choosing(p) /\ position[p] = SelectionTask => job[p].count \in StateCounts

\* p has bound it, and not yet published the result.
Deciding(p) ==
    \/ pc[p] \in {"checkpoint", "record"}
    \/ pc[p] = "link" /\ job[p].at = ResultDirectory

\* What the binding has found still holds when the result is linked.
CountIsRight(p) ==
    IF position[p] = SelectionTask
    THEN job[p].count \in IF job[p].outcome = "passed" THEN StateCounts ELSE {NoCount}
    ELSE job[p].count = selectedK[SelectionTask]

Decided(p) ==
    /\ launch = "running"
    /\ \A t \in Tasks : t >= position[p] => status[t] = "absent"
    /\ \A d \in Dependencies[position[p]] : status[d] = "passed"
    /\ CountIsRight(p)

\* The selection chooses the count, and every later task has it.
OneLineage ==
    \A t \in Tasks :
        /\ status[t] = "absent" => selectedK[t] = NoCount
        /\ t < SelectionTask => selectedK[t] = NoCount
        /\ t > SelectionTask /\ Present(t) => selectedK[t] = selectedK[SelectionTask]

RInv ==
    /\ IInv
    /\ RunTyped
    /\ OneLineage
    /\ \A p \in Processes : AtTask(p) /\ Chosen(p) /\ (Deciding(p) => Decided(p))

LEMMA RunInitHolds == Init => RInv
<1> SUFFICES ASSUME Init PROVE RInv
  OBVIOUS
<1>1. NoJob \in Jobs
  BY RegistryAssumption DEF NoJob, Jobs, Endings, Directories, ResultDirectory
<1>2. RunTyped
  BY <1>1 DEF Init, StoreInit, RunTyped
<1>3. OneLineage
  BY DEF Init, StoreInit, OneLineage, Present
<1>4. \A p \in Processes : AtTask(p) /\ Chosen(p) /\ (Deciding(p) => Decided(p))
  BY DEF Init, AtTask, Locked, BeforeStart, Chosen, Choosing, Deciding
<1> QED
  BY <1>2, <1>3, <1>4, InitHolds DEF RInv

\* A set of naturals that is not empty has a least element.
LEMMA LeastElement ==
  ASSUME NEW T \in SUBSET Nat, T # {}
  PROVE  \E x \in T : \A y \in T : x <= y
<1>1. IsWellFoundedOn(OpToRel(<, Nat), Nat)
  BY NatLessThanWellFounded
<1>2. PICK x \in T : \A y \in T : ~(<<y, x>> \in OpToRel(<, Nat))
  BY <1>1, WFMin
<1>3. \A y \in T : ~(y < x)
  BY <1>2 DEF OpToRel
<1> QED
  BY <1>3

\* The next look is of a family, and so not a result.
LEMMA NextFamilyIsFamily ==
  ASSUME NEW p \in Processes, Unfinished(p) # {}
  PROVE  NextFamily(p) \in Directories /\ NextFamily(p) # ResultDirectory
<1>1. Unfinished(p) \in SUBSET Families
  BY DEF Unfinished, Owned
<1>2. \E f \in Unfinished(p) : \A g \in Unfinished(p) : f <= g
  <2>1. Unfinished(p) \in SUBSET Nat
    BY <1>1, RegistryAssumption DEF Families
  <2> QED
    BY <2>1, LeastElement
<1> QED
  BY <1>1, <1>2, RegistryAssumption DEF NextFamily, Families, Directories, ResultDirectory

\* A step of p leaves every other call where it is, and p at a task.
Own(p) ==
    /\ position' \in [Processes -> Nat] /\ job' \in [Processes -> Jobs]
    /\ \A q \in Processes \ {p} : /\ pc'[q] = pc[q]
                                 /\ position'[q] = position[q]
                                 /\ job'[q] = job[q]
    /\ AtTask(p)' /\ Chosen(p)'

LEMMA EndOwns ==
  ASSUME RInv, NEW p \in Processes, NEW step \in {"idle", "returned"}, End(p, step)
  PROVE  Own(p) /\ ~Deciding(p)'
<1>1. NoJob \in Jobs
  BY RegistryAssumption DEF NoJob, Jobs, Endings, Directories, ResultDirectory
<1> QED
  BY <1>1 DEF Own, RInv, IInv, Typed, RunTyped, End, GoTo, MoveTo, AtTask, Chosen, Choosing,
              Deciding, Locked, BeforeStart

\* So does a step that only moves p on.
LEMMA GoingOwns ==
  ASSUME RInv, NEW p \in Processes, NEW step \in Steps, GoTo(p, step), Here(p),
         pc[p] = "lock" \/ p \in Locked \/ step \in BeforeStart \ {"start", "lock"},
         step \in {"looks", "bind", "link", "unlink"} => Choosing(p)
  PROVE  Own(p)
BY DEF Own, RInv, IInv, Typed, RunTyped, GoTo, Here, AtTask, Chosen, Choosing, Locked, BeforeStart

\* Every step but a link of a result and those of the marker leaves what a call
\* has decided on as it is.
LEMMA PreparationOwns ==
  ASSUME RInv, NEW p \in Processes, Prepare(p) \/ Begin(p)
  PROVE  Own(p) /\ ~Deciding(p)' /\ UNCHANGED <<status, selectedK>>
<1> USE DEF Stop, Steps, BeforeStart, Locked, durable, store
<1>1. ASSUME Advance(p), pc[p] \in BeforeStart PROVE Own(p) /\ ~Deciding(p)'
  <2>1. 1 \in Tasks
    BY RegistryAssumption DEF Tasks
  <2> QED
    BY <1>1, <2>1 DEF Own, RInv, IInv, Typed, RunTyped, Advance, GoTo, MoveTo, AtTask, Chosen,
                      Choosing, Deciding
<1>2. ASSUME NEW step \in Steps \ {"looks", "bind", "link", "unlink", "checkpoint", "record"},
             GoTo(p, step), Here(p),
             pc[p] = "lock" \/ p \in Locked \/ step \in BeforeStart \ {"start", "lock"}
      PROVE  Own(p) /\ ~Deciding(p)'
  BY <1>2, GoingOwns DEF Deciding, GoTo, RInv, IInv, Typed
<1>3. CASE Call(p)
  BY <1>3 DEF Call, Own, RInv, IInv, Typed, RunTyped, GoTo, AtTask, Chosen, Choosing, Deciding
<1>4. CASE OpenRecord(p)
  BY <1>4, <1>1, <1>2, EndOwns DEF OpenRecord
<1>5. CASE LinkSetup(p)
  BY <1>5, <1>1, <1>2, EndOwns DEF LinkSetup
<1>6. CASE UnlinkSetup(p)
  BY <1>6, <1>1 DEF UnlinkSetup
<1>7. CASE AcquireLock(p)
  <2>1. CASE Stop(p)
    BY <1>7, <2>1, EndOwns DEF AcquireLock
  <2>2. CASE ~Stop(p)
    BY <1>7, <2>2 DEF AcquireLock, Own, RInv, IInv, Typed, RunTyped, GoTo, AtTask, Chosen,
                      Choosing, Deciding
  <2> QED
    BY <1>7, <2>1, <2>2 DEF AcquireLock
<1>8. CASE StartLaunch(p)
  BY <1>8, <1>2, EndOwns DEF StartLaunch, Proceed
<1>9. CASE Enter(p)
  BY <1>9, <1>2, EndOwns DEF Enter, Proceed
<1> QED
  BY <1>3, <1>4, <1>5, <1>6, <1>7, <1>8, <1>9 DEF Prepare, Begin

\* Binding finds the count that the result is to carry, and the results that it
\* rests on.
LEMMA BindingDecides ==
  ASSUME RInv, NEW p \in Processes, pc[p] = "bind", Bindable(position[p])
  PROVE  LET t == position[p]
             k == CountOf(t, job[p].outcome, job[p].count)
         IN  /\ launch = "running"
             /\ \A u \in Tasks : u >= t => status[u] = "absent"
             /\ \A d \in Dependencies[t] : status[d] = "passed"
             /\ IF t = SelectionTask
                THEN k \in IF job[p].outcome = "passed" THEN StateCounts ELSE {NoCount}
                ELSE k = selectedK[SelectionTask]
             /\ k \in StateCounts \cup {NoCount}
<1> DEFINE t == position[p]
           k == CountOf(t, job[p].outcome, job[p].count)
<1>1. /\ t \in Tasks /\ SelectionTask \in Tasks /\ Tasks \subseteq Nat
      /\ t \in Nat /\ SelectionTask \in Nat
  <2>1. p \in Locked
    BY DEF Locked, BeforeStart
  <2>2. Tasks \subseteq Nat
    BY RegistryAssumption DEF Tasks
  <2> QED
    BY <2>1, <2>2, SelectionAssumption DEF RInv, AtTask
<1>2. Dependencies[t] \subseteq Tasks /\ \A d \in Dependencies[t] : d < t
  BY <1>1, RegistryAssumption
<1>3. launch = "running" /\ ExactPrefix(t - 1)
  BY DEF Bindable, LeaseActive
<1>4. \A u \in Tasks : u >= t => status[u] = "absent"
  <2>1. ASSUME NEW u \in Tasks, u >= t PROVE status[u] = "absent"
    <3>1. ~(u <= t - 1)
      BY <1>1, <2>1
    <3> QED
      BY <1>3, <3>1 DEF ExactPrefix, Present
  <2> QED
    BY <2>1
<1>5. \A d \in Dependencies[t] : status[d] = "passed"
  BY DEF Bindable, Loads
<1>6. CASE t < SelectionTask
  <2>1. k = NoCount
    BY <1>6 DEF CountOf
  <2>2. selectedK[SelectionTask] = NoCount
    BY <1>1, <1>4, <1>6 DEF RInv, OneLineage
  <2> QED
    BY <1>1, <1>3, <1>4, <1>5, <1>6, <2>1, <2>2
<1>7. CASE t = SelectionTask
  <2>1. k = IF job[p].outcome = "passed" THEN job[p].count ELSE NoCount
    BY <1>1, <1>7 DEF CountOf
  <2>2. job[p].count \in StateCounts
    BY <1>7 DEF RInv, Chosen, Choosing
  <2> QED
    BY <1>3, <1>4, <1>5, <1>7, <2>1, <2>2
<1>8. CASE t > SelectionTask
  <2>1. k = CHOOSE c \in StateCounts : c \in Frozen(t)
    BY <1>1, <1>8 DEF CountOf
  <2>2. PICK c \in StateCounts : Frozen(t) = {c}
    BY <1>1, <1>8 DEF Bindable
  <2>3. k = c
    BY <2>1, <2>2
  <2>4. PICK d \in Dependencies[t] : c = selectedK[d] /\ c # NoCount
    BY <2>2 DEF Frozen
  <2>5. selectedK[d] = selectedK[SelectionTask]
    <3>1. d \in Tasks /\ d \in Nat /\ status[d] = "passed"
      BY <1>1, <1>2, <1>5
    <3>2. ~(d < SelectionTask)
      BY <2>4, <3>1 DEF RInv, OneLineage
    <3> QED
      BY <1>1, <3>1, <3>2 DEF RInv, OneLineage, Present
  <2> QED
    BY <1>1, <1>3, <1>4, <1>5, <1>8, <2>3, <2>4, <2>5
<1> QED
  BY <1>1, <1>6, <1>7, <1>8

\* A job keeps its type and its other fields when one of them is set.
LEMMA JobChanges ==
  ASSUME NEW j \in Jobs
  PROVE  /\ \A d \in Directories : LET n == [j EXCEPT !.at = d] IN
              n \in Jobs /\ n.at = d /\ n.count = j.count /\ n.outcome = j.outcome
              /\ n.plan = j.plan
         /\ \A k \in StateCounts \cup {NoCount} : LET n == [j EXCEPT !.count = k] IN
              n \in Jobs /\ n.at = j.at /\ n.count = k /\ n.outcome = j.outcome
              /\ n.plan = j.plan
BY DEF Jobs

\* The steps of a task and of the end leave p at a task, with what it has chosen.
LEMMA TaskOwns ==
  ASSUME RInv, NEW p \in Processes, Task(p)
  PROVE  Own(p)
<1> USE DEF Stop, Steps, BeforeStart, Locked
<1> USE DEF RInv, IInv, Typed, RunTyped, AtTask
<1>1. CASE Science(p)
  <2>1. CASE Stop(p)
    BY <2>1, EndOwns
  <2>2. CASE ~Stop(p)
    <3>1. position[p] \in Tasks
      BY <1>1 DEF Science
    <3>2. PICK outcome \in {"passed", "failed"}, plan \in Plans(position[p]),
               k \in IF position[p] = SelectionTask THEN StateCounts ELSE {NoCount} :
            job' = [job EXCEPT ![p] = [outcome |-> outcome, count |-> k,
                                       plan |-> plan, at |-> ResultDirectory]]
      BY <1>1, <2>2 DEF Science
    <3>3. plan \in Endings
      BY <3>1 DEF Endings
    <3>4. [outcome |-> outcome, count |-> k, plan |-> plan, at |-> ResultDirectory] \in Jobs
      BY <3>3, RegistryAssumption DEF Jobs, Directories, ResultDirectory
    <3> QED
      BY <1>1, <2>2, <3>1, <3>2, <3>4 DEF Science, Own, GoTo, Chosen, Choosing
  <2> QED
    BY <2>1, <2>2
<1>2. CASE PublishLook(p)
  <2>1. CASE Unfinished(p) = {}
    BY <1>2, <2>1, GoingOwns DEF PublishLook, Choosing
  <2>2. CASE Stop(p)
    BY <2>2, EndOwns
  <2>3. CASE Unfinished(p) # {} /\ ~Stop(p)
    <3>1. job' = [job EXCEPT ![p] = [job[p] EXCEPT !.at = NextFamily(p)]]
      BY <1>2, <2>3 DEF PublishLook
    <3>2. /\ job'[p] \in Jobs /\ job'[p].at # ResultDirectory
          /\ job'[p].count = job[p].count
      BY <2>3, <3>1, NextFamilyIsFamily, JobChanges
    <3> QED
      BY <1>2, <2>3, <3>1, <3>2 DEF PublishLook, Own, GoTo, Chosen, Choosing
  <2> QED
    BY <2>1, <2>2, <2>3
<1>3. CASE Bind(p)
  <2>1. CASE Stop(p)
    BY <2>1, EndOwns
  <2>2. CASE ~Stop(p)
    <3> DEFINE k == CountOf(position[p], job[p].outcome, job[p].count)
    <3>1. k \in StateCounts \cup {NoCount}
      BY <1>3, <2>2, BindingDecides DEF Bind
    <3>2. job' = [job EXCEPT ![p] = [job[p] EXCEPT !.count = k]]
      BY <1>3, <2>2 DEF Bind
    <3>3. job'[p] \in Jobs
      BY <3>1, <3>2, JobChanges
    <3> QED
      BY <1>3, <2>2, <3>2, <3>3 DEF Bind, AfterBinding, Own, GoTo, Chosen, Choosing
  <2> QED
    BY <2>1, <2>2
<1>4. CASE CreateCheckpoint(p)
  BY <1>4, EndOwns, GoingOwns DEF CreateCheckpoint
<1>5. CASE BeginResult(p)
  <2>1. CASE Stop(p)
    BY <2>1, EndOwns
  <2>2. CASE ~Stop(p)
    <3>1. job' = [job EXCEPT ![p] = [job[p] EXCEPT !.at = ResultDirectory]]
      BY <1>5, <2>2 DEF BeginResult
    <3>2. job'[p] \in Jobs /\ job'[p].at = ResultDirectory
      <4>1. ResultDirectory \in Directories
        BY RegistryAssumption DEF Directories, ResultDirectory
      <4> QED
        BY <3>1, <4>1, JobChanges
    <3> QED
      BY <1>5, <2>2, <3>1, <3>2 DEF BeginResult, Own, GoTo, Chosen, Choosing
  <2> QED
    BY <2>1, <2>2
<1>6. CASE Link(p)
  BY <1>6 DEF Link, Here, Own, GoTo, Chosen, Choosing
<1>7. CASE Unlink(p)
  BY <1>7 DEF Unlink, Here, Own, GoTo, Chosen, Choosing
<1>8. CASE Reverify(p)
  <2>1. CASE Stop(p)
    BY <2>1, EndOwns
  <2>2. CASE ~Stop(p)
    <3> DEFINE n == IF position[p] = NumTasks THEN position[p] ELSE position[p] + 1
    <3>1. n \in Tasks /\ n \in Nat
      <4>1. position[p] \in Tasks
        BY <1>8 DEF Reverify
      <4>2. NumTasks \in Nat \ {0} /\ Tasks = 1..NumTasks
        BY RegistryAssumption DEF Tasks
      <4> QED
        BY <4>1, <4>2
    <3>2. NoJob \in Jobs
      BY RegistryAssumption DEF NoJob, Jobs, Endings, Directories, ResultDirectory
    <3>3. /\ GoTo(p, After(position[p])) /\ MoveTo(p, n)
          /\ job' = [job EXCEPT ![p] = NoJob]
      BY <1>8, <2>2 DEF Reverify
    <3>4. After(position[p]) \in {"complete", "assemble", "science"}
      BY DEF After
    <3> HIDE DEF n
    <3> QED
      BY <3>1, <3>2, <3>3, <3>4 DEF Own, GoTo, MoveTo, Chosen, Choosing
  <2> QED
    BY <2>1, <2>2
<1> QED
  BY <1>1, <1>2, <1>3, <1>4, <1>5, <1>6, <1>7, <1>8 DEF Task

LEMMA FinalizeOwns ==
  ASSUME RInv, NEW p \in Processes, Finalize(p) \/ Kill(p) \/ Raise(p)
  PROVE  Own(p) /\ ~Deciding(p)' /\ UNCHANGED <<status, selectedK>>
<1> USE DEF Stop, Steps, BeforeStart, Locked, durable, store
<1>1. ASSUME NEW step \in Steps \ {"looks", "bind", "link", "unlink", "checkpoint", "record"},
             GoTo(p, step), Here(p), p \in Locked
      PROVE  Own(p) /\ ~Deciding(p)'
  BY <1>1, GoingOwns DEF Deciding, GoTo, RInv, IInv, Typed
<1>2. CASE Assemble(p)
  BY <1>1, <1>2, EndOwns DEF Assemble, Proceed
<1>3. CASE PublishPair(p)
  BY <1>1, <1>3 DEF PublishPair
<1>4. CASE CompleteLaunch(p)
  BY <1>1, <1>4, EndOwns DEF CompleteLaunch, Proceed
<1>5. CASE PublishEvidence(p)
  BY <1>1, <1>5, EndOwns DEF PublishEvidence, Proceed
<1>6. CASE Return(p)
  BY <1>6, EndOwns DEF Return
<1>7. CASE Kill(p)
  BY <1>7, EndOwns DEF Kill, Fault
<1>8. CASE Raise(p)
  BY <1>8, EndOwns DEF Raise, Fault
<1> QED
  BY <1>2, <1>3, <1>4, <1>5, <1>6, <1>7, <1>8 DEF Finalize

\* The step of a process.
Step(p) == Prepare(p) \/ Begin(p) \/ Task(p) \/ Finalize(p) \/ Kill(p) \/ Raise(p)

\* A call that comes to a decision decides right.
LEMMA TaskDecides ==
  ASSUME RInv, NEW p \in Processes, Task(p)
  PROVE  (Deciding(p) => Decided(p))'
<1> USE DEF RInv, IInv, Typed, RunTyped
<1>1. ASSUME Stop(p) PROVE ~Deciding(p)'
  BY <1>1, EndOwns DEF Stop
<1>2. CASE Science(p)
  BY <1>2, <1>1 DEF Science, GoTo, Deciding
<1>3. CASE PublishLook(p)
  <2>1. CASE Unfinished(p) = {}
    BY <1>3, <2>1 DEF PublishLook, GoTo, Deciding
  <2>2. CASE Unfinished(p) # {} /\ ~Stop(p)
    <3>1. job' = [job EXCEPT ![p] = [job[p] EXCEPT !.at = NextFamily(p)]]
      BY <1>3, <2>2 DEF PublishLook
    <3>2. job'[p].at # ResultDirectory
      BY <2>2, <3>1, NextFamilyIsFamily, JobChanges
    <3> QED
      BY <1>3, <2>2, <3>2 DEF PublishLook, GoTo, Deciding
  <2> QED
    BY <1>1, <2>1, <2>2
<1>4. CASE Bind(p)
  <2>1. CASE ~Stop(p)
    <3> DEFINE k == CountOf(position[p], job[p].outcome, job[p].count)
    <3>1. pc[p] = "bind" /\ Bindable(position[p]) /\ UNCHANGED <<store, position>>
      BY <1>4, <2>1 DEF Bind, durable
    <3>2. /\ launch = "running"
          /\ \A u \in Tasks : u >= position[p] => status[u] = "absent"
          /\ \A d \in Dependencies[position[p]] : status[d] = "passed"
          /\ IF position[p] = SelectionTask
             THEN k \in IF job[p].outcome = "passed" THEN StateCounts ELSE {NoCount}
             ELSE k = selectedK[SelectionTask]
          /\ k \in StateCounts \cup {NoCount}
      BY <3>1, BindingDecides
    <3>3. job' = [job EXCEPT ![p] = [job[p] EXCEPT !.count = k]]
      BY <1>4, <2>1 DEF Bind
    <3>4. job'[p].count = k /\ job'[p].outcome = job[p].outcome
      BY <3>2, <3>3, JobChanges
    <3> HIDE DEF k
    <3> QED
      BY <3>1, <3>2, <3>4 DEF store, Decided, CountIsRight
  <2> QED
    BY <1>1, <2>1
<1>5. CASE CreateCheckpoint(p)
  <2>1. CASE ~Stop(p)
    BY <1>5, <2>1 DEF CreateCheckpoint, Here, store, Deciding, Decided, CountIsRight
  <2> QED
    BY <1>1, <2>1
<1>6. CASE BeginResult(p)
  <2>1. CASE ~Stop(p)
    <3>1. job' = [job EXCEPT ![p] = [job[p] EXCEPT !.at = ResultDirectory]]
      BY <1>6, <2>1 DEF BeginResult
    <3>2. ResultDirectory \in Directories
      BY RegistryAssumption DEF Directories, ResultDirectory
    <3>3. job'[p].count = job[p].count /\ job'[p].outcome = job[p].outcome
      BY <3>1, <3>2, JobChanges
    <3>4. Decided(p)
      BY <1>6 DEF BeginResult, Deciding
    <3> QED
      BY <1>6, <2>1, <3>3, <3>4 DEF BeginResult, Decided, CountIsRight
  <2> QED
    BY <1>1, <2>1
<1>7. CASE Link(p)
  BY <1>7 DEF Link, GoTo, Deciding
<1>8. CASE Unlink(p)
  BY <1>8 DEF Unlink, GoTo, Deciding
<1>9. CASE Reverify(p)
  BY <1>9, <1>1 DEF Reverify, After, GoTo, Deciding
<1> QED
  BY <1>2, <1>3, <1>4, <1>5, <1>6, <1>7, <1>8, <1>9 DEF Task

\* Who has not the lock changes nothing that is published once there is a launch.
LEMMA OutsiderSpares ==
  ASSUME IInv, launch # "none", NEW p \in Processes, p \notin Locked, Step(p)
  PROVE  UNCHANGED published
<1>1. CASE Prepare(p) \/ AcquireLock(p)
  BY <1>1, PreparationSpares
<1>2. CASE StartLaunch(p)
  BY <1>2 DEF StartLaunch, Locked, BeforeStart
<1>3. CASE Enter(p) \/ Task(p) \/ Finalize(p)
  BY <1>3, ExecutorActs, ExecutorLocked
<1>4. CASE Kill(p) \/ Raise(p)
  BY <1>4 DEF Kill, Raise, durable, store, published
<1> QED
  BY <1>1, <1>2, <1>3, <1>4 DEF Step, Begin

\* What a call has decided stays right while others step.
LEMMA OthersKeep ==
  ASSUME RInv, NEW p \in Processes, Step(p), Own(p), NEW q \in Processes \ {p}
  PROVE  AtTask(q)' /\ Chosen(q)' /\ (Deciding(q) => Decided(q))'
<1>1. AtTask(q)' /\ Chosen(q)'
  BY DEF Own, RInv, AtTask, Chosen, Choosing, Locked
<1>2. ASSUME Deciding(q)' PROVE Decided(q)'
  <2>1. Deciding(q) /\ Decided(q)
    BY <1>2 DEF Own, RInv, Deciding
  <2>2. q \in Locked /\ launch # "none"
    BY <2>1 DEF Deciding, Decided, Locked, BeforeStart
  <2>3. p \notin Locked
    BY <2>2 DEF RInv, IInv, Exclusive
  <2>4. UNCHANGED published
    BY <2>2, <2>3, OutsiderSpares DEF RInv
  <2> QED
    BY <2>1, <2>4 DEF Own, published, Decided, CountIsRight
<1> QED
  BY <1>1, <1>2

\* A result is linked where a call has decided on it.
ResultLinked(p) == Link(p) /\ job[p].at = ResultDirectory

\* Nothing else decides a task.
LEMMA OnlyResultsDecide ==
  ASSUME RInv, NEW p \in Processes, Step(p), ~ResultLinked(p)
  PROVE  UNCHANGED <<status, selectedK>>
<1>1. CASE Task(p)
  BY <1>1 DEF Task, Science, PublishLook, Bind, CreateCheckpoint, BeginResult, Link, Unlink,
              Reverify, ResultLinked, durable, store
<1>2. CASE Prepare(p) \/ Begin(p)
  BY <1>2, PreparationOwns
<1>3. CASE Finalize(p) \/ Kill(p) \/ Raise(p)
  BY <1>3, FinalizeOwns
<1> QED
  BY <1>1, <1>2, <1>3 DEF Step

\* What is linked is what was decided.
LEMMA ResultIsDecided ==
  ASSUME RInv, NEW p \in Processes, ResultLinked(p)
  PROVE  /\ position[p] \in Tasks /\ Decided(p) /\ UNCHANGED launch
         /\ job[p].outcome \in {"passed", "failed"}
         /\ job[p].count \in StateCounts \cup {NoCount}
         /\ status' = [status EXCEPT ![position[p]] = job[p].outcome]
         /\ selectedK' = [selectedK EXCEPT ![position[p]] = job[p].count]
<1>1. Link(p) /\ pc[p] = "link" /\ job[p].at = ResultDirectory
  BY DEF ResultLinked, Link
<1>2. p \in Locked /\ Deciding(p)
  BY <1>1 DEF Locked, BeforeStart, Deciding
<1>3. job[p] \in Jobs
  BY DEF RInv, RunTyped
<1> QED
  BY <1>1, <1>2, <1>3 DEF RInv, AtTask, Link, Jobs

LEMMA LineageKept ==
  ASSUME RInv, NEW p \in Processes, ResultLinked(p)
  PROVE  /\ status' \in [Tasks -> Statuses \cup {"absent"}]
         /\ selectedK' \in [Tasks -> StateCounts \cup {NoCount}]
         /\ OneLineage'
<1> DEFINE t == position[p]
<1>1. /\ t \in Tasks /\ Decided(p)
      /\ job[p].outcome \in {"passed", "failed"}
      /\ job[p].count \in StateCounts \cup {NoCount}
      /\ status' = [status EXCEPT ![t] = job[p].outcome]
      /\ selectedK' = [selectedK EXCEPT ![t] = job[p].count]
  BY ResultIsDecided
<1>2. /\ status' \in [Tasks -> Statuses \cup {"absent"}]
      /\ selectedK' \in [Tasks -> StateCounts \cup {NoCount}]
  BY <1>1 DEF RInv, RunTyped, Statuses
<1>3. SelectionTask \in Tasks /\ Tasks \subseteq Nat
  BY SelectionAssumption, RegistryAssumption DEF Tasks
<1>4. ASSUME NEW u \in Tasks
      PROVE  /\ status'[u] = "absent" => selectedK'[u] = NoCount
             /\ u < SelectionTask => selectedK'[u] = NoCount
             /\ u > SelectionTask /\ status'[u] # "absent" =>
                  selectedK'[u] = selectedK'[SelectionTask]
  <2>1. t \in Nat /\ u \in Nat /\ SelectionTask \in Nat
    BY <1>1, <1>3
  <2>2. CASE u = t
    <3>1. u < SelectionTask => selectedK[SelectionTask] = NoCount
      BY <1>1, <1>3, <2>1, <2>2 DEF Decided, RInv, OneLineage
    <3> QED
      BY <1>1, <1>3, <2>1, <2>2, <3>1 DEF RInv, RunTyped, Decided, CountIsRight
  <2>3. CASE u # t
    <3>1. status'[u] = status[u] /\ selectedK'[u] = selectedK[u]
      BY <1>1, <2>3 DEF RInv, RunTyped
    <3>2. CASE t = SelectionTask
      BY <1>1, <2>1, <3>1, <3>2 DEF Decided, RInv, OneLineage
    <3>3. CASE t # SelectionTask
      BY <1>1, <1>3, <3>1, <3>3 DEF RInv, RunTyped, OneLineage, Present
    <3> QED
      BY <3>2, <3>3
  <2> QED
    BY <2>2, <2>3
<1> QED
  BY <1>2, <1>4 DEF OneLineage, Present

LEMMA RunStepHolds == RInv /\ [Next]_vars => RInv'
<1> SUFFICES ASSUME RInv, [Next]_vars PROVE RInv'
  OBVIOUS
<1>1. IInv'
  BY StepHolds DEF RInv
<1>2. CASE UNCHANGED vars
  BY <1>1, <1>2 DEF vars, durable, local, store, RInv, RunTyped, OneLineage, Present, AtTask,
     Locked, Chosen, Choosing, Deciding, Decided, CountIsRight
<1>3. ASSUME NEW p \in Processes, Step(p) PROVE RInv'
  <2>1. Own(p) /\ (Deciding(p) => Decided(p))'
    BY <1>3, PreparationOwns, TaskOwns, TaskDecides, FinalizeOwns DEF Step
  <2>2. \A q \in Processes \ {p} : AtTask(q)' /\ Chosen(q)' /\ (Deciding(q) => Decided(q))'
    BY <1>3, <2>1, OthersKeep
  <2>3. /\ status' \in [Tasks -> Statuses \cup {"absent"}]
        /\ selectedK' \in [Tasks -> StateCounts \cup {NoCount}]
        /\ OneLineage'
    <3>1. CASE ResultLinked(p)
      BY <3>1, LineageKept
    <3>2. CASE ~ResultLinked(p)
      BY <1>3, <3>2, OnlyResultsDecide DEF RInv, RunTyped, OneLineage, Present
    <3> QED
      BY <3>1, <3>2
  <2> QED
    BY <1>1, <2>1, <2>2, <2>3 DEF RInv, RunTyped, Own
<1> QED
  BY <1>2, <1>3 DEF Next, Step

LEMMA RunInvHolds == Spec => []RInv
BY RunInitHolds, RunStepHolds, PTL DEF Spec

-----------------------------------------------------------------------------
(* The launch implements the run *)

\* Linking a result decides its task.
LEMMA LinkDecides ==
  ASSUME RInv, NEW p \in Processes, ResultLinked(p)
  PROVE  Run!Decide(position[p])
<1> DEFINE t == position[p]
<1>1. /\ t \in Tasks /\ Decided(p) /\ UNCHANGED launch
      /\ job[p].outcome \in {"passed", "failed"}
      /\ status' = [status EXCEPT ![t] = job[p].outcome]
      /\ selectedK' = [selectedK EXCEPT ![t] = job[p].count]
  BY ResultIsDecided
<1>2. t \in Nat
  BY <1>1, RegistryAssumption DEF Tasks
<1>3. /\ launch = "running" /\ status[t] = "absent"
      /\ \A d \in Dependencies[t] : status[d] = "passed"
  BY <1>1, <1>2 DEF Decided
<1>4. job[p].outcome \in Run!Verdicts(t)
  BY <1>1, <1>3 DEF Run!Verdicts
<1>5. job[p].count \in Run!Counts(t, job[p].outcome)
  BY <1>1 DEF Decided, CountIsRight, Run!Counts, NoCount
<1> QED
  BY <1>1, <1>3, <1>4, <1>5 DEF Run!Decide

\* What else is done to the marker does not end the launch, but for its completion.
LEMMA MarkerMoves ==
  ASSUME RInv, NEW p \in Processes, Step(p)
  PROVE  \/ (launch' = "completed") = (launch = "completed")
         \/ launch = "running" /\ launch' = "completed" /\ CompletionAllowed
<1>1. CASE LinkSetup(p)
  BY <1>1 DEF LinkSetup, RInv, IInv, MarkerFirst, Written
<1>2. CASE StartLaunch(p)
  BY <1>2 DEF StartLaunch, Startable
<1>3. CASE CompleteLaunch(p)
  BY <1>3 DEF CompleteLaunch, Completes, CompletionAllowed, LeaseActive
<1>4. CASE UNCHANGED launch
  BY <1>4
<1>5. ASSUME ~LinkSetup(p), ~StartLaunch(p), ~CompleteLaunch(p) PROVE UNCHANGED launch
  BY <1>5 DEF Step, Prepare, Begin, Task, Finalize, Call, OpenRecord, UnlinkSetup, AcquireLock,
     Enter, Science, PublishLook, Bind, CreateCheckpoint, BeginResult, Link, Unlink, Reverify,
     Assemble, PublishPair, PublishEvidence, Return, Kill, Raise, durable, store
<1> QED
  BY <1>1, <1>2, <1>3, <1>4, <1>5

\* The command decides each task once, in dependency order, with one state count,
\* and completes once: what is behind ImplementsDagRun.
THEOREM ExecutionImplementsRun == Spec => ImplementsDagRun
<1>1. Init => Run!Init
  BY DEF Init, StoreInit, Run!Init, NoCount
<1>2. RInv /\ [Next]_vars => [Run!Next]_(Run!vars)
  <2> SUFFICES ASSUME RInv, Next PROVE [Run!Next]_(Run!vars)
    BY DEF vars, durable, store, Run!vars
  <2>1. PICK p \in Processes : Step(p)
    BY DEF Next, Step
  <2>2. CASE ResultLinked(p)
    BY <2>2, LinkDecides, ResultIsDecided DEF Run!Next
  <2>3. CASE ~ResultLinked(p)
    <3>1. UNCHANGED <<status, selectedK>>
      BY <2>1, <2>3, OnlyResultsDecide
    <3>2. CASE (launch' = "completed") = (launch = "completed")
      BY <3>1, <3>2 DEF Run!vars
    <3>3. CASE launch = "running" /\ launch' = "completed" /\ CompletionAllowed
      BY <3>1, <3>3 DEF Run!Next, Run!Finish, CompletionAllowed, Present
    <3> QED
      BY <2>1, <3>2, <3>3, MarkerMoves
  <2> QED
    BY <2>2, <2>3
<1> QED
  BY <1>1, <1>2, RunInvHolds, PTL DEF Spec, ImplementsDagRun, Run!Spec

-----------------------------------------------------------------------------
(* What the execution finds of its own when it looks again *)

\* The task that p is at is not decided yet, or it is.
Undecided(p) ==
    \/ pc[p] \in {"enter", "science", "assemble", "pair"}
    \/ Choosing(p) \/ Deciding(p)
Published(p) ==
    \/ pc[p] = "unlink" /\ job[p].at = ResultDirectory
    \/ pc[p] = "reverify"
Ending == {"complete", "evidence", "return"}

\* The looks of the task that p is at: none, on the way to the plan, or as planned.
Unlooked == {"enter", "science", "assemble", "pair"}
OnPlan(look, plan) ==
    \/ look = NoLook
    \/ look = plan
    \/ look.last = "continue" /\ look.count \in 1..(plan.count - 1)

OwnLooks(p, f) ==
    /\ pc[p] \in Unlooked => looks[f] = NoLook
    /\ Choosing(p) => OnPlan(looks[f], job[p].plan[f])
    /\ pc[p] = "bind" \/ Deciding(p) \/ Published(p) => looks[f] = job[p].plan[f]
    /\ pc[p] \in Ending => looks[f].last = "pass"

\* Everything before the task of p has passed, and nothing after it has begun.
LooksInOrder(p) ==
    \A f \in Families :
        /\ Owner[f] < position[p] => looks[f].last = "pass"
        /\ Owner[f] > position[p] => looks[f] = NoLook
        /\ Owner[f] = position[p] => OwnLooks(p, f)

TasksInOrder(p) ==
    /\ \A t \in Tasks :
        /\ t < position[p] => status[t] = "passed"
        /\ t > position[p] => status[t] = "absent"
    /\ Undecided(p) => status[position[p]] = "absent"
    /\ Published(p) => status[position[p]] = job[p].outcome
    /\ pc[p] \in Ending => status[position[p]] = "passed"

\* The plan that p follows, and the look or result that it writes.
JobInOrder(p) ==
    /\ Choosing(p) \/ Deciding(p) \/ Published(p) => job[p].plan \in Plans(position[p])
    /\ (Deciding(p) \/ Published(p)) /\ job[p].outcome = "passed" =>
          \A f \in Owned(position[p]) : job[p].plan[f].last = "pass"
    /\ pc[p] = "checkpoint" => job[p].outcome = "passed"
    /\ Deciding(p) /\ pc[p] # "checkpoint" /\ job[p].outcome = "passed" =>
          job[p].count \in checkpoint[position[p]]
    /\ pc[p] \in {"link", "unlink"} /\ job[p].at # ResultDirectory =>
          /\ job[p].at \in Owned(position[p])
          /\ pc[p] = "link" => looks[job[p].at] # job[p].plan[job[p].at]

\* The pair is published before the last task.
PairInOrder(p) ==
    /\ pc[p] = "enter" => position[p] = 1
    /\ pc[p] \in {"assemble", "pair"} \cup Ending => position[p] = NumTasks
    /\ pc[p] = "pair" => OwnerFixed /\ pair < 3
    /\ pc[p] = "assemble" => pair = 0
    /\ pc[p] \notin {"assemble", "pair"} => pair = IF position[p] = NumTasks THEN 3 ELSE 0

LeaseInOrder(p) ==
    /\ launch = IF pc[p] \in {"evidence", "return"} THEN "completed" ELSE "running"
    /\ ~markerTmp
    /\ tmps = IF pc[p] \in {"link", "unlink"} THEN {job[p].at} ELSE {}

InOrder(p) ==
    /\ LeaseInOrder(p) /\ TasksInOrder(p) /\ LooksInOrder(p)
    /\ JobInOrder(p) /\ PairInOrder(p)

\* The receipt is this call's own, or the same, once p is past it.
PastReceipt(p) ==
    \/ pc[p] \in {"open", "linkSetup", "unlinkSetup"} /\ position[p] = 3
    \/ pc[p] \in {"lock", "start"} \/ p \in Executing
SetupInOrder(p) ==
    /\ pc[p] \in {"open", "linkSetup", "unlinkSetup"} => position[p] \in DOMAIN Setup
    /\ pc[p] = "unlinkSetup" => prepared[Setup[position[p]]] = Wanted(p, Setup[position[p]])
    /\ pc[p] \in {"idle", "lock", "start"} => position[p] = 1
    /\ PastReceipt(p) => prepared["receipt"] = seen[p] /\ "receipt" \notin hanging

\* Nothing is published before the launch is started.
NothingBefore ==
    launch \in {"none", "planned"} =>
        /\ \A t \in Tasks : status[t] = "absent"
        /\ \A f \in Families : looks[f] = NoLook
        /\ tmps = {} /\ pair = 0 /\ ~evidence

\* What a passed result rests on, and what the end rests on.
ResultsBacked ==
    \A t \in Tasks :
        /\ status[t] # "absent" => \A u \in Tasks : u < t => status[u] = "passed"
        /\ status[t] # "blocked"
        /\ status[t] = "passed" => selectedK[t] \in checkpoint[t]
        /\ t = SelectionTask /\ status[t] = "passed" => selectedK[t] \in StateCounts

EndBacked ==
    /\ pair > 0 => AllPassed(Rests) /\ OwnerFixed
    /\ launch = "completed" =>
          pair = 3 /\ AllPassed(Tasks) /\ \A f \in Families : looks[f].last = "pass"
    /\ evidence => launch = "completed"

OInv ==
    /\ TypeOK /\ RInv
    /\ NothingBefore /\ ResultsBacked /\ EndBacked
    /\ \A p \in Processes : SetupInOrder(p)
    /\ \A p \in Executing : InOrder(p)

-----------------------------------------------------------------------------
(* The ancestors of a task *)

\* A set of tasks that has the dependencies of t, and those of all that it has.
ClosedFor(t) ==
    {S \in SUBSET Tasks : /\ Dependencies[t] \subseteq S
                          /\ \A s \in S : Dependencies[s] \subseteq S}

\* The least such sets satisfy the recursion.
LEMMA LeastClosed ==
  ASSUME NEW L, L = [t \in Tasks |-> {a \in Tasks : \A S \in ClosedFor(t) : a \in S}]
  PROVE  L = [t \in Tasks |-> Dependencies[t] \cup UNION {L[d] : d \in Dependencies[t]}]
<1>1. ASSUME NEW t \in Tasks
      PROVE  L[t] = Dependencies[t] \cup UNION {L[d] : d \in Dependencies[t]}
  <2>1. Dependencies \in [Tasks -> SUBSET Tasks]
    BY RegistryAssumption
  <2> DEFINE S0 == Dependencies[t] \cup UNION {L[d] : d \in Dependencies[t]}
  <2>2. ASSUME NEW d \in Dependencies[t], NEW S \in ClosedFor(t) PROVE S \in ClosedFor(d)
    BY <2>2 DEF ClosedFor
  <2>3. Dependencies[t] \subseteq L[t]
    BY <2>1 DEF ClosedFor
  <2>4. ASSUME NEW d \in Dependencies[t] PROVE L[d] \subseteq L[t]
    BY <2>1, <2>2
  <2>5. ASSUME NEW u \in Tasks, NEW s \in L[u] PROVE Dependencies[s] \subseteq L[u]
    BY <2>1 DEF ClosedFor
  <2>6. S0 \in ClosedFor(t)
    <3>1. S0 \subseteq Tasks
      BY <2>1
    <3>2. ASSUME NEW s \in S0 PROVE Dependencies[s] \subseteq S0
      <4>1. CASE s \in Dependencies[t]
        <5>1. s \in Tasks
          BY <2>1, <4>1
        <5>2. Dependencies[s] \subseteq L[s]
          BY <2>1, <5>1 DEF ClosedFor
        <5> QED
          BY <4>1, <5>2
      <4>2. CASE \E d \in Dependencies[t] : s \in L[d]
        BY <2>1, <2>5, <4>2
      <4> QED
        BY <4>1, <4>2
    <3> QED
      BY <3>1, <3>2 DEF ClosedFor
  <2>7. L[t] \subseteq S0
    BY <2>6
  <2>8. S0 \subseteq L[t]
    BY <2>3, <2>4
  <2> HIDE DEF S0
  <2>9. L[t] = S0
    BY <2>7, <2>8
  <2> QED
    BY <2>9 DEF S0
<1>2. L = [t \in Tasks |-> L[t]]
  OBVIOUS
<1> QED
  BY <1>1, <1>2

\* So the recursive function exists, and unfolds.
LEMMA AncestorsOf ==
  ASSUME NEW t \in Tasks
  PROVE  Ancestors[t] = Dependencies[t] \cup UNION {Ancestors[d] : d \in Dependencies[t]}
<1> DEFINE Unfolds(A) ==
             A = [u \in Tasks |-> Dependencies[u] \cup UNION {A[d] : d \in Dependencies[u]}]
           Above == CHOOSE A : Unfolds(A)
           L == [u \in Tasks |-> {a \in Tasks : \A S \in ClosedFor(u) : a \in S}]
<1>1. Unfolds(L)
  BY LeastClosed
<1>2. Unfolds(Above)
  <2> HIDE DEF Unfolds
  <2> QED
    BY <1>1
<1>3. Ancestors = [u \in Tasks |-> Above[u]]
  BY DEF Ancestors
<1>4. \A u \in Tasks : Ancestors[u] = Above[u]
  BY <1>3
<1>5. Above[t] = Dependencies[t] \cup UNION {Above[d] : d \in Dependencies[t]}
  BY <1>2
<1>6. \A d \in Dependencies[t] : d \in Tasks
  BY RegistryAssumption
<1> HIDE DEF Above
<1> QED
  BY <1>4, <1>5, <1>6

\* The ancestors of a task come before it.
LEMMA AncestorsBefore ==
  ASSUME NEW t \in Tasks
  PROVE  \A a \in Ancestors[t] : a \in Tasks /\ a < t
<1> DEFINE Wrong == {u \in Tasks : ~\A a \in Ancestors[u] : a \in Tasks /\ a < u}
<1>1. Tasks \subseteq Nat
  BY RegistryAssumption DEF Tasks
<1>2. ASSUME Wrong # {} PROVE FALSE
  <2>1. PICK u \in Wrong : \A v \in Wrong : u <= v
    BY <1>1, <1>2, LeastElement
  <2>2. \A d \in Dependencies[u] : d \in Tasks /\ d < u
    BY RegistryAssumption
  <2>3. \A d \in Dependencies[u] : d \notin Wrong
    BY <1>1, <2>1, <2>2
  <2>4. PICK a \in Ancestors[u] : ~(a \in Tasks /\ a < u)
    OBVIOUS
  <2>5. PICK d \in Dependencies[u] : a \in Ancestors[d]
    BY <2>2, <2>4, AncestorsOf
  <2>6. a \in Tasks /\ a < d
    BY <2>2, <2>3, <2>5
  <2>7. a \in Nat /\ d \in Nat /\ u \in Nat /\ d < u
    BY <1>1, <2>2, <2>6
  <2> QED
    BY <2>4, <2>6, <2>7
<1> QED
  BY <1>2

\* The ancestors of an ancestor are ancestors.
LEMMA AncestorsClosed ==
  ASSUME NEW t \in Tasks, NEW s \in Ancestors[t]
  PROVE  Dependencies[s] \subseteq Ancestors[t]
<1> DEFINE Wrong == {u \in Tasks : ~\A a \in Ancestors[u] : Dependencies[a] \subseteq Ancestors[u]}
<1>1. Tasks \subseteq Nat
  BY RegistryAssumption DEF Tasks
<1>2. ASSUME Wrong # {} PROVE FALSE
  <2>1. PICK u \in Wrong : \A v \in Wrong : u <= v
    BY <1>1, <1>2, LeastElement
  <2>2. \A d \in Dependencies[u] : d \in Tasks /\ d < u
    BY RegistryAssumption
  <2>3. ASSUME NEW d \in Dependencies[u] PROVE d \notin Wrong
    <3>1. u \in Nat /\ d \in Nat /\ d < u
      BY <1>1, <2>2
    <3> HIDE DEF Wrong
    <3> QED
      BY <2>1, <3>1
  <2>4. PICK a \in Ancestors[u] : ~(Dependencies[a] \subseteq Ancestors[u])
    OBVIOUS
  <2>5. \A d \in Dependencies[u] : Ancestors[d] \subseteq Ancestors[u]
    BY AncestorsOf
  <2>6. CASE a \in Dependencies[u]
    BY <2>2, <2>4, <2>5, <2>6, AncestorsOf
  <2>7. CASE \E d \in Dependencies[u] : a \in Ancestors[d]
    BY <2>2, <2>3, <2>4, <2>5, <2>7
  <2> QED
    BY <2>4, <2>6, <2>7, AncestorsOf
<1> QED
  BY <1>2

\* The last task rests on every other.
LEMMA LastRestsOnAll == Ancestors[NumTasks] = Rests
<1> DEFINE Left == {n \in Nat : NumTasks - n \in Rests \ Ancestors[NumTasks] /\ n <= NumTasks}
<1>1. NumTasks \in Nat \ {0} /\ Tasks = 1..NumTasks /\ NumTasks \in Tasks
  BY RegistryAssumption DEF Tasks
<1>2. Ancestors[NumTasks] \subseteq Rests
  BY <1>1, AncestorsBefore DEF Rests
<1>3. ASSUME NEW t \in Rests \ Ancestors[NumTasks] PROVE FALSE
  <2>1. NumTasks - t \in Left
    BY <1>1, <1>3 DEF Rests
  <2>2. PICK n \in Left : \A m \in Left : n <= m
    BY <2>1, LeastElement
  <2> DEFINE s == NumTasks - n
  <2>3. s \in Rests /\ s \notin Ancestors[NumTasks] /\ s \in Nat
    BY <1>1 DEF Rests
  <2>4. PICK u \in Tasks : s \in Dependencies[u]
    BY <2>3, ExecutionAssumption DEF Rests
  <2>5. s < u
    BY <2>4, RegistryAssumption
  <2>6. CASE u = NumTasks
    BY <1>1, <2>3, <2>4, <2>6, AncestorsOf
  <2>7. CASE u \in Ancestors[NumTasks]
    BY <1>1, <2>3, <2>4, <2>7, AncestorsClosed
  <2>8. CASE u \in Rests /\ u \notin Ancestors[NumTasks]
    <3>1. NumTasks - u \in Left /\ NumTasks - u < n
      BY <1>1, <2>3, <2>5, <2>8
    <3> QED
      BY <1>1, <2>2, <3>1
  <2> QED
    BY <2>6, <2>7, <2>8 DEF Rests
<1> QED
  BY <1>2, <1>3

-----------------------------------------------------------------------------
(* Every check finds what it asks for *)

LEMMA TaskNumbers ==
  /\ Tasks = 1..NumTasks /\ NumTasks \in Nat \ {0} /\ NumTasks \in Tasks
  /\ \A t \in Tasks : t \in Nat
  /\ SelectionTask \in Tasks /\ SelectionTask < NumTasks
  /\ \A t \in Tasks : \A d \in Dependencies[t] : d \in Tasks /\ d < t
BY RegistryAssumption, SelectionAssumption, ExecutionAssumption DEF Tasks

LEMMA ExecutorIs ==
  ASSUME OInv, NEW p \in Executing
  PROVE  /\ p \in Processes /\ p \in Locked /\ position[p] \in Tasks /\ position[p] \in Nat
         /\ job[p] \in Jobs /\ InOrder(p)
<1>1. p \in Processes /\ p \in Locked
  BY ExecutorLocked DEF Executing
<1> QED
  BY <1>1, TaskNumbers DEF OInv, RInv, RunTyped, AtTask

\* verify_task_results
LEMMA ResultsStand ==
  ASSUME OInv, ResultDirectory \notin tmps
  PROVE  ResultsVerify
<1>1. ASSUME NEW t \in Tasks, Present(t)
      PROVE  /\ \A d \in Dependencies[t] : Present(d)
             /\ status[t] = "blocked" <=> BlockedBy(t) # {}
  BY <1>1, TaskNumbers DEF OInv, ResultsBacked, Present, BlockedBy
<1> QED
  BY <1>1 DEF ResultsVerify

\* load_from_task_result
LEMMA PassedLoads ==
  ASSUME OInv, NEW t \in Tasks, status[t] = "passed"
  PROVE  Loads(t)
<1>1. ASSUME NEW a \in Ancestors[t] \cup {t}
      PROVE  status[a] = "passed" /\ selectedK[a] \in checkpoint[a]
  BY AncestorsBefore DEF OInv, ResultsBacked
<1> QED
  BY <1>1 DEF Loads

\* The prefix of the registry that is decided.
LEMMA PrefixStands ==
  ASSUME OInv, NEW p \in Executing, Undecided(p)
  PROVE  /\ ExactPrefix(position[p] - 1) /\ AllPassed(1..(position[p] - 1))
         /\ ~Present(position[p])
         /\ \A d \in Dependencies[position[p]] : status[d] = "passed"
<1>1. position[p] \in Nat /\ position[p] \in Tasks /\ TasksInOrder(p)
  BY ExecutorIs DEF InOrder
<1>2. \A t \in Tasks : /\ t \in Nat
                       /\ t < position[p] => status[t] = "passed"
                       /\ ~(t < position[p]) => status[t] = "absent"
  BY <1>1, TaskNumbers DEF TasksInOrder
<1>3. ExactPrefix(position[p] - 1)
  BY <1>1, <1>2 DEF ExactPrefix, Present
<1>4. AllPassed(1..(position[p] - 1))
  BY <1>1, <1>2, TaskNumbers DEF AllPassed
<1> QED
  BY <1>1, <1>2, <1>3, <1>4, TaskNumbers DEF Present

\* verify_planned_look_receipts
LEMMA LooksStand ==
  ASSUME OInv, NEW p \in Executing, tmps = {}
  PROVE  LooksVerify
<1>1. ASSUME NEW f \in Families, looks[f].count = Schedule[f] PROVE looks[f].last # "continue"
  <2>1. /\ Owner[f] \in Tasks /\ Owner[f] \in Nat /\ Schedule[f] \in Nat \ {0}
        /\ position[p] \in Nat /\ LooksInOrder(p)
    BY RegistryAssumption, TaskNumbers, ExecutorIs DEF InOrder
  <2>2. CASE Owner[f] # position[p]
    BY <2>1, <2>2 DEF LooksInOrder, NoLook
  <2>3. CASE Owner[f] = position[p]
    <3>1. OwnLooks(p, f) /\ pc[p] \in Steps /\ f \in Owned(position[p])
      BY <2>1, <2>3, ExecutorIs DEF LooksInOrder, OInv, RInv, IInv, Typed, Owned
    <3>2. CASE Choosing(p) \/ Deciding(p) \/ Published(p)
      <4>1. job[p].plan \in Plans(position[p])
        BY <3>2, ExecutorIs DEF InOrder, JobInOrder
      <4>2. /\ job[p].plan[f].last \in {"pass", "fail"} /\ job[p].plan[f].count \in Nat
            /\ job[p].plan[f].count <= Schedule[f]
        BY <2>1, <3>1, <4>1, TaskNumbers DEF Plans
      <4>3. looks[f] = NoLook \/ looks[f] = job[p].plan[f]
              \/ looks[f].count \in 1..(job[p].plan[f].count - 1)
        BY <3>1, <3>2 DEF OwnLooks, OnPlan, Choosing
      <4> QED
        BY <1>1, <2>1, <4>2, <4>3 DEF NoLook
    <3>3. CASE pc[p] \in Unlooked \cup Ending
      BY <3>1, <3>3 DEF OwnLooks, NoLook
    <3> QED
      BY <3>1, <3>2, <3>3
      DEF Choosing, Deciding, Published, Unlooked, Ending, Steps, Executing, BeforeStart
  <2> QED
    BY <2>2, <2>3
<1> QED
  BY <1>1 DEF LooksVerify

\* What the executor reads in each of its steps but between a link and its unlink.
LEMMA ExecutorReads ==
  ASSUME OInv, NEW p \in Executing, pc[p] \notin {"link", "unlink"}
  PROVE  /\ ResultsVerify /\ LooksVerify /\ "receipt" \notin hanging
         /\ pc[p] \notin {"evidence", "return"} => LeaseActive
<1>1. LeaseInOrder(p) /\ tmps = {}
  BY ExecutorIs DEF InOrder, LeaseInOrder
<1>2. "receipt" \notin hanging
  BY ExecutorIs DEF OInv, SetupInOrder, PastReceipt
<1> QED
  BY <1>1, <1>2, ResultsStand, LooksStand DEF LeaseInOrder, LeaseActive

\* The count that the dependencies bring is that of the selection.
LEMMA FrozenIs ==
  ASSUME OInv, NEW p \in Executing, Undecided(p)
  PROVE  IF position[p] <= SelectionTask THEN Frozen(position[p]) = {}
         ELSE \E k \in StateCounts : Frozen(position[p]) = {k}
<1> DEFINE t == position[p]
           k == selectedK[SelectionTask]
<1>1. t \in Tasks /\ t \in Nat /\ SelectionTask \in Nat
  BY ExecutorIs, TaskNumbers
<1>2. \A d \in Dependencies[t] : d \in Tasks /\ d \in Nat /\ d < t /\ status[d] = "passed"
  BY <1>1, TaskNumbers, PrefixStands
<1>3. \A d \in Dependencies[t] :
        selectedK[d] = IF d < SelectionTask THEN NoCount ELSE k
  BY <1>1, <1>2 DEF OInv, RInv, OneLineage, Present
<1>4. CASE t <= SelectionTask
  BY <1>1, <1>2, <1>3, <1>4 DEF Frozen
<1>5. CASE ~(t <= SelectionTask)
  <2>1. status[SelectionTask] = "passed"
    BY <1>1, <1>5, TaskNumbers, ExecutorIs DEF InOrder, TasksInOrder
  <2>2. k \in StateCounts /\ k # NoCount
    BY <2>1, TaskNumbers, SelectionAssumption DEF OInv, ResultsBacked, NoCount
  <2>3. PICK d \in Dependencies[t] : d >= SelectionTask
    BY <1>1, <1>5, ExecutionAssumption
  <2>4. Frozen(t) = {k}
    BY <1>1, <1>2, <1>3, <2>2, <2>3 DEF Frozen
  <2> QED
    BY <1>5, <2>2, <2>4
<1> QED
  BY <1>4, <1>5

\* The looks of the other tasks.
LEMMA OtherLooks ==
  ASSUME OInv, NEW p \in Executing, NEW f \in Families
  PROVE  /\ Owner[f] > position[p] => looks[f] = NoLook
         /\ Owner[f] < position[p] => looks[f].last = "pass"
         /\ Owner[f] = position[p] => OwnLooks(p, f)
         /\ Owner[f] \in Tasks /\ Owner[f] \in Nat
BY ExecutorIs, TaskNumbers, RegistryAssumption DEF InOrder, LooksInOrder

LEMMA NextIsUnfinished ==
  ASSUME NEW p \in Processes, Unfinished(p) # {}
  PROVE  NextFamily(p) \in Unfinished(p)
<1>1. Unfinished(p) \in SUBSET Nat
  BY RegistryAssumption DEF Unfinished, Owned, Families
<1>2. \E x \in Unfinished(p) : \A y \in Unfinished(p) : x <= y
  BY <1>1, LeastElement
<1> QED
  BY <1>2 DEF NextFamily

\* The decision on a look that the plan has still to come to is one that the
\* store takes.
LEMMA LookIsOpen ==
  ASSUME OInv, NEW p \in Executing, pc[p] = "looks", Unfinished(p) # {}
  PROVE  LookOpen(p)
<1> DEFINE t == position[p]
           f == NextFamily(p)
           d == Decision(p, f)
<1>1. Undecided(p) /\ Choosing(p)
  BY DEF Undecided, Choosing
<1>2. LooksOpen(t)
  BY <1>1, ExecutorReads, PrefixStands, OtherLooks DEF LooksOpen
<1>3. f \in Unfinished(p)
  BY NextIsUnfinished DEF Executing
<1>4. f \in Families /\ Owner[f] = t /\ f \in Owned(t) /\ looks[f] # job[p].plan[f]
  BY <1>3 DEF Unfinished, Owned
<1>5. job[p].plan \in Plans(t) /\ OwnLooks(p, f)
  BY <1>1, <1>4, ExecutorIs, OtherLooks DEF InOrder, JobInOrder
<1>6. /\ job[p].plan[f].last \in {"pass", "fail"} /\ job[p].plan[f].count \in Nat \ {0}
      /\ job[p].plan[f].count <= Schedule[f] /\ Schedule[f] \in Nat
  BY <1>4, <1>5, RegistryAssumption DEF Plans
<1>7. looks[f].last \in {"none", "continue"} /\ looks[f].count \in 0..(job[p].plan[f].count - 1)
  BY <1>1, <1>4, <1>5, <1>6 DEF OwnLooks, OnPlan, NoLook
<1>8. looks[f].count < Schedule[f] /\ (looks[f].count + 1 = Schedule[f] => d # "continue")
  BY <1>6, <1>7 DEF Decision
<1>9. LookAllowed(f, d)
  BY <1>1, <1>4, <1>7, <1>8, ExecutorReads, PrefixStands DEF LookAllowed, Terminal
<1> QED
  BY <1>2, <1>9 DEF LookOpen

LEMMA BindingOpens ==
  ASSUME OInv, NEW p \in Executing, pc[p] = "bind"
  PROVE  Bindable(position[p])
<1>1. Undecided(p)
  BY DEF Undecided, Choosing
<1>2. \A d \in Dependencies[position[p]] : Loads(d)
  BY <1>1, PrefixStands, PassedLoads, ExecutorIs, TaskNumbers
<1>3. ASSUME NEW f \in Families, Owner[f] = position[p] PROVE Terminal(f)
  <2>1. looks[f] = job[p].plan[f]
    BY <1>3, OtherLooks DEF OwnLooks
  <2>2. job[p].plan \in Plans(position[p])
    BY ExecutorIs DEF InOrder, JobInOrder, Choosing
  <2> QED
    BY <1>3, <2>1, <2>2 DEF Plans, Owned, Terminal
<1> QED
  BY <1>1, <1>2, <1>3, ExecutorReads, PrefixStands, FrozenIs, OtherLooks DEF Bindable

LEMMA ResultOpens ==
  ASSUME OInv, NEW p \in Executing, pc[p] = "record"
  PROVE  ResultAllowed(position[p], job[p].outcome)
<1>1. Undecided(p) /\ Deciding(p)
  BY DEF Undecided, Deciding
<1>2. job[p].outcome \in {"passed", "failed"}
  BY ExecutorIs DEF Jobs
<1>3. ASSUME NEW f \in Owned(position[p]) PROVE Terminal(f)
  <2>1. looks[f] = job[p].plan[f]
    BY <1>1, <1>3, OtherLooks DEF OwnLooks, Owned
  <2>2. job[p].plan \in Plans(position[p])
    BY <1>1, ExecutorIs DEF InOrder, JobInOrder
  <2> QED
    BY <1>3, <2>1, <2>2 DEF Plans, Terminal
<1>4. BlockedBy(position[p]) = {} /\ \A d \in Dependencies[position[p]] : Present(d)
  BY <1>1, PrefixStands DEF BlockedBy, Present
<1> QED
  BY <1>1, <1>2, <1>3, <1>4, ExecutorReads, PrefixStands DEF ResultAllowed

LEMMA EndsInOrder ==
  ASSUME OInv, NEW p \in Executing, pc[p] \in Ending
  PROVE  /\ position[p] = NumTasks /\ pair = 3 /\ AllPassed(Tasks)
         /\ \A f \in Families : looks[f].last = "pass"
<1>1. position[p] = NumTasks /\ pair = 3 /\ TasksInOrder(p)
  BY ExecutorIs DEF InOrder, PairInOrder, Ending
<1>2. AllPassed(Tasks)
  BY <1>1, TaskNumbers DEF TasksInOrder, AllPassed
<1>3. ASSUME NEW f \in Families PROVE looks[f].last = "pass"
  <2>1. Owner[f] <= NumTasks
    BY OtherLooks, TaskNumbers
  <2> QED
    BY <1>1, <2>1, OtherLooks, TaskNumbers DEF OwnLooks
<1> QED
  BY <1>1, <1>2, <1>3

LEMMA ChecksHold == OInv => OnlyScienceStops
<1> SUFFICES ASSUME OInv PROVE OnlyScienceStops
  OBVIOUS
<1> SUFFICES ASSUME NEW p \in Processes,
                    pc[p] \in {"enter", "science", "looks", "bind", "checkpoint", "record",
                               "reverify", "assemble", "complete", "evidence"}
             PROVE  LET t == position[p] IN
               /\ pc[p] = "enter" => FreshInputs(p)
               /\ pc[p] = "science" => StageOpens(t)
               /\ pc[p] = "looks" => Unfinished(p) = {} \/ LookOpen(p)
               /\ pc[p] = "bind" => Bindable(t)
               /\ pc[p] = "checkpoint" => \A d \in Dependencies[t] : Loads(d)
               /\ pc[p] = "record" => ResultAllowed(t, job[p].outcome)
               /\ pc[p] = "reverify" => Reverifies(t)
               /\ pc[p] = "assemble" => Assembles
               /\ pc[p] = "complete" => Completes
               /\ pc[p] = "evidence" => Attestable
  BY DEF OnlyScienceStops, OInv
<1>1. p \in Executing /\ pc[p] \notin {"link", "unlink"}
  BY DEF Executing, BeforeStart
<1>2. /\ ResultsVerify /\ LooksVerify /\ "receipt" \notin hanging
      /\ pc[p] # "evidence" => LeaseActive
  BY <1>1, ExecutorReads
<1>3. ASSUME pc[p] = "enter" PROVE FreshInputs(p)
  <2>1. Undecided(p) /\ position[p] = 1 /\ prepared["receipt"] = seen[p]
    BY <1>1, <1>3, ExecutorIs DEF Undecided, InOrder, PairInOrder, OInv, SetupInOrder, PastReceipt
  <2>2. ExactPrefix(0)
    BY <1>1, <2>1, PrefixStands
  <2>3. \A t \in Tasks : ~Present(t)
    BY <2>2, TaskNumbers DEF ExactPrefix
  <2> QED
    BY <1>2, <1>3, <2>1, <2>3 DEF FreshInputs
<1>4. ASSUME pc[p] = "science" PROVE StageOpens(position[p])
  BY <1>1, <1>2, <1>4, PrefixStands DEF StageOpens, Undecided
<1>5. ASSUME pc[p] = "checkpoint" PROVE \A d \in Dependencies[position[p]] : Loads(d)
  BY <1>1, <1>5, PrefixStands, PassedLoads, ExecutorIs, TaskNumbers DEF Undecided, Deciding
<1>6. ASSUME pc[p] = "reverify" PROVE Reverifies(position[p])
  BY <1>1, <1>2, PassedLoads, ExecutorIs DEF Reverifies
<1>7. ASSUME pc[p] = "assemble" PROVE Assembles
  <2>1. Undecided(p) /\ position[p] = NumTasks
    BY <1>1, <1>7, ExecutorIs DEF Undecided, InOrder, PairInOrder
  <2>2. ExactPrefix(NumTasks - 1) /\ \A t \in Rests : status[t] = "passed"
    BY <1>1, <2>1, PrefixStands, TaskNumbers DEF AllPassed, Rests
  <2>3. ASSUME NEW t \in Rests
        PROVE  selectedK[t] = IF t < SelectionTask THEN NoCount ELSE selectedK[SelectionTask]
    BY <2>2, TaskNumbers DEF Rests, OInv, RInv, OneLineage, Present
  <2> QED
    BY <1>2, <1>7, <2>2, <2>3, PassedLoads DEF Assembles, Rests
<1>8. ASSUME pc[p] = "complete" PROVE Completes
  <2>1. AllPassed(Tasks) /\ \A f \in Families : looks[f].last = "pass"
    BY <1>1, <1>8, EndsInOrder DEF Ending
  <2>2. \A f \in Families : status[Owner[f]] # "blocked"
    BY <2>1, RegistryAssumption DEF AllPassed
  <2> QED
    BY <1>2, <1>8, <2>1, <2>2 DEF Completes, CompletionAllowed, AllPassed, Present, Terminal
<1>9. ASSUME pc[p] = "evidence" PROVE Attestable
  <2>1. AllPassed(Tasks) /\ pair = 3 /\ \A f \in Families : looks[f].last = "pass"
    BY <1>1, <1>9, EndsInOrder DEF Ending
  <2>2. launch = "completed" /\ ~markerTmp
    BY <1>1, <1>9, ExecutorIs DEF InOrder, LeaseInOrder
  <2> QED
    BY <1>2, <2>1, <2>2, PassedLoads DEF Attestable, AllPassed
<1> QED
  BY <1>1, <1>3, <1>4, <1>5, <1>6, <1>7, <1>8, <1>9, LookIsOpen, BindingOpens, ResultOpens

LEMMA EvidenceHolds == OInv => EvidenceIsBacked
BY PassedLoads, LastRestsOnAll DEF OInv, EndBacked, OwnerFixed, EvidenceIsBacked

-----------------------------------------------------------------------------
(* OInv is inductive *)

LEMMA OrderInitHolds == Init => OInv
<1> SUFFICES ASSUME Init PROVE OInv
  OBVIOUS
<1>1. RInv
  BY RunInitHolds
<1>2. TypeOK
  <2>1. StoreTypeOK
    BY DEF Init, StoreInit, StoreTypeOK, NoLook
  <2>2. position \in [Processes -> Tasks \cup DOMAIN Setup]
    BY TaskNumbers DEF Init
  <2>3. /\ hanging \subseteq {"manifest", "receipt"}
        /\ checkpoint \in [Tasks -> SUBSET (StateCounts \cup {NoCount})]
        /\ pair \in 0..3
    BY DEF Init
  <2>4. evidence \in BOOLEAN
    BY DEF Init
  <2>5. faults \in 0..MaxFaults
    BY ExecutionAssumption DEF Init
  <2> QED
    BY <1>1, <2>1, <2>2, <2>3, <2>4, <2>5 DEF TypeOK, RInv, IInv, Typed, RunTyped
<1>3. NothingBefore /\ ResultsBacked /\ EndBacked
  BY DEF Init, StoreInit, NothingBefore, ResultsBacked, EndBacked
<1>4. \A p \in Processes : SetupInOrder(p) /\ p \notin Executing
  BY DEF Init, SetupInOrder, PastReceipt, Executing, BeforeStart
<1> QED
  BY <1>1, <1>2, <1>3, <1>4 DEF OInv, Executing

\* What is prepared stays as it is written, and unlinked once it is.
LEMMA PreparedStays ==
  ASSUME OInv, NEW p \in Processes, Step(p)
  PROVE  \A r \in {"manifest", "receipt", "marker"} : Written(r) =>
           prepared'[r] = prepared[r] /\ (r \notin hanging => r \notin hanging')
<1> DEFINE Kept == \A r \in {"manifest", "receipt", "marker"} : Written(r) =>
                     prepared'[r] = prepared[r] /\ (r \notin hanging => r \notin hanging')
<1> USE DEF durable
<1>1. CASE LinkSetup(p)
  <2>1. CASE UNCHANGED <<prepared, hanging>>
    BY <2>1
  <2>2. CASE ~UNCHANGED <<prepared, hanging>>
    <3> DEFINE r == Setup[position[p]]
    <3>1. /\ ~Written(r) /\ prepared' = [prepared EXCEPT ![r] = Wanted(p, r)]
          /\ hanging' = hanging \cup ({r} \ {"marker"})
      BY <1>1, <2>2 DEF LinkSetup
    <3> HIDE DEF r
    <3> QED
      BY <3>1 DEF OInv, RInv, IInv, Typed
  <2> QED
    BY <2>1, <2>2
<1>2. CASE UnlinkSetup(p)
  BY <1>2 DEF UnlinkSetup, Unhang
<1>3. CASE Raise(p)
  BY <1>3, LaunchMoves DEF Raise, Unhang, OInv, RInv
<1>4. CASE UNCHANGED <<prepared, hanging>>
  BY <1>4
<1>5. ASSUME ~LinkSetup(p), ~UnlinkSetup(p), ~Raise(p) PROVE UNCHANGED <<prepared, hanging>>
  BY <1>5 DEF Step, Prepare, Begin, Task, Finalize, Call, OpenRecord, AcquireLock, StartLaunch,
     Enter, Science, PublishLook, Bind, CreateCheckpoint, BeginResult, Link, Unlink, Reverify,
     Assemble, PublishPair, CompleteLaunch, PublishEvidence, Return, Kill
<1> QED
  BY <1>1, <1>2, <1>3, <1>4, <1>5

\* Others stay where they are in the preparation, whoever steps.
LEMMA OthersSetUp ==
  ASSUME OInv, NEW p \in Processes, Step(p), Own(p), seen' = [seen EXCEPT ![p] = seen'[p]],
         NEW q \in Processes \ {p}
  PROVE  SetupInOrder(q)'
<1>1. pc'[q] = pc[q] /\ position'[q] = position[q] /\ seen'[q] = seen[q]
  BY DEF Own, OInv, RInv, IInv, Typed
<1>2. SetupInOrder(q)
  BY DEF OInv
<1>3. ASSUME pc[q] = "unlinkSetup"
      PROVE  prepared'[Setup[position[q]]] = Wanted(q, Setup[position[q]])
  <2>1. Setup[position[q]] \in {"manifest", "receipt", "marker"}
    BY <1>2, <1>3 DEF SetupInOrder, Setup
  <2>2. Written(Setup[position[q]])
    BY <1>2, <1>3, ExecutionAssumption
    DEF SetupInOrder, Wanted, Written, Unwritten, RunIdentity, OInv, RInv, IInv, Typed
  <2> QED
    BY <1>2, <1>3, <2>1, <2>2, PreparedStays DEF SetupInOrder
<1>4. ASSUME PastReceipt(q) PROVE prepared'["receipt"] = seen[q] /\ "receipt" \notin hanging'
  <2>1. Written("receipt")
    BY <1>2, <1>4, ExecutionAssumption DEF SetupInOrder, Written, OInv, RInv, IInv, Typed
  <2> QED
    BY <1>2, <1>4, <2>1, PreparedStays DEF SetupInOrder
<1>5. PastReceipt(q)' <=> PastReceipt(q)
  BY <1>1 DEF PastReceipt, Executing
<1> QED
  BY <1>1, <1>2, <1>3, <1>4, <1>5 DEF SetupInOrder, Wanted

LEMMA SetupIs ==
  /\ DOMAIN Setup = 1..3 /\ Len(Setup) = 3
  /\ Setup[1] = "manifest" /\ Setup[2] = "receipt" /\ Setup[3] = "marker"
BY DEF Setup

\* A call that goes on to the next record, or to the lock, has its receipt.
LEMMA AdvanceSetsUp ==
  ASSUME OInv, NEW p \in Processes, Advance(p), pc[p] \in {"open", "linkSetup", "unlinkSetup"},
         UNCHANGED prepared, hanging' \subseteq hanging,
         Setup[position[p]] = "receipt" =>
            prepared["receipt"] = seen[p] /\ "receipt" \notin hanging'
  PROVE  SetupInOrder(p)' /\ position'[p] \in Tasks \cup 1..3
<1>1. SetupInOrder(p) /\ position[p] \in 1..3
  BY SetupIs DEF OInv, SetupInOrder
<1>2. CASE position[p] < 3
  <2>1. /\ pc' = [pc EXCEPT ![p] = "open"] /\ position' = [position EXCEPT ![p] = position[p] + 1]
        /\ seen' = seen
    BY <1>2, SetupIs DEF Advance, GoTo, MoveTo
  <2>2. pc'[p] = "open" /\ position'[p] = position[p] + 1 /\ position'[p] \in {2, 3}
    BY <1>1, <1>2, <2>1 DEF OInv, RInv, IInv, Typed, RunTyped
  <2>3. position'[p] = 3 => Setup[position[p]] = "receipt"
    BY <1>1, <2>2, SetupIs
  <2> QED
    BY <2>1, <2>2, <2>3, SetupIs DEF SetupInOrder, PastReceipt, Executing, BeforeStart
<1>3. CASE position[p] = 3
  <2>1. pc' = [pc EXCEPT ![p] = "lock"] /\ position' = [position EXCEPT ![p] = 1] /\ seen' = seen
    BY <1>3, SetupIs DEF Advance, GoTo, MoveTo
  <2>2. pc'[p] = "lock" /\ position'[p] = 1
    BY <2>1 DEF OInv, RInv, IInv, Typed, RunTyped
  <2>3. prepared["receipt"] = seen[p] /\ "receipt" \notin hanging
    BY <1>1, <1>3 DEF SetupInOrder, PastReceipt
  <2> QED
    BY <2>1, <2>2, <2>3 DEF SetupInOrder
<1> QED
  BY <1>1, <1>2, <1>3

\* So is a call at its end.
LEMMA EndSetsUp ==
  ASSUME OInv, NEW p \in Processes, NEW step \in {"idle", "returned"}, End(p, step)
  PROVE  SetupInOrder(p)' /\ position'[p] = 1
<1>1. pc'[p] = step /\ position'[p] = 1
  BY DEF End, GoTo, MoveTo, OInv, RInv, IInv, Typed, RunTyped
<1> QED
  BY <1>1 DEF SetupInOrder, PastReceipt, Executing, BeforeStart

\* A step of p before its start, that leaves the records of the setup alone.
LEMMA WaitingSetsUp ==
  ASSUME OInv, NEW p \in Processes, NEW step \in Steps, GoTo(p, step),
         UNCHANGED <<seen, position, prepared, hanging>>,
         \/ step = "linkSetup" /\ pc[p] = "open"
         \/ step = "start" /\ pc[p] = "lock"
         \/ step = "enter" /\ pc[p] = "start"
  PROVE  SetupInOrder(p)' /\ position'[p] \in Tasks \cup 1..3
<1>1. pc'[p] = step /\ SetupInOrder(p)
  BY DEF GoTo, OInv, RInv, IInv, Typed
<1>2. PastReceipt(p)' => PastReceipt(p)
  BY <1>1 DEF PastReceipt, Executing, BeforeStart, SetupInOrder
<1>3. position[p] \in Tasks \cup 1..3
  BY SetupIs DEF OInv, TypeOK
<1> QED
  BY <1>1, <1>2, <1>3, SetupIs DEF SetupInOrder

\* The steps of an execution end it, or go on within it.
GoesOn(p) == pc'[p] \notin BeforeStart /\ UNCHANGED seen

LEMMA ExecutorGoesOn ==
  ASSUME OInv, NEW p \in Processes, Enter(p) \/ Task(p) \/ Finalize(p)
  PROVE  \/ \E step \in {"idle", "returned"} : End(p, step)
         \/ GoesOn(p)
<1> USE DEF OInv, RInv, IInv, Typed, GoesOn, GoTo, Stop, Here, Proceed, BeforeStart
<1>1. CASE Enter(p)
  BY <1>1 DEF Enter
<1>2. CASE Science(p)
  BY <1>2 DEF Science
<1>3. CASE PublishLook(p)
  BY <1>3 DEF PublishLook
<1>4. CASE Bind(p)
  BY <1>4 DEF Bind, AfterBinding
<1>5. CASE CreateCheckpoint(p)
  BY <1>5 DEF CreateCheckpoint
<1>6. CASE BeginResult(p)
  BY <1>6 DEF BeginResult
<1>7. CASE Link(p) \/ Unlink(p)
  BY <1>7 DEF Link, Unlink
<1>8. CASE Reverify(p)
  BY <1>8 DEF Reverify, After
<1>9. CASE Assemble(p) \/ PublishPair(p)
  BY <1>9 DEF Assemble, PublishPair
<1>10. CASE CompleteLaunch(p) \/ PublishEvidence(p)
  BY <1>10 DEF CompleteLaunch, PublishEvidence
<1>11. CASE Return(p)
  BY <1>11 DEF Return
<1> QED
  BY <1>1, <1>2, <1>3, <1>4, <1>5, <1>6, <1>7, <1>8, <1>9, <1>10, <1>11 DEF Task, Finalize

\* They leave the records of the setup alone.
LEMMA ExecutorSpares ==
  ASSUME NEW p \in Processes, Enter(p) \/ Task(p) \/ Finalize(p)
  PROVE  UNCHANGED <<prepared, hanging>>
BY DEF Enter, Task, Finalize, Science, PublishLook, Bind, CreateCheckpoint, BeginResult, Link,
   Unlink, Reverify, Assemble, PublishPair, CompleteLaunch, PublishEvidence, Return, durable

LEMMA SetsUp ==
  ASSUME OInv, NEW p \in Processes, Step(p)
  PROVE  /\ SetupInOrder(p)' /\ position'[p] \in Tasks \cup 1..3
         /\ seen' = [seen EXCEPT ![p] = seen'[p]]
<1> USE DEF Stop, Here, durable
<1>0. SetupInOrder(p) /\ seen \in [Processes -> Observations] /\ pc \in [Processes -> Steps]
  BY DEF OInv, RInv, IInv, Typed
<1>1. ASSUME NEW step \in {"idle", "returned"}, End(p, step)
      PROVE  /\ SetupInOrder(p)' /\ position'[p] \in Tasks \cup 1..3
             /\ seen' = [seen EXCEPT ![p] = seen'[p]]
  <2>1. PICK o : seen' = [seen EXCEPT ![p] = o]
    BY <1>1 DEF End
  <2>2. seen' = [seen EXCEPT ![p] = seen'[p]]
    BY <1>0, <2>1
  <2> QED
    BY <1>1, <2>2, EndSetsUp
<1>2. CASE Call(p)
  BY <1>0, <1>2, SetupIs DEF Call, GoTo, SetupInOrder, PastReceipt, Executing, BeforeStart
<1>3. CASE OpenRecord(p)
  <2>1. CASE Advance(p) /\ Same(p, Setup[position[p]])
    <3>1. pc[p] = "open" /\ UNCHANGED <<prepared, hanging>>
      BY <1>3 DEF OpenRecord
    <3> QED
      BY <1>0, <2>1, <3>1, AdvanceSetsUp DEF Same, Wanted, Advance
  <2>2. CASE GoTo(p, "linkSetup") /\ Here(p)
    BY <1>0, <1>3, <2>2, WaitingSetsUp DEF OpenRecord, Steps
  <2> QED
    BY <1>1, <1>3, <2>1, <2>2 DEF OpenRecord
<1>4. CASE LinkSetup(p)
  <2> DEFINE r == Setup[position[p]]
  <2>1. CASE Advance(p) /\ Same(p, r) /\ UNCHANGED <<prepared, hanging>>
    BY <1>0, <1>4, <2>1, AdvanceSetsUp DEF LinkSetup, Same, Wanted, Advance
  <2>2. CASE /\ ~Written(r) /\ prepared' = [prepared EXCEPT ![r] = Wanted(p, r)]
             /\ hanging' = hanging \cup ({r} \ {"marker"})
             /\ GoTo(p, "unlinkSetup") /\ Here(p)
    <3>1. position[p] \in 1..3 /\ r \in {"manifest", "receipt", "marker"}
      BY <1>0, <1>4, SetupIs DEF LinkSetup, SetupInOrder
    <3>2. prepared'[r] = Wanted(p, r)
      BY <2>2, <3>1 DEF OInv, RInv, IInv, Typed
    <3>3. PastReceipt(p)' => position[p] = 3 /\ PastReceipt(p)
      BY <1>0, <1>4, <2>2 DEF LinkSetup, PastReceipt, Executing, BeforeStart, GoTo
    <3>4. position[p] = 3 => prepared'["receipt"] = prepared["receipt"]
                               /\ ("receipt" \notin hanging => "receipt" \notin hanging')
      BY <2>2, SetupIs DEF OInv, RInv, IInv, Typed
    <3>5. pc'[p] = "unlinkSetup" /\ UNCHANGED <<seen, position>>
      BY <1>0, <2>2 DEF GoTo
    <3> HIDE DEF r
    <3>6. Wanted(p, r)' = Wanted(p, r)
      BY <3>5 DEF Wanted, r
    <3> QED
      BY <1>0, <3>1, <3>2, <3>3, <3>4, <3>5, <3>6, SetupIs DEF SetupInOrder, r
  <2>3. \/ Advance(p) /\ Same(p, r) /\ UNCHANGED <<prepared, hanging>>
        \/ Stop(p)
        \/ /\ ~Written(r) /\ prepared' = [prepared EXCEPT ![r] = Wanted(p, r)]
           /\ hanging' = hanging \cup ({r} \ {"marker"})
           /\ GoTo(p, "unlinkSetup") /\ Here(p)
    BY <1>4 DEF LinkSetup
  <2> QED
    BY <1>1, <2>1, <2>2, <2>3
<1>5. CASE UnlinkSetup(p)
  <2>1. /\ Advance(p) /\ pc[p] = "unlinkSetup" /\ UNCHANGED prepared
        /\ hanging' = hanging \ {Setup[position[p]]}
    BY <1>5 DEF UnlinkSetup, Unhang
  <2>2. prepared[Setup[position[p]]] = Wanted(p, Setup[position[p]])
    BY <1>0, <2>1 DEF SetupInOrder
  <2> QED
    BY <1>0, <2>1, <2>2, AdvanceSetsUp DEF Wanted, Advance
<1>6. CASE AcquireLock(p)
  <2>1. CASE pc[p] = "lock" /\ GoTo(p, "start") /\ UNCHANGED <<seen, position, prepared, hanging>>
    BY <1>0, <2>1, WaitingSetsUp DEF Steps
  <2> QED
    BY <1>1, <1>6, <2>1 DEF AcquireLock
<1>7. CASE StartLaunch(p)
  <2>1. CASE pc[p] = "start" /\ GoTo(p, "enter") /\ UNCHANGED <<seen, position, prepared, hanging>>
    BY <1>0, <2>1, WaitingSetsUp DEF Steps
  <2> QED
    BY <1>1, <1>7, <2>1 DEF StartLaunch, Proceed
<1>8. CASE Enter(p) \/ Task(p) \/ Finalize(p)
  <2>1. CASE GoesOn(p)
    <3>1. p \in Executing /\ UNCHANGED <<prepared, hanging>>
      BY <1>8, ExecutorActs, ExecutorSpares
    <3>2. AtTask(p)'
      BY <1>8, PreparationOwns, TaskOwns, FinalizeOwns DEF OInv, Own, Begin
    <3> QED
      BY <1>0, <2>1, <3>1, <3>2
      DEF GoesOn, SetupInOrder, PastReceipt, AtTask, Locked, Executing, BeforeStart
  <2> QED
    BY <1>1, <1>8, <2>1, ExecutorGoesOn
<1>9. CASE Kill(p) \/ Raise(p)
  BY <1>1, <1>9 DEF Kill, Raise, Fault
<1> QED
  BY <1>2, <1>3, <1>4, <1>5, <1>6, <1>7, <1>8, <1>9 DEF Step, Prepare, Begin

\* What does not stay in the execution is not asked for its order.
LEMMA EndLeaves ==
  ASSUME OInv, NEW p \in Processes, NEW step \in {"idle", "returned"}, End(p, step)
  PROVE  p \notin Executing'
BY DEF End, GoTo, OInv, RInv, IInv, Typed, Executing, BeforeStart

\* The launch that p has started.
LEMMA StartInOrder ==
  ASSUME OInv, NEW p \in Processes, StartLaunch(p), p \in Executing'
  PROVE  InOrder(p)'
<1>1. /\ Startable(p) /\ pc' = [pc EXCEPT ![p] = "enter"] /\ pc[p] = "start"
      /\ launch' = "running"
      /\ UNCHANGED <<markerTmp, status, selectedK, looks, tmps, checkpoint, pair, position, job>>
  BY EndLeaves DEF StartLaunch, Proceed, Stop, GoTo, Here
<1>2. pc'[p] = "enter" /\ launch = "planned" /\ ~markerTmp /\ position[p] = 1
  BY <1>1 DEF Startable, OInv, SetupInOrder, RInv, IInv, Typed
<1>3. /\ \A t \in Tasks : status[t] = "absent"
      /\ \A f \in Families : looks[f] = NoLook
      /\ tmps = {} /\ pair = 0
  BY <1>2 DEF OInv, NothingBefore
<1>4. 1 \in Tasks /\ NumTasks # 1 /\ \A f \in Families : ~(Owner[f] < 1)
  BY TaskNumbers, RegistryAssumption
<1>5. LeaseInOrder(p)' /\ PairInOrder(p)' /\ JobInOrder(p)'
  BY <1>1, <1>2, <1>3, <1>4
  DEF LeaseInOrder, PairInOrder, JobInOrder, Choosing, Deciding, Published, Ending
<1>6. TasksInOrder(p)'
  BY <1>1, <1>2, <1>3, <1>4, TaskNumbers DEF TasksInOrder, Published, Ending
<1>7. LooksInOrder(p)'
  BY <1>1, <1>2, <1>3, <1>4
  DEF LooksInOrder, OwnLooks, Choosing, Deciding, Published, Ending
<1> QED
  BY <1>5, <1>6, <1>7 DEF InOrder

LEMMA EnterInOrder ==
  ASSUME OInv, NEW p \in Processes, Enter(p), p \in Executing'
  PROVE  InOrder(p)'
<1>1. /\ pc' = [pc EXCEPT ![p] = "science"] /\ pc[p] = "enter"
      /\ UNCHANGED <<durable, position, job>>
  BY EndLeaves DEF Enter, Proceed, Stop, GoTo, Here
<1>2. pc'[p] = "science" /\ p \in Executing
  BY <1>1 DEF OInv, RInv, IInv, Typed, Executing, BeforeStart
<1>3. InOrder(p)
  BY <1>2, ExecutorIs
<1>4. LeaseInOrder(p)' /\ PairInOrder(p)' /\ JobInOrder(p)' /\ TasksInOrder(p)'
  BY <1>1, <1>2, <1>3
  DEF durable, store, InOrder, LeaseInOrder, PairInOrder, JobInOrder, TasksInOrder, Undecided,
      Choosing, Deciding, Published, Ending
<1>5. LooksInOrder(p)'
  BY <1>1, <1>2, <1>3
  DEF durable, store, InOrder, LooksInOrder, OwnLooks, Choosing, Deciding, Published, Ending,
      Unlooked
<1> QED
  BY <1>4, <1>5 DEF InOrder

LEMMA ScienceInOrder ==
  ASSUME OInv, NEW p \in Processes, Science(p), p \in Executing'
  PROVE  InOrder(p)'
<1>1. PICK plan \in Plans(position[p]) : \E outcome, k :
        job' = [job EXCEPT ![p] = [outcome |-> outcome, count |-> k,
                                   plan |-> plan, at |-> ResultDirectory]]
  BY EndLeaves DEF Science, Stop
<1>2. /\ pc' = [pc EXCEPT ![p] = "looks"] /\ pc[p] = "science"
      /\ UNCHANGED <<durable, position>>
  BY EndLeaves DEF Science, Stop, GoTo
<1>3. pc'[p] = "looks" /\ p \in Executing /\ job'[p].plan = plan
  BY <1>1, <1>2 DEF OInv, RInv, RunTyped, IInv, Typed, Executing, BeforeStart
<1>4. InOrder(p)
  BY <1>3, ExecutorIs
<1>5. LeaseInOrder(p)' /\ PairInOrder(p)' /\ JobInOrder(p)' /\ TasksInOrder(p)'
  BY <1>2, <1>3, <1>4
  DEF durable, store, InOrder, LeaseInOrder, PairInOrder, JobInOrder, TasksInOrder, Undecided,
      Choosing, Deciding, Published, Ending
<1>6. LooksInOrder(p)'
  BY <1>2, <1>3, <1>4
  DEF durable, store, InOrder, LooksInOrder, OwnLooks, OnPlan, Choosing, Deciding, Published,
      Ending, Unlooked
<1> QED
  BY <1>5, <1>6 DEF InOrder

LEMMA PublishLookInOrder ==
  ASSUME OInv, NEW p \in Processes, PublishLook(p), p \in Executing'
  PROVE  InOrder(p)'
<1> DEFINE f == NextFamily(p)
<1>1. /\ pc[p] = "looks" /\ p \in Executing /\ InOrder(p) /\ ~Stop(p)
      /\ UNCHANGED <<launch, markerTmp, status, selectedK, looks, checkpoint, pair, position>>
  BY EndLeaves, ExecutorIs DEF PublishLook, Stop, Here, Executing, BeforeStart
<1>2. CASE Unfinished(p) = {}
  <2>1. pc' = [pc EXCEPT ![p] = "bind"] /\ UNCHANGED <<tmps, job>>
    BY <1>1, <1>2 DEF PublishLook, GoTo, Here
  <2>2. pc'[p] = "bind"
    BY <2>1 DEF OInv, RInv, IInv, Typed
  <2>3. \A g \in Owned(position[p]) : looks[g] = job[p].plan[g]
    BY <1>2 DEF Unfinished
  <2>4. LeaseInOrder(p)' /\ PairInOrder(p)' /\ JobInOrder(p)' /\ TasksInOrder(p)'
    BY <1>1, <2>1, <2>2
    DEF InOrder, LeaseInOrder, PairInOrder, JobInOrder, TasksInOrder, Undecided,
        Choosing, Deciding, Published, Ending
  <2>5. LooksInOrder(p)'
    BY <1>1, <2>1, <2>2, <2>3
    DEF InOrder, LooksInOrder, OwnLooks, OnPlan, Owned, Choosing, Deciding, Published, Ending,
        Unlooked
  <2> QED
    BY <2>4, <2>5 DEF InOrder
<1>3. CASE Unfinished(p) # {}
  <2>1. /\ pc' = [pc EXCEPT ![p] = "link"] /\ tmps' = tmps \cup {f}
        /\ job' = [job EXCEPT ![p] = [job[p] EXCEPT !.at = f]]
    BY <1>1, <1>3 DEF PublishLook, GoTo
  <2>2. f \in Unfinished(p) /\ f \in Directories /\ f # ResultDirectory
    BY <1>3, NextFamilyIsFamily, NextIsUnfinished
  <2>3. f \in Owned(position[p]) /\ looks[f] # job[p].plan[f]
    BY <2>2 DEF Unfinished
  <2>4. /\ pc'[p] = "link" /\ job'[p].at = f /\ job'[p].plan = job[p].plan
        /\ job'[p].outcome = job[p].outcome
    BY <2>1, <2>2, JobChanges DEF OInv, RInv, RunTyped, IInv, Typed
  <2> HIDE DEF f
  <2>5. LeaseInOrder(p)' /\ PairInOrder(p)' /\ TasksInOrder(p)'
    BY <1>1, <2>1, <2>2, <2>4
    DEF InOrder, LeaseInOrder, PairInOrder, TasksInOrder, Undecided, Choosing, Deciding,
        Published, Ending
  <2>6. JobInOrder(p)'
    BY <1>1, <2>2, <2>3, <2>4 DEF InOrder, JobInOrder, Choosing, Deciding, Published
  <2>7. LooksInOrder(p)'
    BY <1>1, <2>2, <2>4
    DEF InOrder, LooksInOrder, OwnLooks, OnPlan, Choosing, Deciding, Published, Ending,
        Unlooked
  <2> QED
    BY <2>5, <2>6, <2>7 DEF InOrder
<1> QED
  BY <1>2, <1>3

LEMMA BindInOrder ==
  ASSUME OInv, NEW p \in Processes, Bind(p), p \in Executing'
  PROVE  InOrder(p)'
<1> DEFINE k == CountOf(position[p], job[p].outcome, job[p].count)
<1>1. /\ pc[p] = "bind" /\ p \in Executing /\ InOrder(p) /\ ~Stop(p)
      /\ UNCHANGED <<durable, position>>
  BY EndLeaves, ExecutorIs DEF Bind, Stop, Executing, BeforeStart
<1>2. /\ Bindable(position[p]) /\ LooksAgree(position[p], job[p].outcome)
      /\ pc' = [pc EXCEPT ![p] = AfterBinding(job[p].outcome)]
      /\ job' = [job EXCEPT ![p] = [job[p] EXCEPT !.count = k]]
  BY <1>1 DEF Bind, GoTo
<1>3. k \in StateCounts \cup {NoCount}
  BY <1>1, <1>2, BindingDecides DEF OInv
<1> HIDE DEF k
<1>4. /\ pc'[p] = IF job[p].outcome = "passed" THEN "checkpoint" ELSE "record"
      /\ job'[p].plan = job[p].plan /\ job'[p].outcome = job[p].outcome
  BY <1>2, <1>3, JobChanges DEF OInv, RInv, RunTyped, IInv, Typed, AfterBinding
<1>5. \A f \in Owned(position[p]) : looks[f] = job[p].plan[f]
  BY <1>1 DEF InOrder, LooksInOrder, OwnLooks, Owned
<1>6. job[p].outcome = "passed" =>
        \A f \in Owned(position[p]) : job[p].plan[f].last = "pass"
  BY <1>2, <1>5 DEF LooksAgree
<1>7. LeaseInOrder(p)' /\ PairInOrder(p)' /\ TasksInOrder(p)'
  BY <1>1, <1>4
  DEF durable, store, InOrder, LeaseInOrder, PairInOrder, TasksInOrder, Undecided, Choosing,
      Deciding, Published, Ending
<1>8. JobInOrder(p)'
  BY <1>1, <1>4, <1>6
  DEF durable, store, InOrder, JobInOrder, Choosing, Deciding, Published
<1>9. LooksInOrder(p)'
  BY <1>1, <1>4, <1>5
  DEF durable, store, InOrder, LooksInOrder, OwnLooks, Owned, Choosing, Deciding, Published,
      Ending, Unlooked
<1> QED
  BY <1>7, <1>8, <1>9 DEF InOrder

LEMMA CheckpointInOrder ==
  ASSUME OInv, NEW p \in Processes, CreateCheckpoint(p), p \in Executing'
  PROVE  InOrder(p)'
<1>1. /\ pc[p] = "checkpoint" /\ p \in Executing /\ InOrder(p) /\ position[p] \in Tasks
      /\ pc' = [pc EXCEPT ![p] = "record"]
      /\ checkpoint' = [checkpoint EXCEPT ![position[p]] = @ \cup {job[p].count}]
      /\ UNCHANGED <<store, pair, position, job>>
  BY EndLeaves, ExecutorIs DEF CreateCheckpoint, Stop, Here, GoTo, Executing, BeforeStart
<1>2. pc'[p] = "record" /\ job[p].count \in checkpoint'[position[p]]
  BY <1>1 DEF OInv, TypeOK, RInv, IInv, Typed
<1>3. LeaseInOrder(p)' /\ PairInOrder(p)' /\ TasksInOrder(p)'
  BY <1>1, <1>2
  DEF store, InOrder, LeaseInOrder, PairInOrder, TasksInOrder, Undecided, Choosing, Deciding,
      Published, Ending
<1>4. JobInOrder(p)'
  BY <1>1, <1>2 DEF store, InOrder, JobInOrder, Choosing, Deciding, Published
<1>5. LooksInOrder(p)'
  BY <1>1, <1>2
  DEF store, InOrder, LooksInOrder, OwnLooks, Choosing, Deciding, Published, Ending, Unlooked
<1> QED
  BY <1>3, <1>4, <1>5 DEF InOrder

LEMMA RecordInOrder ==
  ASSUME OInv, NEW p \in Processes, BeginResult(p), p \in Executing'
  PROVE  InOrder(p)'
<1>1. /\ pc[p] = "record" /\ p \in Executing /\ InOrder(p)
      /\ pc' = [pc EXCEPT ![p] = "link"] /\ tmps' = tmps \cup {ResultDirectory}
      /\ job' = [job EXCEPT ![p] = [job[p] EXCEPT !.at = ResultDirectory]]
      /\ UNCHANGED <<launch, markerTmp, status, selectedK, looks, checkpoint, pair, position>>
  BY EndLeaves, ExecutorIs DEF BeginResult, Stop, GoTo, Executing, BeforeStart
<1>2. ResultDirectory \in Directories
  BY RegistryAssumption DEF Directories, ResultDirectory
<1>3. /\ pc'[p] = "link" /\ job'[p].at = ResultDirectory /\ job'[p].plan = job[p].plan
      /\ job'[p].outcome = job[p].outcome /\ job'[p].count = job[p].count
  BY <1>1, <1>2, JobChanges DEF OInv, RInv, RunTyped, IInv, Typed
<1>4. LeaseInOrder(p)' /\ PairInOrder(p)' /\ TasksInOrder(p)'
  BY <1>1, <1>3
  DEF InOrder, LeaseInOrder, PairInOrder, TasksInOrder, Undecided, Choosing, Deciding,
      Published, Ending
<1>5. JobInOrder(p)'
  BY <1>1, <1>3 DEF InOrder, JobInOrder, Choosing, Deciding, Published
<1>6. LooksInOrder(p)'
  BY <1>1, <1>3
  DEF InOrder, LooksInOrder, OwnLooks, Choosing, Deciding, Published, Ending, Unlooked
<1> QED
  BY <1>4, <1>5, <1>6 DEF InOrder

\* A result that is linked is the one that the plan has led to.
LEMMA LinkResultInOrder ==
  ASSUME OInv, NEW p \in Processes, ResultLinked(p)
  PROVE  InOrder(p)'
<1>1. /\ pc[p] = "link" /\ job[p].at = ResultDirectory /\ p \in Executing /\ InOrder(p)
      /\ position[p] \in Tasks /\ position[p] \in Nat
      /\ pc' = [pc EXCEPT ![p] = "unlink"]
      /\ UNCHANGED <<launch, markerTmp, looks, tmps, checkpoint, pair, position, job>>
  BY ExecutorIs DEF ResultLinked, Link, GoTo, Here, Executing, BeforeStart
<1>2. status' = [status EXCEPT ![position[p]] = job[p].outcome]
  BY ResultIsDecided DEF OInv
<1>3. /\ pc'[p] = "unlink" /\ status'[position[p]] = job[p].outcome
      /\ \A t \in Tasks : t # position[p] => status'[t] = status[t]
  BY <1>1, <1>2 DEF OInv, RInv, RunTyped, IInv, Typed
<1>4. Deciding(p)
  BY <1>1 DEF Deciding
<1>5. LeaseInOrder(p)' /\ PairInOrder(p)'
  BY <1>1, <1>3 DEF InOrder, LeaseInOrder, PairInOrder, Ending
<1>6. TasksInOrder(p)'
  BY <1>1, <1>3, TaskNumbers
  DEF InOrder, TasksInOrder, Undecided, Choosing, Deciding, Published, Ending
<1>7. JobInOrder(p)'
  BY <1>1, <1>3, <1>4 DEF InOrder, JobInOrder, Choosing, Deciding, Published
<1>8. LooksInOrder(p)'
  BY <1>1, <1>3, <1>4
  DEF InOrder, LooksInOrder, OwnLooks, Choosing, Deciding, Published, Ending, Unlooked
<1> QED
  BY <1>5, <1>6, <1>7, <1>8 DEF InOrder

\* The next look of a family that follows a plan follows it too.
LEMMA DecisionOnPlan ==
  ASSUME OInv, NEW p \in Executing, Choosing(p), NEW f \in Owned(position[p]),
         looks[f] # job[p].plan[f]
  PROVE  OnPlan([count |-> looks[f].count + 1, last |-> Decision(p, f)], job[p].plan[f])
<1> DEFINE plan == job[p].plan
           next == [count |-> looks[f].count + 1, last |-> Decision(p, f)]
<1>1. f \in Families /\ Owner[f] = position[p]
  BY DEF Owned
<1>2. OnPlan(looks[f], plan[f]) /\ plan \in Plans(position[p])
  BY <1>1, OtherLooks, ExecutorIs DEF OwnLooks, InOrder, JobInOrder
<1>3. /\ plan[f] \in [count : 1..NumTasks, last : {"pass", "fail"}]
      /\ plan[f].count \in Nat \ {0}
  BY <1>2, TaskNumbers DEF Plans
<1>4. looks[f].count \in 0..(plan[f].count - 1)
  BY <1>2, <1>3 DEF OnPlan, NoLook
<1>5. CASE looks[f].count + 1 = plan[f].count
  <2>1. next = plan[f]
    BY <1>3, <1>5 DEF Decision
  <2> QED
    BY <2>1 DEF OnPlan
<1>6. CASE looks[f].count + 1 # plan[f].count
  <2>1. next.last = "continue" /\ next.count \in 1..(plan[f].count - 1)
    BY <1>3, <1>4, <1>6 DEF Decision
  <2> QED
    BY <2>1 DEF OnPlan
<1> QED
  BY <1>5, <1>6

LEMMA LinkLookInOrder ==
  ASSUME OInv, NEW p \in Processes, Link(p), ~ResultLinked(p)
  PROVE  InOrder(p)'
<1> DEFINE f == job[p].at
<1>1. /\ pc[p] = "link" /\ f # ResultDirectory /\ p \in Executing /\ InOrder(p)
      /\ pc' = [pc EXCEPT ![p] = "unlink"]
      /\ looks' = [looks EXCEPT ![f] = [count |-> @.count + 1, last |-> Decision(p, f)]]
      /\ UNCHANGED <<launch, markerTmp, status, selectedK, tmps, checkpoint, pair, position, job>>
  BY ExecutorIs DEF ResultLinked, Link, GoTo, Here, Executing, BeforeStart
<1>2. Choosing(p) /\ f \in Owned(position[p]) /\ looks[f] # job[p].plan[f]
  BY <1>1 DEF Choosing, InOrder, JobInOrder
<1>3. OnPlan([count |-> looks[f].count + 1, last |-> Decision(p, f)], job[p].plan[f])
  BY <1>1, <1>2, DecisionOnPlan
<1>4. /\ pc'[p] = "unlink" /\ OnPlan(looks'[f], job[p].plan[f])
      /\ \A g \in Families : g # f => looks'[g] = looks[g]
      /\ f \in Families /\ Owner[f] = position[p] /\ position[p] \in Nat
      /\ \A g \in Families : Owner[g] \in Nat
  BY <1>1, <1>2, <1>3, ExecutorIs, OtherLooks
  DEF Owned, OInv, TypeOK, StoreTypeOK, RInv, IInv, Typed
<1> HIDE DEF f
<1>5. LeaseInOrder(p)' /\ PairInOrder(p)' /\ TasksInOrder(p)'
  BY <1>1, <1>2, <1>4
  DEF InOrder, LeaseInOrder, PairInOrder, TasksInOrder, Undecided, Choosing, Deciding,
      Published, Ending, f
<1>6. JobInOrder(p)'
  BY <1>1, <1>2, <1>4 DEF InOrder, JobInOrder, Choosing, Deciding, Published, f
<1>7. LooksInOrder(p)'
  <2> SUFFICES ASSUME NEW g \in Families
               PROVE  /\ Owner[g] < position[p] => looks'[g].last = "pass"
                      /\ Owner[g] > position[p] => looks'[g] = NoLook
                      /\ Owner[g] = position[p] => OwnLooks(p, g)'
    BY <1>1 DEF LooksInOrder
  <2>1. CASE g = f
    BY <1>1, <1>4, <2>1
    DEF OwnLooks, Choosing, Deciding, Published, Ending, Unlooked, f
  <2>2. CASE g # f
    BY <1>1, <1>2, <1>4, <2>2
    DEF InOrder, LooksInOrder, OwnLooks, Choosing, Deciding, Published, Ending, Unlooked, f
  <2> QED
    BY <2>1, <2>2
<1> QED
  BY <1>5, <1>6, <1>7 DEF InOrder

LEMMA UnlinkInOrder ==
  ASSUME OInv, NEW p \in Processes, Unlink(p)
  PROVE  InOrder(p)'
<1>1. /\ pc[p] = "unlink" /\ p \in Executing /\ InOrder(p)
      /\ pc' = [pc EXCEPT ![p] = IF job[p].at = ResultDirectory THEN "reverify" ELSE "looks"]
      /\ tmps' = tmps \ {job[p].at}
      /\ UNCHANGED <<launch, markerTmp, status, selectedK, looks, checkpoint, pair, position, job>>
  BY ExecutorIs DEF Unlink, GoTo, Here, Executing, BeforeStart
<1>2. pc'[p] = IF job[p].at = ResultDirectory THEN "reverify" ELSE "looks"
  BY <1>1 DEF OInv, RInv, IInv, Typed
<1>3. LeaseInOrder(p)' /\ PairInOrder(p)' /\ JobInOrder(p)' /\ TasksInOrder(p)'
  BY <1>1, <1>2
  DEF InOrder, LeaseInOrder, PairInOrder, JobInOrder, TasksInOrder, Undecided, Choosing,
      Deciding, Published, Ending
<1>4. LooksInOrder(p)'
  BY <1>1, <1>2
  DEF InOrder, LooksInOrder, OwnLooks, Choosing, Deciding, Published, Ending, Unlooked
<1> QED
  BY <1>3, <1>4 DEF InOrder

\* A task that has passed hands over to the next, the last but one to the pair,
\* and the last to the completion.
LEMMA ReverifyInOrder ==
  ASSUME OInv, NEW p \in Processes, Reverify(p), p \in Executing'
  PROVE  InOrder(p)'
<1> DEFINE t == position[p]
           n == IF t = NumTasks THEN t ELSE t + 1
<1>1. /\ pc[p] = "reverify" /\ p \in Executing /\ InOrder(p) /\ t \in Tasks /\ t \in Nat
      /\ status[t] = "passed"
      /\ pc' = [pc EXCEPT ![p] = After(t)] /\ position' = [position EXCEPT ![p] = n]
      /\ UNCHANGED <<durable>>
  BY EndLeaves, ExecutorIs DEF Reverify, Stop, GoTo, MoveTo, Executing, BeforeStart
<1>2. /\ pc'[p] = CASE t = NumTasks -> "complete"
                    [] t = NumTasks - 1 -> "assemble"
                    [] OTHER -> "science"
      /\ position'[p] = n
  BY <1>1 DEF OInv, RInv, RunTyped, IInv, Typed, After
<1>3. NumTasks \in Nat /\ NumTasks > 1 /\ \A f \in Families : Owner[f] \in Nat
  BY <1>1, TaskNumbers, OtherLooks
<1>4. n \in Nat /\ (pc'[p] = "science" => n # NumTasks) /\ (t # NumTasks => n = t + 1)
  BY <1>1, <1>2, <1>3
<1>5. ASSUME NEW f \in Families, Owner[f] = t PROVE looks[f].last = "pass"
  <2>1. Published(p) /\ job[p].outcome = "passed" /\ f \in Owned(t)
    BY <1>1, <1>5 DEF Published, InOrder, TasksInOrder, Owned
  <2> QED
    BY <1>1, <1>5, <2>1 DEF InOrder, LooksInOrder, OwnLooks, JobInOrder
<1>6. UNCHANGED <<launch, markerTmp, status, selectedK, looks, tmps, checkpoint, pair>>
  BY <1>1 DEF durable, store
<1> HIDE DEF t, n
<1>7. LeaseInOrder(p)' /\ PairInOrder(p)' /\ JobInOrder(p)'
  <2>1. PairInOrder(p)'
    BY <1>1, <1>2, <1>3, <1>4, <1>6 DEF InOrder, PairInOrder, Ending, t, n
  <2> QED
    BY <1>1, <1>2, <1>6, <2>1
    DEF InOrder, LeaseInOrder, JobInOrder, Choosing, Deciding, Published
<1>8. TasksInOrder(p)'
  <2>1. \A u \in Tasks : /\ u < n => status[u] = "passed"
                         /\ u > n => status[u] = "absent"
    BY <1>1, <1>4, TaskNumbers DEF InOrder, TasksInOrder, t, n
  <2>2. pc'[p] \in {"science", "assemble"} => n \in Tasks /\ n > t
    BY <1>1, <1>2, <1>3, <1>4, TaskNumbers DEF n
  <2>3. pc'[p] \in {"science", "assemble"} => status[n] = "absent"
    BY <1>1, <2>2 DEF InOrder, TasksInOrder, t
  <2>4. pc'[p] = "complete" => n = t
    BY <1>1, <1>2, <1>3 DEF n
  <2> QED
    BY <1>1, <1>2, <1>6, <2>1, <2>3, <2>4
    DEF TasksInOrder, Undecided, Choosing, Deciding, Published, Ending
<1>9. LooksInOrder(p)'
  <2> SUFFICES ASSUME NEW f \in Families
               PROVE  /\ Owner[f] < n => looks[f].last = "pass"
                      /\ Owner[f] > n => looks[f] = NoLook
                      /\ Owner[f] = n => OwnLooks(p, f)'
    BY <1>2, <1>6 DEF LooksInOrder
  <2>1. /\ Owner[f] < t \/ Owner[f] = t => looks[f].last = "pass"
        /\ Owner[f] > t => looks[f] = NoLook
    BY <1>1, <1>5, OtherLooks DEF t
  <2>2. Owner[f] \in Nat
    BY <1>3
  <2>3. pc'[p] = "complete" => n = t
    BY <1>1, <1>2, <1>3 DEF n
  <2>4. pc'[p] # "complete" => n = t + 1
    BY <1>1, <1>2, <1>3, <1>4
  <2>5. Owner[f] = n => OwnLooks(p, f)'
    BY <1>1, <1>2, <1>6, <2>1, <2>2, <2>3, <2>4
    DEF OwnLooks, Choosing, Deciding, Published, Ending, Unlooked
  <2> QED
    BY <1>1, <1>2, <1>4, <2>1, <2>2, <2>3, <2>4, <2>5
<1> QED
  BY <1>7, <1>8, <1>9 DEF InOrder

LEMMA FinalizeInOrder ==
  ASSUME OInv, NEW p \in Processes, Finalize(p), p \in Executing'
  PROVE  InOrder(p)'
<1>1. p \in Executing /\ InOrder(p) /\ ~Return(p) /\ ~Stop(p)
  BY ExecutorActs, ExecutorIs, EndLeaves DEF Return, Stop
<1>2. PICK step \in {"pair", "science", "evidence", "return"} :
        /\ pc' = [pc EXCEPT ![p] = step]
        /\ \/ pc[p] = "assemble" /\ step = "pair" /\ OwnerFixed
              /\ UNCHANGED <<pair, launch>>
           \/ pc[p] = "pair" /\ step = (IF pair + 1 = 3 THEN "science" ELSE "pair")
              /\ pair' = pair + 1 /\ UNCHANGED launch
           \/ pc[p] = "complete" /\ step = "evidence" /\ launch' = "completed"
              /\ UNCHANGED pair
           \/ pc[p] = "evidence" /\ step = "return" /\ UNCHANGED <<pair, launch>>
  BY <1>1 DEF Finalize, Assemble, PublishPair, CompleteLaunch, PublishEvidence, Proceed, GoTo,
              durable, store
<1>3. UNCHANGED <<markerTmp, status, selectedK, looks, tmps, checkpoint, position, job>>
  BY <1>1 DEF Finalize, Assemble, PublishPair, CompleteLaunch, PublishEvidence, Proceed, Here,
              durable, store
<1>4. pc'[p] = step
  BY <1>2 DEF OInv, RInv, IInv, Typed
<1>5. pair \in 0..3
  BY DEF OInv, TypeOK
<1>6. LeaseInOrder(p)' /\ JobInOrder(p)' /\ TasksInOrder(p)'
  BY <1>1, <1>2, <1>3, <1>4
  DEF InOrder, LeaseInOrder, JobInOrder, TasksInOrder, Undecided, Choosing, Deciding,
      Published, Ending
<1>7. PairInOrder(p)'
  BY <1>1, <1>2, <1>3, <1>4, <1>5 DEF InOrder, PairInOrder, OwnerFixed, Ending
<1>8. LooksInOrder(p)'
  BY <1>1, <1>2, <1>3, <1>4
  DEF InOrder, LooksInOrder, OwnLooks, Choosing, Deciding, Published, Ending, Unlooked
<1> QED
  BY <1>6, <1>7, <1>8 DEF InOrder

\* Nobody comes into the execution but by starting the launch.
LEMMA OwnInOrder ==
  ASSUME OInv, NEW p \in Processes, Step(p), p \in Executing'
  PROVE  InOrder(p)'
<1>1. CASE Prepare(p) \/ AcquireLock(p)
  <2>1. p \in Executing /\ ~(p \in Executing)
    BY <1>1, PreparationStays
    DEF Prepare, Call, OpenRecord, LinkSetup, UnlinkSetup, AcquireLock, Executing, BeforeStart,
        OInv, RInv
  <2> QED
    BY <2>1
<1>2. CASE StartLaunch(p) \/ Enter(p)
  BY <1>2, StartInOrder, EnterInOrder
<1>3. CASE Task(p)
  <2>1. CASE Link(p)
    BY <2>1, LinkResultInOrder, LinkLookInOrder
  <2> QED
    BY <1>3, <2>1, ScienceInOrder, PublishLookInOrder, BindInOrder, CheckpointInOrder,
       RecordInOrder, UnlinkInOrder, ReverifyInOrder DEF Task
<1>4. CASE Finalize(p)
  BY <1>4, FinalizeInOrder
<1>5. CASE Kill(p) \/ Raise(p)
  BY <1>5, EndLeaves DEF Kill, Raise, Fault, Stop
<1> QED
  BY <1>1, <1>2, <1>3, <1>4, <1>5 DEF Step, Begin

\* Who has not the lock leaves no temporary in a launch that has begun.
LEMMA OutsiderTidies ==
  ASSUME OInv, launch # "none", NEW p \in Processes, p \notin Locked, Step(p)
  PROVE  UNCHANGED tmps /\ (~markerTmp => ~markerTmp')
<1> USE DEF durable, store
<1>1. CASE LinkSetup(p)
  <2>1. UNCHANGED tmps
    BY <1>1 DEF LinkSetup
  <2>2. Written("marker")
    BY DEF Written, OInv, RInv, IInv, MarkerFirst
  <2>3. UNCHANGED markerTmp \/ markerTmp' = FALSE
    BY <1>1, <2>2 DEF LinkSetup
  <2> QED
    BY <2>1, <2>3
<1>2. CASE Call(p) \/ OpenRecord(p) \/ AcquireLock(p) \/ StartLaunch(p)
  BY <1>2 DEF Call, OpenRecord, AcquireLock, StartLaunch
<1>3. CASE UnlinkSetup(p)
  BY <1>3 DEF UnlinkSetup, Unhang
<1>4. CASE Enter(p) \/ Task(p) \/ Finalize(p)
  BY <1>4, ExecutorActs, ExecutorLocked
<1>5. CASE Kill(p) \/ Raise(p)
  BY <1>5 DEF Kill, Raise, Unhang, Locked, BeforeStart
<1> QED
  BY <1>1, <1>2, <1>3, <1>4, <1>5 DEF Step, Prepare, Begin

\* Whoever executes stays in order while others step.
LEMMA OthersInOrder ==
  ASSUME OInv, NEW p \in Processes, Step(p), Own(p), NEW q \in Processes \ {p}, q \in Executing'
  PROVE  InOrder(q)'
<1>1. pc'[q] = pc[q] /\ position'[q] = position[q] /\ job'[q] = job[q] /\ q \in Executing
  BY DEF Own, Executing
<1>2. InOrder(q) /\ q \in Locked
  BY <1>1, ExecutorIs
<1>3. p \notin Locked
  BY <1>2 DEF OInv, RInv, IInv, Exclusive
<1>4. launch # "none" /\ ~markerTmp
  BY <1>2 DEF InOrder, LeaseInOrder
<1>5. UNCHANGED published /\ UNCHANGED tmps /\ ~markerTmp'
  BY <1>3, <1>4, OutsiderSpares, OutsiderTidies DEF OInv, RInv
<1>6. LeaseInOrder(q)' /\ PairInOrder(q)' /\ TasksInOrder(q)'
  BY <1>1, <1>2, <1>5
  DEF published, InOrder, LeaseInOrder, PairInOrder, TasksInOrder, OwnerFixed, Undecided,
      Choosing, Deciding, Published
<1>7. JobInOrder(q)'
  BY <1>1, <1>2, <1>5 DEF published, InOrder, JobInOrder, Choosing, Deciding, Published
<1>8. LooksInOrder(q)'
  BY <1>1, <1>2, <1>5
  DEF published, InOrder, LooksInOrder, OwnLooks, Choosing, Deciding, Published
<1> QED
  BY <1>6, <1>7, <1>8 DEF InOrder

\* The types of what is shared.
SharedTyped ==
    /\ launch \in {"none", "planned", "running", "completed"}
    /\ sequence \in Nat
    /\ markerTmp \in BOOLEAN
    /\ looks \in [Families -> [count : Nat, last : Decisions \cup {"none"}]]
    /\ tmps \subseteq Directories
    /\ hanging \subseteq {"manifest", "receipt"}
    /\ checkpoint \in [Tasks -> SUBSET (StateCounts \cup {NoCount})]
    /\ pair \in 0..3
    /\ evidence \in BOOLEAN
    /\ faults \in 0..MaxFaults

LEMMA SharedStays ==
  ASSUME OInv, NEW p \in Processes, Step(p)
  PROVE  SharedTyped'
<1> USE DEF durable, store
<1>1. SharedTyped
  BY DEF OInv, TypeOK, StoreTypeOK, SharedTyped
<1>2. job[p] \in Jobs /\ position[p] \in Tasks \cup 1..3
  BY SetupIs DEF OInv, TypeOK
<1>3. ASSUME UNCHANGED <<durable, faults>> PROVE SharedTyped'
  BY <1>1, <1>3 DEF SharedTyped
<1>4. CASE LinkSetup(p)
  <2> DEFINE r == Setup[position[p]]
  <2>1. r \in {"manifest", "receipt", "marker"}
    BY <1>4, SetupIs DEF LinkSetup, OInv, SetupInOrder
  <2>2. UNCHANGED <<hanging, launch, markerTmp>>
          \/ /\ hanging' = hanging \cup ({r} \ {"marker"}) /\ markerTmp' = (r = "marker")
             /\ launch' \in {"planned", launch}
    BY <1>4 DEF LinkSetup
  <2>3. UNCHANGED <<sequence, looks, tmps, checkpoint, pair, evidence, faults>>
    BY <1>4 DEF LinkSetup
  <2>4. hanging' \subseteq {"manifest", "receipt"} /\ markerTmp' \in BOOLEAN
    BY <1>1, <2>1, <2>2 DEF SharedTyped
  <2> QED
    BY <1>1, <2>2, <2>3, <2>4 DEF SharedTyped
<1>5. CASE UnlinkSetup(p)
  BY <1>1, <1>5 DEF UnlinkSetup, Unhang, SharedTyped
<1>6. CASE StartLaunch(p)
  BY <1>1, <1>6 DEF StartLaunch, SharedTyped
<1>7. CASE PublishLook(p)
  <2>1. CASE UNCHANGED tmps
    BY <1>1, <1>7, <2>1 DEF PublishLook, SharedTyped
  <2>2. CASE tmps' # tmps
    <3>1. Unfinished(p) # {}
      BY <1>7, <2>2 DEF PublishLook
    <3>2. NextFamily(p) \in Directories
      BY <3>1, NextFamilyIsFamily
    <3>3. tmps' = tmps \cup {NextFamily(p)}
      BY <1>7, <2>2, <3>1 DEF PublishLook
    <3>4. tmps' \subseteq Directories
      BY <1>1, <3>2, <3>3 DEF SharedTyped
    <3> QED
      BY <1>1, <1>7, <3>4 DEF PublishLook, SharedTyped
  <2> QED
    BY <2>1, <2>2
<1>8. CASE CreateCheckpoint(p)
  BY <1>1, <1>2, <1>8 DEF CreateCheckpoint, SharedTyped, Jobs
<1>9. CASE BeginResult(p)
  <2>1. ResultDirectory \in Directories
    BY RegistryAssumption DEF Directories, ResultDirectory
  <2> QED
    BY <1>1, <1>9, <2>1 DEF BeginResult, SharedTyped
<1>10. CASE Link(p)
  <2>1. CASE ResultLinked(p)
    BY <1>1, <1>10, <2>1 DEF ResultLinked, Link, SharedTyped
  <2>2. CASE ~ResultLinked(p)
    <3> DEFINE f == job[p].at
    <3>1. /\ f # ResultDirectory /\ p \in Executing /\ pc[p] = "link"
          /\ looks' = [looks EXCEPT ![f] = [count |-> @.count + 1, last |-> Decision(p, f)]]
      BY <1>10, <2>2 DEF ResultLinked, Link, Executing, BeforeStart
    <3>2. f \in Owned(position[p]) /\ job[p].plan \in Plans(position[p])
      BY <3>1, ExecutorIs DEF InOrder, JobInOrder, Choosing
    <3>3. f \in Families /\ Decision(p, f) \in Decisions
      BY <3>2 DEF Owned, Plans, Decision, Decisions
    <3>4. looks' \in [Families -> [count : Nat, last : Decisions \cup {"none"}]]
      <4> HIDE DEF f
      <4> QED
        BY <1>1, <3>1, <3>3 DEF SharedTyped
    <3> QED
      BY <1>1, <1>10, <3>4 DEF Link, SharedTyped
  <2> QED
    BY <2>1, <2>2
<1>11. CASE Unlink(p)
  BY <1>1, <1>11 DEF Unlink, SharedTyped
<1>12. CASE PublishPair(p)
  <2>1. pair < 3
    BY <1>12, ExecutorIs DEF PublishPair, Executing, BeforeStart, InOrder, PairInOrder
  <2> QED
    BY <1>1, <1>12, <2>1 DEF PublishPair, SharedTyped
<1>13. CASE CompleteLaunch(p)
  BY <1>1, <1>13 DEF CompleteLaunch, SharedTyped
<1>14. CASE PublishEvidence(p)
  <2>1. evidence' \in BOOLEAN
    BY <1>1, <1>14 DEF PublishEvidence, SharedTyped
  <2> QED
    BY <1>1, <1>14, <2>1 DEF PublishEvidence, SharedTyped
<1>15. CASE Kill(p)
  BY <1>1, <1>15, ExecutionAssumption DEF Kill, Fault, SharedTyped
<1>16. CASE Raise(p)
  <2>1. faults' \in 0..MaxFaults
    BY <1>1, <1>16, ExecutionAssumption DEF Raise, Fault, SharedTyped
  <2>2. hanging' \subseteq hanging /\ tmps' \subseteq tmps
    BY <1>16 DEF Raise, Unhang
  <2>3. markerTmp' \in BOOLEAN
    BY <1>1, <1>16 DEF Raise, Unhang, SharedTyped
  <2> QED
    BY <1>1, <1>16, <2>1, <2>2, <2>3 DEF Raise, SharedTyped
<1> QED
  BY <1>3, <1>4, <1>5, <1>6, <1>7, <1>8, <1>9, <1>10, <1>11, <1>12, <1>13, <1>14, <1>15, <1>16
  DEF Step, Prepare, Begin, Task, Finalize, Call, OpenRecord, AcquireLock, Enter, Science, Bind,
      Reverify, Assemble, Return

LEMMA StepOwns ==
  ASSUME RInv, NEW p \in Processes, Step(p)
  PROVE  Own(p)
BY PreparationOwns, TaskOwns, FinalizeOwns DEF Step

LEMMA TypesStay ==
  ASSUME OInv, NEW p \in Processes, Step(p)
  PROVE  TypeOK'
<1>1. RInv'
  BY RunStepHolds DEF OInv, Next, Step
<1>2. position' \in [Processes -> Tasks \cup DOMAIN Setup]
  <2>1. Own(p) /\ position'[p] \in Tasks \cup 1..3
    BY StepOwns, SetsUp DEF OInv
  <2>2. position \in [Processes -> Tasks \cup 1..3]
    BY SetupIs DEF OInv, TypeOK
  <2>3. \A q \in Processes : position'[q] \in Tasks \cup 1..3
    BY <2>1, <2>2 DEF Own
  <2> QED
    BY <2>1, <2>3, SetupIs DEF Own
<1> QED
  BY <1>1, <1>2, SharedStays
  DEF SharedTyped, TypeOK, StoreTypeOK, RInv, RunTyped, IInv, Typed

\* The marker is moved by its planning, the start and the completion.
LEMMA LaunchMovers ==
  ASSUME NEW p \in Processes, Step(p), launch' # launch
  PROVE  LinkSetup(p) \/ StartLaunch(p) \/ CompleteLaunch(p)
BY DEF Step, Prepare, Begin, Task, Finalize, Call, OpenRecord, UnlinkSetup, AcquireLock, Enter,
   Science, PublishLook, Bind, CreateCheckpoint, BeginResult, Link, Unlink, Reverify, Assemble,
   PublishPair, PublishEvidence, Return, Kill, Raise, durable, store

\* Only the completion completes.
LEMMA CompletesOnly ==
  ASSUME NEW p \in Processes, Step(p), launch' = "completed", ~CompleteLaunch(p)
  PROVE  launch = "completed"
BY LaunchMovers DEF LinkSetup, StartLaunch

\* Once the launch runs, it never gets back to where it could be started.
LEMMA NothingBeforeStays ==
  ASSUME OInv, NEW p \in Processes, Step(p)
  PROVE  NothingBefore'
<1> SUFFICES ASSUME launch' \in {"none", "planned"}
             PROVE  /\ \A t \in Tasks : status'[t] = "absent"
                    /\ \A f \in Families : looks'[f] = NoLook
                    /\ tmps' = {} /\ pair' = 0 /\ ~evidence'
  BY DEF NothingBefore
<1> USE DEF durable, store
<1>1. launch \in {"none", "planned"}
  <2>1. CASE LinkSetup(p)
    BY <2>1 DEF LinkSetup, Written, OInv, RInv, IInv, MarkerFirst
  <2>2. CASE StartLaunch(p)
    BY <2>2 DEF StartLaunch
  <2>3. CASE CompleteLaunch(p)
    BY <2>3 DEF CompleteLaunch
  <2> QED
    BY <2>1, <2>2, <2>3, LaunchMovers
<1>2. p \notin Executing
  BY <1>1, ExecutorIs DEF InOrder, LeaseInOrder
<1>3. UNCHANGED <<status, looks, tmps, pair, evidence>>
  <2>1. CASE Prepare(p) \/ AcquireLock(p) \/ StartLaunch(p)
    BY <2>1 DEF Prepare, Call, OpenRecord, LinkSetup, UnlinkSetup, AcquireLock, StartLaunch
  <2>2. CASE Enter(p) \/ Task(p) \/ Finalize(p)
    BY <1>2, <2>2, ExecutorActs
  <2>3. CASE Kill(p) \/ Raise(p)
    BY <1>2, <2>3 DEF Kill, Raise, Executing, BeforeStart
  <2> QED
    BY <2>1, <2>2, <2>3 DEF Step, Begin
<1> QED
  BY <1>1, <1>3 DEF OInv, NothingBefore

\* Checkpoints are only added, and only before their result.
LEMMA CheckpointsGrow ==
  ASSUME OInv, NEW p \in Processes, Step(p)
  PROVE  \A t \in Tasks : checkpoint[t] \subseteq checkpoint'[t]
<1>1. CASE CreateCheckpoint(p)
  <2>1. checkpoint \in [Tasks -> SUBSET (StateCounts \cup {NoCount})]
    BY DEF OInv, TypeOK
  <2> QED
    BY <1>1, <2>1 DEF CreateCheckpoint
<1>2. ASSUME ~CreateCheckpoint(p) PROVE UNCHANGED checkpoint
  BY <1>2 DEF Step, Prepare, Begin, Task, Finalize, Call, OpenRecord, LinkSetup, UnlinkSetup,
     AcquireLock, StartLaunch, Enter, Science, PublishLook, Bind, BeginResult, Link, Unlink,
     Reverify, Assemble, PublishPair, CompleteLaunch, PublishEvidence, Return, Kill, Raise,
     durable
<1> QED
  BY <1>1, <1>2

\* What is decided stays as it is decided.
LEMMA DecidedStays ==
  ASSUME OInv, NEW p \in Processes, Step(p), NEW t \in Tasks, status[t] # "absent"
  PROVE  status'[t] = status[t] /\ selectedK'[t] = selectedK[t]
<1>1. CASE ResultLinked(p)
  <2>1. /\ position[p] \in Tasks /\ position[p] \in Nat /\ Decided(p)
        /\ status' = [status EXCEPT ![position[p]] = job[p].outcome]
        /\ selectedK' = [selectedK EXCEPT ![position[p]] = job[p].count]
    BY <1>1, ResultIsDecided, TaskNumbers DEF OInv
  <2>2. t # position[p]
    BY <2>1 DEF Decided
  <2> QED
    BY <2>1, <2>2 DEF OInv, RInv, RunTyped
<1>2. CASE ~ResultLinked(p)
  BY <1>2, OnlyResultsDecide DEF OInv
<1> QED
  BY <1>1, <1>2

LEMMA ResultsStayBacked ==
  ASSUME OInv, NEW p \in Processes, Step(p)
  PROVE  ResultsBacked'
<1> SUFFICES ASSUME NEW t \in Tasks, status'[t] # "absent"
             PROVE  /\ \A u \in Tasks : u < t => status'[u] = "passed"
                    /\ status'[t] # "blocked"
                    /\ status'[t] = "passed" => selectedK'[t] \in checkpoint'[t]
                    /\ t = SelectionTask /\ status'[t] = "passed" =>
                         selectedK'[t] \in StateCounts
  BY DEF ResultsBacked
<1>1. checkpoint[t] \subseteq checkpoint'[t]
  BY CheckpointsGrow
<1>2. CASE status[t] # "absent"
  <2>1. ASSUME NEW u \in Tasks, u < t PROVE status'[u] = "passed"
    BY <1>2, <2>1, DecidedStays DEF OInv, ResultsBacked
  <2> QED
    BY <1>1, <1>2, <2>1, DecidedStays DEF OInv, ResultsBacked
<1>3. CASE status[t] = "absent"
  <2>1. ResultLinked(p)
    BY <1>3, OnlyResultsDecide DEF OInv
  <2>2. /\ t = position[p] /\ Decided(p) /\ job[p].outcome \in {"passed", "failed"}
        /\ status'[t] = job[p].outcome /\ selectedK'[t] = job[p].count
    BY <1>3, <2>1, ResultIsDecided DEF OInv, RInv, RunTyped
  <2>3. /\ pc[p] = "link" /\ Deciding(p) /\ p \in Executing
    BY <2>1 DEF ResultLinked, Link, Deciding, Executing, BeforeStart
  <2>4. TasksInOrder(p) /\ JobInOrder(p)
    BY <2>3, ExecutorIs DEF InOrder
  <2>5. ASSUME NEW u \in Tasks, u < t PROVE status'[u] = "passed"
    BY <2>2, <2>4, <2>5, DecidedStays DEF TasksInOrder
  <2>6. status'[t] = "passed" => selectedK'[t] \in checkpoint[t]
    BY <2>2, <2>3, <2>4 DEF JobInOrder
  <2>7. t = SelectionTask /\ status'[t] = "passed" => selectedK'[t] \in StateCounts
    BY <2>2 DEF Decided, CountIsRight
  <2> QED
    BY <1>1, <2>2, <2>5, <2>6, <2>7
<1> QED
  BY <1>2, <1>3

\* The artifacts, the completion and the evidence come to what they need, and
\* nothing is taken from it.
LEMMA EndStaysBacked ==
  ASSUME OInv, NEW p \in Processes, Step(p)
  PROVE  EndBacked'
<1> USE DEF durable, store
<1>1. pair' > 0 => AllPassed(Rests)' /\ OwnerFixed'
  <2>1. ASSUME AllPassed(Rests), OwnerFixed PROVE AllPassed(Rests)' /\ OwnerFixed'
    <3>1. SelectionTask \in Rests
      BY TaskNumbers DEF Rests
    <3>2. \A t \in Rests : t \in Tasks /\ status[t] = "passed"
      BY <2>1 DEF AllPassed, Rests
    <3> QED
      BY <2>1, <3>1, <3>2, DecidedStays DEF AllPassed, OwnerFixed
  <2>2. CASE PublishPair(p)
    <3>1. pc[p] = "pair" /\ p \in Executing
      BY <2>2 DEF PublishPair, Executing, BeforeStart
    <3>2. position[p] = NumTasks /\ OwnerFixed /\ TasksInOrder(p)
      BY <3>1, ExecutorIs DEF InOrder, PairInOrder
    <3>3. AllPassed(Rests)
      BY <3>2, TaskNumbers DEF TasksInOrder, AllPassed, Rests
    <3> QED
      BY <2>1, <3>2, <3>3
  <2>3. ASSUME ~PublishPair(p) PROVE UNCHANGED pair
    BY <2>3 DEF Step, Prepare, Begin, Task, Finalize, Call, OpenRecord, LinkSetup, UnlinkSetup,
       AcquireLock, StartLaunch, Enter, Science, PublishLook, Bind, CreateCheckpoint,
       BeginResult, Link, Unlink, Reverify, Assemble, CompleteLaunch, PublishEvidence, Return,
       Kill, Raise
  <2> QED
    BY <2>1, <2>2, <2>3 DEF OInv, EndBacked
<1>2. launch' = "completed" =>
        pair' = 3 /\ AllPassed(Tasks)' /\ \A f \in Families : looks'[f].last = "pass"
  <2>1. CASE CompleteLaunch(p)
    <3>1. pc[p] = "complete" /\ p \in Executing /\ UNCHANGED <<pair, status, looks>>
      BY <2>1 DEF CompleteLaunch, Executing, BeforeStart
    <3>2. pair = 3 /\ AllPassed(Tasks) /\ \A f \in Families : looks[f].last = "pass"
      BY <3>1, EndsInOrder DEF Ending
    <3> QED
      BY <3>1, <3>2 DEF AllPassed
  <2>2. CASE ~CompleteLaunch(p) /\ launch' = "completed"
    <3>1. launch = "completed"
      BY <2>2, CompletesOnly
    <3>2. ~Link(p) /\ ~PublishPair(p)
      <4>1. ASSUME Link(p) \/ PublishPair(p) PROVE launch = "running"
        BY <4>1, ExecutorIs DEF Link, PublishPair, Executing, BeforeStart, InOrder, LeaseInOrder
      <4> QED
        BY <3>1, <4>1
    <3>3. UNCHANGED <<pair, status, looks>>
      BY <3>2 DEF Step, Prepare, Begin, Task, Finalize, Call, OpenRecord, LinkSetup, UnlinkSetup,
         AcquireLock, StartLaunch, Enter, Science, PublishLook, Bind, CreateCheckpoint,
         BeginResult, Unlink, Reverify, Assemble, CompleteLaunch, PublishEvidence, Return,
         Kill, Raise
    <3> QED
      BY <3>1, <3>3 DEF OInv, EndBacked, AllPassed
  <2> QED
    BY <2>1, <2>2
<1>3. evidence' => launch' = "completed"
  <2>1. launch = "completed" => launch' = "completed"
    BY MarkerMoves DEF OInv
  <2>2. CASE PublishEvidence(p)
    <3>1. launch = "completed"
      BY <2>2, ExecutorIs DEF PublishEvidence, Executing, BeforeStart, InOrder, LeaseInOrder
    <3> QED
      BY <2>1, <3>1
  <2>3. ASSUME ~PublishEvidence(p) PROVE UNCHANGED evidence
    BY <2>3 DEF Step, Prepare, Begin, Task, Finalize, Call, OpenRecord, LinkSetup, UnlinkSetup,
       AcquireLock, StartLaunch, Enter, Science, PublishLook, Bind, CreateCheckpoint,
       BeginResult, Link, Unlink, Reverify, Assemble, PublishPair, CompleteLaunch, Return,
       Kill, Raise
  <2> QED
    BY <2>1, <2>2, <2>3 DEF OInv, EndBacked
<1> QED
  BY <1>1, <1>2, <1>3 DEF EndBacked

LEMMA OrderStepHolds == OInv /\ [Next]_vars => OInv'
<1> SUFFICES ASSUME OInv, [Next]_vars PROVE OInv'
  OBVIOUS
<1>1. RInv'
  BY RunStepHolds DEF OInv
<1>2. CASE UNCHANGED vars
  <2>1. TypeOK' /\ NothingBefore' /\ ResultsBacked' /\ EndBacked'
    BY <1>2 DEF vars, durable, local, store, OInv, TypeOK, StoreTypeOK, NothingBefore,
       ResultsBacked, EndBacked, AllPassed, OwnerFixed
  <2>2. \A p \in Processes : SetupInOrder(p)'
    BY <1>2 DEF vars, durable, local, store, OInv, SetupInOrder, PastReceipt, Wanted, Executing
  <2>3. ASSUME NEW p \in Executing' PROVE InOrder(p)'
    <3>1. InOrder(p) /\ UNCHANGED <<published, tmps, markerTmp, local>>
      BY <1>2, <2>3 DEF vars, durable, local, store, published, OInv, Executing
    <3> QED
      BY <3>1 DEF published, local, InOrder, LeaseInOrder, TasksInOrder, LooksInOrder, OwnLooks,
         JobInOrder, PairInOrder, OwnerFixed, Undecided, Choosing, Deciding, Published
  <2> QED
    BY <1>1, <2>1, <2>2, <2>3 DEF OInv
<1>3. ASSUME NEW p \in Processes, Step(p) PROVE OInv'
  <2>1. Own(p) /\ SetupInOrder(p)' /\ seen' = [seen EXCEPT ![p] = seen'[p]]
    BY <1>3, StepOwns, SetsUp DEF OInv
  <2>2. \A q \in Processes : SetupInOrder(q)'
    BY <1>3, <2>1, OthersSetUp
  <2>3. \A q \in Processes : q \in Executing' => InOrder(q)'
    BY <1>3, <2>1, OwnInOrder, OthersInOrder
  <2>4. TypeOK' /\ NothingBefore' /\ ResultsBacked' /\ EndBacked'
    BY <1>3, TypesStay, NothingBeforeStays, ResultsStayBacked, EndStaysBacked
  <2> QED
    BY <1>1, <2>2, <2>3, <2>4 DEF OInv, Executing
<1> QED
  BY <1>2, <1>3 DEF Next, Step

LEMMA OrderInvHolds == Spec => []OInv
BY OrderInitHolds, OrderStepHolds, PTL DEF Spec

\* Whatever the call that executes a launch finds when it looks again at what it has
\* published is what it published: none of these checks ever fails, however many
\* other calls prepare, wait, are refused or are killed meanwhile.  Whether the
\* science passes its looks, and has chosen the state count that the owner fixed,
\* are not such checks.
THEOREM ScienceAloneStops == Spec => []OnlyScienceStops
BY OrderInvHolds, ChecksHold, PTL

\* A passed result has its checkpoint and those of all that it rests on, the
\* artifacts the first 25 tasks, a completion both artifacts and every pass, and
\* the evidence a completed launch whose last checkpoint names every task.
THEOREM EvidenceCorrect == Spec => []EvidenceIsBacked
BY OrderInvHolds, EvidenceHolds, PTL

=============================================================================
