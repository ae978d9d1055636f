---------------------------- MODULE BridgeDriver ----------------------------
(***************************************************************************)
(* The drivers of src/prpg/model/bridge_driver.py over their checkpoints.  *)
(*                                                                         *)
(* The canonical driver runs the resource benchmark, Tier A of both data   *)
(* generating processes, the planned looks of Tier B, and writes FINAL.    *)
(* The staged driver executes the same work one action at a time, each of  *)
(* which is recorded in a chain of events that is verified again, against  *)
(* the checkpoints, before the next action.  Both may be killed anywhere   *)
(* and are called again.  A checkpoint is made by the link of a temporary  *)
(* beside it, and most directories refuse to be read when they hold a file *)
(* that they do not know.                                                  *)
(*                                                                         *)
(* Numbers are reduced to what they decide (science): the same request has *)
(* the same results, except for the time that the benchmark measures.      *)
(***************************************************************************)
EXTENDS Naturals, FiniteSets, Sequences

CONSTANTS
    Sciences,   \* the results that requests of interest have
    NumBatches, \* batches of Tier-A pairs
    NumLooks,   \* planned looks of Tier B
    Timings,    \* what the benchmark may measure, beside passing or not
    Callers,    \* processes that call the canonical driver on one root
    StagedCaller, \* the process that holds the launch lease
    MaxFaults   \* bound: kills and exceptions

Dgps == {"model", "nonparametric"}
Decisions == {"pass_above_tail", "fail_below_tail", "fail_closed_at_maximum", "continue"}

\* tierA[d]: the gate of Tier A passes.  looks[d]: what each look decides, up to
\* the one that ends the sequence, or has an invalid fixed-K pair.
LookSequences ==
    {s \in UNION {[1..n -> Decisions \cup {"invalid"}] : n \in 1..NumLooks} :
        \A i \in DOMAIN s :
            /\ s[i] = "continue" <=> i < Len(s)
            /\ s[i] = "fail_closed_at_maximum" => i = NumLooks}
Science == [tierA : [Dgps -> BOOLEAN], looks : [Dgps -> LookSequences]]

ASSUME BridgeAssumption ==
    /\ NumBatches \in Nat \ {0}
    /\ NumLooks \in Nat \ {0}
    /\ Sciences \subseteq Science
    /\ StagedCaller \in Callers
    /\ MaxFaults \in Nat

VARIABLES
    mode,    \* which driver works on this root: "canonical" or "staged"
    science,
    disk,    \* the checkpoints: a function from files to what they say
    litter,  \* directories in which a kill left a temporary
    pc,      \* pc[p]: what caller p does next
    current, \* current[p]: the action its driver is at
    known,   \* known[p]: the batches or looks that it knows of for this action
    job,     \* job[p]: the file that it writes, and its content
    faults

bridge == <<mode, science, disk, litter, pc, current, known, job, faults>>

\* Actions and files have a kind, a data generating process and a number.
Item(kind, d, n) == [kind |-> kind, dgp |-> d, index |-> n]
NoItem == Item("none", "none", 0)

\* "binding" stands for the staged directory's own; the operational one is in a
\* directory that is not listed.
MaxEvents == 2 * NumLooks + 6
Files ==
    {Item(k, "none", 0) : k \in {"binding", "bench", "final"}}
        \cup {Item("tierA", d, 0) : d \in Dgps}
        \cup {Item("batch", d, n) : d \in Dgps, n \in 1..NumBatches}
        \cup {Item("look", d, n) : d \in Dgps, n \in 1..NumLooks}
        \cup {Item("event", "none", n) : n \in 1..MaxEvents}
Actions ==
    {Item(k, "none", 0) : k \in {"bench", "actual", "final"}}
        \cup {Item(k, d, 0) : k \in {"tierA", "look", "complete"}, d \in Dgps}
        \cup {Item("look", d, n) : d \in Dgps, n \in 1..NumLooks}

Bench == Item("bench", "none", 0)
Binding == Item("binding", "none", 0)
FinalFile == Item("final", "none", 0)
Exists(f) == f \in DOMAIN disk

\* The directories whose readers refuse an unknown name.
Directory(f) == [kind |-> IF f.kind = "binding" THEN "event" ELSE f.kind, dgp |-> f.dgp]
Listed(f) == f.kind \in {"binding", "event", "batch", "look"}
EventDirectory == Directory(Binding)
BatchDirectory(d) == [kind |-> "batch", dgp |-> d]
LookDirectory(d) == [kind |-> "look", dgp |-> d]

\* No temporary is in a directory: neither a dead process's nor that of one at
\* work.
Clean(directory) ==
    /\ directory \notin litter
    /\ \A q \in Callers : pc[q] \in {"temp", "linked"} => Directory(job[q].file) # directory

\* The contiguous receipts of a directory.
Batches(d) == Cardinality({n \in 1..NumBatches : Exists(Item("batch", d, n))})
Looks(d) == Cardinality({n \in 1..NumLooks : Exists(Item("look", d, n))})
Events == [n \in 1..Cardinality({m \in 1..MaxEvents : Exists(Item("event", "none", m))}) |->
              disk[Item("event", "none", n)]]

Verdict(passed) == IF passed THEN "passed" ELSE "failed"
Says(word) == [says |-> word]
Whole == Says("whole")

\* What a batch, an aggregate and a look say follows from the request.
Content(f) ==
    CASE f.kind = "tierA" -> Says(Verdict(science.tierA[f.dgp]))
      [] f.kind = "look" -> Says(science.looks[f.dgp][f.index])
      [] OTHER -> Whole

TierAPassed(d) == disk[Item("tierA", d, 0)] = Says("passed")
Terminal(d, n) == n > 0 /\ disk[Item("look", d, n)] # Says("continue")
TierBPassed(d) == Looks(d) > 0 /\ disk[Item("look", d, Looks(d))] = Says("pass_above_tail")

\* reverify_bridge_driver_result, but for the listings: FINAL is over the
\* benchmark there is, with nothing downstream of a gate that failed, whole
\* families of batches and looks otherwise, and the gates that they give.
Reconstructed ==
    LET bench == disk[Bench]
        tierA == bench.passed /\ \A d \in Dgps : TierAPassed(d)
    IN /\ Exists(Bench)
       /\ disk[FinalFile].bench = bench
       /\ \A d \in Dgps :
             /\ Batches(d) = IF bench.passed THEN NumBatches ELSE 0
             /\ Exists(Item("tierA", d, 0)) <=> bench.passed
             /\ Looks(d) > 0 <=> tierA
             /\ \A n \in 1..Looks(d) : Terminal(d, n) <=> n = Looks(d)
             /\ disk[FinalFile].gates[d] <=> tierA /\ TierBPassed(d)

-----------------------------------------------------------------------------
(* The staged chain of events *)

Recorded(events, kind, d) ==
    {events[n].outcome : n \in {m \in DOMAIN events :
        events[m].action.kind = kind /\ events[m].action.dgp = d}}
LookEvents(events, d) == {n \in DOMAIN events : events[n].action.kind = "look"
                                                 /\ events[n].action.dgp = d}
\* The model process comes before the nonparametric one.
FirstOf(S) == IF "model" \in S THEN "model" ELSE "nonparametric"

Missing(events, kind) == {d \in Dgps : Recorded(events, kind, d) = {}}
Passed(events, kind) == \A d \in Dgps : Recorded(events, kind, d) = {"passed"}

\* The looks of the first process that is not complete.
NextLook(events) ==
    LET d == FirstOf(Missing(events, "complete"))
        n == Cardinality(LookEvents(events, d))
    IN IF n = 0 \/ events[Len(events)].outcome = "continue" THEN Item("look", d, n + 1)
       ELSE Item("complete", d, 0)

\* _next_staged_action
NextAction(events) ==
    IF events = << >> THEN Bench
    ELSE IF "failed" \in Recorded(events, "bench", "none") THEN NoItem
    ELSE IF Missing(events, "tierA") # {}
         THEN Item("tierA", FirstOf(Missing(events, "tierA")), 0)
    ELSE IF ~Passed(events, "tierA") THEN NoItem
    ELSE IF Missing(events, "complete") # {} THEN NextLook(events)
    ELSE IF Passed(events, "complete") /\ Recorded(events, "actual", "none") = {}
         THEN Item("actual", "none", 0)
    ELSE NoItem

\* _validate_live_staged_task, _validate_live_staged_look: what the checkpoints
\* say of an action that follows the given events, or "lost".
LiveOutcome(events, a) ==
    CASE a.kind = "bench" ->
           IF Exists(Bench) THEN Verdict(disk[Bench].passed) ELSE "lost"
      [] a.kind = "tierA" -> IF Exists(a) THEN disk[a].says ELSE "lost"
      [] a.kind = "look" -> IF a.index <= Looks(a.dgp) THEN disk[a].says ELSE "lost"
      [] a.kind = "complete" -> Verdict(events[Len(events)].outcome = "pass_above_tail")
      [] a.kind = "actual" -> "passed"

\* The chain that reverify_staged_bridge_prefix accepts.
Accepted(events) ==
    \A n \in DOMAIN events :
        LET prefix == SubSeq(events, 1, n - 1)
        IN /\ events[n].action = NextAction(prefix)
           /\ events[n].outcome = LiveOutcome(prefix, events[n].action)

\* It lists the events, and the looks of which it finds one.
Reverifies ==
    /\ Clean(EventDirectory)
    /\ \A d \in Dgps : LookEvents(Events, d) # {} => Clean(LookDirectory(d))
    /\ Accepted(Events)

-----------------------------------------------------------------------------
BridgeInit ==
    /\ mode \in {"canonical", "staged"}
    /\ science \in Sciences
    /\ disk = [f \in {} |-> Whole]
    /\ litter = {}
    /\ pc = [p \in Callers |-> "idle"]
    /\ current = [p \in Callers |-> NoItem]
    /\ known = [p \in Callers |-> 0]
    /\ job = [p \in Callers |-> [file |-> NoItem, content |-> Whole]]
    /\ faults = 0

\* Caller p goes on to a step of a stage.
Goes(p, step, a, n) ==
    /\ pc' = [pc EXCEPT ![p] = step]
    /\ current' = [current EXCEPT ![p] = a]
    /\ known' = [known EXCEPT ![p] = n]

\* The call returns or raises.
Ends(p) ==
    /\ Goes(p, "idle", NoItem, 0)
    /\ job' = [job EXCEPT ![p] = [file |-> NoItem, content |-> Whole]]

Stays == UNCHANGED <<mode, science, faults>>
Reads == UNCHANGED <<mode, science, faults, disk, litter>>

\* It is about to write a file: _write_or_verify_exact.
Writes(p, f, content) ==
    /\ pc' = [pc EXCEPT ![p] = "write"]
    /\ job' = [job EXCEPT ![p] = [file |-> f, content |-> content]]
    /\ UNCHANGED <<current, known>>

\* A call of either driver.  The staged one first initializes its directory.
Call(p) ==
    /\ pc[p] = "idle"
    /\ mode = "staged" => p = StagedCaller
    /\ IF mode = "staged" THEN Writes(p, Binding, Whole)
       ELSE Goes(p, "read", Bench, 0) /\ UNCHANGED job
    /\ Reads

\* The action that follows one that the canonical driver has completed.
Following(a) ==
    CASE a = Bench ->
           IF disk[Bench].passed THEN Item("tierA", "model", 0) ELSE FinalFile
      [] a = Item("tierA", "model", 0) -> Item("tierA", "nonparametric", 0)
      [] a = Item("tierA", "nonparametric", 0) ->
           IF \A d \in Dgps : TierAPassed(d) THEN Item("look", "model", 0) ELSE FinalFile
      [] a = Item("look", "model", 0) -> Item("look", "nonparametric", 0)
      [] a = Item("look", "nonparametric", 0) -> FinalFile

\* The work of its stage is on disk: the staged driver records it, the canonical
\* one goes on.
Completes(p) ==
    /\ IF mode = "staged" THEN Goes(p, "record", current[p], 0)
       ELSE Goes(p, "read", Following(current[p]), 0)
    /\ UNCHANGED job

\* The staged driver verifies its chain and takes the next action, if any.
NextStaged(p) ==
    /\ pc[p] = "next"
    /\ IF Reverifies /\ NextAction(Events) # NoItem
       THEN Goes(p, "read", NextAction(Events), 0) /\ UNCHANGED job
       ELSE Ends(p)
    /\ Reads

\* The stages without receipts of their own, and the benchmark's, which is
\* measured unless it is there.
ReadPlain(p) ==
    /\ pc[p] = "read"
    /\ current[p].kind \in {"bench", "complete", "actual", "final"}
    /\ CASE current[p].kind = "final" ->
              Writes(p, FinalFile, [bench |-> disk[Bench],
                                    gates |-> [d \in Dgps |-> TierBPassed(d)]])
         [] current[p].kind = "bench" /\ ~Exists(Bench) ->
              \E b \in [passed : BOOLEAN, timing : Timings] : Writes(p, Bench, b)
         [] OTHER -> Completes(p)
    /\ Reads

\* Mutant: a part of the batches is not taken up again.
ReadTierAFresh(p) ==
    LET d == current[p].dgp
    IN /\ pc[p] = "read"
       /\ current[p].kind = "tierA"
       /\ IF ~Clean(BatchDirectory(d)) \/ Batches(d) \in 1..(NumBatches - 1)
          THEN Ends(p)
          ELSE IF Exists(current[p]) THEN Completes(p)
          ELSE Goes(p, "work", current[p], Batches(d)) /\ UNCHANGED job
       /\ Reads

\* The aggregate, then the listing of the batches, which must be all there are
\* if the aggregate is there.
ReadTierA(p) ==
    LET d == current[p].dgp
    IN /\ pc[p] = "read"
       /\ current[p].kind = "tierA"
       /\ IF ~Clean(BatchDirectory(d))
             \/ (Exists(current[p]) /\ Batches(d) # NumBatches)
          THEN Ends(p)
          ELSE IF Exists(current[p]) THEN Completes(p)
          ELSE Goes(p, "work", current[p], Batches(d)) /\ UNCHANGED job
       /\ Reads

\* The listing of the looks.  The staged driver is at one look, which may be
\* there, after all those before it.
ReadLooks(p) ==
    LET d == current[p].dgp
        n == current[p].index
    IN /\ pc[p] = "read"
       /\ current[p].kind = "look"
       /\ IF ~Clean(LookDirectory(d)) \/ (mode = "staged" /\ Looks(d) \notin {n - 1, n})
          THEN Ends(p)
          ELSE Goes(p, "work", current[p], Looks(d)) /\ UNCHANGED job
       /\ Reads

\* Batch after batch, and the aggregate over them.
WorkTierA(p) ==
    LET d == current[p].dgp
        f == IF known[p] < NumBatches THEN Item("batch", d, known[p] + 1) ELSE current[p]
    IN /\ pc[p] = "work"
       /\ current[p].kind = "tierA"
       /\ Writes(p, f, Content(f))
       /\ Reads

\* Mutant: the staged driver too goes on until a look decides.
WorkLooksAll(p) ==
    LET d == current[p].dgp
        f == Item("look", d, known[p] + 1)
    IN /\ pc[p] = "work"
       /\ current[p].kind = "look"
       /\ IF Terminal(d, known[p]) THEN Completes(p)
          ELSE IF Content(f) = Says("invalid") THEN Ends(p)
          ELSE Writes(p, f, Content(f))
       /\ Reads

\* Look after look: the staged driver up to its own, the canonical one until a
\* look decides.  A look with an invalid pair raises.
WorkLooks(p) ==
    LET d == current[p].dgp
        f == Item("look", d, known[p] + 1)
        enough == IF mode = "staged" THEN known[p] = current[p].index
                  ELSE Terminal(d, known[p])
    IN /\ pc[p] = "work"
       /\ current[p].kind = "look"
       /\ IF enough THEN Completes(p)
          ELSE IF Content(f) = Says("invalid") THEN Ends(p)
          ELSE Writes(p, f, Content(f))
       /\ Reads

\* _write_staged_task_event, _write_staged_look_event: at the end of the chain,
\* which is listed once more.
RecordEvent(p) ==
    /\ pc[p] = "record"
    /\ IF Clean(EventDirectory)
       THEN Writes(p, Item("event", "none", Len(Events) + 1),
                   [action |-> current[p], outcome |-> LiveOutcome(Events, current[p])])
       ELSE Ends(p)
    /\ Reads

-----------------------------------------------------------------------------
(* _write_or_verify_exact *)

\* The file is there, with the content that the caller has for it.
Written(p) ==
    LET f == job[p].file
    IN CASE f.kind = "binding" \/ f.kind = "event" ->
              Goes(p, "next", NoItem, 0) /\ UNCHANGED job
         [] f.kind \in {"batch", "look"} ->
              Goes(p, "work", current[p], known[p] + 1) /\ UNCHANGED job
         [] f.kind = "final" -> Ends(p)
         [] OTHER -> Completes(p)

\* A file that exists must have the bytes; else a temporary is written.
MakeTemporary(p) ==
    LET f == job[p].file
    IN /\ pc[p] = "write"
       /\ IF ~Exists(f) THEN /\ pc' = [pc EXCEPT ![p] = "temp"]
                             /\ UNCHANGED <<current, known, job>>
          ELSE IF disk[f] = job[p].content THEN Written(p)
          ELSE Ends(p)
       /\ Reads

\* Mutant: os.replace.
LinkFileReplaces(p) ==
    LET f == job[p].file
    IN /\ pc[p] = "temp"
       /\ disk' = [g \in DOMAIN disk \cup {f} |->
                     IF g = f THEN job[p].content ELSE disk[g]]
       /\ pc' = [pc EXCEPT ![p] = "linked"]
       /\ UNCHANGED <<current, known, job, litter>>
       /\ Stays

\* The link.  One who comes second must have the same bytes, or raises, in both
\* cases through the finally clause.
LinkFile(p) ==
    LET f == job[p].file
    IN /\ pc[p] = "temp"
       /\ IF ~Exists(f)
          THEN /\ disk' = [g \in DOMAIN disk \cup {f} |->
                             IF g = f THEN job[p].content ELSE disk[g]]
               /\ pc' = [pc EXCEPT ![p] = "linked"]
               /\ UNCHANGED <<current, known, job>>
          ELSE /\ UNCHANGED disk
               /\ IF disk[f] = job[p].content THEN Written(p) ELSE Ends(p)
       /\ UNCHANGED litter
       /\ Stays

UnlinkTemporary(p) ==
    /\ pc[p] = "linked"
    /\ Written(p)
    /\ Reads

-----------------------------------------------------------------------------
(* Faults *)

Fault == faults < MaxFaults /\ faults' = faults + 1

\* SIGKILL: the temporary stays.
Kill(p) ==
    /\ pc[p] # "idle"
    /\ Fault
    /\ litter' = IF pc[p] \in {"temp", "linked"} /\ Listed(job[p].file)
                 THEN litter \cup {Directory(job[p].file)} ELSE litter
    /\ Ends(p)
    /\ UNCHANGED <<mode, science, disk>>

\* An exception: the finally clause removes the temporary.
Raise(p) ==
    /\ pc[p] # "idle"
    /\ Fault
    /\ Ends(p)
    /\ UNCHANGED <<mode, science, disk, litter>>

-----------------------------------------------------------------------------
Work(p) ==
    \/ NextStaged(p) \/ ReadPlain(p) \/ ReadTierA(p) \/ ReadLooks(p)
    \/ WorkTierA(p) \/ WorkLooks(p) \/ RecordEvent(p)
    \/ MakeTemporary(p) \/ LinkFile(p) \/ UnlinkTemporary(p)

BridgeNext == \E p \in Callers : Call(p) \/ Work(p) \/ Kill(p) \/ Raise(p)

BridgeSpec == BridgeInit /\ [][BridgeNext]_bridge

\* A process that runs goes on, and the operator calls again.
FairSpec ==
    /\ BridgeSpec
    /\ \A p \in Callers : WF_bridge(Work(p))
    /\ WF_bridge(\E p \in Callers : Call(p))
-----------------------------------------------------------------------------
(* Properties *)

Contents == {Says(word) : word \in {"whole", "passed", "failed"} \cup Decisions}
                \cup [passed : BOOLEAN, timing : Timings]
                \cup [action : Actions, outcome : {"passed", "failed"} \cup Decisions]
                \cup [bench : [passed : BOOLEAN, timing : Timings],
                      gates : [Dgps -> BOOLEAN]]
Steps == {"idle", "next", "read", "work", "record", "write", "temp", "linked"}

BridgeTypeOK ==
    /\ mode \in {"canonical", "staged"}
    /\ science \in Sciences
    /\ DOMAIN disk \subseteq Files
    /\ \A f \in DOMAIN disk : disk[f] \in Contents
    /\ litter \subseteq {Directory(f) : f \in Files}
    /\ pc \in [Callers -> Steps]
    /\ current \in [Callers -> Actions \cup {NoItem}]
    /\ known \in [Callers -> 0..(IF NumBatches > NumLooks THEN NumBatches ELSE NumLooks)]
    /\ \A p \in Callers : /\ job[p].file \in Files \cup {NoItem}
                           /\ job[p].content \in Contents
    /\ faults \in 0..MaxFaults

\* The action that a checkpoint of the work belongs to.
ActionOf(f) ==
    IF f.kind = "batch" THEN Item("tierA", f.dgp, 0) ELSE f

\* Invariant.  The state is well typed, and through kills and resumptions the
\* chain of the staged driver is one that the next reverification accepts: no
\* action is skipped, repeated or out of order, and each says what the
\* checkpoints say.  No checkpoint belongs to an action beyond the next one: what
\* is still to be decided is not on disk ("future-outcome-safe"), and "work
\* exceeds the staged prefix" never arises.
PrefixReverifies ==
    /\ BridgeTypeOK
    /\ mode = "staged" =>
        /\ Accepted(Events)
        /\ \A f \in DOMAIN disk \ {Binding} : f.kind # "event" =>
              ActionOf(f) \in {Events[n].action : n \in DOMAIN Events}
                                \cup {NextAction(Events)}

\* Invariant.  Whoever wrote what, and however often the benchmark was measured,
\* FINAL is what reverify_bridge_driver_result reconstructs from the checkpoints.
FinalReverifies == Exists(FinalFile) => Reconstructed

\* A kill left a temporary where a listing refuses it, or a pair is invalid,
\* which the same request always finds again.
Blocked == litter # {} \/ \E d \in Dgps : \E n \in DOMAIN science.looks[d] :
                             science.looks[d][n] = "invalid"

\* Liveness.  "Later calls reverify and reuse every completed immutable receipt":
\* a driver that is called again after every kill, exception or refusal reaches
\* FINAL, or the end of its chain, unless it is blocked.
BridgeEnds ==
    <>(\/ Blocked
       \/ mode = "canonical" /\ Exists(FinalFile)
       \/ mode = "staged" /\ Events # << >> /\ NextAction(Events) = NoItem)
=============================================================================
