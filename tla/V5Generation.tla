---------------------------- MODULE V5Generation ----------------------------
(***************************************************************************)
(* A version 5 generation run: a parent creates a fresh run root, a pool   *)
(* of workers writes every shard of the plan as sibling CSV files, one for *)
(* each frequency, and the parent rehashes them and publishes the list of  *)
(* checksums and then the manifest.  Nothing is resumed: an operator       *)
(* removes the root of a call that failed or was killed, and calls again,  *)
(* while workers of the killed call may still be writing.  A validator     *)
(* reads the run at any time.                                              *)
(***************************************************************************)
EXTENDS V5Plan

CONSTANTS
    Call,         \* the calls on one run root
    Geometries,   \* Geometries[k]: the ranges and the shard size that k may be given
    Frequencies,  \* the siblings of a shard, in the order they are written
    Workers,      \* Workers[k]: the worker processes of a call; 1 is none
    MaxFaults,    \* bound: kills and failing steps of the system
    MaxClears     \* bound: removals of the root

Finals == <<"checksums", "manifest">>
None == [call |-> "nobody", whole |-> FALSE]

ASSUME V5Assumption ==
    /\ \A k \in Call : \A g \in Geometries[k] :
        /\ g.size \in Nat \ {0}
        /\ Legal(g.ranges)
        /\ \A i \in DOMAIN g.ranges : Within(g.ranges[i])
    /\ Frequencies \in Seq(STRING) \ {<<>>}
    /\ \A i, j \in DOMAIN Frequencies : i # j => Frequencies[i] # Frequencies[j]
    /\ Workers \in [Call -> Nat \ {0}]
    /\ "nobody" \notin Call
    /\ MaxFaults \in Nat
    /\ MaxClears \in Nat

\* The plans that a call may have, and their work units.
Plans == [k \in Call |-> {Plan(g.ranges, g.size) : g \in Geometries[k]}]
Unit == UNION {Range(p.units) : p \in UNION {Plans[k] : k \in Call}}

VARIABLES
    plan,    \* plan[k]: what call k is to generate
    pc,      \* pc[k]: what the parent of call k does next
    at,      \* at[k]: the unit it rehashes, or the final it publishes
    job,     \* job[k][i]: how far the i-th unit of call k is, at which sibling
    root,    \* whether the run root is there
    temps,   \* the temporary files under the root
    csv,     \* the CSV files under the root, each with the call it is of
    final,   \* final[d]: the checksums and the manifest, and whether whole
    reader,  \* the validator: its step, and the call of the manifest it read
    faults, clears

parents == <<pc, at>>
tree == <<root, temps, csv, final>>
counters == <<faults, clears>>
vars == <<plan, parents, job, tree, reader, counters>>

Busy == {"check", "mkdir", "map", "broken", "verify", "create", "fill", "sync"}
Active == {"open", "write", "link", "unlink", "abort"}
Jobs == Active \cup {"todo", "done", "failed", "gone"}
Reads == {"idle", "sums", "list", "stream", "relist", "accepted", "refused"}

Indices == UNION {DOMAIN p.units : p \in UNION {Plans[k] : k \in Call}}
Units(k) == plan[k].units
Name(u, f) == [unit |-> u, freq |-> Frequencies[f]]
Temp(k, i, f) == [call |-> k, unit |-> Units(k)[i], freq |-> Frequencies[f]]
Temps(k, i) == {Temp(k, i, f) : f \in DOMAIN Frequencies}
Taken(u, f) ==
    \E c \in csv : c.unit = u /\ c.freq = Frequencies[f]
Running(k) == {i \in DOMAIN job[k] : job[k][i].step \in Active}
Whole(d) == final[d].whole

Files == [call : Call, unit : Unit, freq : {Frequencies[f] : f \in DOMAIN Frequencies}]

TypeOK ==
    /\ DOMAIN plan = Call /\ \A k \in Call : plan[k] \in Plans[k]
    /\ pc \in [Call -> Busy \cup {"idle", "done", "failed", "dead"}]
    /\ at \in [Call -> Nat]
    /\ \A k \in Call :
        /\ pc[k] = "verify" => at[k] \in DOMAIN Units(k)
        /\ pc[k] \in {"create", "fill", "sync"} => at[k] \in DOMAIN Finals
    /\ DOMAIN job = Call
    /\ \A k \in Call :
        job[k] \in [DOMAIN Units(k) -> [step : Jobs, f : DOMAIN Frequencies]]
    /\ root \in BOOLEAN
    /\ temps \subseteq Files
    /\ csv \subseteq Files
    /\ final \in [{"checksums", "manifest"} ->
                     {None} \cup [call : Call, whole : BOOLEAN]]
    /\ reader \in [step : Reads, call : Call \cup {"nobody"}]
    /\ faults \in 0..MaxFaults
    /\ clears \in 0..MaxClears

Init ==
    /\ plan \in {g \in [Call -> UNION {Plans[k] : k \in Call}] :
                   \A k \in Call : g[k] \in Plans[k]}
    /\ pc = [k \in Call |-> "idle"]
    /\ at = [k \in Call |-> 1]
    /\ job = [k \in Call |->
                [i \in DOMAIN plan[k].units |-> [step |-> "todo", f |-> 1]]]
    /\ root = FALSE
    /\ temps = {}
    /\ csv = {}
    /\ final = [d \in {"checksums", "manifest"} |-> None]
    /\ reader = [step |-> "idle", call |-> "nobody"]
    /\ faults = 0
    /\ clears = 0

GoTo(k, step) == pc' = [pc EXCEPT ![k] = step]
Set(k, i, step, f) == job' = [job EXCEPT ![k][i] = [step |-> step, f |-> f]]

-----------------------------------------------------------------------------
(* The parent, up to the pool. *)

Begin(k) ==
    /\ pc[k] = "idle"
    /\ GoTo(k, "check")
    /\ UNCHANGED <<plan, at, job, tree, reader, counters>>

\* The root must not be there ...
CheckRoot(k) ==
    /\ pc[k] = "check"
    /\ GoTo(k, IF root THEN "failed" ELSE "mkdir")
    /\ UNCHANGED <<plan, at, job, tree, reader, counters>>

\* ... and is created exclusively: of two parents one is refused.
MakeRoot(k) ==
    /\ pc[k] = "mkdir"
    /\ \/ /\ root
          /\ GoTo(k, "failed")
          /\ UNCHANGED tree
       \/ /\ ~root
          /\ GoTo(k, "map")
          /\ root' = TRUE
          /\ UNCHANGED <<temps, csv, final>>
    /\ UNCHANGED <<plan, at, job, reader, counters>>

-----------------------------------------------------------------------------
(* One worker on one unit.  A worker of a killed parent goes on. *)

\* The units are handed out in order.  Without a pool the first exception
\* ends the loop; a pool has queued some units when one fails or the parent
\* dies, and its workers may still take them.
Start(k, i) ==
    /\ pc[k] \in {"map", "dead"}
    /\ job[k][i].step = "todo"
    /\ \A j \in 1..(i - 1) : job[k][j].step # "todo"
    /\ Cardinality(Running(k)) < Workers[k]
    /\ Workers[k] = 1 =>
        /\ pc[k] = "map"
        /\ \A j \in DOMAIN job[k] : job[k][j].step # "failed"
    /\ Set(k, i, "open", 1)
    /\ UNCHANGED <<plan, parents, tree, reader, counters>>

\* The next sibling: its name must be free, and its temporary file is made.
Open(k, i) ==
    LET f == job[k][i].f
        last == f = Len(Frequencies)
    IN /\ job[k][i].step = "open"
       /\ \/ /\ ~root \/ Taken(Units(k)[i], f)
             /\ Set(k, i, "abort", f)
             /\ UNCHANGED temps
          \/ /\ root /\ ~Taken(Units(k)[i], f)
             /\ temps' = temps \cup {Temp(k, i, f)}
             /\ IF last THEN Set(k, i, "write", 1) ELSE Set(k, i, "open", f + 1)
       /\ UNCHANGED <<plan, parents, root, csv, final, reader, counters>>

\* The rows of every path of the unit, into all the siblings.
Rows(k, i) ==
    /\ job[k][i].step = "write"
    /\ Set(k, i, "link", 1)
    /\ UNCHANGED <<plan, parents, tree, reader, counters>>

\* Mutant: the file is renamed over whatever has its name.
LinkReplaces(k, i) ==
    LET f == job[k][i].f
        u == Units(k)[i]
    IN /\ job[k][i].step = "link"
       /\ \/ /\ Temp(k, i, f) \notin temps
             /\ Set(k, i, "abort", f)
             /\ UNCHANGED csv
          \/ /\ Temp(k, i, f) \in temps
             /\ csv' = {c \in csv : ~(c.unit = u /\ c.freq = Frequencies[f])}
                         \cup {Temp(k, i, f)}
             /\ Set(k, i, "unlink", f)
       /\ UNCHANGED <<plan, parents, root, temps, final, reader, counters>>

\* The temporary file is linked under its public name, which must be free.
Link(k, i) ==
    LET f == job[k][i].f
        refused == Temp(k, i, f) \notin temps \/ Taken(Units(k)[i], f)
    IN /\ job[k][i].step = "link"
       /\ \/ /\ refused
             /\ Set(k, i, "abort", f)
             /\ UNCHANGED csv
          \/ /\ ~refused
             /\ csv' = csv \cup {Temp(k, i, f)}
             /\ Set(k, i, "unlink", f)
       /\ UNCHANGED <<plan, parents, root, temps, final, reader, counters>>

\* The sibling that is published after f, or the end of the unit.
AfterSibling(k, i, f) ==
    IF f = Len(Frequencies) THEN Set(k, i, "done", f) ELSE Set(k, i, "link", f + 1)

\* Mutant: the temporary file of a published sibling is forgotten.
UnlinkForgets(k, i) ==
    LET f == job[k][i].f
    IN /\ job[k][i].step = "unlink"
       /\ AfterSibling(k, i, f)
       /\ UNCHANGED <<plan, parents, tree, reader, counters>>

\* After the sync of the directory the temporary name is removed.
Unlink(k, i) ==
    LET f == job[k][i].f
    IN /\ job[k][i].step = "unlink"
       /\ \/ /\ Temp(k, i, f) \notin temps
             /\ Set(k, i, "abort", f)
             /\ UNCHANGED temps
          \/ /\ Temp(k, i, f) \in temps
             /\ temps' = temps \ {Temp(k, i, f)}
             /\ AfterSibling(k, i, f)
       /\ UNCHANGED <<plan, parents, root, csv, final, reader, counters>>

\* The cleanup of an exception: temporary files go, published siblings stay.
Abort(k, i) ==
    /\ job[k][i].step = "abort"
    /\ temps' = temps \ Temps(k, i)
    /\ Set(k, i, "failed", job[k][i].f)
    /\ UNCHANGED <<plan, parents, root, csv, final, reader, counters>>

\* An exception in any step of a worker.
FailJob(k, i) ==
    /\ faults < MaxFaults
    /\ job[k][i].step \in Active \ {"abort"}
    /\ Set(k, i, "abort", job[k][i].f)
    /\ faults' = faults + 1
    /\ UNCHANGED <<plan, parents, tree, reader, clears>>

Work(k, i) ==
    \/ Open(k, i) \/ Rows(k, i) \/ Link(k, i) \/ Unlink(k, i) \/ Abort(k, i)

-----------------------------------------------------------------------------
(* The parent, from the results of the pool to the manifest. *)

\* Every result is there: the parent rehashes the first unit next.
Collect(k) ==
    /\ pc[k] = "map"
    /\ \A i \in DOMAIN job[k] : job[k][i].step = "done"
    /\ GoTo(k, "verify")
    /\ at' = [at EXCEPT ![k] = 1]
    /\ UNCHANGED <<plan, job, tree, reader, counters>>

\* The first exception in the order of the units reaches the parent when the
\* running units are through; the units that are still queued are dropped.
Surface(k) ==
    /\ pc[k] = "map"
    /\ Running(k) = {}
    /\ \E i \in DOMAIN job[k] :
        /\ job[k][i].step = "failed"
        /\ \A j \in 1..(i - 1) : job[k][j].step = "done"
    /\ GoTo(k, "failed")
    /\ UNCHANGED <<plan, at, job, tree, reader, counters>>

\* The pool of a killed worker is broken: the others are terminated.
Reap(k) ==
    /\ pc[k] = "broken"
    /\ GoTo(k, "failed")
    /\ job' = [job EXCEPT ![k] = [i \in DOMAIN @ |->
                  IF @[i].step \in Active THEN [@[i] EXCEPT !.step = "gone"] ELSE @[i]]]
    /\ UNCHANGED <<plan, at, tree, reader, counters>>

\* The files of one unit are read again and compared with the receipt.
VerifyUnit(k) ==
    LET u == Units(k)[at[k]]
        same == \A f \in DOMAIN Frequencies : Temp(k, at[k], f) \in csv
        last == at[k] = Len(Units(k))
    IN /\ pc[k] = "verify"
       /\ \/ /\ ~same
             /\ GoTo(k, "failed")
             /\ UNCHANGED at
          \/ /\ same
             /\ GoTo(k, IF last THEN "create" ELSE "verify")
             /\ at' = [at EXCEPT ![k] = IF last THEN 1 ELSE @ + 1]
       /\ UNCHANGED <<plan, job, tree, reader, counters>>

\* A final is created exclusively under its public name, still empty, ...
Create(k) ==
    LET d == Finals[at[k]]
    IN /\ pc[k] = "create"
       /\ \/ /\ final[d] # None
             /\ GoTo(k, "failed")
             /\ UNCHANGED final
          \/ /\ final[d] = None
             /\ GoTo(k, "fill")
             /\ final' = [final EXCEPT ![d] = [call |-> k, whole |-> FALSE]]
       /\ UNCHANGED <<plan, at, job, root, temps, csv, reader, counters>>

\* ... filled and forced to disk, ...
Fill(k) ==
    /\ pc[k] = "fill"
    /\ GoTo(k, "sync")
    /\ final' = [final EXCEPT ![Finals[at[k]]].whole = TRUE]
    /\ UNCHANGED <<plan, at, job, root, temps, csv, reader, counters>>

\* ... and the root is forced to disk.  After the manifest the call returns.
Sync(k) ==
    LET last == at[k] = Len(Finals)
    IN /\ pc[k] = "sync"
       /\ GoTo(k, IF last THEN "done" ELSE "create")
       /\ at' = [at EXCEPT ![k] = IF last THEN @ ELSE @ + 1]
       /\ UNCHANGED <<plan, job, tree, reader, counters>>

Parent(k) ==
    \/ CheckRoot(k) \/ MakeRoot(k)
    \/ Collect(k) \/ Surface(k) \/ Reap(k)
    \/ VerifyUnit(k) \/ Create(k) \/ Fill(k) \/ Sync(k)

-----------------------------------------------------------------------------
(* Faults, and the operator who clears up after them. *)

\* A step of the parent itself fails; what it wrote stays.
FailParent(k) ==
    /\ faults < MaxFaults
    /\ pc[k] \in {"check", "mkdir", "verify", "create", "fill", "sync"}
    /\ GoTo(k, "failed")
    /\ faults' = faults + 1
    /\ UNCHANGED <<plan, at, job, tree, reader, clears>>

\* The parent is killed.  Its workers, if it has a pool, know nothing of it.
KillParent(k) ==
    /\ faults < MaxFaults
    /\ pc[k] \in Busy
    /\ GoTo(k, "dead")
    /\ job' = IF Workers[k] > 1 THEN job
              ELSE [job EXCEPT ![k] = [i \in DOMAIN @ |->
                      IF @[i].step \in Active THEN [@[i] EXCEPT !.step = "gone"]
                      ELSE @[i]]]
    /\ faults' = faults + 1
    /\ UNCHANGED <<plan, at, tree, reader, clears>>

\* A worker process is killed, with its parent alive or dead.
KillWorker(k, i) ==
    /\ faults < MaxFaults
    /\ Workers[k] > 1
    /\ job[k][i].step \in Active
    /\ Set(k, i, "gone", job[k][i].f)
    /\ pc' = [pc EXCEPT ![k] = IF @ = "map" THEN "broken" ELSE @]
    /\ faults' = faults + 1
    /\ UNCHANGED <<plan, at, tree, reader, clears>>

\* What no worker has taken when the parent is gone is lost at some time.
Drop(k, i) ==
    /\ pc[k] = "dead"
    /\ job[k][i].step = "todo"
    /\ Set(k, i, "gone", 1)
    /\ UNCHANGED <<plan, parents, tree, reader, counters>>

\* The operator removes the root of a run that no call completed or is in.
Clear ==
    /\ clears < MaxClears
    /\ root
    /\ ~Whole("manifest")
    /\ \A k \in Call : pc[k] \notin Busy
    /\ root' = FALSE
    /\ temps' = {}
    /\ csv' = {}
    /\ final' = [d \in {"checksums", "manifest"} |-> None]
    /\ clears' = clears + 1
    /\ UNCHANGED <<plan, parents, job, reader, faults>>

-----------------------------------------------------------------------------
(* The validator. *)

\* The manifest names each role once, or the validator refuses it.
OneRangePerRole(p) ==
    \A i, j \in DOMAIN p.ranges : i # j => p.ranges[i].role # p.ranges[j].role

Listed(k) == {[call |-> k, unit |-> Units(k)[i], freq |-> Frequencies[f]] :
                 i \in DOMAIN Units(k), f \in DOMAIN Frequencies}

\* Both listings of the consumer tree: the names in it and no other.
TreeIs(k) ==
    /\ temps = {}
    /\ {<<c.unit, c.freq>> : c \in csv} = {<<c.unit, c.freq>> : c \in Listed(k)}

Passes(step, ok) ==
    IF ok THEN step ELSE "refused"

\* It reads the manifest, at first or again after a refusal, ...
ReadManifest ==
    LET k == final["manifest"].call
    IN /\ reader.step \in {"idle", "refused"}
       /\ \/ /\ Whole("manifest") /\ OneRangePerRole(plan[k])
             /\ reader' = [step |-> "sums", call |-> k]
          \/ /\ ~(Whole("manifest") /\ OneRangePerRole(plan[k]))
             /\ reader' = [step |-> "refused", call |-> "nobody"]
       /\ UNCHANGED <<plan, parents, job, tree, counters>>

\* ... compares the checksums, lists the tree, streams every file that the
\* manifest names, and lists the tree again.
ReadOn ==
    LET k == reader.call
    IN /\ \/ /\ reader.step = "sums"
             /\ reader' = [reader EXCEPT !.step =
                    Passes("list", final["checksums"] = [call |-> k, whole |-> TRUE])]
          \/ /\ reader.step = "list"
             /\ reader' = [reader EXCEPT !.step = Passes("stream", TreeIs(k))]
          \/ /\ reader.step = "stream"
             /\ reader' = [reader EXCEPT !.step = Passes("relist", Listed(k) \subseteq csv)]
          \/ /\ reader.step = "relist"
             /\ reader' = [reader EXCEPT !.step = Passes("accepted", TreeIs(k))]
       /\ UNCHANGED <<plan, parents, job, tree, counters>>

Reader == ReadManifest \/ ReadOn

-----------------------------------------------------------------------------
Next ==
    \/ \E k \in Call :
        \/ Begin(k) \/ Parent(k) \/ FailParent(k) \/ KillParent(k)
        \/ \E i \in DOMAIN job[k] :
            \/ Start(k, i) \/ Work(k, i)
            \/ FailJob(k, i) \/ KillWorker(k, i) \/ Drop(k, i)
    \/ Clear
    \/ Reader

Spec == Init /\ [][Next]_vars

\* The parent and every process are scheduled; a queued unit is taken while
\* its parent lives; the validator is run again after a refusal.
Fairness ==
    /\ \A k \in Call :
        /\ WF_vars(Parent(k))
        /\ \A i \in Indices :
            /\ WF_vars(i \in DOMAIN job[k] /\ pc[k] = "map" /\ Start(k, i))
            /\ WF_vars(i \in DOMAIN job[k] /\ Work(k, i))
    /\ WF_vars(Reader)

FairSpec == Spec /\ Fairness

-----------------------------------------------------------------------------
(* What a finished run promises. *)

\* Safety (generation.py publish, run_v5_generation): a manifest that is whole
\* stands on the whole checksums of the same call and on every sibling of
\* every shard of that call, each name there once -- whatever other parents,
\* workers of killed parents and removals of the root have done before.
ManifestIsTrue ==
    Whole("manifest") =>
        LET k == final["manifest"].call
        IN /\ final["checksums"] = [call |-> k, whole |-> TRUE]
           /\ Listed(k) \subseteq csv
           /\ \A c, d \in csv : c.unit = d.unit /\ c.freq = d.freq => c = d

\* Safety (V5GenerationPlan, write_v5_work_unit): under a whole manifest every
\* selected path has exactly one file of each frequency, in its own role.
EveryPathOnce ==
    Whole("manifest") =>
        LET k == final["manifest"].call
            selected == UNION {Paths(r) : r \in Range(plan[k].ranges)}
            Holding(p, f) == {c \in csv : c.call = k /\ c.freq = f /\ p \in Paths(c.unit)}
        IN /\ \A p \in selected, f \in Range(Frequencies) :
               Cardinality(Holding(p, f)) = 1
           /\ \A c \in csv : c.call = k =>
               Paths(c.unit) \subseteq
                   selected \cap FirstOf(c.unit.role)..LastOf(c.unit.role)

\* Nobody but k writes under the root, has written or can any more; k has just
\* made it.
Fresh(k) ==
    /\ pc[k] = "map"
    /\ temps = {} /\ csv = {}
    /\ \A i \in DOMAIN job[k] : job[k][i].step = "todo"
    /\ \A h \in Call \ {k} :
        /\ Running(h) = {}
        /\ pc[h] = "dead" => \A i \in DOMAIN job[h] : job[h][i].step # "todo"

\* Liveness: such a call, if no fault comes, ends with a run that the
\* validator accepts, although a second parent may be refused on the way.
Delivers ==
    \A k \in Call : \A n \in 0..MaxFaults :
        Fresh(k) /\ OneRangePerRole(plan[k]) /\ faults = n
            ~> \/ faults > n
               \/ reader = [step |-> "accepted", call |-> k]
=============================================================================
