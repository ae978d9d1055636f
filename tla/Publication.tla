---------------------------- MODULE Publication -----------------------------
(***************************************************************************)
(* The content-addressed stores: a content is written under a private name *)
(* and published under its fingerprint by one rename of a stage directory  *)
(* or one link of a temporary file; the hand-off of a finished runtime     *)
(* fills its copy in place.  Publishers, processes that no lock keeps      *)
(* apart, each publish the same queue of addresses; they race, fail, are   *)
(* killed and called again, and the machine may lose its power.  A store   *)
(* makes its directory when it is first used, and syncs the entries in it  *)
(* but never the directories above it.                                     *)
(*                                                                         *)
(* How a store publishes an address is its shape:                          *)
(*   by      "rename" of a stage directory, "link" of a temporary file, or *)
(*           "fill" of a directory that is created under its public name   *)
(*   reuse   when an entry that is there already is verified and returned: *)
(*           "before" anything is written, after a lost "race", or never   *)
(*   syncs   the parts of the content forced to disk before publication    *)
(*   flush   the sync of the store's directory after it: "none", or what a *)
(*           failure of it does: "raise", or "swallow" it as a lost race   *)
(*   dir     the directory that the address is published in: the one that  *)
(*           is made if it is not there, and that flush is about           *)
(*   needs   the addresses verified before the content is written          *)
(*   binds   those that the load after the publication verifies            *)
(*   strict  the directory is listed first, and a temporary file in it is  *)
(*           an error                                                      *)
(***************************************************************************)
EXTENDS Naturals, Sequences

CONSTANTS
    Address,
    Shape,      \* Shape[a]: how the store of a publishes it
    Queues,     \* the sequences of addresses that a caller publishes
    Founded,    \* the directories that are there from earlier use
    Publisher,
    MaxFaults,  \* bound: kills and failing calls of the system
    MaxLosses   \* bound: power losses

Parts == {"payload", "manifest"}
Absent == {"absent"}
Contents == {Absent} \cup SUBSET Parts

ASSUME PublicationAssumption ==
    /\ Queues \subseteq Seq(Address) \ {<<>>}
    /\ \A q \in Queues : \A i, j \in DOMAIN q : i # j => q[i] # q[j]
    /\ \A a \in Address :
        /\ Shape[a].by \in {"rename", "link", "fill"}
        /\ Shape[a].reuse \subseteq {"before", "race"}
        /\ Shape[a].syncs \subseteq Parts
        /\ Shape[a].by = "link" => Shape[a].syncs = Parts
        /\ Shape[a].by = "fill" => Shape[a].reuse = {} /\ Shape[a].flush = "none"
        /\ Shape[a].flush \in {"none", "raise", "swallow"}
        /\ Shape[a].needs \subseteq Address
        /\ Shape[a].binds \subseteq Address
        /\ Shape[a].strict \in BOOLEAN
    /\ MaxFaults \in Nat
    /\ MaxLosses \in Nat

VARIABLES
    queue,     \* the addresses of this caller, in order
    at,        \* at[p]: the position of p in the queue
    pc,        \* pc[p]: what p does next
    stage,     \* stage[p]: the parts under p's private name, or Absent
    forced,    \* forced[p]: those of them that are on disk
    litter,    \* addresses of which a temporary file was left behind
    entry,     \* entry[a]: the parts under the address, or Absent
    loose,     \* loose[a]: those of them that a power loss can take
    settled,   \* addresses whose name in their directory is on disk
    directory, \* directory[d]: not there, made since, or on disk
    returned,  \* history: addresses a publisher was told are published
    hasty,     \* history: those that were not on disk when it last was told
    newly,     \* history: those whose directory was not on disk then
    faults, losses

calls == <<queue, at, pc>>
private == <<stage, forced, litter>>
public == <<entry, loose, settled, directory>>
told == <<returned, hasty, newly>>
counters == <<faults, losses>>
vars == <<calls, private, public, told, counters>>

Running == {"check", "write", "sync", "publish", "fill", "flush", "verify",
            "accept", "remove", "abort"}
Steps == Running \cup {"idle", "done"}

Visible(a) == entry[a] # Absent
Whole(a) == entry[a] = Parts
Job(p) == queue[at[p]]
InPlace(a) == Shape[a].by = "fill"
Home(a) == Shape[a].dir
Directories == {Home(a) : a \in Address}

\* The entry and its content are on disk; its directory is; and both.
OnDisk(a) == a \in settled /\ loose[a] = {}
Anchored(a) == directory[Home(a)] = "anchored"
Durable(a) == OnDisk(a) /\ Anchored(a)

TypeOK ==
    /\ queue \in Queues
    /\ at \in [Publisher -> DOMAIN queue]
    /\ pc \in [Publisher -> Steps]
    /\ stage \in [Publisher -> Contents]
    /\ forced \in [Publisher -> SUBSET Parts]
    /\ litter \subseteq Address
    /\ entry \in [Address -> Contents]
    /\ loose \in [Address -> SUBSET Parts]
    /\ settled \subseteq Address
    /\ directory \in [Directories -> {"absent", "made", "anchored"}]
    /\ returned \subseteq Address
    /\ hasty \subseteq returned
    /\ newly \subseteq returned
    /\ faults \in 0..MaxFaults
    /\ losses \in 0..MaxLosses

Init ==
    /\ queue \in Queues
    /\ at = [p \in Publisher |-> 1]
    /\ pc = [p \in Publisher |-> "idle"]
    /\ stage = [p \in Publisher |-> Absent]
    /\ forced = [p \in Publisher |-> {}]
    /\ litter = {}
    /\ entry = [a \in Address |-> Absent]
    /\ loose = [a \in Address |-> {}]
    /\ settled = {}
    /\ directory = [d \in Directories |-> IF d \in Founded THEN "anchored" ELSE "absent"]
    /\ returned = {}
    /\ hasty = {}
    /\ newly = {}
    /\ faults = 0
    /\ losses = 0

GoTo(p, step) == pc' = [pc EXCEPT ![p] = step]
Stay(p) == UNCHANGED <<queue, at>>

-----------------------------------------------------------------------------
(* One call of create, publish or write on the queue. *)

\* A caller begins, the first time or again after its last call ended badly:
\* it raised, its process died, or the machine went down.
Call(p) ==
    /\ pc[p] = "idle"
    /\ GoTo(p, "check")
    /\ Stay(p)
    /\ UNCHANGED <<private, public, told, counters>>

\* A temporary file of somebody else in the directory of a.
Untidy(p, a) ==
    \/ \E b \in litter : Home(b) = Home(a)
    \/ \E r \in Publisher \ {p} :
        /\ stage[r] # Absent
        /\ Shape[Job(r)].by = "link"
        /\ Home(Job(r)) = Home(a)

\* The directory is made, with those above it, unless it is there.
MakeDirectory(a) ==
    directory' = [directory EXCEPT ![Home(a)] = IF @ = "absent" THEN "made" ELSE @]

\* What comes before the write: the addresses it needs, the directory, which
\* the hand-off makes before it looks at what it needs, the listing, the entry.
Check(p) ==
    LET a == Job(p)
        orphan == \E b \in Shape[a].needs : ~Whole(b)
        refused == orphan \/ (Shape[a].strict /\ Untidy(p, a))
    IN /\ pc[p] = "check"
       /\ IF orphan /\ ~InPlace(a) THEN UNCHANGED directory ELSE MakeDirectory(a)
       /\ \/ /\ refused
             /\ GoTo(p, "abort")
             /\ UNCHANGED stage
          \/ /\ ~refused /\ Visible(a)
             /\ GoTo(p, IF "before" \in Shape[a].reuse THEN "verify" ELSE "abort")
             /\ UNCHANGED stage
          \/ /\ ~refused /\ ~Visible(a) /\ ~InPlace(a)
             /\ stage' = [stage EXCEPT ![p] = {}]
             /\ GoTo(p, "write")
          \/ /\ ~refused /\ ~Visible(a) /\ InPlace(a)
             /\ GoTo(p, "publish")
             /\ UNCHANGED stage
       /\ forced' = [forced EXCEPT ![p] = {}]
       /\ Stay(p)
       /\ UNCHANGED <<litter, entry, loose, settled, told, counters>>

\* Mutant: the manifest is left for after the publication.
ExtendedNoManifest(parts) == {"payload"}
\* The payload files come first, then the manifest.
Extended(parts) == IF parts = {} THEN {"payload"} ELSE Parts

\* The files are written one after the other; a record is one file, synced at once.
Write(p) ==
    /\ pc[p] = "write"
    /\ IF Shape[Job(p)].by = "link"
       THEN /\ stage' = [stage EXCEPT ![p] = Parts]
            /\ forced' = [forced EXCEPT ![p] = Parts]
            /\ GoTo(p, "publish")
       ELSE /\ stage' = [stage EXCEPT ![p] = Extended(@)]
            /\ GoTo(p, IF stage[p] = {} THEN "write" ELSE "sync")
            /\ UNCHANGED forced
    /\ Stay(p)
    /\ UNCHANGED <<litter, public, told, counters>>

\* The directories of the stage that the store syncs.
SyncStage(p) ==
    /\ pc[p] = "sync"
    /\ forced' = [forced EXCEPT ![p] = Shape[Job(p)].syncs]
    /\ GoTo(p, "publish")
    /\ Stay(p)
    /\ UNCHANGED <<stage, litter, public, told, counters>>

\* Mutant: the directory to be filled may exist already.
TakenUnlessFilled(a) == Visible(a) /\ ~InPlace(a)
Taken(a) == Visible(a)

\* Mutant: whoever loses the race fails.
AfterLostRaceAlways(a) == "abort"
AfterLostRace(a) == IF "race" \in Shape[a].reuse THEN "verify" ELSE "abort"

\* The rename, the link or the creation of the directory to be filled, none of
\* which replaces an entry that is there.
Publish(p) ==
    LET a == Job(p)
    IN /\ pc[p] = "publish"
       /\ IF Taken(a)
          THEN /\ GoTo(p, AfterLostRace(a))
               /\ UNCHANGED <<stage, entry, loose>>
          ELSE /\ entry' = [entry EXCEPT ![a] = IF InPlace(a) THEN {} ELSE stage[p]]
               /\ loose' = [loose EXCEPT ![a] = Parts \ forced[p]]
               /\ stage' = IF Shape[a].by = "rename"
                           THEN [stage EXCEPT ![p] = Absent]
                           ELSE stage
               /\ GoTo(p, IF InPlace(a) THEN "fill"
                          ELSE IF Shape[a].flush = "none" THEN "verify" ELSE "flush")
       /\ Stay(p)
       /\ UNCHANGED <<forced, litter, settled, directory, told, counters>>

\* The directory that p created is filled, under its public name.
Fill(p) ==
    LET a == Job(p)
    IN /\ pc[p] = "fill"
       /\ entry' = [entry EXCEPT ![a] = Extended(@)]
       /\ GoTo(p, IF entry[a] = {} THEN "fill" ELSE "verify")
       /\ Stay(p)
       /\ UNCHANGED <<private, loose, settled, directory, told, counters>>

\* The sync of the directory puts every name that is in it on disk; the name
\* of the directory itself is in the one above, which nothing syncs.
Flush(p) ==
    /\ pc[p] = "flush"
    /\ settled' = settled \cup
                  {b \in Address : Visible(b) /\ Home(b) = Home(Job(p))}
    /\ GoTo(p, "verify")
    /\ Stay(p)
    /\ UNCHANGED <<private, entry, loose, directory, told, counters>>

\* The entry is read back, and what the load of it reads besides.
Verify(p) ==
    /\ pc[p] = "verify"
    /\ GoTo(p, IF \A b \in Shape[Job(p)].binds \cup {Job(p)} : Whole(b)
               THEN "accept" ELSE IF InPlace(Job(p)) THEN "remove" ELSE "abort")
    /\ Stay(p)
    /\ UNCHANGED <<private, public, told, counters>>

\* Mutant: the binding receipt is published after the first of its artifacts.
OnwardToReceipt(p) ==
    /\ GoTo(p, IF at[p] = Len(queue) THEN "done" ELSE "check")
    /\ at' = [at EXCEPT ![p] = Len(queue)]

Onward(p) ==
    IF at[p] = Len(queue)
    THEN GoTo(p, "done") /\ UNCHANGED at
    ELSE GoTo(p, "check") /\ at' = [at EXCEPT ![p] = @ + 1]

\* The finally clause, and the return to the caller, who goes on.
Accept(p) ==
    LET a == Job(p)
    IN /\ pc[p] = "accept"
       /\ stage' = [stage EXCEPT ![p] = Absent]
       /\ forced' = [forced EXCEPT ![p] = {}]
       /\ returned' = returned \cup {a}
       /\ hasty' = (hasty \ {a}) \cup (IF OnDisk(a) THEN {} ELSE {a})
       /\ newly' = (newly \ {a}) \cup (IF Anchored(a) THEN {} ELSE {a})
       /\ Onward(p)
       /\ UNCHANGED <<queue, litter, public, counters>>

\* What p filled is removed again, file by file.
Remove(p) ==
    LET a == Job(p)
    IN /\ pc[p] = "remove"
       /\ \/ /\ entry' = [entry EXCEPT ![a] = Absent]
             /\ settled' = settled \ {a}
             /\ loose' = [loose EXCEPT ![a] = {}]
             /\ GoTo(p, "abort")
          \/ /\ entry[a] = Parts
             /\ \E part \in Parts : entry' = [entry EXCEPT ![a] = {part}]
             /\ UNCHANGED <<loose, settled, pc>>
       /\ Stay(p)
       /\ UNCHANGED <<private, directory, told, counters>>

\* Mutant: a call that fails cleans its address up, whoever published it.
AbortRemoves(p) ==
    /\ pc[p] = "abort"
    /\ entry' = [entry EXCEPT ![Job(p)] = Absent]
    /\ stage' = [stage EXCEPT ![p] = Absent]
    /\ forced' = [forced EXCEPT ![p] = {}]
    /\ GoTo(p, "idle")
    /\ Stay(p)
    /\ UNCHANGED <<litter, loose, settled, directory, told, counters>>

\* The finally clause of a call that raises.
Abort(p) ==
    /\ pc[p] = "abort"
    /\ stage' = [stage EXCEPT ![p] = Absent]
    /\ forced' = [forced EXCEPT ![p] = {}]
    /\ GoTo(p, "idle")
    /\ at' = [at EXCEPT ![p] = 1]
    /\ UNCHANGED <<queue, litter, public, told, counters>>

-----------------------------------------------------------------------------
(* What the system may do to a call. *)

\* A stage directory that is left behind bears a name that nobody looks for.
Litters(p) == stage[p] # Absent /\ Shape[Job(p)].by = "link"

Halt(p) ==
    /\ stage' = [stage EXCEPT ![p] = Absent]
    /\ forced' = [forced EXCEPT ![p] = {}]
    /\ litter' = IF Litters(p) THEN litter \cup {Job(p)} ELSE litter

\* A call of the system fails, and the code lets the exception through.
Fail(p) ==
    /\ faults < MaxFaults
    /\ pc[p] \in {"write", "sync", "publish", "fill", "verify"}
    /\ GoTo(p, IF InPlace(Job(p)) /\ pc[p] # "publish" THEN "remove" ELSE "abort")
    /\ faults' = faults + 1
    /\ Stay(p)
    /\ UNCHANGED <<private, public, told, losses>>

\* The sync of the directory fails: the entry is there, and not on disk.
FlushFails(p) ==
    /\ faults < MaxFaults
    /\ pc[p] = "flush"
    /\ GoTo(p, IF Shape[Job(p)].flush = "swallow" THEN "verify" ELSE "abort")
    /\ faults' = faults + 1
    /\ Stay(p)
    /\ UNCHANGED <<private, public, told, losses>>

\* The process is killed; its private name stays.
Kill(p) ==
    /\ faults < MaxFaults
    /\ pc[p] \in Running
    /\ Halt(p)
    /\ GoTo(p, "idle")
    /\ faults' = faults + 1
    /\ at' = [at EXCEPT ![p] = 1]
    /\ UNCHANGED <<queue, public, told, losses>>

\* What was not forced to disk may be lost: a directory that was made, with
\* all that is in it, names, and parts of contents.
PowerLoss ==
    /\ losses < MaxLosses
    /\ \E lost \in SUBSET {d \in Directories : directory[d] = "made"},
          gone \in SUBSET {a \in Address : Visible(a) /\ a \notin settled},
          torn \in SUBSET {a \in Address : loose[a] # {}}, part \in SUBSET Parts :
        LET left == {a \in Address : Visible(a) /\ a \notin gone /\ Home(a) \notin lost}
        IN /\ entry' = [a \in Address |->
                            IF a \notin left THEN Absent
                            ELSE IF a \in torn THEN entry[a] \ (loose[a] \cap part)
                            ELSE entry[a]]
           /\ settled' = left
           /\ directory' = [d \in Directories |->
                                IF d \in lost THEN "absent"
                                ELSE IF directory[d] = "made" THEN "anchored"
                                ELSE directory[d]]
           /\ litter' \in SUBSET {a \in litter \cup {Job(p) : p \in {q \in Publisher : Litters(q)}} :
                                    Home(a) \notin lost}
    /\ loose' = [a \in Address |-> {}]
    /\ stage' = [p \in Publisher |-> Absent]
    /\ forced' = [p \in Publisher |-> {}]
    /\ pc' = [p \in Publisher |-> IF pc[p] \in Running THEN "idle" ELSE pc[p]]
    /\ at' = [p \in Publisher |-> IF pc[p] \in Running THEN 1 ELSE at[p]]
    /\ losses' = losses + 1
    /\ UNCHANGED <<queue, told, faults>>

-----------------------------------------------------------------------------
Step(p) ==
    \/ Check(p) \/ Write(p) \/ SyncStage(p) \/ Publish(p) \/ Fill(p)
    \/ Flush(p) \/ Verify(p) \/ Accept(p) \/ Remove(p) \/ Abort(p)

Next ==
    \/ \E p \in Publisher :
        Call(p) \/ Step(p) \/ Fail(p) \/ FlushFails(p) \/ Kill(p)
    \/ PowerLoss

Spec == Init /\ [][Next]_vars

\* A process that runs goes on; nothing has to be called, or called again.
FairSpec == Spec /\ \A p \in Publisher : WF_vars(Step(p))

-----------------------------------------------------------------------------
(* Properties. *)

Listed == {queue[i] : i \in DOMAIN queue}
Earlier(a) ==
    {queue[i] : i \in {j \in DOMAIN queue : \E k \in DOMAIN queue : j < k /\ queue[k] = a}}
Careful(a) == Shape[a].syncs = Parts

\* Invariant.  Whatever races, fails or is killed, what stands under an
\* address is whole; after a power loss it still is where the store forces
\* the whole content to disk before it publishes.  Only a copy that is filled
\* in place may be seen in parts.
VisibleIsWhole ==
    \A a \in Address :
        Visible(a) => Whole(a) \/ InPlace(a) \/ (losses > 0 /\ ~Careful(a))

\* What a caller is told too early of an address, so that a power loss may
\* take it: that it is published, in a directory that the store has made and
\* that is not on disk; or before the entry is on disk, which only a store
\* does that returns an entry of another writer, does not sync its directory,
\* takes a failed sync for a lost race, or leaves parts of the content to the
\* system.
Risked(a) ==
    \/ a \in newly
    \/ /\ a \in hasty
       /\ \/ Shape[a].reuse # {}
          \/ Shape[a].flush # "raise"
          \/ ~Careful(a)

\* Invariant.  A content whose parents come before it in the queue (a pair
\* receipt, an evidence record, an event of a chain) never stands without
\* them, unless a power loss took a parent that the caller was told of too
\* early.
ParentsStand ==
    \A a \in Listed : Visible(a) =>
        \A b \in Earlier(a) : Whole(b) \/ (losses > 0 /\ Risked(b))

\* Invariant.  An address that a caller was told is published is there, whole;
\* only a power loss takes it, and only if the caller was told too early, in
\* one of the ways that Risked lists.
ReturnedSurvives ==
    \A a \in returned : Whole(a) \/ (losses > 0 /\ Risked(a))

Ordered == {a \in Listed : ~InPlace(a)}
Addressed == {a \in Ordered : Whole(a)}
Store == INSTANCE ContentStore WITH
    before <- [a \in Ordered |-> Earlier(a) \cap Ordered],
    published <- Addressed,
    kept <- {a \in Addressed : Durable(a)}

\* The stores implement the abstract one: addresses appear whole, in the order
\* of the queue, one at a time, and go only by a power loss that comes before
\* the entry, its content and its directory are on disk.
ImplementsStore == Store!Spec

\* Liveness.  In the stores that verify what another publisher has published,
\* a call that nothing disturbs any more publishes the whole queue, whatever
\* earlier calls left behind and whoever else publishes it.
Forgiving == \A i \in DOMAIN queue :
    LET s == Shape[queue[i]]
    IN s.reuse = {"before", "race"} /\ Careful(queue[i]) /\ ~s.strict
Undisturbed == faults = MaxFaults /\ losses = MaxLosses
CallSucceeds ==
    \A p \in Publisher :
        (Forgiving /\ Undisturbed /\ pc[p] = "check") ~> (pc[p] = "done")

=============================================================================
