-------------------------- MODULE ReleaseLifecycle --------------------------
(***************************************************************************)
(* The way of a generated run to its release: the consumer manifest, the   *)
(* pair of G7 reports and DATA_VALIDATED, the finalization that ends with  *)
(* COMPLETE, the attestation of an independent verifier outside the root,  *)
(* and RELEASED.  No lock orders the calls, nothing is ever overwritten,   *)
(* and no call repairs what another one left: a state between two steps    *)
(* of the way must not be taken for the end of it.                         *)
(*                                                                         *)
(* Two ways of writing a file occur.  The reports, DATA_VALIDATED and the  *)
(* attestation are created under their names and written there; the others *)
(* are written to a temporary file beside it, linked, and the temporary    *)
(* name is removed.  A file read while it has two links, and any name that *)
(* is not on the list, make a verification fail.                           *)
(***************************************************************************)
EXTENDS Naturals, Sequences

CONSTANTS
    People,     \* who calls; also the identities of finalizer and verifier
    Nobody,
    MaxFaults   \* bound: kills and failing calls of the system

ASSUME ReleaseAssumption == Nobody \notin People /\ MaxFaults \in Nat

\* What each call publishes, in order.
Outputs ==
    [list |-> <<"consumerManifest">>,
     validate |-> <<"structuralReport", "scientificReport", "DATA_VALIDATED">>,
     finalize |-> <<"consumerSums", "evidenceIndex", "runManifest", "rootSums",
                    "COMPLETE">>,
     attest |-> <<>>,
     release |-> <<"RELEASED">>]
Roles == DOMAIN Outputs
Of(role) == {Outputs[role][i] : i \in DOMAIN Outputs[role]}
Files == UNION {Of(role) : role \in Roles}

Markers == {"DATA_VALIDATED", "COMPLETE", "RELEASED"}
InConsumer == {"consumerManifest", "consumerSums"}
Validated == Of("list") \cup Of("validate")
Generated == Of("finalize") \ Markers
Covered == (Validated \cup Generated) \ (Markers \cup {"rootSums"})

VARIABLES
    author,   \* author[f]: who published f, or Nobody while there is no f
    torn,     \* files that exist and are not written yet
    litter,   \* files of which a killed call has left the temporary name
    att,      \* att[v]: the attestation of v: "none", "torn" or "whole"
    basis,    \* whose attestation RELEASED names, or Nobody
    pc,       \* pc[p]: what the call of p does next
    role,     \* role[p]: which call it is
    k,        \* k[p]: the output it has come to
    seen,     \* seen[p]: the markers it has read
    via,      \* via[p]: whose attestation a release rests on
    faults

disk == <<author, torn, litter, att, basis>>
call == <<pc, role, k, seen, via>>
vars == <<disk, call, faults>>

Running == {"begin", "open", "write", "verify", "make", "link", "unlink", "hash",
            "recheck", "markers", "scan", "attest", "signing"}

Exists(f) == author[f] # Nobody
Tree == {f \in Files : Exists(f)}
MarkerSet == Tree \cap Markers
Out(p) == Outputs[role[p]][k[p]]
Temporaries == litter \cup {Out(p) : p \in {q \in People : pc[q] \in {"link", "unlink"}}}
Tidy(files) == Temporaries \cap files = {}
\* The tree is what is expected, every file with one name and whole.
Exact(expected) == Tree = expected /\ Tidy(Files) /\ torn = {}
OneAuthor(files) == \A f, g \in files : author[f] = author[g]

TypeOK ==
    /\ author \in [Files -> People \cup {Nobody}]
    /\ torn \subseteq Tree
    /\ litter \subseteq Files
    /\ att \in [People -> {"none", "torn", "whole"}]
    /\ basis \in People \cup {Nobody}
    /\ pc \in [People -> Running \cup {"idle", "done", "failed"}]
    /\ role \in [People -> Roles]
    /\ \A p \in People : pc[p] \in {"open", "write", "make", "link", "unlink"} =>
                             k[p] \in DOMAIN Outputs[role[p]]
    /\ seen \in [People -> SUBSET Markers]
    /\ via \in [People -> People]
    /\ faults \in 0..MaxFaults

Init ==
    /\ author = [f \in Files |-> Nobody]
    /\ torn = {}
    /\ litter = {}
    /\ basis = Nobody
    /\ att = [p \in People |-> "none"]
    /\ pc = [p \in People |-> "idle"]
    /\ role = [p \in People |-> "list"]
    /\ k = [p \in People |-> 1]
    /\ seen = [p \in People |-> {}]
    /\ via = [p \in People |-> p]
    /\ faults = 0

GoTo(p, step) == pc' = [pc EXCEPT ![p] = step]
GoToIf(p, condition, step) == GoTo(p, IF condition THEN step ELSE "failed")

-----------------------------------------------------------------------------
\* A call, with the attestation that a release is given.
Call(p) ==
    /\ pc[p] \in {"idle", "done", "failed"}
    /\ \E r \in Roles, v \in People :
        /\ role' = [role EXCEPT ![p] = r]
        /\ via' = [via EXCEPT ![p] = IF r = "release" THEN v ELSE p]
    /\ k' = [k EXCEPT ![p] = 1]
    /\ seen' = [seen EXCEPT ![p] = {}]
    /\ GoTo(p, "begin")
    /\ UNCHANGED <<disk, faults>>

\* The receipts verify; an existing manifest is found when it is published.
BeginList(p) ==
    /\ role[p] = "list" /\ pc[p] = "begin"
    /\ GoTo(p, "make")
    /\ UNCHANGED <<disk, role, k, seen, via, faults>>

\* The scan of the consumer tree, and the boundary of the publication.
BeginValidate(p) ==
    /\ role[p] = "validate" /\ pc[p] = "begin"
    /\ GoToIf(p, /\ Exists("consumerManifest")
                 /\ ~Exists("consumerSums") /\ Tidy(InConsumer)
                 /\ MarkerSet = {}
                 /\ Tree \cap Of("validate") = {}, "open")
    /\ UNCHANGED <<disk, role, k, seen, via, faults>>

BeginFinalize(p) ==
    /\ role[p] = "finalize" /\ pc[p] = "begin"
    /\ GoToIf(p, MarkerSet = {"DATA_VALIDATED"} /\ Tree \cap Generated = {}, "verify")
    /\ UNCHANGED <<disk, role, k, seen, via, faults>>

BeginVerification(p) ==
    /\ pc[p] = "begin"
    /\ \/ role[p] = "attest" /\ GoTo(p, "markers")
       \/ role[p] = "release" /\ GoToIf(p, MarkerSet = {"DATA_VALIDATED", "COMPLETE"},
                                        "markers")
    /\ UNCHANGED <<disk, role, k, seen, via, faults>>

-----------------------------------------------------------------------------
(* publish_g7_validated_pair: files that are created and then written.      *)

\* Mutant: the file is opened for writing, whether it is there or not.
OpenOverwrites(p) ==
    /\ pc[p] = "open"
    /\ author' = [author EXCEPT ![Out(p)] = p]
    /\ torn' = torn \cup {Out(p)}
    /\ GoTo(p, "write")
    /\ UNCHANGED <<litter, att, basis, role, k, seen, via, faults>>

Open(p) ==
    /\ pc[p] = "open"
    /\ IF Exists(Out(p))
       THEN GoTo(p, "failed") /\ UNCHANGED <<author, torn>>
       ELSE /\ author' = [author EXCEPT ![Out(p)] = p]
            /\ torn' = torn \cup {Out(p)}
            /\ GoTo(p, "write")
    /\ UNCHANGED <<litter, att, basis, role, k, seen, via, faults>>

Write(p) ==
    /\ pc[p] = "write"
    /\ torn' = torn \ {Out(p)}
    /\ IF k[p] = Len(Outputs[role[p]])
       THEN GoTo(p, "done") /\ UNCHANGED k
       ELSE GoTo(p, "open") /\ k' = [k EXCEPT ![p] = @ + 1]
    /\ UNCHANGED <<author, litter, att, basis, role, seen, via, faults>>

-----------------------------------------------------------------------------
(* finalize_complete, and _publish_no_replace wherever it is called.        *)

\* The consumer bundle, DATA_VALIDATED and the report it names, the exact tree
\* and the evidence.  The scientific report is on the list and is not read.
Readable(files) == files \cap torn = {} /\ Tidy(Files)
Verify(p) ==
    /\ pc[p] = "verify"
    /\ GoToIf(p, /\ Tree = Validated
                 /\ Readable(Validated \ {"scientificReport"})
                 /\ OneAuthor({"DATA_VALIDATED", "structuralReport"}), "make")
    /\ UNCHANGED <<disk, role, k, seen, via, faults>>

\* What follows a publication.
After(p) ==
    CASE role[p] = "list" -> "done"
      [] role[p] = "release" -> "markers"
      [] Out(p) = "runManifest" -> "hash"
      [] Out(p) = "rootSums" -> "recheck"
      [] Out(p) = "COMPLETE" -> "markers"
      [] OTHER -> "make"

\* Mutant: an existing destination is taken for the one that was to be made.
MakeOrReuse(p) ==
    /\ pc[p] = "make"
    /\ GoTo(p, IF Exists(Out(p)) THEN After(p) ELSE "link")
    /\ k' = [k EXCEPT ![p] = IF Exists(Out(p)) /\ After(p) = "make" THEN @ + 1 ELSE @]
    /\ UNCHANGED <<disk, role, seen, via, faults>>

Make(p) ==
    /\ pc[p] = "make"
    /\ GoToIf(p, ~Exists(Out(p)), "link")
    /\ UNCHANGED <<disk, role, k, seen, via, faults>>

Link(p) ==
    /\ pc[p] = "link"
    /\ GoToIf(p, ~Exists(Out(p)), "unlink")
    /\ author' = IF ~Exists(Out(p)) THEN [author EXCEPT ![Out(p)] = p] ELSE author
    /\ basis' = IF ~Exists(Out(p)) /\ Out(p) = "RELEASED" THEN via[p] ELSE basis
    /\ UNCHANGED <<torn, litter, att, role, k, seen, via, faults>>

\* Mutant: the temporary name is left to whoever finds it.
UnlinkForgotten(p) ==
    /\ pc[p] = "unlink"
    /\ litter' = litter \cup {Out(p)}
    /\ GoTo(p, After(p))
    /\ k' = [k EXCEPT ![p] = IF After(p) = "make" THEN @ + 1 ELSE @]
    /\ UNCHANGED <<author, torn, att, basis, role, seen, via, faults>>

Unlink(p) ==
    /\ pc[p] = "unlink"
    /\ GoTo(p, After(p))
    /\ k' = [k EXCEPT ![p] = IF After(p) = "make" THEN @ + 1 ELSE @]
    /\ UNCHANGED <<disk, role, seen, via, faults>>

\* The exact tree, then the hashes of the covered files for the root sums.
Hash(p) ==
    /\ pc[p] = "hash"
    /\ GoToIf(p, /\ Tree = Validated \cup (Generated \ {"rootSums"})
                 /\ Readable({}), "make")
    /\ k' = [k EXCEPT ![p] = @ + 1]
    /\ UNCHANGED <<disk, role, seen, via, faults>>

\* All that COMPLETE will name is read once more.
Recheck(p) ==
    /\ pc[p] = "recheck"
    /\ GoToIf(p, /\ Tree = Validated \cup Generated
                 /\ Readable(Tree \ {"scientificReport"})
                 /\ \A f \in {"runManifest", "rootSums"} : author[f] = p, "make")
    /\ k' = [k EXCEPT ![p] = @ + 1]
    /\ UNCHANGED <<disk, role, seen, via, faults>>

-----------------------------------------------------------------------------
(* verify_complete: the markers are read first, the tree is compared after. *)

ReadMarkers(p) ==
    /\ pc[p] = "markers"
    /\ seen' = [seen EXCEPT ![p] = MarkerSet]
    /\ GoToIf(p, {"DATA_VALIDATED", "COMPLETE"} \subseteq MarkerSet, "scan")
    /\ UNCHANGED <<disk, role, k, via, faults>>

\* What a verification that has seen some markers finds right.
Verifies(p) ==
    /\ Tree = Covered \cup {"rootSums"} \cup seen[p]
    /\ Readable(Tree)
    /\ OneAuthor(Generated \cup {"COMPLETE"})
    /\ OneAuthor({"DATA_VALIDATED", "structuralReport"})

\* Mutant: the finalizer may verify its own run.
IndependentOfNobody(v) == TRUE
Independent(v) == v # author["COMPLETE"]

\* The attestation is read, and must bind the COMPLETE that was verified.
AttestedBy(v) == att[v] = "whole" /\ Independent(v)

AfterScan(p) ==
    CASE role[p] = "attest" -> IF Independent(p) THEN "attest" ELSE "failed"
      [] role[p] = "release" /\ author["RELEASED"] # p ->
            IF AttestedBy(via[p]) THEN "make" ELSE "failed"
      [] role[p] = "release" /\ author["RELEASED"] = p ->
            IF AttestedBy(via[p]) THEN "done" ELSE "failed"
      [] OTHER -> "done"

Scan(p) ==
    /\ pc[p] = "scan"
    /\ GoTo(p, IF Verifies(p) THEN AfterScan(p) ELSE "failed")
    /\ UNCHANGED <<disk, role, k, seen, via, faults>>

\* The command creates the attestation outside the root, and writes it.
OpenAttestation(p) ==
    /\ pc[p] = "attest"
    /\ IF att[p] # "none"
       THEN GoTo(p, "failed") /\ UNCHANGED att
       ELSE GoTo(p, "signing") /\ att' = [att EXCEPT ![p] = "torn"]
    /\ UNCHANGED <<author, torn, litter, basis, role, k, seen, via, faults>>

WriteAttestation(p) ==
    /\ pc[p] = "signing"
    /\ att' = [att EXCEPT ![p] = "whole"]
    /\ GoTo(p, "done")
    /\ UNCHANGED <<author, torn, litter, basis, role, k, seen, via, faults>>

-----------------------------------------------------------------------------
\* The process is killed: what it was writing stays as it is.
Kill(p) ==
    /\ faults < MaxFaults
    /\ pc[p] \in Running
    /\ litter' = IF pc[p] \in {"link", "unlink"} THEN litter \cup {Out(p)} ELSE litter
    /\ GoTo(p, "idle")
    /\ faults' = faults + 1
    /\ UNCHANGED <<author, torn, att, basis, role, k, seen, via>>

\* A call of the system fails: the temporary name goes, what is linked stays.
Fail(p) ==
    /\ faults < MaxFaults
    /\ pc[p] \in Running
    /\ GoTo(p, "failed")
    /\ faults' = faults + 1
    /\ UNCHANGED <<disk, role, k, seen, via>>

Step(p) ==
    \/ BeginList(p) \/ BeginValidate(p) \/ BeginFinalize(p) \/ BeginVerification(p)
    \/ Open(p) \/ Write(p)
    \/ Verify(p) \/ Make(p) \/ Link(p) \/ Unlink(p) \/ Hash(p) \/ Recheck(p)
    \/ ReadMarkers(p) \/ Scan(p) \/ OpenAttestation(p) \/ WriteAttestation(p)

Next == \E p \in People : Call(p) \/ Step(p) \/ Kill(p) \/ Fail(p)

Spec == Init /\ [][Next]_vars

\* A call that has begun goes on; nobody has to call.
FairSpec == Spec /\ \A p \in People : WF_vars(Step(p))

-----------------------------------------------------------------------------
(* Properties. *)

\* Invariant.  Where COMPLETE stands, every file it answers for stands, whole
\* and written by one finalization over one validation, whatever other calls
\* raced, failed or were killed on the way; the scientific report too, which
\* the finalization does not read.
CompleteIsCovered ==
    Exists("COMPLETE") =>
        /\ Covered \cup {"rootSums", "DATA_VALIDATED"} \subseteq Tree
        /\ torn = {}
        /\ OneAuthor(Of("finalize"))
        /\ OneAuthor(Of("validate"))

\* Invariant.  RELEASED stands only beside COMPLETE and a whole attestation of
\* somebody else than the finalizer.
ReleaseIsAttested ==
    Exists("RELEASED") =>
        /\ Exists("COMPLETE")
        /\ basis \in People \ {author["COMPLETE"]}
        /\ att[basis] = "whole"

\* Action property.  The lifecycle goes one way, a marker at a time.  No file of
\* the root is replaced or opened again, and once COMPLETE stands only RELEASED is
\* added.  No attestation goes or is begun again, a whole one stays whole, and
\* RELEASED goes on naming the one it was published with.
OneWay ==
    [][/\ MarkerSet' # MarkerSet =>
            \/ MarkerSet = {} /\ MarkerSet' = {"DATA_VALIDATED"}
            \/ MarkerSet = {"DATA_VALIDATED"} /\ MarkerSet' = {"DATA_VALIDATED", "COMPLETE"}
            \/ MarkerSet # Markers /\ MarkerSet' = Markers
       /\ \A f \in Tree : author'[f] = author[f] /\ (f \in torn' => f \in torn)
       /\ Exists("COMPLETE") => Tree' \subseteq Tree \cup {"RELEASED"}
       /\ \A v \in People :
            /\ att[v] # "none" => att'[v] # "none"
            /\ att[v] = "whole" => att'[v] = "whole"
       /\ Exists("RELEASED") => basis' = basis]_vars

\* Liveness.  A finalization that has begun on a clean root and that nothing
\* and nobody disturbs ends with COMPLETE and its verification.
Disturbed(p) == \E q \in People \ {p} : pc[q] \in Running
CleanStart(p) ==
    /\ pc[p] = "verify"
    /\ Exact(Validated)
    /\ faults = MaxFaults
FinalizationSucceeds ==
    \A p \in People :
        CleanStart(p) ~> (Disturbed(p) \/ (pc[p] = "done" /\ author["COMPLETE"] = p))
=============================================================================
