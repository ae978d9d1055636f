--------------------------- MODULE MCPublication ---------------------------
(***************************************************************************)
(* Publication with the stores of the program: which address each of them  *)
(* publishes, how, and in which order a caller publishes them.             *)
(***************************************************************************)
EXTENDS Publication, TLC

Via(by, dir, reuse, syncs, flush, needs, binds) ==
    [by |-> by, dir |-> dir, reuse |-> reuse, syncs |-> syncs, flush |-> flush,
     needs |-> needs, binds |-> binds, strict |-> FALSE]

Both == {"before", "race"}

\* data/snapshot.py and data/processed.py: nested directories are not synced.
SnapshotStore ==
    [raw |-> Via("rename", "data", Both, {"manifest"}, "swallow", {}, {"raw"})]

ProcessedSnapshotStore ==
    [processed |-> Via("rename", "processed", Both, {"manifest"}, "swallow",
                          {"raw"}, {"processed"})]

\* model/artifact.py: the whole tree is synced, a failed sync is an error.
ModelArtifactStore ==
    [design |-> Via("rename", "model", Both, Parts, "raise", {}, {"design"}),
     production |-> Via("rename", "model", Both, Parts, "raise", {}, {"production"})]

\* model/scientific_artifact_pair.py: the receipt loads with its artifacts.
ScientificArtifactPairStore ==
    [pair |-> Via("rename", "pair", Both, Parts, "raise", {},
                     {"design", "production", "pair"})]

\* validation/store.py: overwrite refused, nothing read back.
ValidationArtifactStore ==
    [thresholds |-> Via("link", "thresholds", {}, Parts, "raise", {}, {})]

\* model/g5_evidence_store.py: overwrite refused, parents required.
G5EvidenceStore ==
    [threshold |-> Via("link", "threshold", {}, Parts, "raise", {}, {"threshold"}),
     qualification |-> Via("link", "qualification", {}, Parts, "raise",
                              {"threshold"}, {"qualification"})]

\* model/bridge_driver.py: the staged checkpoint chain, one directory.
StagedBridgeCheckpointStore ==
    [binding |-> Via("link", "bridge", Both, Parts, "raise", {}, {"binding"}),
     event |-> [Via("link", "bridge", Both, Parts, "raise", {"binding"}, {"event"})
                EXCEPT !.strict = TRUE]]

\* model/practical_k4.py: nothing is synced.
PracticalK4ArtifactStore ==
    [k4 |-> Via("rename", "k4", {"before"}, {}, "none", {}, {"k4"})]

\* model/g3_evidence_store.py: the evidence that a run is complete.
G3EvidenceStore ==
    [evidence |-> Via("rename", "evidence", Both, Parts, "raise", {}, {"evidence"})]

\* model/g3_artifact_handoff.py: the copy of a runtime, with its evidence.
G3ArtifactHandoff ==
    [copy |-> Via("fill", "copy", {}, {}, "none", {"evidence"}, {"evidence", "copy"})]

MCShape ==
    SnapshotStore @@ ProcessedSnapshotStore @@ ModelArtifactStore
    @@ ScientificArtifactPairStore @@ ValidationArtifactStore @@ G5EvidenceStore
    @@ StagedBridgeCheckpointStore @@ PracticalK4ArtifactStore
    @@ G3EvidenceStore @@ G3ArtifactHandoff
MCAddress == DOMAIN MCShape

\* In which order callers publish.
BuildProcessed == <<"raw", "processed">>
PublishPair == <<"design", "production", "pair">>
QualifyG5 == <<"thresholds", "threshold", "qualification">>
StagedEvents == <<"binding", "event">>
HandOffG3 == <<"evidence", "copy">>
PersistK4 == <<"k4">>

\* Every chain of stores has a new one, and most have one that was used before.
MCFounded == {"processed", "pair", "threshold", "evidence"}

MCQueues == {BuildProcessed, PublishPair, QualifyG5, StagedEvents, HandOffG3, PersistK4}
=============================================================================
