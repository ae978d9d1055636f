----------------------- MODULE ReleaseLifecycleProofs -----------------------
(***************************************************************************)
(* Proofs about ReleaseLifecycle, for any number of people, calls and      *)
(* faults: type correctness, what COMPLETE and RELEASED stand for, and the *)
(* one way that the markers take.                                          *)
(***************************************************************************)
EXTENDS ReleaseLifecycle, TLAPS

Structural == "structuralReport"
Scientific == "scientificReport"

-----------------------------------------------------------------------------
(* The inductive invariant *)

\* Each step belongs to some of the calls, at some of their outputs.
Controlled(p) ==
    /\ role[p] \notin {"validate", "finalize"} => k[p] = 1
    /\ role[p] = "validate" => k[p] \in 1..3
    /\ role[p] = "finalize" => k[p] \in 1..5
    /\ pc[p] = "begin" => k[p] = 1
    /\ pc[p] \in {"open", "write"} => role[p] = "validate"
    /\ pc[p] \in {"make", "link", "unlink"} => role[p] \in {"list", "finalize", "release"}
    /\ pc[p] = "verify" => role[p] = "finalize" /\ k[p] = 1
    /\ pc[p] = "hash" => role[p] = "finalize" /\ k[p] = 3
    /\ pc[p] = "recheck" => role[p] = "finalize" /\ k[p] = 4
    /\ pc[p] \in {"markers", "scan"} => role[p] \in {"finalize", "attest", "release"}
    /\ pc[p] \in {"attest", "signing"} => role[p] = "attest"
    /\ pc[p] = "scan" => {"DATA_VALIDATED", "COMPLETE"} \subseteq seen[p]

\* The three files of a validation are of one caller, each written before the
\* next is created.
Chain ==
    /\ torn \subseteq Of("validate")
    /\ Exists(Scientific) =>
        author[Scientific] = author[Structural] /\ Structural \notin torn
    /\ Exists("DATA_VALIDATED") =>
        author["DATA_VALIDATED"] = author[Scientific] /\ Scientific \notin torn

\* A validation at its n-th file has written those before.
Validating(p) ==
    /\ pc[p] = "write" => author[Out(p)] = p
    /\ pc[p] \in {"open", "write"} /\ k[p] >= 2 =>
        author[Structural] = p /\ Structural \notin torn
    /\ pc[p] \in {"open", "write"} /\ k[p] = 3 =>
        author[Scientific] = p /\ Scientific \notin torn

\* A finalization at its n-th file has published those before.
Published(p, n) == \A i \in 1..5 : i <= n => author[Outputs["finalize"][i]] = p
Finalizing(p) ==
    role[p] = "finalize" =>
        /\ pc[p] \in {"make", "link"} => Published(p, k[p] - 1)
        /\ pc[p] \in {"unlink", "hash", "recheck"} => Published(p, k[p])

\* All that COMPLETE answers for.
Ready ==
    /\ Covered \cup {"rootSums", "DATA_VALIDATED"} \subseteq Tree
    /\ torn = {}
Completing(p) ==
    role[p] = "finalize" /\ pc[p] \in {"make", "link", "unlink"} /\ k[p] = 5 => Ready

\* A release rests on an attestation that is there, of somebody else.
Resting(v) ==
    /\ Exists("COMPLETE")
    /\ v \in People \ {author["COMPLETE"]}
    /\ att[v] = "whole"
Releasing(p) == role[p] = "release" /\ pc[p] \in {"make", "link"} => Resting(via[p])

Signing(p) == pc[p] = "signing" => att[p] = "torn"

AtWork(p) ==
    /\ Controlled(p) /\ Validating(p) /\ Finalizing(p)
    /\ Completing(p) /\ Releasing(p) /\ Signing(p)

IInv ==
    /\ TypeOK
    /\ k \in [People -> 1..5]
    /\ Chain
    /\ CompleteIsCovered
    /\ ReleaseIsAttested
    /\ \A p \in People : AtWork(p)

-----------------------------------------------------------------------------
(* What the calls publish *)

\* The outputs of each call, spelled out.
LEMMA OutputFacts ==
    /\ Roles = {"list", "validate", "finalize", "attest", "release"}
    /\ Outputs["list"] = <<"consumerManifest">>
    /\ Outputs["validate"] = <<Structural, Scientific, "DATA_VALIDATED">>
    /\ Outputs["finalize"] = <<"consumerSums", "evidenceIndex", "runManifest",
                              "rootSums", "COMPLETE">>
    /\ Outputs["attest"] = <<>>
    /\ Outputs["release"] = <<"RELEASED">>
BY DEF Roles, Outputs, Structural, Scientific

\* The same, as sets.
LEMMA FileFacts ==
    /\ Of("list") = {"consumerManifest"}
    /\ Of("validate") = {Structural, Scientific, "DATA_VALIDATED"}
    /\ Of("finalize") = {"consumerSums", "evidenceIndex", "runManifest",
                         "rootSums", "COMPLETE"}
    /\ Of("attest") = {}
    /\ Of("release") = {"RELEASED"}
    /\ Files = {"consumerManifest", Structural, Scientific, "DATA_VALIDATED",
                "consumerSums", "evidenceIndex", "runManifest", "rootSums",
                "COMPLETE", "RELEASED"}
<1>1. Of("list") = {"consumerManifest"}
  BY OutputFacts DEF Of
<1>2. Of("validate") = {Structural, Scientific, "DATA_VALIDATED"}
  <2> DEFINE s == <<Structural, Scientific, "DATA_VALIDATED">>
  <2>1. DOMAIN s = {1, 2, 3} /\ s[1] = Structural /\ s[2] = Scientific
        /\ s[3] = "DATA_VALIDATED"
    OBVIOUS
  <2>2. Of("validate") = {s[i] : i \in DOMAIN s}
    BY OutputFacts DEF Of
  <2> HIDE DEF s
  <2>3. QED
    BY <2>1, <2>2
<1>3. Of("finalize") = {"consumerSums", "evidenceIndex", "runManifest",
                        "rootSums", "COMPLETE"}
  <2> DEFINE s == <<"consumerSums", "evidenceIndex", "runManifest", "rootSums", "COMPLETE">>
  <2>1. DOMAIN s = {1, 2, 3, 4, 5} /\ s[1] = "consumerSums" /\ s[2] = "evidenceIndex"
        /\ s[3] = "runManifest" /\ s[4] = "rootSums" /\ s[5] = "COMPLETE"
    OBVIOUS
  <2>2. Of("finalize") = {s[i] : i \in DOMAIN s}
    BY OutputFacts DEF Of
  <2> HIDE DEF s
  <2>3. QED
    BY <2>1, <2>2
<1>4. Of("attest") = {} /\ Of("release") = {"RELEASED"}
  BY OutputFacts DEF Of
<1>5. QED
  BY <1>1, <1>2, <1>3, <1>4, OutputFacts DEF Files

\* The output that a call has come to.
LEMMA OutFacts ==
    ASSUME NEW p \in People, Controlled(p), k \in [People -> 1..5],
           pc[p] \in {"open", "write", "make", "link", "unlink"}
    PROVE  /\ Out(p) \in Files
           /\ k[p] \in DOMAIN Outputs[role[p]]
           /\ role[p] = "list" => Out(p) = "consumerManifest"
           /\ role[p] = "release" => Out(p) = "RELEASED"
           /\ role[p] = "validate" =>
                \/ k[p] = 1 /\ Out(p) = Structural
                \/ k[p] = 2 /\ Out(p) = Scientific
                \/ k[p] = 3 /\ Out(p) = "DATA_VALIDATED"
           /\ role[p] = "finalize" =>
                \/ k[p] = 1 /\ Out(p) = "consumerSums"
                \/ k[p] = 2 /\ Out(p) = "evidenceIndex"
                \/ k[p] = 3 /\ Out(p) = "runManifest"
                \/ k[p] = 4 /\ Out(p) = "rootSums"
                \/ k[p] = 5 /\ Out(p) = "COMPLETE"
<1> USE DEF Out, Controlled
<1>1. CASE role[p] = "validate"
  BY <1>1, OutputFacts, FileFacts
<1>2. CASE role[p] = "finalize"
  BY <1>2, OutputFacts, FileFacts
<1>3. CASE role[p] = "list"
  BY <1>3, OutputFacts, FileFacts
<1>4. CASE role[p] = "release"
  BY <1>4, OutputFacts, FileFacts
<1>5. QED
  BY <1>1, <1>2, <1>3, <1>4

-----------------------------------------------------------------------------
(* Types and control *)

\* A validation ends with its third file.
LEMMA LastOutput == Len(Outputs["validate"]) = 3
BY OutputFacts

\* What a published output is followed by.
LEMMA AfterFacts ==
    ASSUME NEW p \in People, Controlled(p), k \in [People -> 1..5],
           pc[p] \in {"make", "link", "unlink"}
    PROVE  /\ After(p) \in {"done", "markers", "hash", "recheck", "make"}
           /\ After(p) = "markers" => role[p] # "list"
           /\ After(p) = "hash" => role[p] = "finalize" /\ k[p] = 3
           /\ After(p) = "recheck" => role[p] = "finalize" /\ k[p] = 4
           /\ After(p) = "make" => role[p] = "finalize" /\ k[p] \in {1, 2}
BY OutFacts DEF After, Controlled

\* No step leaves the types, and each leaves control where it belongs.
LEMMA TypeStep ==
    ASSUME TypeOK, k \in [People -> 1..5], \A p \in People : Controlled(p), [Next]_vars
    PROVE  /\ TypeOK'
           /\ (k \in [People -> 1..5])'
           /\ \A p \in People : Controlled(p)'
<1>1. ASSUME NEW p \in People, Call(p)
     PROVE  k' \in [People -> 1..5] /\ \A q \in People : Controlled(q)'
  BY <1>1, OutputFacts DEF Call, Controlled, TypeOK, GoTo, GoToIf, disk
<1>2. ASSUME NEW p \in People, BeginList(p)
     PROVE  k' \in [People -> 1..5] /\ \A q \in People : Controlled(q)'
  BY <1>2 DEF BeginList, Controlled, TypeOK, GoTo, GoToIf, disk
<1>3. ASSUME NEW p \in People, BeginValidate(p)
     PROVE  k' \in [People -> 1..5] /\ \A q \in People : Controlled(q)'
  BY <1>3 DEF BeginValidate, Controlled, TypeOK, GoTo, GoToIf, disk
<1>4. ASSUME NEW p \in People, BeginFinalize(p)
     PROVE  k' \in [People -> 1..5] /\ \A q \in People : Controlled(q)'
  BY <1>4 DEF BeginFinalize, Controlled, TypeOK, GoTo, GoToIf, disk
<1>5. ASSUME NEW p \in People, BeginVerification(p)
     PROVE  k' \in [People -> 1..5] /\ \A q \in People : Controlled(q)'
  BY <1>5 DEF BeginVerification, Controlled, TypeOK, GoTo, GoToIf, disk
<1>6. ASSUME NEW p \in People, Open(p)
     PROVE  k' \in [People -> 1..5] /\ \A q \in People : Controlled(q)'
  BY <1>6, OutFacts DEF Open, Controlled, TypeOK, GoTo, GoToIf, disk
<1>7. ASSUME NEW p \in People, Write(p)
     PROVE  k' \in [People -> 1..5] /\ \A q \in People : Controlled(q)'
  <2>1. role[p] = "validate" /\ pc[p] = "write"
    BY <1>7 DEF Write, Controlled
  <2>2. Len(Outputs[role[p]]) = 3 /\ k[p] \in 1..3
    BY <2>1, LastOutput DEF Controlled
  <2>3. CASE k[p] = 3
    BY <1>7, <2>1, <2>2, <2>3 DEF Write, Controlled, TypeOK, GoTo
  <2>4. CASE k[p] \in 1..2
    BY <1>7, <2>1, <2>2, <2>4 DEF Write, Controlled, TypeOK, GoTo
  <2>5. QED
    BY <2>2, <2>3, <2>4
<1>8. ASSUME NEW p \in People, Verify(p)
     PROVE  k' \in [People -> 1..5] /\ \A q \in People : Controlled(q)'
  BY <1>8 DEF Verify, Controlled, TypeOK, GoTo, GoToIf, disk
<1>9. ASSUME NEW p \in People, Make(p)
     PROVE  k' \in [People -> 1..5] /\ \A q \in People : Controlled(q)'
  BY <1>9 DEF Make, Controlled, TypeOK, GoTo, GoToIf, disk
<1>10. ASSUME NEW p \in People, Link(p)
     PROVE  k' \in [People -> 1..5] /\ \A q \in People : Controlled(q)'
  BY <1>10 DEF Link, Controlled, TypeOK, GoTo, GoToIf, disk
<1>11. ASSUME NEW p \in People, Unlink(p)
     PROVE  k' \in [People -> 1..5] /\ \A q \in People : Controlled(q)'
  BY <1>11, AfterFacts DEF Unlink, Controlled, TypeOK, GoTo, GoToIf, disk
<1>12. ASSUME NEW p \in People, Hash(p)
     PROVE  k' \in [People -> 1..5] /\ \A q \in People : Controlled(q)'
  BY <1>12 DEF Hash, Controlled, TypeOK, GoTo, GoToIf, disk
<1>13. ASSUME NEW p \in People, Recheck(p)
     PROVE  k' \in [People -> 1..5] /\ \A q \in People : Controlled(q)'
  BY <1>13 DEF Recheck, Controlled, TypeOK, GoTo, GoToIf, disk
<1>14. ASSUME NEW p \in People, ReadMarkers(p)
     PROVE  k' \in [People -> 1..5] /\ \A q \in People : Controlled(q)'
  BY <1>14 DEF ReadMarkers, Controlled, TypeOK, GoTo, GoToIf, disk
<1>15. ASSUME NEW p \in People, Scan(p)
     PROVE  k' \in [People -> 1..5] /\ \A q \in People : Controlled(q)'
  BY <1>15 DEF Scan, Controlled, TypeOK, GoTo, GoToIf, disk, AfterScan
<1>16. ASSUME NEW p \in People, OpenAttestation(p)
     PROVE  k' \in [People -> 1..5] /\ \A q \in People : Controlled(q)'
  BY <1>16 DEF OpenAttestation, Controlled, TypeOK, GoTo, GoToIf, disk
<1>17. ASSUME NEW p \in People, WriteAttestation(p)
     PROVE  k' \in [People -> 1..5] /\ \A q \in People : Controlled(q)'
  BY <1>17 DEF WriteAttestation, Controlled, TypeOK, GoTo, GoToIf, disk
<1>18. ASSUME NEW p \in People, Kill(p)
     PROVE  k' \in [People -> 1..5] /\ \A q \in People : Controlled(q)'
  BY <1>18 DEF Kill, Controlled, TypeOK, GoTo, GoToIf, disk
<1>19. ASSUME NEW p \in People, Fail(p)
     PROVE  k' \in [People -> 1..5] /\ \A q \in People : Controlled(q)'
  BY <1>19 DEF Fail, Controlled, TypeOK, GoTo, GoToIf, disk
<1>20. /\ k' \in [People -> 1..5]
       /\ \A p \in People : Controlled(p)'
  <2>1. CASE UNCHANGED vars
    BY <2>1 DEF vars, call, disk, Controlled
  <2>2. CASE Next
    BY <2>2, <1>1, <1>2, <1>3, <1>4, <1>5, <1>6, <1>7, <1>8, <1>9, <1>10, <1>11, <1>12, <1>13, <1>14, <1>15, <1>16, <1>17, <1>18, <1>19 DEF Next, Step
  <2>3. QED
    BY <2>1, <2>2
<1>21. \A p \in People : pc'[p] \in {"open", "write", "make", "link", "unlink"} =>
          k'[p] \in DOMAIN Outputs[role'[p]]
  BY <1>20, OutputFacts DEF Controlled
<1> DEFINE Rest ==
      /\ author \in [Files -> People \cup {Nobody}]
      /\ torn \subseteq Tree
      /\ litter \subseteq Files
      /\ att \in [People -> {"none", "torn", "whole"}]
      /\ basis \in People \cup {Nobody}
      /\ pc \in [People -> Running \cup {"idle", "done", "failed"}]
      /\ role \in [People -> Roles]
      /\ seen \in [People -> SUBSET Markers]
      /\ via \in [People -> People]
      /\ faults \in 0..MaxFaults
<1>22. ASSUME NEW p \in People, Call(p) PROVE Rest'
  BY ReleaseAssumption, <1>22 DEF Call, TypeOK, GoTo, GoToIf, disk, Running, Tree, Exists
<1>23. ASSUME NEW p \in People, BeginList(p) PROVE Rest'
  BY ReleaseAssumption, <1>23 DEF BeginList, TypeOK, GoTo, GoToIf, disk, Running, Tree, Exists
<1>24. ASSUME NEW p \in People, BeginValidate(p) PROVE Rest'
  BY ReleaseAssumption, <1>24 DEF BeginValidate, TypeOK, GoTo, GoToIf, disk, Running, Tree, Exists
<1>25. ASSUME NEW p \in People, BeginFinalize(p) PROVE Rest'
  BY ReleaseAssumption, <1>25 DEF BeginFinalize, TypeOK, GoTo, GoToIf, disk, Running, Tree, Exists
<1>26. ASSUME NEW p \in People, BeginVerification(p) PROVE Rest'
  BY ReleaseAssumption, <1>26 DEF BeginVerification, TypeOK, GoTo, GoToIf, disk, Running, Tree, Exists
<1>27. ASSUME NEW p \in People, Open(p) PROVE Rest'
  BY ReleaseAssumption, <1>27, OutFacts DEF Open, TypeOK, GoTo, GoToIf, disk, Running, Tree, Exists
<1>28. ASSUME NEW p \in People, Write(p) PROVE Rest'
  BY ReleaseAssumption, <1>28 DEF Write, TypeOK, GoTo, GoToIf, disk, Running, Tree, Exists
<1>29. ASSUME NEW p \in People, Verify(p) PROVE Rest'
  BY ReleaseAssumption, <1>29 DEF Verify, TypeOK, GoTo, GoToIf, disk, Running, Tree, Exists
<1>30. ASSUME NEW p \in People, Make(p) PROVE Rest'
  BY ReleaseAssumption, <1>30 DEF Make, TypeOK, GoTo, GoToIf, disk, Running, Tree, Exists
<1>31. ASSUME NEW p \in People, Link(p) PROVE Rest'
  BY ReleaseAssumption, <1>31, OutFacts DEF Link, TypeOK, GoTo, GoToIf, disk, Running, Tree, Exists
<1>32. ASSUME NEW p \in People, Unlink(p) PROVE Rest'
  BY ReleaseAssumption, <1>32, AfterFacts DEF Unlink, TypeOK, GoTo, GoToIf, disk, Running, Tree, Exists
<1>33. ASSUME NEW p \in People, Hash(p) PROVE Rest'
  BY ReleaseAssumption, <1>33 DEF Hash, TypeOK, GoTo, GoToIf, disk, Running, Tree, Exists
<1>34. ASSUME NEW p \in People, Recheck(p) PROVE Rest'
  BY ReleaseAssumption, <1>34 DEF Recheck, TypeOK, GoTo, GoToIf, disk, Running, Tree, Exists
<1>35. ASSUME NEW p \in People, ReadMarkers(p) PROVE Rest'
  BY ReleaseAssumption, <1>35 DEF ReadMarkers, TypeOK, GoTo, GoToIf, disk, Running, MarkerSet, Tree, Exists
<1>36. ASSUME NEW p \in People, Scan(p) PROVE Rest'
  BY ReleaseAssumption, <1>36 DEF Scan, TypeOK, GoTo, GoToIf, disk, Running, AfterScan, Tree, Exists
<1>37. ASSUME NEW p \in People, OpenAttestation(p) PROVE Rest'
  BY ReleaseAssumption, <1>37 DEF OpenAttestation, TypeOK, GoTo, GoToIf, disk, Running, Tree, Exists
<1>38. ASSUME NEW p \in People, WriteAttestation(p) PROVE Rest'
  BY ReleaseAssumption, <1>38 DEF WriteAttestation, TypeOK, GoTo, GoToIf, disk, Running, Tree, Exists
<1>39. ASSUME NEW p \in People, Kill(p) PROVE Rest'
  BY ReleaseAssumption, <1>39, OutFacts DEF Kill, TypeOK, GoTo, GoToIf, disk, Running, Tree, Exists
<1>40. ASSUME NEW p \in People, Fail(p) PROVE Rest'
  BY ReleaseAssumption, <1>40 DEF Fail, TypeOK, GoTo, GoToIf, disk, Running, Tree, Exists
<1>41. Rest'
  <2>1. CASE UNCHANGED vars
    BY <2>1 DEF vars, call, disk, TypeOK, Tree, Exists
  <2>2. CASE Next
    BY <2>2, <1>22, <1>23, <1>24, <1>25, <1>26, <1>27, <1>28, <1>29, <1>30, <1>31, <1>32, <1>33, <1>34, <1>35, <1>36, <1>37, <1>38, <1>39, <1>40 DEF Next, Step
  <2>3. QED
    BY <2>1, <2>2
<1>42. QED
  BY <1>20, <1>21, <1>41 DEF TypeOK

-----------------------------------------------------------------------------
(* What is on disk stays: files are never replaced *)

\* One step on the disk: what exists keeps its author and does not get torn.
Grows ==
    /\ \A f \in Files : Exists(f) => author'[f] = author[f]
    /\ torn' \cap Tree \subseteq torn
    /\ torn' \subseteq Of("validate")
    /\ \A v \in People : att[v] = "whole" => att'[v] = "whole"
    /\ \A v \in People : att[v] # "none" => att'[v] # "none"
    /\ Exists("RELEASED") => basis' = basis

\* No step replaces anything.
LEMMA DiskGrows ==
    ASSUME TypeOK, k \in [People -> 1..5], \A p \in People : AtWork(p), Chain, [Next]_vars
    PROVE  Grows
<1> USE FileFacts DEF TypeOK
<1>1. ASSUME NEW p \in People, Open(p) PROVE Grows
  <2>1. Out(p) \in Of("validate")
    BY <1>1, OutFacts DEF Open, AtWork, Controlled
  <2>2. QED
    BY <1>1, <2>1 DEF Open, Grows, Exists, Tree, Chain
<1>2. ASSUME NEW p \in People, Write(p) PROVE Grows
  BY <1>2 DEF Write, Grows, Exists, Tree, Chain
<1>3. ASSUME NEW p \in People, Link(p) PROVE Grows
  BY <1>3, OutFacts DEF Link, Grows, Exists, Tree, Chain, AtWork
<1>4. ASSUME NEW p \in People, OpenAttestation(p) PROVE Grows
  BY <1>4 DEF OpenAttestation, Grows, Exists, Tree, Chain
<1>5. ASSUME NEW p \in People, WriteAttestation(p) PROVE Grows
  BY <1>5 DEF WriteAttestation, Grows, Exists, Tree, Chain
<1>6. CASE UNCHANGED <<author, torn, att, basis>>
  BY <1>6 DEF Grows, Tree, Exists, Chain
<1>7. QED
  BY <1>1, <1>2, <1>3, <1>4, <1>5, <1>6 DEF Next, Step, vars, disk, Call, BeginList,
     BeginValidate, BeginFinalize, BeginVerification, Verify, Make, Unlink, Hash,
     Recheck, ReadMarkers, Scan, Kill, Fail

\* What COMPLETE answers for stays ready.
LEMMA ReadyStays ==
    ASSUME TypeOK, Grows, Ready PROVE Ready'
<1>1. Of("validate") \subseteq Tree
  BY FileFacts DEF Ready, Covered, Validated, Markers, Structural, Scientific
<1>2. torn' = {}
  BY <1>1 DEF Grows, Ready
<1>3. Tree \subseteq Tree'
  BY DEF Grows, Tree, Exists
<1>4. QED
  BY <1>2, <1>3 DEF Ready, Covered, Validated, Generated

\* So does what a release rests on.
LEMMA RestingStays ==
    ASSUME TypeOK, Grows, NEW v \in People, Resting(v) PROVE Resting(v)'
BY FileFacts, ReleaseAssumption DEF Resting, Grows, Exists

\* And what the work of somebody else rests on.
LEMMA Undisturbed ==
    ASSUME TypeOK, Grows, NEW p \in People, AtWork(p), Controlled(p)', att'[p] = att[p],
           k \in [People -> 1..5],
           k'[p] = k[p], role'[p] = role[p], pc'[p] = pc[p], via'[p] = via[p]
    PROVE  AtWork(p)'
<1> USE FileFacts
<1>1. Validating(p)'
  <2>1. Out(p)' = Out(p)
    BY DEF Out
  <2>2. pc[p] = "write" => Out(p) \in Files
    BY OutFacts DEF AtWork
  <2>3. \A f \in Files : author[f] = p => author'[f] = p /\ (f \notin torn => f \notin torn')
    BY ReleaseAssumption DEF Grows, Exists, Tree
  <2>4. QED
    BY <2>1, <2>2, <2>3 DEF AtWork, Validating
<1>2. Finalizing(p)'
  <2>1. \A i \in 1..5 : Outputs["finalize"][i] \in Files
    BY OutputFacts
  <2>2. \A n \in 0..5 : Published(p, n) => Published(p, n)'
    BY <2>1, ReleaseAssumption DEF Published, Grows, Exists
  <2>3. k[p] \in 0..5 /\ k[p] - 1 \in 0..5
    OBVIOUS
  <2>4. QED
    BY <2>2, <2>3 DEF AtWork, Finalizing, Published
<1>3. Completing(p)'
  BY ReadyStays DEF AtWork, Completing
<1>4. Releasing(p)'
  <2>1. via[p] \in People
    BY DEF TypeOK
  <2>2. QED
    BY <2>1, RestingStays DEF AtWork, Releasing, Resting
<1>5. Signing(p)'
  BY DEF AtWork, Signing
<1>6. QED
  BY <1>1, <1>2, <1>3, <1>4, <1>5 DEF AtWork

-----------------------------------------------------------------------------
(* Each part of the invariant over one step *)

\* The files of a validation are created in their order.
LEMMA ChainStep ==
    ASSUME IInv, [Next]_vars PROVE Chain'
<1> USE FileFacts, ReleaseAssumption DEF IInv, TypeOK
<1>1. ASSUME NEW p \in People, Open(p) PROVE Chain'
  <2>1. role[p] = "validate" /\ pc[p] = "open"
    BY <1>1 DEF Open, AtWork, Controlled
  <2>2. CASE Exists(Out(p))
    BY <1>1, <2>2 DEF Open, Chain, Exists
  <2>3. CASE ~Exists(Out(p))
    <3>1. /\ author' = [author EXCEPT ![Out(p)] = p]
          /\ torn' = torn \cup {Out(p)}
      BY <1>1, <2>3 DEF Open
    <3>2. CASE Out(p) = Structural
      BY <3>1, <3>2, <2>3 DEF Chain, Exists, Structural, Scientific
    <3>3. CASE Out(p) = Scientific /\ k[p] = 2
      BY <3>1, <3>3, <2>1, <2>3 DEF Chain, Exists, Structural, Scientific, AtWork, Validating
    <3>4. CASE Out(p) = "DATA_VALIDATED" /\ k[p] = 3
      BY <3>1, <3>4, <2>1, <2>3 DEF Chain, Exists, Structural, Scientific, AtWork, Validating
    <3>5. QED
      BY <2>1, <3>2, <3>3, <3>4, OutFacts DEF AtWork
  <2>4. QED
    BY <2>2, <2>3
<1>2. ASSUME NEW p \in People, Write(p) PROVE Chain'
  BY <1>2 DEF Write, Chain, Exists
<1>3. ASSUME NEW p \in People, Link(p) PROVE Chain'
  <2>1. Out(p) \in Files \ Of("validate")
    BY <1>3, OutFacts DEF Link, AtWork, Controlled, Structural, Scientific
  <2>2. \A f \in Of("validate") : author'[f] = author[f]
    BY <1>3, <2>1 DEF Link
  <2>3. QED
    BY <1>3, <2>2 DEF Link, Chain, Exists
<1>4. CASE UNCHANGED <<author, torn>>
  BY <1>4 DEF Chain, Exists
<1>5. QED
  BY <1>1, <1>2, <1>3, <1>4 DEF Next, Step, vars, disk, Call, BeginList,
     BeginValidate, BeginFinalize, BeginVerification, Verify, Make, Unlink, Hash,
     Recheck, ReadMarkers, Scan, OpenAttestation, WriteAttestation, Kill, Fail

\* Who creates COMPLETE.
LEMMA NewComplete ==
    ASSUME IInv, [Next]_vars, ~Exists("COMPLETE"), Exists("COMPLETE")'
    PROVE  \E p \in People :
             /\ Link(p) /\ role[p] = "finalize" /\ k[p] = 5
             /\ author' = [author EXCEPT !["COMPLETE"] = p]
<1> USE FileFacts DEF IInv, TypeOK, Exists
<1>1. ASSUME NEW p \in People, Open(p) PROVE FALSE
  BY <1>1, OutFacts DEF Open, AtWork, Controlled, Structural, Scientific
<1>2. ASSUME NEW p \in People, Link(p)
      PROVE role[p] = "finalize" /\ k[p] = 5 /\ author' = [author EXCEPT !["COMPLETE"] = p]
  <2>1. ~Exists(Out(p)) /\ Out(p) = "COMPLETE" /\ author' = [author EXCEPT !["COMPLETE"] = p]
    BY <1>2, OutFacts DEF Link, AtWork
  <2>2. QED
    BY <1>2, <2>1, OutFacts DEF Link, AtWork, Controlled
<1>3. author' # author
  OBVIOUS
<1>4. QED
  BY <1>1, <1>2, <1>3 DEF Next, Step, vars, disk, Call, BeginList, Write,
     BeginValidate, BeginFinalize, BeginVerification, Verify, Make, Unlink, Hash,
     Recheck, ReadMarkers, Scan, OpenAttestation, WriteAttestation, Kill, Fail

\* COMPLETE stands for a whole validation and a whole finalization.
LEMMA CompleteStep ==
    ASSUME IInv, [Next]_vars PROVE CompleteIsCovered'
<1> USE FileFacts DEF IInv
<1>1. Grows
  BY DiskGrows
<1>2. CASE Exists("COMPLETE")
  <2>1. Ready
    BY <1>2 DEF CompleteIsCovered, Ready
  <2>2. Ready'
    BY <1>1, <2>1, ReadyStays
  <2>3. Of("validate") \subseteq Tree
    BY <2>1 DEF Ready, Covered, Validated, Markers, Structural, Scientific
  <2>4. \A f \in Of("finalize") \cup Of("validate") : Exists(f)
    BY <1>2, <2>1, <2>3 DEF Ready, Covered, Generated, Tree, Exists, Markers,
       Structural, Scientific
  <2>5. \A f \in Of("finalize") \cup Of("validate") : author'[f] = author[f]
    BY <1>1, <2>4 DEF Grows
  <2>6. OneAuthor(Of("finalize"))' /\ OneAuthor(Of("validate"))'
    <3>1. OneAuthor(Of("finalize")) /\ OneAuthor(Of("validate"))
      BY <1>2 DEF CompleteIsCovered
    <3>2. QED
      BY <2>5, <3>1 DEF OneAuthor
  <2>7. QED
    BY <2>2, <2>6 DEF CompleteIsCovered, Ready
<1>3. CASE ~Exists("COMPLETE") /\ Exists("COMPLETE")'
  <2>1. PICK p \in People : /\ Link(p) /\ role[p] = "finalize" /\ k[p] = 5
                           /\ author' = [author EXCEPT !["COMPLETE"] = p]
    BY <1>3, NewComplete
  <2>2. pc[p] = "link"
    BY <2>1 DEF Link
  <2>3. Ready'
    BY <1>1, <2>1, <2>2, ReadyStays DEF AtWork, Completing
  <2>4. \A f \in Of("finalize") : author'[f] = p
    <3>1. Published(p, 4)
      BY <2>1, <2>2 DEF AtWork, Finalizing
    <3>2. /\ author["consumerSums"] = p /\ author["evidenceIndex"] = p
          /\ author["runManifest"] = p /\ author["rootSums"] = p
      BY <3>1, OutputFacts DEF Published
    <3>3. QED
      BY <2>1, <3>2 DEF TypeOK
  <2>5. Chain'
    BY ChainStep
  <2>6. Exists("DATA_VALIDATED")' /\ Exists(Scientific)'
    BY <2>3 DEF Ready, Covered, Validated, Tree, Markers, Structural, Scientific
  <2>7. OneAuthor(Of("validate"))'
    BY <2>5, <2>6 DEF Chain, OneAuthor
  <2>8. OneAuthor(Of("finalize"))'
    BY <2>4 DEF OneAuthor
  <2>9. QED
    BY <2>3, <2>7, <2>8 DEF CompleteIsCovered, Ready
<1>4. QED
  BY <1>2, <1>3 DEF CompleteIsCovered

\* RELEASED rests on the attestation it names.
LEMMA ReleaseStep ==
    ASSUME IInv, [Next]_vars PROVE ReleaseIsAttested'
<1> USE FileFacts DEF IInv, TypeOK
<1>1. Grows
  BY DiskGrows
<1>2. CASE Exists("RELEASED")
  BY <1>1, <1>2, RestingStays DEF ReleaseIsAttested, Grows, Resting
<1>3. ASSUME ~Exists("RELEASED"), NEW p \in People, Link(p), Exists("RELEASED")'
      PROVE  ReleaseIsAttested'
  <2>1. ~Exists(Out(p)) /\ Out(p) = "RELEASED"
    BY <1>3, OutFacts DEF Link, AtWork, Exists
  <2>2. role[p] = "release" /\ pc[p] = "link" /\ basis' = via[p]
    BY <1>3, <2>1, OutFacts DEF Link, AtWork, Controlled
  <2>3. Resting(via[p])
    BY <2>2 DEF AtWork, Releasing
  <2>4. Resting(via[p])'
    BY <1>1, <1>3, <2>3, RestingStays DEF Link, Resting
  <2>5. QED
    BY <2>2, <2>4, <1>3 DEF ReleaseIsAttested, Resting, Link
<1>4. ASSUME NEW p \in People, Open(p), ~Exists("RELEASED"), Exists("RELEASED")' PROVE FALSE
  BY <1>4, OutFacts DEF Open, AtWork, Controlled, Structural, Scientific, Exists
<1>5. CASE ~Exists("RELEASED") /\ author' = author
  BY <1>5 DEF Exists, ReleaseIsAttested
<1>6. QED
  BY <1>2, <1>3, <1>4, <1>5 DEF ReleaseIsAttested, Next, Step, vars, disk, Call, BeginList,
     Write, BeginValidate, BeginFinalize, BeginVerification, Verify, Make, Unlink, Hash,
     Recheck, ReadMarkers, Scan, OpenAttestation, WriteAttestation, Kill, Fail

\* A step that ends, or leads to where nothing is promised, promises nothing.
LEMMA NothingPromised ==
    ASSUME NEW p \in People, Controlled(p)',
           pc'[p] \in {"idle", "done", "failed", "begin", "verify", "markers", "scan", "attest"}
    PROVE  AtWork(p)'
BY DEF AtWork, Validating, Finalizing, Completing, Releasing, Signing

\* What the caller of a step rests on afterwards.
LEMMA OwnStep ==
    ASSUME IInv, [Next]_vars, NEW p \in People, Step(p) \/ Call(p) \/ Kill(p) \/ Fail(p)
    PROVE  AtWork(p)'
<1> USE FileFacts, OutputFacts DEF IInv, TypeOK
<1>1. Grows
  BY DiskGrows
<1>2. Controlled(p)' /\ Controlled(p) /\ (k \in [People -> 1..5])'
  BY TypeStep DEF AtWork
<1>3. CASE Call(p) \/ BeginFinalize(p) \/ BeginVerification(p) \/ ReadMarkers(p)
           \/ WriteAttestation(p) \/ Kill(p) \/ Fail(p)
  BY <1>2, <1>3, NothingPromised DEF Call, BeginFinalize, BeginVerification, ReadMarkers,
     WriteAttestation, Kill, Fail, GoTo, GoToIf
<1>4. CASE BeginList(p)
  BY <1>2, <1>4 DEF BeginList, GoTo, AtWork, Validating, Finalizing, Completing,
     Releasing, Signing
<1>5. CASE BeginValidate(p)
  <2>1. k'[p] = 1 /\ role'[p] = "validate" /\ pc'[p] \in {"open", "failed"}
    BY <1>2, <1>5 DEF BeginValidate, GoTo, GoToIf, Controlled
  <2>2. QED
    BY <1>2, <2>1 DEF AtWork, Validating, Finalizing, Completing, Releasing, Signing
<1>6. CASE Open(p)
  <2>1. role'[p] = "validate" /\ pc[p] = "open" /\ Out(p)' = Out(p) /\ k'[p] = k[p]
    BY <1>2, <1>6 DEF Open, Controlled, Out
  <2>2. CASE Exists(Out(p))
    BY <1>2, <1>6, <2>2, NothingPromised DEF Open, GoTo
  <2>3. CASE ~Exists(Out(p))
    <3>1. pc'[p] = "write" /\ author'[Out(p)] = p /\ torn' = torn \cup {Out(p)}
      BY <1>2, <1>6, <2>3, OutFacts DEF Open, GoTo
    <3>2. \A f \in Files : author[f] = p /\ f \notin torn => author'[f] = p /\ f \notin torn'
      BY <1>1, ReleaseAssumption DEF Grows, Exists, Tree
    <3>3. Validating(p)
      BY DEF AtWork
    <3>4. Validating(p)'
      BY <2>1, <3>1, <3>2, <3>3 DEF Validating
    <3>5. QED
      BY <1>2, <2>1, <3>1, <3>4 DEF AtWork, Finalizing, Completing, Releasing, Signing
  <2>4. QED
    BY <2>2, <2>3
<1>7. CASE Write(p)
  <2>1. /\ role'[p] = "validate" /\ role[p] = "validate" /\ pc[p] = "write"
        /\ author[Out(p)] = p /\ author' = author /\ torn' = torn \ {Out(p)}
        /\ Validating(p)
    BY <1>2, <1>7 DEF Write, Controlled, AtWork, Validating
  <2>2. pc'[p] = "done" \/ (pc'[p] = "open" /\ k'[p] = k[p] + 1)
    BY <1>2, <1>7 DEF Write, GoTo
  <2>3. Validating(p)'
    BY <1>2, <2>1, <2>2, OutFacts DEF Validating, Structural, Scientific
  <2>4. QED
    BY <1>2, <2>1, <2>2, <2>3 DEF AtWork, Finalizing, Completing, Releasing, Signing
<1>8. CASE Verify(p)
  <2>1. /\ role'[p] = "finalize" /\ k'[p] = 1 /\ pc'[p] \in {"make", "failed"}
    BY <1>2, <1>8 DEF Verify, Controlled, GoTo, GoToIf
  <2>2. QED
    BY <1>2, <2>1 DEF AtWork, Validating, Finalizing, Published, Completing,
       Releasing, Signing
<1>9. CASE Make(p)
  <2>1. /\ role'[p] = role[p] /\ k'[p] = k[p] /\ pc'[p] \in {"link", "failed"}
        /\ author' = author /\ torn' = torn /\ via'[p] = via[p] /\ att' = att
        /\ pc[p] = "make"
    BY <1>9 DEF Make, disk, GoTo, GoToIf
  <2>2. Finalizing(p)' /\ Completing(p)' /\ Releasing(p)'
    BY <2>1, <1>2 DEF AtWork, Finalizing, Published, Completing, Ready, Tree, Exists,
       Releasing, Resting
  <2>3. QED
    BY <1>2, <2>1, <2>2 DEF AtWork, Validating, Signing
<1>10. CASE Link(p)
  <2>1. CASE Exists(Out(p))
    BY <1>2, <1>10, <2>1, NothingPromised DEF Link, GoTo, GoToIf
  <2>2. CASE ~Exists(Out(p))
    <3>1. /\ role'[p] = role[p] /\ k'[p] = k[p] /\ pc'[p] = "unlink" /\ pc[p] = "link"
          /\ author'[Out(p)] = p
      BY <1>2, <1>10, <2>2, OutFacts DEF Link, GoTo, GoToIf
    <3>2. Finalizing(p)'
      <4> SUFFICES ASSUME role[p] = "finalize", NEW i \in 1..5, i <= k[p]
                   PROVE  author'[Outputs["finalize"][i]] = p
        BY <3>1 DEF Finalizing, Published
      <4>1. CASE i = k[p]
        BY <4>1, <3>1 DEF Out
      <4>2. CASE i <= k[p] - 1
        <5>1. Published(p, k[p] - 1)
          BY <3>1 DEF AtWork, Finalizing
        <5>2. author[Outputs["finalize"][i]] = p /\ Outputs["finalize"][i] \in Files
          BY <4>2, <5>1 DEF Published
        <5>3. QED
          BY <1>1, <5>2, ReleaseAssumption DEF Grows, Exists
      <4>3. k[p] \in 1..5
        OBVIOUS
      <4>4. QED
        BY <4>1, <4>2, <4>3
    <3>3. Completing(p)'
      BY <1>1, <3>1, ReadyStays DEF AtWork, Completing
    <3>4. QED
      BY <1>2, <3>1, <3>2, <3>3 DEF AtWork, Validating, Releasing, Signing
  <2>3. QED
    BY <2>1, <2>2
<1>11. CASE Unlink(p)
  <2>1. /\ pc[p] = "unlink" /\ pc'[p] = After(p) /\ author' = author /\ role'[p] = role[p]
        /\ k'[p] = IF After(p) = "make" THEN k[p] + 1 ELSE k[p]
    BY <1>2, <1>11 DEF Unlink, GoTo, disk
  <2>2. CASE After(p) \in {"done", "markers"}
    BY <1>2, <2>1, <2>2, NothingPromised
  <2>3. CASE After(p) \in {"hash", "recheck"}
    <3>1. Finalizing(p)'
      BY <2>1, <2>3 DEF AtWork, Finalizing, Published
    <3>2. QED
      BY <1>2, <2>1, <2>3, <3>1 DEF AtWork, Validating, Completing, Releasing, Signing
  <2>4. CASE After(p) = "make"
    <3>1. role'[p] = "finalize" /\ k'[p] = k[p] + 1 /\ k'[p] \in {2, 3}
      BY <1>2, <2>1, <2>4, AfterFacts
    <3>2. Published(p, k[p])
      BY <2>1, <3>1 DEF AtWork, Finalizing
    <3>3. Published(p, k[p] - 1)'
      BY <3>1, <3>2, <2>1 DEF Published
    <3>4. QED
      BY <1>2, <2>1, <2>4, <3>1, <3>3 DEF AtWork, Validating, Finalizing, Published,
         Completing, Releasing, Signing
  <2>5. QED
    BY <1>2, <2>1, <2>2, <2>3, <2>4, AfterFacts
<1>12. CASE Hash(p)
  <2>1. /\ pc[p] = "hash" /\ role[p] = "finalize" /\ k[p] = 3
        /\ role'[p] = "finalize" /\ k'[p] = 4 /\ author' = author
        /\ pc'[p] \in {"make", "failed"}
    BY <1>2, <1>12 DEF Hash, Controlled, GoTo, GoToIf, disk
  <2>2. Published(p, 3)
    BY <2>1 DEF AtWork, Finalizing
  <2>3. QED
    BY <1>2, <2>1, <2>2 DEF AtWork, Validating, Finalizing, Published, Completing,
       Releasing, Signing
<1>13. CASE Recheck(p)
  <2>1. /\ pc[p] = "recheck" /\ role[p] = "finalize" /\ k[p] = 4
        /\ role'[p] = "finalize" /\ k'[p] = 5 /\ author' = author /\ torn' = torn
        /\ pc'[p] \in {"make", "failed"}
    BY <1>2, <1>13 DEF Recheck, Controlled, GoTo, GoToIf, disk
  <2>2. Published(p, 4)
    BY <2>1 DEF AtWork, Finalizing
  <2>3. ASSUME pc'[p] = "make" PROVE Ready'
    <3>1. Tree = Validated \cup Generated /\ (Tree \ {Scientific}) \cap torn = {}
      BY <1>13, <2>3 DEF Recheck, GoTo, GoToIf, Readable, Scientific
    <3>2. Exists("DATA_VALIDATED")
      BY <3>1 DEF Validated, Tree
    <3>3. torn = {}
      BY <3>1, <3>2 DEF Chain
    <3>4. Ready
      BY <3>1, <3>3 DEF Ready, Covered, Generated, Validated, Markers
    <3>5. QED
      BY <2>1, <3>4 DEF Ready, Tree, Exists
  <2>4. QED
    BY <1>2, <2>1, <2>2, <2>3 DEF AtWork, Validating, Finalizing, Published, Completing,
       Releasing, Signing
<1>14. CASE Scan(p)
  <2>1. pc[p] = "scan" /\ role'[p] = role[p] /\ via'[p] = via[p] /\ k'[p] = k[p]
        /\ author' = author /\ att' = att /\ seen' = seen
    BY <1>14 DEF Scan, disk
  <2>2. CASE pc'[p] # "make"
    BY <1>2, <1>14, <2>2, NothingPromised DEF Scan, GoTo, AfterScan
  <2>3. CASE pc'[p] = "make"
    <3>1. Verifies(p) /\ AfterScan(p) = "make"
      BY <1>14, <2>3 DEF Scan, GoTo
    <3>2. role[p] = "release" /\ AttestedBy(via[p])
      BY <1>2, <2>1, <3>1 DEF AfterScan, Controlled
    <3>3. Exists("COMPLETE")
      BY <1>2, <2>1, <3>1 DEF Controlled, Verifies, Tree
    <3>4. Releasing(p)'
      BY <2>1, <3>2, <3>3 DEF Releasing, Resting, AttestedBy, Independent, Exists
    <3>5. QED
      BY <1>2, <2>1, <2>3, <3>2, <3>4 DEF AtWork, Validating, Finalizing, Completing, Signing
  <2>4. QED
    BY <2>2, <2>3
<1>15. CASE OpenAttestation(p)
  BY <1>2, <1>15 DEF OpenAttestation, GoTo, AtWork, Validating, Finalizing, Completing,
     Releasing, Signing
<1>16. QED
  BY <1>3, <1>4, <1>5, <1>6, <1>7, <1>8, <1>9, <1>10, <1>11, <1>12, <1>13, <1>14, <1>15
     DEF Step

-----------------------------------------------------------------------------
(* The theorems *)

\* The invariant holds of a root on which nothing was done.
LEMMA InitInv == Init => IInv
<1> SUFFICES ASSUME Init PROVE IInv
  OBVIOUS
<1>1. Roles # {} /\ "list" \in Roles
  BY OutputFacts
<1>2. TypeOK
  BY <1>1, ReleaseAssumption DEF Init, TypeOK, Tree, Exists, Running
<1>3. ~Exists("COMPLETE") /\ ~Exists("RELEASED") /\ Chain
  BY FileFacts DEF Init, Exists, Chain, Structural, Scientific
<1>4. \A p \in People : AtWork(p)
  BY <1>1 DEF Init, AtWork, Controlled, Validating, Finalizing, Completing, Releasing, Signing
<1>5. QED
  BY <1>2, <1>3, <1>4 DEF IInv, Init, CompleteIsCovered, ReleaseIsAttested

\* Every step keeps it.
LEMMA InvStep == IInv /\ [Next]_vars => IInv'
<1> SUFFICES ASSUME IInv, [Next]_vars PROVE IInv'
  OBVIOUS
<1>1. /\ TypeOK' /\ (k \in [People -> 1..5])' /\ \A p \in People : Controlled(p)'
  BY TypeStep DEF IInv, AtWork
<1>2. Chain' /\ CompleteIsCovered' /\ ReleaseIsAttested'
  BY ChainStep, CompleteStep, ReleaseStep
<1>3. Grows
  BY DiskGrows DEF IInv
<1>4. ASSUME NEW q \in People PROVE AtWork(q)'
  <2>1. CASE UNCHANGED vars
    BY <1>1, <1>3, <2>1, Undisturbed DEF vars, call, disk, IInv
  <2>2. ASSUME NEW p \in People, Call(p) \/ Step(p) \/ Kill(p) \/ Fail(p)
        PROVE  AtWork(q)'
    <3>1. CASE p = q
      BY <2>2, <3>1, OwnStep
    <3>2. CASE p # q
      <4>1. /\ att'[q] = att[q] /\ k'[q] = k[q] /\ role'[q] = role[q]
            /\ pc'[q] = pc[q] /\ via'[q] = via[q]
        BY <2>2, <3>2 DEF Step, IInv, TypeOK, GoTo, GoToIf, disk, Call, BeginList,
           BeginValidate, BeginFinalize, BeginVerification, Open, Write, Verify, Make,
           Link, Unlink, Hash, Recheck, ReadMarkers, Scan, OpenAttestation,
           WriteAttestation, Kill, Fail
      <4>2. QED
        BY <1>1, <1>3, <4>1, Undisturbed DEF IInv
    <3>3. QED
      BY <3>1, <3>2
  <2>3. QED
    BY <2>1, <2>2 DEF Next
<1>5. QED
  BY <1>1, <1>2, <1>4 DEF IInv

\* The invariant holds, for any number of people, calls and faults.
THEOREM Invariance == Spec => []IInv
BY InitInv, InvStep, PTL DEF Spec

\* Type correctness.
THEOREM TypeCorrect == Spec => []TypeOK
BY Invariance, PTL DEF IInv

\* A run that bears COMPLETE is whole, and the work of one validation and one
\* finalization, although no lock orders the calls and the finalization does not
\* read the scientific report.
THEOREM CompleteCovered == Spec => []CompleteIsCovered
BY Invariance, PTL DEF IInv

\* A run that bears RELEASED was verified by somebody else than its finalizer.
THEOREM ReleaseAttested == Spec => []ReleaseIsAttested
BY Invariance, PTL DEF IInv

\* One step of the lifecycle.
LEMMA OneWayStep ==
    ASSUME IInv, [Next]_vars
    PROVE  [/\ MarkerSet' # MarkerSet =>
                 \/ MarkerSet = {} /\ MarkerSet' = {"DATA_VALIDATED"}
                 \/ MarkerSet = {"DATA_VALIDATED"}
                      /\ MarkerSet' = {"DATA_VALIDATED", "COMPLETE"}
                 \/ MarkerSet # Markers /\ MarkerSet' = Markers
            /\ \A f \in Tree : author'[f] = author[f] /\ (f \in torn' => f \in torn)
            /\ Exists("COMPLETE") => Tree' \subseteq Tree \cup {"RELEASED"}
            /\ \A v \in People :
                 /\ att[v] # "none" => att'[v] # "none"
                 /\ att[v] = "whole" => att'[v] = "whole"
            /\ Exists("RELEASED") => basis' = basis]_vars
<1> USE FileFacts DEF IInv, Structural, Scientific
<1>1. Grows
  BY DiskGrows
<1>2. \A f \in Files : Exists(f) => Exists(f)'
  BY <1>1, ReleaseAssumption DEF Grows, Exists
<1>3. MarkerSet \subseteq MarkerSet'
  BY <1>2 DEF MarkerSet, Tree
<1>4. /\ Exists("COMPLETE") => Exists("DATA_VALIDATED")
      /\ Exists("RELEASED") => Exists("COMPLETE")
  BY DEF CompleteIsCovered, ReleaseIsAttested, Tree
<1>5. (/\ Exists("COMPLETE") => Exists("DATA_VALIDATED")
       /\ Exists("RELEASED") => Exists("COMPLETE"))'
  <2>1. CompleteIsCovered' /\ ReleaseIsAttested'
    BY CompleteStep, ReleaseStep
  <2>2. QED
    BY <2>1 DEF CompleteIsCovered, ReleaseIsAttested, Tree
<1>6. \A f, g \in Files : Exists(f)' /\ Exists(g)' /\ ~Exists(f) /\ ~Exists(g) => f = g
  <2>1. author' # author => \E n \in Files, q \in People : author' = [author EXCEPT ![n] = q]
    BY OutFacts DEF Next, Step, vars, disk, Call, BeginList, Open, Link, Write, AtWork,
       BeginValidate, BeginFinalize, BeginVerification, Verify, Make, Unlink, Hash,
       Recheck, ReadMarkers, Scan, OpenAttestation, WriteAttestation, Kill, Fail
  <2>2. QED
    BY <2>1 DEF Exists, TypeOK
<1>7. MarkerSet' # MarkerSet =>
        \/ MarkerSet = {} /\ MarkerSet' = {"DATA_VALIDATED"}
        \/ MarkerSet = {"DATA_VALIDATED"} /\ MarkerSet' = {"DATA_VALIDATED", "COMPLETE"}
        \/ MarkerSet # Markers /\ MarkerSet' = Markers
  BY <1>2, <1>4, <1>5, <1>6 DEF MarkerSet, Tree, Markers
<1>8. Exists("COMPLETE") => \A f \in Files \ {"RELEASED"} : Exists(f)
  BY DEF CompleteIsCovered, Covered, Validated, Generated, Tree, Markers
<1>9. Exists("COMPLETE") => Tree' \subseteq Tree \cup {"RELEASED"}
  BY <1>8 DEF Tree
<1>10. \A f \in Tree : author'[f] = author[f] /\ (f \in torn' => f \in torn)
  BY <1>1 DEF Grows, Tree
<1>11. /\ \A v \in People :
            /\ att[v] # "none" => att'[v] # "none"
            /\ att[v] = "whole" => att'[v] = "whole"
       /\ Exists("RELEASED") => basis' = basis
  BY <1>1 DEF Grows
<1>12. QED
  BY <1>7, <1>9, <1>10, <1>11

\* The lifecycle goes one way: no file of the root, no attestation and no choice of
\* the attestation a release rests on is taken back or replaced, and a complete run
\* gains nothing but RELEASED.
THEOREM LifecycleOneWay == Spec => OneWay
BY Invariance, OneWayStep, PTL DEF Spec, OneWay
=============================================================================
