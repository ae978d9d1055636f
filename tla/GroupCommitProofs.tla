------------------------- MODULE GroupCommitProofs -------------------------
(***************************************************************************)
(* Proofs about GroupCommit, for every number of siblings, attempts and    *)
(* faults: type correctness, the three safety invariants of its run, the   *)
(* order of publication, and the refinement of WorkUnit.                   *)
(***************************************************************************)
EXTENDS GroupCommit, TLAPS

Discards == DOMAIN AfterDiscard

\* The names a reader sees are those of the last attempt: a new attempt starts
\* only where the earlier one has left no canonical name.
LastAttemptOnly ==
    /\ \A i \in Siblings : names["canonical"][i] \in {None, attempt}
    /\ receipt \in {None, attempt}

\* Nothing has the receipt's name until the commit links it.
NoReceiptYet ==
    pc \in {"reconcile", "staleDiscard", "decide", "abortDiscard"}
           \cup (TrySteps \ {"unlinkReceiptTmp", "load"})
        => receipt = None

\* Once its own stage root is gone, the call never waits on it again.
StageRootGone ==
    pc \in {"verifyRoot", "mktempReceipt", "linkReceipt", "unlinkReceiptTmp", "load"}
        => ~stageRoot

\* The shard writer's temporary is the attempt's, and is whole once it is linked.
WriterAtTemporary ==
    /\ pc \in {"write", "linkStaged", "unlinkTmp"} => names["tmp"][k] = attempt
    /\ pc \in {"linkStaged", "unlinkTmp"} => <<k, attempt>> \in written

\* Siblings are published from a complete stage tree.
StageComplete ==
    pc = "publish" => \A i \in Siblings : names["staged"][i] = attempt

\* The receipt is written over a complete group.
RootComplete ==
    pc \in {"mktempReceipt", "linkReceipt", "unlinkReceiptTmp", "load"}
        => \A i \in Siblings : names["canonical"][i] = attempt

\* A quarantine directory is filled by one call, from one attempt.
QuarantineByCall ==
    \A q \in quarantine :
        /\ q.dir <= quarantineDir
        /\ pc = "quarantineMove" /\ q.dir = quarantineDir => q.attempt = attempt

QuarantineUniform ==
    \A q, r \in quarantine : q.dir = r.dir => q.attempt = r.attempt

\* The inductive invariant.
IInv ==
    /\ TypeOK
    /\ LastAttemptOnly
    /\ NoReceiptYet
    /\ StageRootGone
    /\ WriterAtTemporary
    /\ StageComplete
    /\ RootComplete
    /\ QuarantineByCall
    /\ QuarantineUniform
    /\ NoTornFile
    /\ ReceiptCoversGroup

-----------------------------------------------------------------------------
(* Type correctness *)

\* Giving one name another inode keeps the namespace well typed.
LEMMA NamesUpdated ==
    ASSUME NEW f \in [Places -> [Siblings -> Nat]],
           NEW p \in Places, NEW i \in Siblings, NEW v \in Nat
    PROVE  [f EXCEPT ![p][i] = v] \in [Places -> [Siblings -> Nat]]
OBVIOUS

\* No call, step or fault of the unit leaves the types.
LEMMA TypeStep == TypeOK /\ [Next]_vars => TypeOK'
<1> SUFFICES ASSUME TypeOK, [Next]_vars PROVE TypeOK'
  OBVIOUS
<1> USE NumSiblingsAssumption DEF TypeOK, Siblings, None, TrySteps, OtherSteps, disk
<1>1. CASE CallCommit
  BY <1>1 DEF CallCommit
<1>2. CASE CallQuarantine
  BY <1>2 DEF CallQuarantine
<1>3. CASE UnlinkStaleAlias
  <2>1. PICK i \in Siblings : names' = [names EXCEPT !["staged"][i] = None]
    BY <1>3 DEF UnlinkStaleAlias
  <2>2. names' \in [Places -> [Siblings -> Nat]]
    BY <2>1, NamesUpdated DEF Places
  <2>3. QED
    BY <1>3, <2>2 DEF UnlinkStaleAlias
<1>4. CASE StaleAliasesGone
  BY <1>4 DEF StaleAliasesGone
<1>5. CASE DiscardFile
  <2>1. PICK p \in {"tmp", "staged"}, i \in Siblings :
               names' = [names EXCEPT ![p][i] = None]
    BY <1>5 DEF DiscardFile
  <2>2. names' \in [Places -> [Siblings -> Nat]]
    BY <2>1, NamesUpdated DEF Places
  <2>3. QED
    BY <1>5, <2>2 DEF DiscardFile
<1>6. CASE DiscardRoot
  <2>1. pc' \in TrySteps \cup OtherSteps
    BY <1>6 DEF DiscardRoot, AfterDiscard
  <2>2. QED
    BY <1>6, <2>1 DEF DiscardRoot
<1>7. CASE QuarantineStray
  BY <1>7 DEF QuarantineStray
<1>8. CASE CreateStageRoot
  BY <1>8 DEF CreateStageRoot
<1>9. CASE MakeTemporary
  <2>1. names' \in [Places -> [Siblings -> Nat]]
    BY <1>9, NamesUpdated DEF MakeTemporary, Places
  <2>2. QED
    BY <1>9, <2>1 DEF MakeTemporary
<1>10. CASE WriteTemporary
  BY <1>10 DEF WriteTemporary
<1>11. CASE LinkStaged
  <2>1. names["tmp"][k] \in Nat
    BY DEF Places
  <2>2. names' \in [Places -> [Siblings -> Nat]]
    BY <1>11, <2>1, NamesUpdated DEF LinkStaged, Places
  <2>3. QED
    BY <1>11, <2>2 DEF LinkStaged
<1>12. CASE UnlinkTemporary
  <2>1. names' \in [Places -> [Siblings -> Nat]]
    BY <1>12, NamesUpdated DEF UnlinkTemporary, Places
  <2>2. k' \in Siblings
    BY <1>12 DEF UnlinkTemporary
  <2>3. QED
    BY <1>12, <2>1, <2>2 DEF UnlinkTemporary
<1>13. CASE VerifyStage
  BY <1>13 DEF VerifyStage
<1>14. CASE PublishSibling
  <2>1. names["staged"][k] \in Nat
    BY DEF Places
  <2>2. names' \in [Places -> [Siblings -> Nat]]
    BY <1>14, <2>1, NamesUpdated DEF PublishSibling, Places
  <2>3. k' \in Siblings
    BY <1>14 DEF PublishSibling
  <2>4. QED
    BY <1>14, <2>2, <2>3 DEF PublishSibling
<1>15. CASE VerifyRoot
  BY <1>15 DEF VerifyRoot
<1>16. CASE MakeReceiptTemporary
  BY <1>16 DEF MakeReceiptTemporary
<1>17. CASE LinkReceipt
  BY <1>17 DEF LinkReceipt
<1>18. CASE UnlinkReceiptTemporary
  BY <1>18 DEF UnlinkReceiptTemporary
<1>19. CASE LoadReceipt
  BY <1>19 DEF LoadReceipt
<1>20. CASE Abort
  BY <1>20 DEF Abort
<1>21. CASE OpenQuarantine
  BY <1>21 DEF OpenQuarantine
<1>22. CASE MoveSibling
  <2>1. PICK i \in Siblings :
               /\ quarantine' = quarantine \cup {Moved(i, names["canonical"][i])}
               /\ names' = [names EXCEPT !["canonical"][i] = None]
    BY <1>22 DEF MoveSibling
  <2>2. names' \in [Places -> [Siblings -> Nat]]
    BY <2>1, NamesUpdated DEF Places
  <2>3. names["canonical"][i] \in Nat
    BY <2>1 DEF Places
  <2>4. i \in 0..NumSiblings
    BY <2>1
  <2>5. Moved(i, names["canonical"][i])
          \in [dir : Nat, file : 0..NumSiblings, attempt : Nat]
    BY <2>3, <2>4 DEF Moved
  <2>6. QED
    BY <1>22, <2>1, <2>2, <2>5 DEF MoveSibling
<1>23. CASE MoveReceipt
  BY <1>23 DEF MoveReceipt, Moved, ReceiptFile
<1>24. CASE Crash
  BY <1>24 DEF Crash, Fault
<1>25. CASE Fail
  <2>1. names' \in [Places -> [Siblings -> Nat]]
    BY <1>25, NamesUpdated DEF Fail, Places
  <2>2. QED
    BY <1>25, <2>1 DEF Fail, Fault
<1>26. CASE Damage
  <2>1. PICK p \in {"staged", "canonical"}, i \in Siblings :
               damaged' = damaged \cup {<<i, names[p][i]>>}
    BY <1>26 DEF Damage
  <2>2. names[p][i] \in Nat
    BY DEF Places
  <2>3. QED
    BY <1>26, <2>1, <2>2 DEF Damage, Fault
<1>27. CASE UNCHANGED vars
  BY <1>27 DEF vars
<1>28. QED
  BY <1>1, <1>2, <1>3, <1>4, <1>5, <1>6, <1>7, <1>8, <1>9, <1>10, <1>11,
     <1>12, <1>13, <1>14, <1>15, <1>16, <1>17, <1>18, <1>19, <1>20, <1>21,
     <1>22, <1>23, <1>24, <1>25, <1>26, <1>27 DEF Next, Step

\* A unit nothing was written for is well typed.
LEMMA InitTyped == Init => TypeOK
<1> SUFFICES ASSUME Init PROVE TypeOK
  OBVIOUS
<1>1. k \in Siblings
  BY NumSiblingsAssumption DEF Init, Siblings
<1>2. names \in [Places -> [Siblings -> Nat]]
  BY DEF Init, None
<1>3. QED
  BY <1>1, <1>2 DEF Init, TypeOK, None, TrySteps, OtherSteps

\* The types hold initially and no step leaves them, so they always hold.
THEOREM TypeCorrect == Spec => []TypeOK
  BY InitTyped, TypeStep, PTL DEF Spec

-----------------------------------------------------------------------------
(* The inductive invariant *)

\* Every call, step and fault preserves the inductive invariant.
LEMMA InvStep == IInv /\ [Next]_vars => IInv'
<1> SUFFICES ASSUME IInv, [Next]_vars PROVE IInv'
  OBVIOUS
<1>0. TypeOK'
  BY TypeStep DEF IInv
<1> USE DEF IInv, TypeOK, LastAttemptOnly, NoReceiptYet, StageRootGone,
            WriterAtTemporary, StageComplete, RootComplete, QuarantineByCall,
            QuarantineUniform, NoTornFile, ReceiptCoversGroup,
            Siblings, Places, None, TrySteps, disk
<1>1. CASE CallCommit
  BY <1>1, <1>0 DEF CallCommit
<1>2. CASE CallQuarantine
  BY <1>2, <1>0 DEF CallQuarantine
<1>3. CASE UnlinkStaleAlias
  <2>1. PICK i \in Siblings :
               /\ pc = "reconcile"
               /\ names' = [names EXCEPT !["staged"][i] = None]
    BY <1>3 DEF UnlinkStaleAlias
  <2>2. names'["canonical"] = names["canonical"]
    BY <2>1
  <2>3. NoTornFile'
    BY <1>3, <2>1 DEF UnlinkStaleAlias
  <2>4. ReceiptCoversGroup'
    BY <1>3, <2>2 DEF UnlinkStaleAlias
  <2>5. QED
    BY <1>3, <1>0, <2>1, <2>2, <2>3, <2>4 DEF UnlinkStaleAlias
<1>4. CASE StaleAliasesGone
  BY <1>4, <1>0 DEF StaleAliasesGone
<1>5. CASE DiscardFile
  <2>1. PICK p \in {"tmp", "staged"}, i \in Siblings :
               names' = [names EXCEPT ![p][i] = None]
    BY <1>5 DEF DiscardFile
  <2>2. names'["canonical"] = names["canonical"]
    BY <2>1
  <2>3. pc \in {"staleDiscard", "discard", "abortDiscard"}
    BY <1>5 DEF DiscardFile, AfterDiscard
  <2>4. NoTornFile'
    BY <1>5, <2>1 DEF DiscardFile
  <2>5. ReceiptCoversGroup'
    BY <1>5, <2>2 DEF DiscardFile
  <2>6. QED
    BY <1>5, <1>0, <2>2, <2>3, <2>4, <2>5 DEF DiscardFile
<1>6. CASE DiscardRoot
  BY <1>6, <1>0 DEF DiscardRoot, AfterDiscard
<1>7. CASE QuarantineStray
  BY <1>7, <1>0 DEF QuarantineStray
<1>8. CASE CreateStageRoot
  BY <1>8, <1>0 DEF CreateStageRoot, SiblingsExist
<1>9. CASE MakeTemporary
  BY <1>9, <1>0 DEF MakeTemporary
<1>10. CASE WriteTemporary
  BY <1>10, <1>0 DEF WriteTemporary
<1>11. CASE LinkStaged
  BY <1>11, <1>0 DEF LinkStaged
<1>12. CASE UnlinkTemporary
  BY <1>12, <1>0 DEF UnlinkTemporary
<1>13. CASE VerifyStage
  BY <1>13, <1>0 DEF VerifyStage, Verified, SiblingsExist
<1>14. CASE PublishSibling
  BY <1>14, <1>0 DEF PublishSibling
<1>15. CASE VerifyRoot
  BY <1>15, <1>0 DEF VerifyRoot, Verified
<1>16. CASE MakeReceiptTemporary
  BY <1>16, <1>0 DEF MakeReceiptTemporary
<1>17. CASE LinkReceipt
  BY <1>17, <1>0 DEF LinkReceipt
<1>18. CASE UnlinkReceiptTemporary
  BY <1>18, <1>0 DEF UnlinkReceiptTemporary
<1>19. CASE LoadReceipt
  BY <1>19, <1>0 DEF LoadReceipt
<1>20. CASE Abort
  BY <1>20, <1>0 DEF Abort
<1>21. CASE OpenQuarantine
  <2>1. pc # "quarantineMove" /\ pc' \in {"quarantineMove", "idle"}
    BY <1>21 DEF OpenQuarantine
  <2>2. quarantineDir' \in {quarantineDir, quarantineDir + 1}
    BY <1>21 DEF OpenQuarantine
  <2>3. pc' = "quarantineMove" => quarantineDir' = quarantineDir + 1
    BY <1>21 DEF OpenQuarantine
  <2>4. QuarantineByCall'
    <3> SUFFICES ASSUME NEW q \in quarantine
                 PROVE  /\ q.dir <= quarantineDir'
                        /\ pc' = "quarantineMove" => q.dir # quarantineDir'
      BY <1>21 DEF OpenQuarantine
    <3>1. q.dir \in Nat /\ q.dir <= quarantineDir
      OBVIOUS
    <3>2. QED
      BY <2>2, <2>3, <3>1
  <2>5. QED
    BY <1>21, <1>0, <2>1, <2>4 DEF OpenQuarantine
<1>22. CASE MoveSibling
  <2>1. PICK i \in Siblings :
               /\ names["canonical"][i] # None
               /\ quarantine' = quarantine \cup {Moved(i, names["canonical"][i])}
               /\ names' = [names EXCEPT !["canonical"][i] = None]
    BY <1>22 DEF MoveSibling
  <2>2. /\ pc = "quarantineMove"
        /\ names["canonical"][i] = attempt
        /\ UNCHANGED <<receipt, quarantineDir, attempt, pc, k, stageRoot, written>>
    BY <1>22, <2>1 DEF MoveSibling
  <2>3. NoTornFile'
    BY <2>1, <2>2
  <2>4. ReceiptCoversGroup'
    <3> SUFFICES ASSUME receipt # None, NEW j \in Siblings
                 PROVE  \/ names'["canonical"][j] = receipt
                        \/ \E q \in quarantine' : q.file = j /\ q.attempt = receipt
      BY <2>2
    <3>1. CASE j = i
      <4>1. Moved(i, attempt) \in quarantine'
        BY <2>1, <2>2
      <4>2. Moved(i, attempt).file = i /\ Moved(i, attempt).attempt = receipt
        BY <2>2 DEF Moved
      <4>3. QED
        BY <3>1, <4>1, <4>2
    <3>2. CASE j # i
      BY <2>1, <3>2
    <3>3. QED
      BY <3>1, <3>2
  <2>5. QuarantineByCall' /\ QuarantineUniform'
    <3>1. \A q \in quarantine' :
             \/ q \in quarantine
             \/ q.dir = quarantineDir /\ q.attempt = attempt
      BY <2>1, <2>2 DEF Moved
    <3>2. \A q \in quarantine' : q.dir <= quarantineDir /\
                                  (q.dir = quarantineDir => q.attempt = attempt)
      BY <2>2, <3>1
    <3>3. QED
      BY <1>0, <2>2, <3>1, <3>2
  <2>6. QED
    BY <1>0, <2>1, <2>2, <2>3, <2>4, <2>5
<1>23. CASE MoveReceipt
  BY <1>23, <1>0 DEF MoveReceipt, Moved, ReceiptFile
<1>24. CASE Crash
  BY <1>24, <1>0 DEF Crash, Fault
<1>25. CASE Fail
  BY <1>25, <1>0 DEF Fail, Fault
<1>26. CASE Damage
  BY <1>26, <1>0 DEF Damage, Fault
<1>27. CASE UNCHANGED vars
  BY <1>27 DEF vars
<1>28. QED
  BY <1>1, <1>2, <1>3, <1>4, <1>5, <1>6, <1>7, <1>8, <1>9, <1>10, <1>11,
     <1>12, <1>13, <1>14, <1>15, <1>16, <1>17, <1>18, <1>19, <1>20, <1>21,
     <1>22, <1>23, <1>24, <1>25, <1>26, <1>27 DEF Next, Step

\* The inductive invariant holds in every state.
LEMMA InvHolds == Spec => []IInv
<1>1. Init => IInv
  <2> SUFFICES ASSUME Init PROVE IInv
    OBVIOUS
  <2>1. TypeOK
    BY InitTyped
  <2>2. \A p \in Places, i \in Siblings : names[p][i] = None
    BY DEF Init
  <2>3. QED
    BY <2>1, <2>2
    DEF Init, IInv, LastAttemptOnly, NoReceiptYet, StageRootGone,
        WriterAtTemporary, StageComplete, RootComplete, QuarantineByCall,
        QuarantineUniform, NoTornFile, ReceiptCoversGroup, Places
<1>2. QED
  BY <1>1, InvStep, PTL DEF Spec

-----------------------------------------------------------------------------
(* The properties *)

\* A receipt always stands for a whole group, published or quarantined.
THEOREM ReceiptCorrect == Spec => []ReceiptCoversGroup
<1>1. IInv => ReceiptCoversGroup
  BY DEF IInv
<1>2. QED
  BY <1>1, InvHolds, PTL

\* No staged or canonical file is ever half written.
THEOREM FilesWhole == Spec => []NoTornFile
<1>1. IInv => NoTornFile
  BY DEF IInv
<1>2. QED
  BY <1>1, InvHolds, PTL

\* Canonical names and quarantine directories never mix two attempts.
THEOREM AttemptsNeverMix == Spec => []OneAttemptAtATime
<1>1. IInv => OneAttemptAtATime
  BY DEF IInv, LastAttemptOnly, QuarantineUniform, OneAttemptAtATime
<1>2. QED
  BY <1>1, InvHolds, PTL

\* A canonical sibling appears only from a complete, whole stage tree.
THEOREM StageFirst == Spec => StagedBeforePublished
<1> DEFINE Appears ==
      \A i \in Siblings :
        names["canonical"][i] = None /\ names'["canonical"][i] # None =>
          \A j \in Siblings :
            /\ names["staged"][j] = names'["canonical"][i]
            /\ <<j, names["staged"][j]>> \in written
<1>1. IInv /\ [Next]_vars => [Appears]_vars
  <2> SUFFICES ASSUME IInv, Next,
                      NEW i \in Siblings,
                      names["canonical"][i] = None, names'["canonical"][i] # None,
                      NEW j \in Siblings
               PROVE  /\ names["staged"][j] = names'["canonical"][i]
                      /\ <<j, names["staged"][j]>> \in written
    OBVIOUS
  <2>1. PublishSibling
    <3> USE DEF IInv, TypeOK, Places, disk
    <3>1. ~(Crash \/ Damage \/ CallCommit \/ CallQuarantine)
      BY DEF Crash, Damage, CallCommit, CallQuarantine
    <3>2. ~Fail
      BY DEF Fail
    <3>3. ~(UnlinkStaleAlias \/ DiscardFile)
      BY DEF UnlinkStaleAlias, DiscardFile
    <3>4. ~(MakeTemporary \/ LinkStaged \/ UnlinkTemporary)
      BY DEF MakeTemporary, LinkStaged, UnlinkTemporary
    <3>5. ~MoveSibling
      BY DEF MoveSibling, None
    <3>6. ~(\/ StaleAliasesGone \/ DiscardRoot \/ QuarantineStray
           \/ CreateStageRoot \/ WriteTemporary \/ VerifyStage \/ VerifyRoot)
      BY DEF StaleAliasesGone, DiscardRoot, QuarantineStray, CreateStageRoot,
             WriteTemporary, VerifyStage, VerifyRoot
    <3>7. ~(\/ MakeReceiptTemporary \/ LinkReceipt \/ UnlinkReceiptTemporary
           \/ LoadReceipt \/ Abort \/ OpenQuarantine \/ MoveReceipt)
      BY DEF MakeReceiptTemporary, LinkReceipt, UnlinkReceiptTemporary,
             LoadReceipt, Abort, OpenQuarantine, MoveReceipt
    <3>8. QED
      BY <3>1, <3>2, <3>3, <3>4, <3>5, <3>6, <3>7 DEF Next, Step
  <2>2. \A m \in Siblings : names["staged"][m] = attempt
    BY <2>1 DEF PublishSibling, IInv, StageComplete
  <2>3. k \in Siblings /\ names'["canonical"][i] = attempt
    BY <2>1, <2>2 DEF PublishSibling, IInv, TypeOK, Places
  <2>4. <<j, attempt>> \in written
    BY <2>2, <2>3 DEF IInv, NoTornFile
  <2>5. QED
    BY <2>2, <2>3, <2>4
<1>2. QED
  BY <1>1, InvHolds, PTL DEF Spec, StagedBeforePublished

-----------------------------------------------------------------------------
(* GroupCommit implements WorkUnit: whatever the interleaving of system    *)
(* calls and faults, readers of a unit see it complete or not at all.      *)

\* Where an attempt is under way and may still become visible.
OpenSteps == TrySteps \ {"load"}

\* The receipt's temporary name stands until its unlink, so that the receipt
\* loads only after it.
ReceiptHalfLinked ==
    pc \in {"linkReceipt", "unlinkReceiptTmp"} => attempt \in receiptTmps

RInv == IInv /\ ReceiptHalfLinked

\* The receipt's temporary keeps its name until the step that unlinks it.
LEMMA HalfLinkedStep == RInv /\ [Next]_vars => ReceiptHalfLinked'
<1> SUFFICES ASSUME RInv, Next PROVE ReceiptHalfLinked'
  BY DEF RInv, ReceiptHalfLinked, vars
<1> USE DEF RInv, IInv, ReceiptHalfLinked, TypeOK, TrySteps, OtherSteps, disk
<1>1. CASE CallCommit
  BY <1>1 DEF CallCommit
<1>2. CASE CallQuarantine
  BY <1>2 DEF CallQuarantine
<1>3. CASE UnlinkStaleAlias
  BY <1>3 DEF UnlinkStaleAlias
<1>4. CASE StaleAliasesGone
  BY <1>4 DEF StaleAliasesGone
<1>5. CASE DiscardFile
  BY <1>5 DEF DiscardFile, AfterDiscard
<1>6. CASE DiscardRoot
  BY <1>6 DEF DiscardRoot, AfterDiscard
<1>7. CASE QuarantineStray
  BY <1>7 DEF QuarantineStray
<1>8. CASE CreateStageRoot
  BY <1>8 DEF CreateStageRoot
<1>9. CASE MakeTemporary
  BY <1>9 DEF MakeTemporary
<1>10. CASE WriteTemporary
  BY <1>10 DEF WriteTemporary
<1>11. CASE LinkStaged
  BY <1>11 DEF LinkStaged
<1>12. CASE UnlinkTemporary
  BY <1>12 DEF UnlinkTemporary
<1>13. CASE VerifyStage
  BY <1>13 DEF VerifyStage
<1>14. CASE PublishSibling
  BY <1>14 DEF PublishSibling
<1>15. CASE VerifyRoot
  BY <1>15 DEF VerifyRoot
<1>16. CASE MakeReceiptTemporary
  BY <1>16 DEF MakeReceiptTemporary
<1>17. CASE LinkReceipt
  BY <1>17 DEF LinkReceipt
<1>18. CASE UnlinkReceiptTemporary
  BY <1>18 DEF UnlinkReceiptTemporary
<1>19. CASE LoadReceipt
  BY <1>19 DEF LoadReceipt
<1>20. CASE Abort
  BY <1>20 DEF Abort
<1>21. CASE OpenQuarantine
  BY <1>21 DEF OpenQuarantine
<1>22. CASE MoveSibling
  BY <1>22 DEF MoveSibling
<1>23. CASE MoveReceipt
  BY <1>23 DEF MoveReceipt
<1>24. CASE Crash
  BY <1>24 DEF Crash, Fault
<1>25. CASE Fail
  BY <1>25 DEF Fail, Fault
<1>26. CASE Damage
  BY <1>26 DEF Damage, Fault
<1>27. QED
  BY <1>1, <1>2, <1>3, <1>4, <1>5, <1>6, <1>7, <1>8, <1>9, <1>10, <1>11,
     <1>12, <1>13, <1>14, <1>15, <1>16, <1>17, <1>18, <1>19, <1>20, <1>21,
     <1>22, <1>23, <1>24, <1>25, <1>26 DEF Next, Step

\* The strengthened invariant holds in every state.
LEMMA RInvHolds == Spec => []RInv
<1>1. Init => ReceiptHalfLinked
  BY DEF Init, ReceiptHalfLinked
<1>2. ReceiptHalfLinked /\ IInv /\ [Next]_vars => ReceiptHalfLinked'
  BY HalfLinkedStep DEF RInv
<1>3. QED
  BY <1>1, <1>2, InvHolds, PTL DEF Spec, RInv

-----------------------------------------------------------------------------

\* Only the creation of a stage root begins an attempt.
LEMMA AttemptBegins ==
    ASSUME RInv, Next, ~CreateStageRoot
    PROVE  attempt' = attempt /\ (pc' \in OpenSteps => pc \in OpenSteps)
<1> USE DEF RInv, IInv, TypeOK, TrySteps, OtherSteps, OpenSteps, disk
<1>1. CASE CallCommit
  BY <1>1 DEF CallCommit
<1>2. CASE CallQuarantine
  BY <1>2 DEF CallQuarantine
<1>3. CASE UnlinkStaleAlias
  BY <1>3 DEF UnlinkStaleAlias
<1>4. CASE StaleAliasesGone
  BY <1>4 DEF StaleAliasesGone
<1>5. CASE DiscardFile
  BY <1>5 DEF DiscardFile, AfterDiscard
<1>6. CASE DiscardRoot
  BY <1>6 DEF DiscardRoot, AfterDiscard
<1>7. CASE QuarantineStray
  BY <1>7 DEF QuarantineStray
<1>8. CASE CreateStageRoot
  BY <1>8
<1>9. CASE MakeTemporary
  BY <1>9 DEF MakeTemporary
<1>10. CASE WriteTemporary
  BY <1>10 DEF WriteTemporary
<1>11. CASE LinkStaged
  BY <1>11 DEF LinkStaged
<1>12. CASE UnlinkTemporary
  BY <1>12 DEF UnlinkTemporary
<1>13. CASE VerifyStage
  BY <1>13 DEF VerifyStage
<1>14. CASE PublishSibling
  BY <1>14 DEF PublishSibling
<1>15. CASE VerifyRoot
  BY <1>15 DEF VerifyRoot
<1>16. CASE MakeReceiptTemporary
  BY <1>16 DEF MakeReceiptTemporary
<1>17. CASE LinkReceipt
  BY <1>17 DEF LinkReceipt
<1>18. CASE UnlinkReceiptTemporary
  BY <1>18 DEF UnlinkReceiptTemporary
<1>19. CASE LoadReceipt
  BY <1>19 DEF LoadReceipt
<1>20. CASE Abort
  BY <1>20 DEF Abort
<1>21. CASE OpenQuarantine
  BY <1>21 DEF OpenQuarantine
<1>22. CASE MoveSibling
  BY <1>22 DEF MoveSibling
<1>23. CASE MoveReceipt
  BY <1>23 DEF MoveReceipt
<1>24. CASE Crash
  BY <1>24 DEF Crash, Fault
<1>25. CASE Fail
  BY <1>25 DEF Fail, Fault
<1>26. CASE Damage
  BY <1>26 DEF Damage, Fault
<1>27. QED
  BY <1>1, <1>2, <1>3, <1>4, <1>5, <1>6, <1>7, <1>8, <1>9, <1>10, <1>11,
     <1>12, <1>13, <1>14, <1>15, <1>16, <1>17, <1>18, <1>19, <1>20, <1>21,
     <1>22, <1>23, <1>24, <1>25, <1>26 DEF Next, Step

\* What is intact under the canonical names is of the last attempt.
LEMMA IntactOfAttempt == RInv => IntactFiles \in [Siblings -> {0, attempt}]
BY DEF RInv, IInv, LastAttemptOnly, IntactFiles, None

\* A receipt that loads is the last attempt's and covers intact files.
LEMMA LoadedIsWhole ==
    RInv /\ ReceiptLoads =>
        /\ pc \notin OpenSteps
        /\ IntactFiles = [i \in Siblings |-> attempt]
<1> SUFFICES ASSUME RInv, ReceiptLoads
             PROVE  /\ pc \notin OpenSteps
                    /\ IntactFiles = [i \in Siblings |-> attempt]
  OBVIOUS
<1>1. receipt = attempt /\ attempt # 0 /\ attempt \notin receiptTmps
  BY DEF RInv, IInv, LastAttemptOnly, ReceiptLoads, None
<1>2. pc \notin OpenSteps
  BY <1>1 DEF RInv, IInv, ReceiptHalfLinked, NoReceiptYet, OpenSteps, TrySteps, None
<1>3. IntactFiles = [i \in Siblings |-> attempt]
  BY <1>1 DEF ReceiptLoads, Verified, IntactFiles
<1>4. QED
  BY <1>2, <1>3

\* The same two facts of the next state.
LEMMA IntactOfAttemptNext == (RInv => IntactFiles \in [Siblings -> {0, attempt}])'
BY IntactOfAttempt, PTL

LEMMA LoadedIsWholeNext ==
    (RInv /\ ReceiptLoads =>
        /\ pc \notin OpenSteps
        /\ IntactFiles = [i \in Siblings |-> attempt])'
BY LoadedIsWhole, PTL

-----------------------------------------------------------------------------

\* Shrinks(f, g): g has nothing that f has not.
Shrinks(f, g) == \A i \in Siblings : g[i] \in {0, f[i]}

\* While no attempt is under way, a unit that is not there only decays: no step
\* makes its receipt load, and no file appears.
LEMMA ClosedDecays ==
    ASSUME RInv, Next, ~CreateStageRoot, pc \notin OpenSteps, ~ReceiptLoads
    PROVE  ~ReceiptLoads' /\ Shrinks(IntactFiles, IntactFiles')
<1> USE DEF RInv, IInv, TypeOK, NoReceiptYet, TrySteps, OpenSteps, Shrinks,
            ReceiptLoads, Verified, Aliases, IntactFiles, Siblings, Places, None, disk
<1>1. CASE CallCommit
  BY <1>1 DEF CallCommit
<1>2. CASE CallQuarantine
  BY <1>2 DEF CallQuarantine
<1>3. CASE UnlinkStaleAlias
  BY <1>3 DEF UnlinkStaleAlias
<1>4. CASE StaleAliasesGone
  BY <1>4 DEF StaleAliasesGone
<1>5. CASE DiscardFile
  BY <1>5 DEF DiscardFile, AfterDiscard
<1>6. CASE DiscardRoot
  BY <1>6 DEF DiscardRoot, AfterDiscard
<1>7. CASE QuarantineStray
  BY <1>7 DEF QuarantineStray
<1>8. CASE CreateStageRoot
  BY <1>8
<1>9. CASE MakeTemporary
  BY <1>9 DEF MakeTemporary
<1>10. CASE WriteTemporary
  BY <1>10 DEF WriteTemporary
<1>11. CASE LinkStaged
  BY <1>11 DEF LinkStaged
<1>12. CASE UnlinkTemporary
  BY <1>12 DEF UnlinkTemporary
<1>13. CASE VerifyStage
  BY <1>13 DEF VerifyStage
<1>14. CASE PublishSibling
  BY <1>14 DEF PublishSibling
<1>15. CASE VerifyRoot
  BY <1>15 DEF VerifyRoot
<1>16. CASE MakeReceiptTemporary
  BY <1>16 DEF MakeReceiptTemporary
<1>17. CASE LinkReceipt
  BY <1>17 DEF LinkReceipt
<1>18. CASE UnlinkReceiptTemporary
  BY <1>18 DEF UnlinkReceiptTemporary
<1>19. CASE LoadReceipt
  BY <1>19 DEF LoadReceipt
<1>20. CASE Abort
  BY <1>20 DEF Abort
<1>21. CASE OpenQuarantine
  BY <1>21 DEF OpenQuarantine
<1>22. CASE MoveSibling
  <2>1. PICK i \in Siblings :
               /\ names["canonical"][i] # None
               /\ names' = [names EXCEPT !["canonical"][i] = None]
    BY <1>22 DEF MoveSibling
  <2>2. UNCHANGED <<written, damaged, receipt>>
    BY <1>22 DEF MoveSibling
  <2>3. ~ReceiptLoads'
    BY <2>1, <2>2
  <2>4. \A j \in Siblings : names'["canonical"][j] \in {None, names["canonical"][j]}
    BY <2>1
  <2>5. QED
    BY <2>2, <2>3, <2>4
<1>23. CASE MoveReceipt
  BY <1>23 DEF MoveReceipt
<1>24. CASE Crash
  BY <1>24 DEF Crash, Fault
<1>25. CASE Fail
  BY <1>25 DEF Fail, Fault
<1>26. CASE Damage
  <2>1. damaged \subseteq damaged' /\ UNCHANGED <<names, written, receipt, receiptTmps>>
    BY <1>26 DEF Damage
  <2>2. ~ReceiptLoads'
    BY <2>1
  <2>3. Shrinks(IntactFiles, IntactFiles')
    BY <2>1
  <2>4. QED
    BY <2>2, <2>3
<1>27. QED
  BY <1>1, <1>2, <1>3, <1>4, <1>5, <1>6, <1>7, <1>8, <1>9, <1>10, <1>11,
     <1>12, <1>13, <1>14, <1>15, <1>16, <1>17, <1>18, <1>19, <1>20, <1>21,
     <1>22, <1>23, <1>24, <1>25, <1>26 DEF Next, Step

\* When the receipt of an attempt under way begins to load, no file changes.
LEMMA CompletionMovesNoFile ==
    ASSUME RInv, Next, pc \in OpenSteps, ~ReceiptLoads, ReceiptLoads'
    PROVE  IntactFiles' = IntactFiles
<1> USE DEF RInv, IInv, TypeOK, NoReceiptYet, TrySteps, OpenSteps,
            ReceiptLoads, Verified, Aliases, IntactFiles, Siblings, Places, None, disk
<1>1. CASE CallCommit
  BY <1>1 DEF CallCommit
<1>2. CASE CallQuarantine
  BY <1>2 DEF CallQuarantine
<1>3. CASE UnlinkStaleAlias
  BY <1>3 DEF UnlinkStaleAlias
<1>4. CASE StaleAliasesGone
  BY <1>4 DEF StaleAliasesGone
<1>5. CASE DiscardFile
  BY <1>5 DEF DiscardFile, AfterDiscard
<1>6. CASE DiscardRoot
  BY <1>6 DEF DiscardRoot, AfterDiscard
<1>7. CASE QuarantineStray
  BY <1>7 DEF QuarantineStray
<1>8. CASE CreateStageRoot
  BY <1>8 DEF CreateStageRoot
<1>9. CASE MakeTemporary
  BY <1>9 DEF MakeTemporary
<1>10. CASE WriteTemporary
  BY <1>10 DEF WriteTemporary
<1>11. CASE LinkStaged
  BY <1>11 DEF LinkStaged
<1>12. CASE UnlinkTemporary
  BY <1>12 DEF UnlinkTemporary
<1>13. CASE VerifyStage
  BY <1>13 DEF VerifyStage
<1>14. CASE PublishSibling
  BY <1>14 DEF PublishSibling
<1>15. CASE VerifyRoot
  BY <1>15 DEF VerifyRoot
<1>16. CASE MakeReceiptTemporary
  BY <1>16 DEF MakeReceiptTemporary
<1>17. CASE LinkReceipt
  BY <1>17 DEF LinkReceipt
<1>18. CASE UnlinkReceiptTemporary
  BY <1>18 DEF UnlinkReceiptTemporary
<1>19. CASE LoadReceipt
  BY <1>19 DEF LoadReceipt
<1>20. CASE Abort
  BY <1>20 DEF Abort
<1>21. CASE OpenQuarantine
  BY <1>21 DEF OpenQuarantine
<1>22. CASE MoveSibling
  BY <1>22 DEF MoveSibling
<1>23. CASE MoveReceipt
  BY <1>23 DEF MoveReceipt
<1>24. CASE Crash
  BY <1>24 DEF Crash, Fault
<1>25. CASE Fail
  BY <1>25 DEF Fail, Fault
<1>26. CASE Damage
  BY <1>26 DEF Damage, Fault
<1>27. QED
  BY <1>1, <1>2, <1>3, <1>4, <1>5, <1>6, <1>7, <1>8, <1>9, <1>10, <1>11,
     <1>12, <1>13, <1>14, <1>15, <1>16, <1>17, <1>18, <1>19, <1>20, <1>21,
     <1>22, <1>23, <1>24, <1>25, <1>26 DEF Next, Step

-----------------------------------------------------------------------------

\* Every step of the detailed commit is a step of the unit, or none.
LEMMA StepRefines == RInv /\ RInv' /\ [Next]_vars => [Unit!Next]_(Unit!vars)
<1> SUFFICES ASSUME RInv, RInv', Next PROVE [Unit!Next]_(Unit!vars)
  BY DEF vars, Unit!vars, Phase, IntactFiles, ReceiptLoads, Verified, Aliases
<1> USE DEF Phase, OpenSteps
<1>1. IntactFiles \in [Siblings -> {0, attempt}]
      /\ IntactFiles' \in [Siblings -> {0, attempt'}]
  BY IntactOfAttempt, IntactOfAttemptNext
<1>2. CASE CreateStageRoot
  <2>1. pc = "decide" /\ pc' = "mktemp" /\ attempt' = attempt + 1
    BY <1>2 DEF CreateStageRoot
  <2>2. ~ReceiptLoads /\ ~ReceiptLoads'
    BY <1>2, <2>1
    DEF CreateStageRoot, RInv, IInv, NoReceiptYet, ReceiptLoads, TrySteps, None
  <2>3. IntactFiles = [i \in Siblings |-> 0] /\ IntactFiles' = IntactFiles
    BY <1>2 DEF CreateStageRoot, SiblingsExist, IntactFiles, None
  <2>4. Unit!Begin
    BY <2>1, <2>2, <2>3 DEF Unit!Begin, TrySteps
  <2>5. QED
    BY <2>4 DEF Unit!Next
<1>3. CASE ~CreateStageRoot
  <2>1. attempt' = attempt /\ (pc' \in OpenSteps => pc \in OpenSteps)
    BY <1>3, AttemptBegins
  <2>2. CASE ReceiptLoads
    <3>1. pc \notin OpenSteps /\ IntactFiles = [i \in Siblings |-> attempt]
      BY <2>2, LoadedIsWhole
    <3>2. CASE ReceiptLoads'
      <4>1. IntactFiles' = [i \in Siblings |-> attempt']
        BY <3>2, LoadedIsWholeNext
      <4>2. QED
        BY <2>1, <2>2, <3>1, <3>2, <4>1 DEF Unit!vars
    <3>3. CASE ~ReceiptLoads'
      BY <1>1, <2>1, <2>2, <3>1, <3>3 DEF Unit!Next, Unit!Close
    <3>4. QED
      BY <3>2, <3>3
  <2>3. CASE ~ReceiptLoads /\ pc \in OpenSteps
    <3>1. CASE ReceiptLoads'
      <4>1. IntactFiles' = [i \in Siblings |-> attempt']
        BY <3>1, LoadedIsWholeNext
      <4>2. IntactFiles' = IntactFiles
        BY <2>3, <3>1, CompletionMovesNoFile
      <4>3. QED
        BY <2>1, <2>3, <3>1, <4>1, <4>2 DEF Unit!Next, Unit!Complete
    <3>2. CASE ~ReceiptLoads' /\ pc' \in OpenSteps
      BY <1>1, <2>1, <2>3, <3>2 DEF Unit!Next, Unit!Publish
    <3>3. CASE ~ReceiptLoads' /\ pc' \notin OpenSteps
      BY <1>1, <2>1, <2>3, <3>3 DEF Unit!Next, Unit!Close
    <3>4. QED
      BY <3>1, <3>2, <3>3
  <2>4. CASE ~ReceiptLoads /\ pc \notin OpenSteps
    <3>1. ~ReceiptLoads' /\ Shrinks(IntactFiles, IntactFiles')
      BY <1>3, <2>4, ClosedDecays
    <3>2. QED
      BY <1>1, <2>1, <2>4, <3>1 DEF Unit!Next, Unit!Clear, Shrinks
  <2>5. QED
    BY <2>2, <2>3, <2>4
<1>4. QED
  BY <1>2, <1>3

\* The namespace of hard links implements the all-or-nothing work unit: readers
\* never see a part of a group, a mix of attempts or a withdrawn attempt again.
THEOREM CommitImplementsUnit == Spec => ImplementsWorkUnit
<1>1. Init => Unit!Init
  <2> SUFFICES ASSUME Init PROVE Unit!Init
    OBVIOUS
  <2>1. ~ReceiptLoads /\ pc = "idle" /\ attempt = 0
    BY DEF Init, ReceiptLoads
  <2>2. IntactFiles = [i \in Siblings |-> 0]
    BY DEF Init, IntactFiles, Places, None
  <2>3. QED
    BY <2>1, <2>2 DEF Unit!Init, Phase, TrySteps
<1>2. RInv /\ RInv' /\ [Next]_vars => [Unit!Next]_(Unit!vars)
  BY StepRefines
<1>3. QED
  BY <1>1, <1>2, RInvHolds, PTL DEF Spec, ImplementsWorkUnit, Unit!Spec
=============================================================================
