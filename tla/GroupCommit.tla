---------------------------- MODULE GroupCommit ----------------------------
(***************************************************************************)
(* The sibling group commit of one serial work unit:                       *)
(* src/prpg/storage/group_commit.py over the shard writer of               *)
(* src/prpg/storage/csv_v1.py.                                             *)
(*                                                                         *)
(* A work unit owns one CSV file per frequency (its siblings) and one      *)
(* JSON receipt.  Every publication is os.link(temporary, destination)     *)
(* followed by the unlink of the temporary, so the state is a namespace of *)
(* hard links: a place and a sibling name an inode, and an inode may be    *)
(* named from several places.  The attempt of the commit call that created *)
(* an inode identifies it, None (0) is an absent name.                     *)
(*                                                                         *)
(* One process works on a unit at a time.  It may be killed between any    *)
(* two system calls (Crash), any step of the commit's try block may raise  *)
(* (Fail), and a published or staged file may be overwritten from outside  *)
(* (Damage).  A kill loses no completed system call: power loss between a  *)
(* write and its fsync is not modelled.                                    *)
(***************************************************************************)
EXTENDS Naturals

CONSTANTS
    NumSiblings,  \* files of the unit: 3 for LF (monthly, quarterly, annual), 2 for HF
    MaxAttempts,  \* bound: commit calls that reach the stage
    MaxFaults     \* bound: kills, exceptions and outside writes together

ASSUME NumSiblingsAssumption == NumSiblings \in Nat \ {0}
ASSUME BoundsAssumption == MaxAttempts \in Nat /\ MaxFaults \in Nat

VARIABLES
    names,        \* names[place][i]: the attempt whose inode that name of sibling i has
    stageRoot,    \* the directory .prpg-stage-<unit>-<suffix> exists
    written,      \* inodes <<i, attempt>> whose bytes are all written and synced
    damaged,      \* inodes <<i, attempt>> overwritten from outside since
    receipt,      \* the attempt whose receipt has the canonical receipt name
    receiptTmps,  \* attempts whose temporary receipt name still exists
    quarantine,   \* files moved: [dir, file, attempt], the receipt being file 0
    quarantineDir,\* the last attempt-NNNNN directory made under quarantine/
    attempt,      \* the last commit call that created a stage root
    pc,           \* what the process that owns the unit does next
    k,            \* the sibling it is at
    faults        \* faults injected so far

disk == <<names, stageRoot, written, damaged, receipt, receiptTmps,
          quarantine, quarantineDir>>
vars == <<names, stageRoot, written, damaged, receipt, receiptTmps,
          quarantine, quarantineDir, attempt, pc, k, faults>>

None == 0
ReceiptFile == 0
Siblings == 1..NumSiblings
Places == {"tmp", "staged", "canonical"}

\* The steps inside _commit_serial_work_unit's try block.
TrySteps == {"mktemp", "write", "linkStaged", "unlinkTmp", "verifyStage",
             "publish", "discard", "verifyRoot", "mktempReceipt",
             "linkReceipt", "unlinkReceiptTmp", "load"}
OtherSteps == {"idle", "reconcile", "staleDiscard", "decide", "abortDiscard",
               "abort", "quarantineCheck", "quarantineMove"}

TypeOK ==
    /\ names \in [Places -> [Siblings -> Nat]]
    /\ stageRoot \in BOOLEAN
    /\ written \subseteq Siblings \X Nat
    /\ damaged \subseteq Siblings \X Nat
    /\ receipt \in Nat
    /\ receiptTmps \subseteq Nat
    /\ quarantine \subseteq [dir : Nat, file : 0..NumSiblings, attempt : Nat]
    /\ quarantineDir \in Nat
    /\ attempt \in Nat
    /\ pc \in TrySteps \cup OtherSteps
    /\ k \in Siblings
    /\ faults \in Nat

Init ==
    /\ names = [p \in Places |-> [i \in Siblings |-> None]]
    /\ stageRoot = FALSE
    /\ written = {}
    /\ damaged = {}
    /\ receipt = None
    /\ receiptTmps = {}
    /\ quarantine = {}
    /\ quarantineDir = 0
    /\ attempt = 0
    /\ pc = "idle"
    /\ k = 1
    /\ faults = 0

-----------------------------------------------------------------------------
(* What the code reads of the namespace *)

\* The places that name the inode that place p has for sibling i: its st_nlink.
Aliases(p, i) == {q \in Places : names[q][i] = names[p][i]}

SingleLink(i) == Aliases("canonical", i) = {"canonical"}

\* _verify_csv_record on a canonical or a staged sibling: one link, all its
\* bytes, and the digest the receipt of attempt a recorded.  The bytes of
\* different attempts are taken to differ.
Verified(p, i, a) ==
    /\ names[p][i] = a
    /\ Aliases(p, i) = {p}
    /\ <<i, a>> \in written \ damaged

\* Mutant: the receipt is read without its siblings.
ReceiptLoadsAlone == receipt # None /\ receipt \notin receiptTmps

\* _load_and_verify_receipt
ReceiptLoads ==
    /\ receipt # None
    /\ receipt \notin receiptTmps
    /\ \A i \in Siblings : Verified("canonical", i, receipt)

SiblingsExist == \E i \in Siblings : names["canonical"][i] # None

\* Every existing canonical name is a single link: what
\* quarantine_serial_work_unit requires before it moves anything.
Quarantinable ==
    /\ SiblingsExist \/ receipt # None
    /\ \A i \in Siblings : names["canonical"][i] # None => SingleLink(i)
    /\ receipt \notin receiptTmps

\* _reconcile_stale_stage_roots accepts a stale stage tree: a staged file whose
\* canonical name exists shares exactly that inode with it, any other file of
\* the tree, the writer's temporaries included, has no second name.
Reconcilable ==
    \A i \in Siblings :
        /\ names["staged"][i] # None =>
             Aliases("staged", i) =
               IF names["canonical"][i] # None THEN {"staged", "canonical"}
                                               ELSE {"staged"}
        /\ names["tmp"][i] # None => Aliases("tmp", i) = {"tmp"}

-----------------------------------------------------------------------------
(* The public calls.  A call that only raises changes nothing: a valid       *)
(* receipt ("reuse is forbidden") and a stale stage tree that cannot be      *)
(* reconciled end the call where it began.                                   *)

\* Mutant: a receipt that does not load is taken for an absent one.
CallCommitOverReceipt ==
    /\ pc = "idle"
    /\ ~ReceiptLoads
    /\ ~stageRoot
    /\ pc' = "decide"
    /\ UNCHANGED <<disk, attempt, k, faults>>

\* Mutant: the stage tree of a killed call is left for somebody else to remove.
CallCommitOnCleanUnit ==
    /\ pc = "idle"
    /\ ~stageRoot
    /\ IF receipt = None THEN pc' = "decide"
                         ELSE ~ReceiptLoads /\ pc' = "quarantineCheck"
    /\ UNCHANGED <<disk, attempt, k, faults>>

CallCommit ==
    /\ pc = "idle"
    /\ \/ /\ receipt # None
          /\ ~ReceiptLoads
          /\ pc' = "quarantineCheck"
       \/ /\ receipt = None
          /\ stageRoot
          /\ Reconcilable
          /\ pc' = "reconcile"
       \/ /\ receipt = None
          /\ ~stageRoot
          /\ pc' = "decide"
    /\ UNCHANGED <<disk, attempt, k, faults>>

\* quarantine_serial_work_unit, as the production coordinator calls it for a
\* unit that has siblings and no receipt.
CallQuarantine ==
    /\ pc = "idle"
    /\ SiblingsExist
    /\ receipt = None
    /\ pc' = "quarantineCheck"
    /\ UNCHANGED <<disk, attempt, k, faults>>

-----------------------------------------------------------------------------
(* The stale stage root of an earlier, killed call *)

UnlinkStaleAlias ==
    /\ pc = "reconcile"
    /\ \E i \in Siblings :
         /\ names["staged"][i] # None
         /\ names["canonical"][i] # None
         /\ names' = [names EXCEPT !["staged"][i] = None]
    /\ UNCHANGED <<stageRoot, written, damaged, receipt, receiptTmps,
                   quarantine, quarantineDir, attempt, pc, k, faults>>

StaleAliasesGone ==
    /\ pc = "reconcile"
    /\ \A i \in Siblings : names["staged"][i] = None \/ names["canonical"][i] = None
    /\ pc' = "staleDiscard"
    /\ UNCHANGED <<disk, attempt, k, faults>>

\* Where the three uses of _discard_stage_root continue.
AfterDiscard == [staleDiscard |-> "decide", discard |-> "verifyRoot",
                 abortDiscard |-> "abort"]

\* shutil.rmtree removes the names of the tree one by one, then the root.
DiscardFile ==
    /\ pc \in DOMAIN AfterDiscard
    /\ \E p \in {"tmp", "staged"}, i \in Siblings :
         /\ names[p][i] # None
         /\ names' = [names EXCEPT ![p][i] = None]
    /\ UNCHANGED <<stageRoot, written, damaged, receipt, receiptTmps,
                   quarantine, quarantineDir, attempt, pc, k, faults>>

DiscardRoot ==
    /\ pc \in DOMAIN AfterDiscard
    /\ \A p \in {"tmp", "staged"}, i \in Siblings : names[p][i] = None
    /\ stageRoot' = FALSE
    /\ pc' = AfterDiscard[pc]
    /\ UNCHANGED <<names, written, damaged, receipt, receiptTmps,
                   quarantine, quarantineDir, attempt, k, faults>>

\* No receipt: stray siblings are quarantined and the call raises; otherwise a
\* fresh stage root is made.
QuarantineStray ==
    /\ pc = "decide"
    /\ SiblingsExist
    /\ pc' = "quarantineCheck"
    /\ UNCHANGED <<disk, attempt, k, faults>>

CreateStageRoot ==
    /\ pc = "decide"
    /\ ~SiblingsExist
    /\ attempt < MaxAttempts
    /\ attempt' = attempt + 1
    /\ stageRoot' = TRUE
    /\ k' = 1
    /\ pc' = "mktemp"
    /\ UNCHANGED <<names, written, damaged, receipt, receiptTmps,
                   quarantine, quarantineDir, faults>>

-----------------------------------------------------------------------------
(* write_serial_csv_shard into the stage root, one sibling after the other *)

MakeTemporary ==
    /\ pc = "mktemp"
    /\ names' = [names EXCEPT !["tmp"][k] = attempt]
    /\ pc' = "write"
    /\ UNCHANGED <<stageRoot, written, damaged, receipt, receiptTmps,
                   quarantine, quarantineDir, attempt, k, faults>>

WriteTemporary ==
    /\ pc = "write"
    /\ written' = written \cup {<<k, attempt>>}
    /\ pc' = "linkStaged"
    /\ UNCHANGED <<names, stageRoot, damaged, receipt, receiptTmps,
                   quarantine, quarantineDir, attempt, k, faults>>

LinkStaged ==
    /\ pc = "linkStaged"
    /\ names["staged"][k] = None
    /\ names' = [names EXCEPT !["staged"][k] = names["tmp"][k]]
    /\ pc' = "unlinkTmp"
    /\ UNCHANGED <<stageRoot, written, damaged, receipt, receiptTmps,
                   quarantine, quarantineDir, attempt, k, faults>>

UnlinkTemporary ==
    /\ pc = "unlinkTmp"
    /\ names' = [names EXCEPT !["tmp"][k] = None]
    /\ IF k < NumSiblings THEN k' = k + 1 /\ pc' = "mktemp"
                          ELSE k' = 1 /\ pc' = "verifyStage"
    /\ UNCHANGED <<stageRoot, written, damaged, receipt, receiptTmps,
                   quarantine, quarantineDir, attempt, faults>>

\* Every staged sibling verifies and no destination has appeared, or the call
\* aborts.
VerifyStage ==
    /\ pc = "verifyStage"
    /\ IF /\ \A i \in Siblings : Verified("staged", i, attempt)
          /\ ~SiblingsExist
       THEN pc' = "publish"
       ELSE pc' = "abortDiscard"
    /\ UNCHANGED <<disk, attempt, k, faults>>

-----------------------------------------------------------------------------
(* Publication of the siblings, then of the receipt *)

PublishSibling ==
    /\ pc = "publish"
    /\ names["canonical"][k] = None
    /\ names' = [names EXCEPT !["canonical"][k] = names["staged"][k]]
    /\ IF k < NumSiblings THEN k' = k + 1 /\ pc' = "publish"
                          ELSE k' = 1 /\ pc' = "discard"
    /\ UNCHANGED <<stageRoot, written, damaged, receipt, receiptTmps,
                   quarantine, quarantineDir, attempt, faults>>

VerifyRoot ==
    /\ pc = "verifyRoot"
    /\ pc' = IF \A i \in Siblings : Verified("canonical", i, attempt)
             THEN "mktempReceipt" ELSE "abort"
    /\ UNCHANGED <<disk, attempt, k, faults>>

MakeReceiptTemporary ==
    /\ pc = "mktempReceipt"
    /\ receipt = None
    /\ receiptTmps' = receiptTmps \cup {attempt}
    /\ pc' = "linkReceipt"
    /\ UNCHANGED <<names, stageRoot, written, damaged, receipt,
                   quarantine, quarantineDir, attempt, k, faults>>

LinkReceipt ==
    /\ pc = "linkReceipt"
    /\ receipt = None
    /\ receipt' = attempt
    /\ pc' = "unlinkReceiptTmp"
    /\ UNCHANGED <<names, stageRoot, written, damaged, receiptTmps,
                   quarantine, quarantineDir, attempt, k, faults>>

UnlinkReceiptTemporary ==
    /\ pc = "unlinkReceiptTmp"
    /\ receiptTmps' = receiptTmps \ {attempt}
    /\ pc' = "load"
    /\ UNCHANGED <<names, stageRoot, written, damaged, receipt,
                   quarantine, quarantineDir, attempt, k, faults>>

\* The call returns what it reads back from the disk, or aborts.
LoadReceipt ==
    /\ pc = "load"
    /\ pc' = IF ReceiptLoads THEN "idle" ELSE "abort"
    /\ UNCHANGED <<disk, attempt, k, faults>>

\* The except clause, once the stage root is gone: whatever reached a canonical
\* name is quarantined and the exception goes on.
Abort ==
    /\ pc = "abort"
    /\ pc' = IF SiblingsExist \/ receipt # None THEN "quarantineCheck" ELSE "idle"
    /\ UNCHANGED <<disk, attempt, k, faults>>

-----------------------------------------------------------------------------
(* quarantine_serial_work_unit *)

OpenQuarantine ==
    /\ pc = "quarantineCheck"
    /\ IF Quarantinable
       THEN pc' = "quarantineMove" /\ quarantineDir' = quarantineDir + 1
       ELSE pc' = "idle" /\ UNCHANGED quarantineDir
    /\ UNCHANGED <<names, stageRoot, written, damaged, receipt, receiptTmps,
                   quarantine, attempt, k, faults>>

Moved(file, a) == [dir |-> quarantineDir, file |-> file, attempt |-> a]

\* Mutant: a stray sibling is deleted instead of moved.
MoveSiblingByUnlink ==
    /\ pc = "quarantineMove"
    /\ \E i \in Siblings :
         /\ names["canonical"][i] # None
         /\ names' = [names EXCEPT !["canonical"][i] = None]
    /\ UNCHANGED <<stageRoot, written, damaged, receipt, receiptTmps,
                   quarantine, quarantineDir, attempt, pc, k, faults>>

\* The siblings are renamed in their order.
MoveSibling ==
    /\ pc = "quarantineMove"
    /\ \E i \in Siblings :
         /\ names["canonical"][i] # None
         /\ \A j \in 1..(i - 1) : names["canonical"][j] = None
         /\ quarantine' = quarantine \cup {Moved(i, names["canonical"][i])}
         /\ names' = [names EXCEPT !["canonical"][i] = None]
    /\ UNCHANGED <<stageRoot, written, damaged, receipt, receiptTmps,
                   quarantineDir, attempt, pc, k, faults>>

\* The receipt is renamed last, and the call that quarantined ends.
MoveReceipt ==
    /\ pc = "quarantineMove"
    /\ ~SiblingsExist
    /\ quarantine' = IF receipt # None
                     THEN quarantine \cup {Moved(ReceiptFile, receipt)}
                     ELSE quarantine
    /\ receipt' = None
    /\ pc' = "idle"
    /\ UNCHANGED <<names, stageRoot, written, damaged, receiptTmps,
                   quarantineDir, attempt, k, faults>>

-----------------------------------------------------------------------------
(* Faults *)

Fault == faults < MaxFaults /\ faults' = faults + 1

\* SIGKILL, or an exception where nothing is left to catch it.
Crash ==
    /\ pc # "idle"
    /\ Fault
    /\ pc' = "idle"
    /\ UNCHANGED <<disk, attempt, k>>

\* An exception in the try block: the shard writer and the receipt writer
\* unlink their own temporary, then the except clause discards the stage root,
\* if it still stands.
Fail ==
    /\ pc \in TrySteps
    /\ Fault
    /\ names' = IF pc \in {"write", "linkStaged", "unlinkTmp"}
                THEN [names EXCEPT !["tmp"][k] = None] ELSE names
    /\ receiptTmps' = IF pc \in {"linkReceipt", "unlinkReceiptTmp"}
                      THEN receiptTmps \ {attempt} ELSE receiptTmps
    /\ pc' = IF stageRoot THEN "abortDiscard" ELSE "abort"
    /\ UNCHANGED <<stageRoot, written, damaged, receipt, quarantine,
                   quarantineDir, attempt, k>>

\* Another program overwrites the bytes of a staged or canonical file.
Damage ==
    /\ Fault
    /\ \E p \in {"staged", "canonical"}, i \in Siblings :
         /\ names[p][i] # None
         /\ <<i, names[p][i]>> \notin damaged
         /\ damaged' = damaged \cup {<<i, names[p][i]>>}
    /\ UNCHANGED <<names, stageRoot, written, receipt, receiptTmps,
                   quarantine, quarantineDir, attempt, pc, k>>

-----------------------------------------------------------------------------
Step ==
    \/ UnlinkStaleAlias \/ StaleAliasesGone \/ DiscardFile \/ DiscardRoot
    \/ QuarantineStray \/ CreateStageRoot
    \/ MakeTemporary \/ WriteTemporary \/ LinkStaged \/ UnlinkTemporary
    \/ VerifyStage \/ PublishSibling \/ VerifyRoot
    \/ MakeReceiptTemporary \/ LinkReceipt \/ UnlinkReceiptTemporary
    \/ LoadReceipt \/ Abort
    \/ OpenQuarantine \/ MoveSibling \/ MoveReceipt

Next ==
    \/ CallCommit
    \/ CallQuarantine
    \/ Step
    \/ Crash
    \/ Fail
    \/ Damage

Spec == Init /\ [][Next]_vars

\* A call that has begun runs on (WF of its steps), and the caller commits the
\* unit again while it is not there, whatever else it calls in between (SF).
FairSpec == Spec /\ WF_vars(Step) /\ SF_vars(CallCommit)

-----------------------------------------------------------------------------
(* Properties *)

\* A receipt under its canonical name stands for a whole group: each sibling it
\* binds is at its canonical name or was moved to quarantine after it was, so
\* no order of kills and retries shows a receipt for a file never published.
ReceiptCoversGroup ==
    receipt # None =>
        \A i \in Siblings :
            \/ names["canonical"][i] = receipt
            \/ \E q \in quarantine : q.file = i /\ q.attempt = receipt

\* No file under a staged or canonical name is half written: a kill at any
\* point of the shard writer leaves partial bytes only under a temporary name.
NoTornFile ==
    \A p \in {"staged", "canonical"}, i \in Siblings :
        names[p][i] # None => <<i, names[p][i]>> \in written

\* The canonical names, receipt included, never mix two commit attempts, nor
\* does a quarantine directory: base and derived siblings stay one version.
OneAttemptAtATime ==
    /\ \A i, j \in Siblings :
         names["canonical"][i] # None /\ names["canonical"][j] # None =>
             names["canonical"][i] = names["canonical"][j]
    /\ \A i \in Siblings :
         receipt # None /\ names["canonical"][i] # None =>
             names["canonical"][i] = receipt
    /\ \A q, r \in quarantine : q.dir = r.dir => q.attempt = r.attempt

\* "All siblings are written and verified in one same-filesystem stage tree
\* before the first canonical publication": a canonical name appears only while
\* every sibling of that attempt stands, whole, in the stage tree.
StagedBeforePublished ==
    [][\A i \in Siblings :
         names["canonical"][i] = None /\ names'["canonical"][i] # None =>
           \A j \in Siblings :
             /\ names["staged"][j] = names'["canonical"][i]
             /\ <<j, names["staged"][j]>> \in written]_vars

Committed == pc = "idle" /\ ReceiptLoads

\* A kill between os.link and the unlink of a temporary leaves an inode with
\* two names that no later call resolves: the receipt and its temporary, or a
\* staged shard and its temporary.
HalfLinked ==
    /\ pc = "idle"
    /\ \/ receipt # None /\ receipt \in receiptTmps
       \/ \E i \in Siblings : names["tmp"][i] # None
                              /\ names["tmp"][i] = names["staged"][i]

\* The unit as its readers see it.
Phase ==
    IF ReceiptLoads THEN "complete"
    ELSE IF pc \in TrySteps \ {"load"} THEN "open" ELSE "closed"

IntactFiles ==
    [i \in Siblings |->
        IF <<i, names["canonical"][i]>> \in written \ damaged
        THEN names["canonical"][i] ELSE None]

Unit == INSTANCE WorkUnit WITH phase <- Phase, files <- IntactFiles

\* The namespace of hard links implements the all-or-nothing unit of WorkUnit:
\* readers never see a part of a group, files of two attempts, or a withdrawn
\* attempt again.
ImplementsWorkUnit == Unit!Spec

\* Whatever faults hit it, a unit whose commit is called again ends committed,
\* unless a kill left one of the two half-linked residues.
CommittedUnlessHalfLinked == <>(Committed \/ HalfLinked)
=============================================================================
