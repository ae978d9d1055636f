--------------------------- MODULE BootstrapTrace ---------------------------
(***************************************************************************)
(* The stationary bootstrap: which row of history each position of a path  *)
(* takes.  The program has the algorithm six times, for one path or a      *)
(* matrix of them, with states or without, over links between rows or a    *)
(* mask of rows.  All run here side by side on the same draws, position by *)
(* position, together with the ideal trace that has no history to run out  *)
(* of, in both of its forms.                                               *)
(*                                                                         *)
(* Rows and positions count from 0.  A uniform of [0, 1) is a draw d of    *)
(* 0..Grid-1 and stands for d / Grid.                                      *)
(***************************************************************************)
EXTENDS Integers, FiniteSets

CONSTANTS
    NumStates,      \* states of the model
    NumRows,        \* rows of the history
    NumPositions,   \* positions of the path
    Grid,           \* resolution of the uniforms
    MeanLength      \* L: a restart at random has the probability 1 / L

ASSUME BootstrapAssumption ==
    /\ NumStates \in Nat \ {0} /\ NumRows \in Nat \ {0}
    /\ NumPositions \in Nat \ {0} /\ Grid \in Nat \ {0}
    /\ MeanLength \in Nat \ {0, 1}

States == 0..(NumStates - 1)
Rows == 0..(NumRows - 1)
Positions == 0..(NumPositions - 1)
Draws == 0..(Grid - 1)
NoRow == -1     \* what np.empty leaves at a position not yet reached

Implementations == {"scalar", "matrix", "outer", "reasonFree", "macro", "bridge"}
IdealForms == {"scalar", "matrix"}

TargetReasons == {"first_observation", "target_segment_start", "target_state_transition"}
SourceReasons == {"source_end", "source_gap", "source_state_mismatch"}
DrawnReasons == {"random_restart", "continuation"}
Reasons == TargetReasons \cup SourceReasons \cup DrawnReasons

VARIABLES
    sourceStates,   \* the state of each row
    sourceLinks,    \* the rows that the next row continues
    targetStates,   \* the state of each position
    targetLinks,    \* the positions that the next position continues
    position,       \* the next position
    indices,        \* indices[i][p]: the row implementation i took for p
    restarts,       \* restarts[i]: the positions at which i started a block
    reasons,        \* reasons[p], of the scalar implementation
    ideal,          \* ideal[f]: the restarts of the ideal trace, in form f
    idealReasons    \* of its scalar form

inputs == <<sourceStates, sourceLinks, targetStates, targetLinks>>
trace == <<position, indices, restarts, reasons, ideal, idealReasons>>
vars == <<inputs, trace>>

-----------------------------------------------------------------------------
(* Histories and targets *)

\* The links between rows as the mask of the rows that continue one.
MaskOf(links) == {k + 1 : k \in links}

Eligible(state) == {r \in Rows : sourceStates[r] = state}

\* No state of the model, and none of the target, is without a row.
Supported ==
    /\ \A r \in Rows : \A s \in 0..sourceStates[r] : Eligible(s) # {}
    /\ \A p \in Positions : Eligible(targetStates[p]) # {}

OneState ==
    /\ \A r \in Rows : sourceStates[r] = 0
    /\ \A p \in Positions : targetStates[p] = 0

\* The implementations that these inputs are for: only the first two know states,
\* the outer null has no breaks in its target, the macro resampling is of the
\* history's own shape.
Running ==
    {"scalar", "matrix"}
        \cup {i \in {"bridge"} : OneState}
        \cup {i \in {"outer", "reasonFree"} :
                OneState /\ targetLinks = 0..(NumPositions - 2)}
        \cup {i \in {"macro"} :
                OneState /\ NumPositions = NumRows /\ targetLinks = sourceLinks}

-----------------------------------------------------------------------------
(* Draws *)

\* uniform < 1 / L.
Hits(restart) == restart * MeanLength < Grid

\* floor(uniform * size).
RankOf(rank, size) == (rank * size) \div Grid

\* min(floor(uniform * size), size - 1).
ClippedRank(rank, size) ==
    IF RankOf(rank, size) < size - 1 THEN RankOf(rank, size) ELSE size - 1

\* candidates[k], where candidates are in ascending order.
Candidate(candidates, k) ==
    CHOOSE r \in candidates : Cardinality({q \in candidates : q < r}) = k

Ranked(state, rank) ==
    Candidate(Eligible(state), RankOf(rank, Cardinality(Eligible(state))))

-----------------------------------------------------------------------------
(* The scalar trace and its reasons *)

Previous(i) == indices[i][position - 1]

\* Why the target itself forces a restart, or "none".
TargetForcedReason ==
    IF position = 0 THEN "first_observation"
    ELSE IF position - 1 \notin targetLinks THEN "target_segment_start"
    ELSE IF targetStates[position] # targetStates[position - 1]
         THEN "target_state_transition"
    ELSE "none"

\* Mutant: the gap is looked for after the next row and not before it.
GapAfterNext ==
    IF TargetForcedReason # "none" THEN TargetForcedReason
    ELSE LET next == Previous("scalar") + 1 IN
         IF next >= NumRows THEN "source_end"
         ELSE IF next \notin sourceLinks /\ next < NumRows - 1 THEN "source_gap"
         ELSE IF sourceStates[next] # targetStates[position]
              THEN "source_state_mismatch"
         ELSE "none"

\* Mutant: the gap and the end are seen, another state is not.
MismatchUnseen ==
    IF TargetForcedReason # "none" THEN TargetForcedReason
    ELSE LET next == Previous("scalar") + 1 IN
         IF next >= NumRows THEN "source_end"
         ELSE IF next - 1 \notin sourceLinks THEN "source_gap"
         ELSE "none"

\* The first reason in policy order that forces a restart, or "none".
DeterministicReason ==
    IF TargetForcedReason # "none" THEN TargetForcedReason
    ELSE LET next == Previous("scalar") + 1 IN
         IF next >= NumRows THEN "source_end"
         ELSE IF next - 1 \notin sourceLinks THEN "source_gap"
         ELSE IF sourceStates[next] # targetStates[position]
              THEN "source_state_mismatch"
         ELSE "none"

DrawnReason(restart) == IF Hits(restart) THEN "random_restart" ELSE "continuation"

ReasonOf(restart) ==
    IF DeterministicReason # "none" THEN DeterministicReason ELSE DrawnReason(restart)

\* Mutant: the ideal trace does not know the target's segments.
IdealAcrossSegments(restart) ==
    IF position > 0 /\ targetStates[position] = targetStates[position - 1]
    THEN DrawnReason(restart) ELSE TargetForcedReason

IdealReasonOf(restart) ==
    IF TargetForcedReason # "none" THEN TargetForcedReason ELSE DrawnReason(restart)

-----------------------------------------------------------------------------
(* The restarts of each implementation at this position *)

ScalarRestarts(restart) == ReasonOf(restart) # "continuation"

TargetForced ==
    \/ position - 1 \notin targetLinks
    \/ targetStates[position] # targetStates[position - 1]

\* np.minimum(next_source, source_states.size - 1)
SafeNext ==
    IF Previous("matrix") + 1 < NumRows THEN Previous("matrix") + 1 ELSE NumRows - 1

\* A column of the matrix: all conditions at once, on an index that is clamped.
MatrixRestarts(restart) ==
    \/ position = 0
    \/ TargetForced
    \/ Previous("matrix") + 1 >= NumRows
    \/ Previous("matrix") \notin sourceLinks
    \/ sourceStates[SafeNext] # targetStates[position]
    \/ Hits(restart)

OuterRestarts(restart) ==
    \/ position = 0
    \/ Previous("outer") + 1 >= NumRows
    \/ Previous("outer") \notin sourceLinks
    \/ Hits(restart)

ReasonFreeRestarts(restart) ==
    \/ position = 0
    \/ Previous("reasonFree") + 1 >= NumRows
    \/ Previous("reasonFree") \notin sourceLinks
    \/ Hits(restart)

\* Its one mask is of the rows of the history and of the positions of the path.
MacroRestarts(restart) ==
    \/ position = 0
    \/ position \notin MaskOf(sourceLinks)
    \/ Previous("macro") + 1 >= NumRows
    \/ Previous("macro") + 1 \notin MaskOf(sourceLinks)
    \/ Hits(restart)

BridgeRestarts(restart) ==
    \/ position = 0
    \/ position \notin MaskOf(targetLinks)
    \/ Previous("bridge") + 1 >= NumRows
    \/ Previous("bridge") + 1 \notin MaskOf(sourceLinks)
    \/ Hits(restart)

Restarting(restart) ==
    {i \in Running :
        \/ i = "scalar" /\ ScalarRestarts(restart)
        \/ i = "matrix" /\ MatrixRestarts(restart)
        \/ i = "outer" /\ OuterRestarts(restart)
        \/ i = "reasonFree" /\ ReasonFreeRestarts(restart)
        \/ i = "macro" /\ MacroRestarts(restart)
        \/ i = "bridge" /\ BridgeRestarts(restart)}

\* The row of a new block: a rank among the rows of the state, or among all.
NewRow(i, rank) ==
    CASE i \in {"scalar", "matrix"} -> Ranked(targetStates[position], rank)
      [] i \in {"outer", "reasonFree"} -> RankOf(rank, NumRows)
      [] i \in {"macro", "bridge"} -> ClippedRank(rank, NumRows)

\* The matrix leaves the clamped index where it does not restart.
NextRow(i) == IF i = "matrix" THEN SafeNext ELSE Previous(i) + 1

IdealRestarting(restart) ==
    {f \in IdealForms :
        \/ f = "scalar" /\ IdealReasonOf(restart) # "continuation"
        \/ f = "matrix" /\ (position = 0 \/ TargetForced \/ Hits(restart))}

-----------------------------------------------------------------------------
(* Steps *)

Fresh ==
    /\ position = 0
    /\ indices = [i \in Implementations |-> [p \in Positions |-> NoRow]]
    /\ restarts = [i \in Implementations |-> {}]
    /\ reasons = [p \in Positions |-> "none"]
    /\ ideal = [f \in IdealForms |-> {}]
    /\ idealReasons = [p \in Positions |-> "none"]

Init ==
    /\ sourceStates \in [Rows -> States]
    /\ sourceLinks \in SUBSET (0..(NumRows - 2))
    /\ targetStates \in [Positions -> States]
    /\ targetLinks \in SUBSET (0..(NumPositions - 2))
    /\ Supported
    /\ Fresh

\* One position: every implementation takes the draws that belong to it.
Sample(restart, rank) ==
    /\ position < NumPositions
    /\ indices' = [i \in Implementations |->
         IF i \notin Running THEN indices[i]
         ELSE [indices[i] EXCEPT ![position] =
                 IF i \in Restarting(restart) THEN NewRow(i, rank) ELSE NextRow(i)]]
    /\ restarts' = [i \in Implementations |->
         restarts[i] \cup {p \in {position} : i \in Restarting(restart)}]
    /\ reasons' = [reasons EXCEPT ![position] = ReasonOf(restart)]
    /\ ideal' = [f \in IdealForms |->
         ideal[f] \cup {p \in {position} : f \in IdealRestarting(restart)}]
    /\ idealReasons' = [idealReasons EXCEPT ![position] = IdealReasonOf(restart)]
    /\ position' = position + 1
    /\ UNCHANGED inputs

Next == \E restart, rank \in Draws : Sample(restart, rank)

Spec == Init /\ [][Next]_vars

-----------------------------------------------------------------------------
(* What reads the traces afterwards *)

Reached == 0..(position - 1)

Discontinuous(i) ==
    {p \in Reached \ {0} :
        \/ indices[i][p] # indices[i][p - 1] + 1
        \/ indices[i][p - 1] \notin sourceLinks}

TargetBoundaries ==
    {p \in Reached \ {0} :
        p - 1 \notin targetLinks \/ targetStates[p] # targetStates[p - 1]}

\* realized_block_statistics takes these restarts for those of this target.
AcceptsTarget(flags) == Reached \cap {0} \subseteq flags /\ TargetBoundaries \subseteq flags

\* It also takes the rows for a trace of this history.
AcceptsSource(i) ==
    /\ Discontinuous(i) \subseteq restarts[i]
    /\ \A p \in Reached : indices[i][p] \in 0..(NumRows - 1)

\* Mutant: a start whose last row has to be continued as well.
StartsLinkedPastEnd(state) ==
    {r \in 0..(NumRows - MeanLength) :
        \A k \in r..(r + MeanLength - 1) : sourceStates[k] = state /\ k \in sourceLinks}

\* The rows from which L rows of one state run on without a gap (state_support).
EligibleStarts(state) ==
    {r \in 0..(NumRows - MeanLength) :
        /\ \A k \in r..(r + MeanLength - 1) : sourceStates[k] = state
        /\ \A k \in r..(r + MeanLength - 2) : k \in sourceLinks}

-----------------------------------------------------------------------------
(* Properties *)

TypeOK ==
    /\ sourceStates \in [Rows -> States]
    /\ sourceLinks \in SUBSET (0..(NumRows - 2))
    /\ targetStates \in [Positions -> States]
    /\ targetLinks \in SUBSET (0..(NumPositions - 2))
    /\ position \in 0..NumPositions
    /\ indices \in [Implementations -> [Positions -> Rows \cup {NoRow}]]
    /\ restarts \in [Implementations -> SUBSET Positions]
    /\ reasons \in [Positions -> Reasons \cup {"none"}]
    /\ ideal \in [IdealForms -> SUBSET Positions]
    /\ idealReasons \in [Positions -> Reasons \cup {"none"}]

\* All implementations that the inputs are for take the same rows and restart at
\* the same positions, whatever was drawn, and so do both forms of the ideal trace.
TwinsAgree ==
    /\ \A i, j \in Running : indices[i] = indices[j] /\ restarts[i] = restarts[j]
    /\ ideal["scalar"] = ideal["matrix"]

\* A block, from a restart up to the next one, is a piece of history as it was:
\* consecutive rows without a gap, all in the state that the target asks for.
BlocksAreHistory ==
    \A p, q \in Reached :
        (p <= q /\ \A k \in (p + 1)..q : k \notin restarts["scalar"]) =>
            LET first == indices["scalar"][p] IN
            /\ indices["scalar"][q] = first + (q - p)
            /\ \A k \in first..(first + (q - p)) : sourceStates[k] = targetStates[p]
            /\ \A k \in first..(first + (q - p) - 1) : k \in sourceLinks
            /\ \A k \in p..q : targetStates[k] = targetStates[p]

\* The ideal trace is the same path with an endless history: it restarts nowhere
\* but where the conditioned one does, for the same reason, and what the latter
\* has beyond it is what the history forces.
IdealIsCounterfactual ==
    \A p \in Reached :
        /\ p \in ideal["scalar"] => p \in restarts["scalar"]
        /\ p \in restarts["scalar"] \ ideal["scalar"] => reasons[p] \in SourceReasons
        /\ reasons[p] \notin SourceReasons => idealReasons[p] = reasons[p]

\* The reader of realized blocks refuses no trace that is sampled: every break of
\* the target and of the history is where a block starts.
ReaderAccepts ==
    /\ AcceptsTarget(restarts["scalar"]) /\ AcceptsTarget(ideal["scalar"])
    /\ AcceptsSource("scalar")

\* What the support diagnostic counts is what the sampler can use: the history
\* never cuts short a block from an eligible start, and none but these reach L.
SupportIsHonest ==
    \A p, q \in Reached :
        (/\ p < q /\ q < p + MeanLength
         /\ p \in restarts["scalar"]
         /\ \A k \in (p + 1)..(q - 1) : k \notin restarts["scalar"]) =>
            LET supported == indices["scalar"][p] \in EligibleStarts(targetStates[p]) IN
            /\ supported => reasons[q] \notin SourceReasons
            /\ (q = p + MeanLength - 1 /\ q \notin restarts["scalar"]) => supported
=============================================================================
