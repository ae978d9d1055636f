----------------------- MODULE BootstrapBridgeProofs -----------------------
(***************************************************************************)
(* The stationary bootstrap and the bridge that judges what it gives, in   *)
(* two parts that share nothing but this module.                           *)
(*                                                                         *)
(* First the traces, for any history, target, geometry and draws: the      *)
(* implementations agree, blocks are pieces of history, the ideal trace is *)
(* the counterfactual of the conditioned one, readers accept both, and the *)
(* support diagnostic is right.  Then the paths that give these traces     *)
(* their targets, for any laws and segments: the four draws and the two    *)
(* expansions agree, and a trace keeps what was proved of it.              *)
(*                                                                         *)
(* Then the drivers of the bridge, for any science, family and callers:    *)
(* the chain of the staged one is always accepted, and FINAL is what its   *)
(* reverification reconstructs.                                            *)
(***************************************************************************)
EXTENDS SampledPath, BridgeDriver, FiniteSetTheorems, SequenceTheorems,
        WellFoundedInduction, TLAPS

(* Ranks *)

\* A set of natural numbers that is not empty has a least element.
LEMMA LeastNumber ==
  ASSUME NEW T \in SUBSET Nat, T # {}
  PROVE  \E x \in T : \A y \in T : x <= y
<1>1. IsWellFoundedOn(OpToRel(<, Nat), Nat)
  BY NatLessThanWellFounded
<1>2. PICK x \in T : \A y \in T : ~(<<y, x>> \in OpToRel(<, Nat))
  BY <1>1, WFMin
<1>3. \A y \in T : ~(y < x)
  BY <1>2 DEF OpToRel
<1> QED
  BY <1>3

\* floor(u * size) is a rank, and never has to be clipped.
LEMMA RankInRange ==
    ASSUME NEW size \in Nat \ {0}, NEW rank \in Draws
    PROVE  /\ RankOf(rank, size) \in 0..(size - 1)
           /\ ClippedRank(rank, size) = RankOf(rank, size)
<1> USE BootstrapAssumption
<1>1. rank \in Nat /\ rank < Grid
  BY DEF Draws
<1>2. rank * size \in Nat /\ rank * size < Grid * size
  BY <1>1
<1>3. (rank * size) \div Grid < size
  BY <1>2
<1>4. (rank * size) \div Grid >= 0
  BY <1>2
<1>5. (rank * size) \div Grid \in Int
  BY <1>2
<1>6. RankOf(rank, size) \in 0..(size - 1)
  BY <1>3, <1>4, <1>5 DEF RankOf
<1>7. QED
  BY <1>6 DEF ClippedRank

\* Every rank below the size of a set of rows is that of one of its rows: counting
\* the rows below is an injection into as many ranks.
LEMMA RankedRow ==
    ASSUME NEW S \in SUBSET Rows, NEW k \in 0..(Cardinality(S) - 1)
    PROVE  Candidate(S, k) \in S
<1> DEFINE Below(r) == {q \in S : q < r}
           T == 0..(Cardinality(S) - 1)
           f == [r \in S |-> Cardinality(Below(r))]
<1> USE BootstrapAssumption
<1>1. IsFiniteSet(Rows) /\ Rows \subseteq Nat
  BY FS_Interval DEF Rows
<1>2. IsFiniteSet(S) /\ Cardinality(S) \in Nat /\ S \subseteq Nat
  BY <1>1, FS_Subset, FS_CardinalityType
<1>3. \A r \in S : /\ IsFiniteSet(Below(r)) /\ Cardinality(Below(r)) \in Nat
                   /\ IsFiniteSet(Below(r) \cup {r})
                   /\ Cardinality(Below(r) \cup {r}) = Cardinality(Below(r)) + 1
  <2> TAKE r \in S
  <2>1. Below(r) \in SUBSET S /\ r \notin Below(r)
    BY <1>2
  <2>2. IsFiniteSet(Below(r)) /\ Cardinality(Below(r)) \in Nat
    BY <1>2, <2>1, FS_Subset, FS_CardinalityType
  <2> HIDE DEF Below
  <2>3. QED
    BY <2>1, <2>2, FS_AddElement
<1>4. \A r \in S : Cardinality(Below(r)) \in T
  <2> TAKE r \in S
  <2>1. Below(r) \cup {r} \in SUBSET S
    OBVIOUS
  <2> HIDE DEF Below
  <2>2. Cardinality(Below(r) \cup {r}) <= Cardinality(S)
    BY <1>2, <2>1, FS_Subset
  <2>3. QED
    BY <1>2, <1>3, <2>2
<1>5. \A r, t \in S : r < t => Cardinality(Below(r)) < Cardinality(Below(t))
  <2> SUFFICES ASSUME NEW r \in S, NEW t \in S, r < t
               PROVE  Cardinality(Below(r)) < Cardinality(Below(t))
    OBVIOUS
  <2>1. r \in Nat /\ t \in Nat
    BY <1>2
  <2>2. \A q \in S : q < r => q < t
    BY <1>2, <2>1
  <2>3. Below(r) \cup {r} \subseteq Below(t)
    BY <2>2
  <2>4. /\ IsFiniteSet(Below(t)) /\ Cardinality(Below(t)) \in Nat
        /\ Cardinality(Below(r)) \in Nat
        /\ Cardinality(Below(r) \cup {r}) = Cardinality(Below(r)) + 1
    BY <1>3
  <2> HIDE DEF Below
  <2>5. Cardinality(Below(r) \cup {r}) <= Cardinality(Below(t))
    BY <2>3, <2>4, FS_Subset
  <2>6. QED
    BY <2>4, <2>5
<1>6. f \in [S -> T]
  BY <1>4
<1>7. \A r, t \in S : f[r] = f[t] => r = t
  <2> SUFFICES ASSUME NEW r \in S, NEW t \in S, r # t
               PROVE  f[r] # f[t]
    OBVIOUS
  <2>1. f[r] = Cardinality(Below(r)) /\ f[t] = Cardinality(Below(t))
    OBVIOUS
  <2>2. Cardinality(Below(r)) \in Nat /\ Cardinality(Below(t)) \in Nat
    BY <1>3
  <2>3. r < t \/ t < r
    BY <1>2
  <2>4. \/ Cardinality(Below(r)) < Cardinality(Below(t))
        \/ Cardinality(Below(t)) < Cardinality(Below(r))
    BY <1>5, <2>3
  <2> HIDE DEF f, Below
  <2>5. QED
    BY <2>1, <2>2, <2>4
<1>8. IsFiniteSet(T) /\ Cardinality(T) = Cardinality(S)
  BY <1>2, FS_Interval
<1> HIDE DEF f, T
<1>9. f \in Injection(S, T)
  BY <1>6, <1>7 DEF Injection, IsInjective
<1>10. f \in Surjection(S, T)
  BY <1>8, <1>9, FS_Injection
<1>11. PICK r \in S : f[r] = k
  BY <1>10 DEF Surjection, T
<1>12. Cardinality(Below(r)) = k
  BY <1>11 DEF f
<1>13. QED
  BY <1>12 DEF Candidate

\* Among all the rows, the row of a rank is the rank.
LEMMA RowOfRank ==
    ASSUME NEW k \in Rows
    PROVE  Candidate(Rows, k) = k
<1> USE BootstrapAssumption
<1>1. \A r \in Rows : Cardinality({q \in Rows : q < r}) = r
  <2> TAKE r \in Rows
  <2>1. {q \in Rows : q < r} = 0..(r - 1) /\ r \in Nat
    BY DEF Rows
  <2>2. Cardinality(0..(r - 1)) = IF 0 > r - 1 THEN 0 ELSE r - 1 - 0 + 1
    BY <2>1, FS_Interval
  <2>3. Cardinality(0..(r - 1)) = r
    BY <2>1, <2>2
  <2>4. QED
    BY <2>1, <2>3, Zenon
<1>2. QED
  BY <1>1 DEF Candidate

\* A state with rows has a row for every draw.
LEMMA RankedEligible ==
    ASSUME NEW state, Eligible(state) # {}, NEW rank \in Draws
    PROVE  Ranked(state, rank) \in Eligible(state)
<1> DEFINE S == Eligible(state)
<1>a. S \in SUBSET Rows
  BY DEF Eligible
<1>b. IsFiniteSet(Rows)
  BY BootstrapAssumption, FS_Interval DEF Rows
<1>1. S \in SUBSET Rows /\ IsFiniteSet(S)
  BY <1>a, <1>b, FS_Subset
<1>2. Cardinality(S) \in Nat \ {0}
  BY <1>1, FS_CardinalityType, FS_EmptySet
<1>3. RankOf(rank, Cardinality(S)) \in 0..(Cardinality(S) - 1)
  BY <1>2, RankInRange
<1>4. QED
  BY <1>1, <1>3, RankedRow DEF Ranked

-----------------------------------------------------------------------------
(* The invariant *)

\* Every row that was taken is of the state that the target asks for; a block goes
\* on to the next row, by a link, within a segment and a state of the target; and a
\* reason of the history is one.
TraceSound ==
    \A p \in Reached :
        /\ indices["scalar"][p] \in Eligible(targetStates[p])
        /\ p \in restarts["scalar"] <=> reasons[p] # "continuation"
        /\ p = 0 => p \in restarts["scalar"] /\ reasons[p] = "first_observation"
        /\ (p > 0 /\ p \notin restarts["scalar"]) =>
             /\ indices["scalar"][p] = indices["scalar"][p - 1] + 1
             /\ indices["scalar"][p - 1] \in sourceLinks
             /\ p - 1 \in targetLinks /\ targetStates[p] = targetStates[p - 1]
        /\ (p > 0 /\ reasons[p] \in SourceReasons) =>
             /\ p - 1 \in targetLinks /\ targetStates[p] = targetStates[p - 1]
             /\ LET next == indices["scalar"][p - 1] + 1 IN
                \/ next >= NumRows \/ next - 1 \notin sourceLinks
                \/ sourceStates[next] # targetStates[p]

\* Blocks start where the traces have been.
RestartsReached ==
    /\ \A i \in Implementations : restarts[i] \subseteq Reached
    /\ \A f \in IdealForms : ideal[f] \subseteq Reached

\* The ideal trace starts a block where the target breaks.
IdealSound ==
    \A p \in Reached :
        (p = 0 \/ p - 1 \notin targetLinks \/ targetStates[p] # targetStates[p - 1]) =>
            p \in ideal["scalar"]

IInv ==
    /\ TypeOK /\ Supported /\ RestartsReached
    /\ TwinsAgree /\ TraceSound /\ IdealSound
    /\ BlocksAreHistory /\ IdealIsCounterfactual

\* Nothing was sampled yet.
LEMMA InitIInv == Init => IInv
<1> SUFFICES ASSUME Init PROVE IInv
  OBVIOUS
<1> USE BootstrapAssumption
<1>1. Reached = {}
  BY DEF Init, Fresh, Reached
<1>2. TypeOK
  <2>1. /\ sourceStates \in [Rows -> States] /\ sourceLinks \in SUBSET (0..(NumRows - 2))
        /\ targetStates \in [Positions -> States]
        /\ targetLinks \in SUBSET (0..(NumPositions - 2))
    BY DEF Init
  <2>2. /\ position \in 0..NumPositions
        /\ indices \in [Implementations -> [Positions -> Rows \cup {NoRow}]]
    BY DEF Init, Fresh
  <2>3. /\ restarts \in [Implementations -> SUBSET Positions]
        /\ ideal \in [IdealForms -> SUBSET Positions]
    BY DEF Init, Fresh
  <2>4. /\ reasons \in [Positions -> Reasons \cup {"none"}]
        /\ idealReasons \in [Positions -> Reasons \cup {"none"}]
    BY DEF Init, Fresh
  <2>5. QED
    BY <2>1, <2>2, <2>3, <2>4 DEF TypeOK
<1>3. TwinsAgree
  BY DEF Init, Fresh, TwinsAgree, Running, Implementations, IdealForms
<1>4. TraceSound /\ IdealSound /\ BlocksAreHistory /\ IdealIsCounterfactual
  BY <1>1 DEF TraceSound, IdealSound, BlocksAreHistory, IdealIsCounterfactual
<1>5. RestartsReached
  BY DEF Init, Fresh, RestartsReached
<1>6. QED
  BY <1>2, <1>3, <1>4, <1>5 DEF Init, IInv

-----------------------------------------------------------------------------
(* One position *)

\* The implementations that run are among those there are, the scalar one always.
LEMMA RunningOnes ==
    /\ Running \subseteq Implementations
    /\ {"scalar", "matrix"} \subseteq Running
    /\ "bridge" \in Running => OneState
    /\ {"outer", "reasonFree"} \cap Running # {} =>
         OneState /\ targetLinks = 0..(NumPositions - 2)
    /\ "macro" \in Running =>
         OneState /\ NumPositions = NumRows /\ targetLinks = sourceLinks
  BY DEF Running, Implementations

\* The row before is a row, and the same for all that run.
LEMMA PreviousRow ==
    ASSUME IInv, position < NumPositions, position > 0
    PROVE  /\ Previous("scalar") \in Rows
           /\ \A i \in Running : Previous(i) = Previous("scalar")
           /\ position - 1 \in Positions /\ position \in Positions
<1> USE BootstrapAssumption
<1>1. position \in Nat /\ position - 1 \in Reached /\ position - 1 \in Positions
  BY DEF IInv, TypeOK, Reached, Positions
<1>2. indices["scalar"][position - 1] \in Rows
  BY <1>1 DEF IInv, TraceSound, Eligible
<1>3. \A i \in Running : indices[i] = indices["scalar"]
  BY RunningOnes DEF IInv, TwinsAgree
<1>4. QED
  BY <1>1, <1>2, <1>3 DEF Previous, Positions

\* After the first position, the scalar trace restarts for one of five reasons.
LEMMA ScalarCases ==
    ASSUME IInv, position < NumPositions, position > 0, NEW restart \in Draws
    PROVE  ScalarRestarts(restart) <=>
             \/ TargetForced
             \/ Previous("scalar") + 1 >= NumRows
             \/ Previous("scalar") \notin sourceLinks
             \/ sourceStates[Previous("scalar") + 1] # targetStates[position]
             \/ Hits(restart)
<1>1. /\ Previous("scalar") \in Int /\ position # 0
      /\ (Previous("scalar") + 1) - 1 = Previous("scalar")
  BY PreviousRow, BootstrapAssumption DEF Rows
<1>2. TargetForced <=> TargetForcedReason # "none"
  BY <1>1 DEF TargetForced, TargetForcedReason
<1>3. TargetForcedReason \in TargetReasons \cup {"none"}
  BY DEF TargetForcedReason, TargetReasons
<1>4. DeterministicReason # "none" <=>
        \/ TargetForced
        \/ Previous("scalar") + 1 >= NumRows
        \/ Previous("scalar") \notin sourceLinks
        \/ sourceStates[Previous("scalar") + 1] # targetStates[position]
  BY <1>1, <1>2 DEF DeterministicReason
<1>5. DeterministicReason # "continuation"
  BY <1>3 DEF DeterministicReason, TargetReasons
<1>6. QED
  BY <1>4, <1>5 DEF ScalarRestarts, ReasonOf, DrawnReason

\* On the same draws, all that run restart or none does.
LEMMA SameRestarts ==
    ASSUME IInv, position < NumPositions, NEW restart \in Draws
    PROVE  \A i \in Running : i \in Restarting(restart) <=> ScalarRestarts(restart)
<1> USE BootstrapAssumption
<1>1. CASE position = 0
  <2>1. ScalarRestarts(restart)
    BY <1>1 DEF ScalarRestarts, ReasonOf, DeterministicReason, TargetForcedReason
  <2>2. \A i \in Running : i \in Restarting(restart)
    BY <1>1, <2>1, RunningOnes
       DEF Restarting, Implementations, MatrixRestarts, OuterRestarts,
           ReasonFreeRestarts, MacroRestarts, BridgeRestarts
  <2>3. QED
    BY <2>1, <2>2
<1>2. CASE position > 0
  <2> DEFINE prev == Previous("scalar")
  <2>1. /\ prev \in Rows /\ \A i \in Running : Previous(i) = prev
        /\ position - 1 \in Positions /\ position \in Positions
    BY <1>2, PreviousRow
  <2>2. /\ prev \in Int /\ prev >= 0 /\ prev < NumRows
        /\ position \in Int /\ position # 0
        /\ sourceLinks \subseteq Int /\ targetLinks \subseteq Int
    BY <1>2, <2>1 DEF Rows, Positions, IInv, TypeOK
  <2>3. ScalarRestarts(restart) <=>
          \/ TargetForced \/ prev + 1 >= NumRows \/ prev \notin sourceLinks
          \/ sourceStates[prev + 1] # targetStates[position] \/ Hits(restart)
    BY <1>2, ScalarCases
  <2>4. ASSUME OneState
        PROVE  /\ prev + 1 < NumRows => sourceStates[prev + 1] = targetStates[position]
               /\ TargetForced <=> position - 1 \notin targetLinks
    <3>1. prev + 1 < NumRows => prev + 1 \in Rows
      BY <2>2 DEF Rows
    <3>2. QED
      BY <2>1, <2>4, <3>1 DEF OneState, TargetForced
  <2>5. /\ position \in MaskOf(sourceLinks) <=> position - 1 \in sourceLinks
        /\ position \in MaskOf(targetLinks) <=> position - 1 \in targetLinks
        /\ prev + 1 \in MaskOf(sourceLinks) <=> prev \in sourceLinks
    BY <2>2 DEF MaskOf
  <2> HIDE DEF prev
  <2> TAKE i \in Running
  <2>7. i \in Implementations
    BY RunningOnes
  <2>a. CASE i = "scalar"
    BY <2>a DEF Restarting
  <2>b. CASE i = "matrix"
    <3>1. Previous("matrix") = prev
      BY <2>1, <2>b
    <3>2. prev + 1 < NumRows => SafeNext = prev + 1
      BY <3>1 DEF SafeNext
    <3>3. MatrixRestarts(restart) <=> ScalarRestarts(restart)
      BY <2>2, <2>3, <3>1, <3>2 DEF MatrixRestarts
    <3>4. QED
      BY <2>b, <3>3 DEF Restarting
  <2>c. CASE i \in {"outer", "reasonFree"}
    <3>1. OneState /\ targetLinks = 0..(NumPositions - 2) /\ Previous(i) = prev
      BY <2>1, <2>c, RunningOnes
    <3>2. position - 1 \in targetLinks
      BY <1>2, <2>2, <3>1 DEF Positions
    <3>3. ScalarRestarts(restart) <=>
            prev + 1 >= NumRows \/ prev \notin sourceLinks \/ Hits(restart)
      BY <2>2, <2>3, <2>4, <3>1, <3>2
    <3>4. QED
      BY <2>2, <2>c, <3>1, <3>3 DEF Restarting, OuterRestarts, ReasonFreeRestarts
  <2>d. CASE i \in {"macro", "bridge"}
    <3>1. OneState /\ Previous(i) = prev /\ (i = "macro" => targetLinks = sourceLinks)
      BY <2>1, <2>d, RunningOnes
    <3>2. ScalarRestarts(restart) <=>
            \/ position - 1 \notin targetLinks
            \/ prev + 1 >= NumRows \/ prev \notin sourceLinks \/ Hits(restart)
      BY <2>2, <2>3, <2>4, <3>1
    <3>3. QED
      BY <2>2, <2>5, <2>d, <3>1, <3>2 DEF Restarting, MacroRestarts, BridgeRestarts
  <2>8. QED
    BY <2>7, <2>a, <2>b, <2>c, <2>d DEF Implementations
<1>3. QED
  BY <1>1, <1>2 DEF IInv, TypeOK

\* On the same draws, a new block starts at the same row.
LEMMA SameNewRow ==
    ASSUME IInv, position < NumPositions, NEW rank \in Draws
    PROVE  /\ NewRow("scalar", rank) \in Eligible(targetStates[position])
           /\ \A i \in Running : NewRow(i, rank) = NewRow("scalar", rank)
<1> USE BootstrapAssumption
<1>1. position \in Positions
  BY DEF IInv, TypeOK, Positions
<1>2. NewRow("scalar", rank) = Ranked(targetStates[position], rank)
  BY DEF NewRow
<1>3. Eligible(targetStates[position]) # {}
  BY <1>1 DEF IInv, Supported
<1>4. Ranked(targetStates[position], rank) \in Eligible(targetStates[position])
  BY <1>3, RankedEligible
<1>5. ASSUME OneState
      PROVE  /\ Ranked(targetStates[position], rank) = RankOf(rank, NumRows)
             /\ ClippedRank(rank, NumRows) = RankOf(rank, NumRows)
  <2>1. targetStates[position] = 0 /\ Eligible(0) = Rows
    BY <1>1, <1>5 DEF OneState, Eligible
  <2>2. Cardinality(Rows) = NumRows
    <3>1. Cardinality(0..(NumRows - 1)) =
            IF 0 > NumRows - 1 THEN 0 ELSE NumRows - 1 - 0 + 1
      BY FS_Interval
    <3>2. QED
      BY <3>1 DEF Rows
  <2>3. RankOf(rank, NumRows) \in Rows /\ ClippedRank(rank, NumRows) = RankOf(rank, NumRows)
    BY RankInRange DEF Rows
  <2>4. QED
    BY <2>1, <2>2, <2>3, RowOfRank DEF Ranked
<1> SUFFICES ASSUME NEW i \in Running
             PROVE  NewRow(i, rank) = NewRow("scalar", rank)
  BY <1>2, <1>4
<1>7. i \in Implementations
  BY RunningOnes
<1>8. CASE i \in {"scalar", "matrix"}
  BY <1>2, <1>4, <1>8 DEF NewRow
<1>9. CASE i \in {"outer", "reasonFree"}
  <2>1. OneState
    BY <1>9, RunningOnes
  <2>2. NewRow(i, rank) = RankOf(rank, NumRows)
    BY <1>9 DEF NewRow
  <2>3. QED
    BY <1>2, <1>5, <2>1, <2>2
<1>10. CASE i \in {"macro", "bridge"}
  <2>1. OneState
    BY <1>10, RunningOnes
  <2>2. NewRow(i, rank) = ClippedRank(rank, NumRows)
    BY <1>10 DEF NewRow
  <2>3. QED
    BY <1>2, <1>5, <2>1, <2>2
<1>11. QED
  BY <1>7, <1>8, <1>9, <1>10 DEF Implementations

\* Where none restarts, all go on to the same row.
LEMMA SameNextRow ==
    ASSUME IInv, position < NumPositions, NEW restart \in Draws,
           ~ScalarRestarts(restart)
    PROVE  /\ position > 0
           /\ \A i \in Running : NextRow(i) = Previous("scalar") + 1
           /\ Previous("scalar") + 1 \in Eligible(targetStates[position])
<1> USE BootstrapAssumption
<1>1. position > 0
  <2>1. position = 0 => ScalarRestarts(restart)
    BY DEF ScalarRestarts, ReasonOf, DeterministicReason, TargetForcedReason
  <2>2. QED
    BY <2>1 DEF IInv, TypeOK
<1>2. /\ Previous("scalar") + 1 < NumRows
      /\ sourceStates[Previous("scalar") + 1] = targetStates[position]
      /\ Previous("scalar") \in Rows
      /\ \A i \in Running : Previous(i) = Previous("scalar")
  BY <1>1, ScalarCases, PreviousRow DEF Rows
<1>3. Previous("scalar") + 1 \in Eligible(targetStates[position])
  BY <1>2 DEF Eligible, Rows
<1>4. \A i \in Running : NextRow(i) = Previous("scalar") + 1
  BY <1>2 DEF NextRow, SafeNext
<1>5. QED
  BY <1>1, <1>3, <1>4

\* What a position adds to each of the traces that run.
LEMMA SampleExtends ==
    ASSUME IInv, NEW restart \in Draws, NEW rank \in Draws, Sample(restart, rank)
    PROVE  \E x \in Eligible(targetStates[position]) :
             /\ \A i \in Running :
                  /\ indices'[i] = [indices[i] EXCEPT ![position] = x]
                  /\ restarts'[i] = restarts[i] \cup {p \in {position} : ScalarRestarts(restart)}
             /\ ~ScalarRestarts(restart) => position > 0 /\ x = Previous("scalar") + 1
<1>1. position < NumPositions
  BY DEF Sample
<1>2. \A i \in Running : i \in Restarting(restart) <=> ScalarRestarts(restart)
  BY <1>1, SameRestarts
<1>3. \A i \in Running :
        /\ restarts'[i] = restarts[i] \cup {p \in {position} : ScalarRestarts(restart)}
        /\ indices'[i] = [indices[i] EXCEPT ![position] =
             IF ScalarRestarts(restart) THEN NewRow(i, rank) ELSE NextRow(i)]
  BY <1>2, RunningOnes DEF Sample
<1>4. CASE ScalarRestarts(restart)
  <2>1. /\ NewRow("scalar", rank) \in Eligible(targetStates[position])
        /\ \A i \in Running : NewRow(i, rank) = NewRow("scalar", rank)
    BY <1>1, SameNewRow
  <2>2. QED
    BY <1>3, <1>4, <2>1
<1>5. CASE ~ScalarRestarts(restart)
  <2>1. /\ position > 0 /\ \A i \in Running : NextRow(i) = Previous("scalar") + 1
        /\ Previous("scalar") + 1 \in Eligible(targetStates[position])
    BY <1>1, <1>5, SameNextRow
  <2>2. QED
    BY <1>3, <1>5, <2>1
<1>6. QED
  BY <1>4, <1>5

\* The same, read off the scalar trace position by position.
LEMMA ScalarExtends ==
    ASSUME IInv, NEW restart \in Draws, NEW rank \in Draws, Sample(restart, rank)
    PROVE  /\ position \in Positions /\ position \in Nat
           /\ Reached' = Reached \cup {position} /\ position \notin Reached
           /\ indices'["scalar"][position] \in Eligible(targetStates[position])
           /\ \A p \in Reached : indices'["scalar"][p] = indices["scalar"][p]
           /\ \A p \in Reached : p \in restarts'["scalar"] <=> p \in restarts["scalar"]
           /\ position \in restarts'["scalar"] <=> ScalarRestarts(restart)
           /\ ~ScalarRestarts(restart) =>
                /\ position > 0
                /\ indices'["scalar"][position] = indices["scalar"][position - 1] + 1
<1> USE BootstrapAssumption
<1>1. position \in Positions /\ position \in Nat /\ position' = position + 1
  BY DEF Sample, IInv, TypeOK, Positions
<1>2. Reached' = Reached \cup {position} /\ position \notin Reached
  BY <1>1 DEF Reached
<1>3. "scalar" \in Implementations /\ "scalar" \in Running
  BY RunningOnes DEF Implementations
<1>4. /\ indices["scalar"] \in [Positions -> Rows \cup {NoRow}]
      /\ restarts["scalar"] \in SUBSET Positions
  BY <1>3 DEF IInv, TypeOK
<1>5. PICK x \in Eligible(targetStates[position]) :
        /\ indices'["scalar"] = [indices["scalar"] EXCEPT ![position] = x]
        /\ restarts'["scalar"] =
             restarts["scalar"] \cup {p \in {position} : ScalarRestarts(restart)}
        /\ ~ScalarRestarts(restart) => position > 0 /\ x = Previous("scalar") + 1
  BY <1>3, SampleExtends
<1>6. position \notin restarts["scalar"]
  BY <1>1, <1>3 DEF IInv, RestartsReached, Reached
<1>7. Reached \subseteq Positions
  BY <1>1 DEF Reached, Positions
<1>8. /\ indices'["scalar"][position] = x
      /\ \A p \in Reached : indices'["scalar"][p] = indices["scalar"][p]
  BY <1>1, <1>2, <1>4, <1>5, <1>7
<1>9. QED
  BY <1>1, <1>2, <1>5, <1>6, <1>8 DEF Previous

\* What the two reasons of a position say of it, and of each other.
LEMMA ReasonsSay ==
    ASSUME IInv, position < NumPositions, NEW restart \in Draws
    PROVE  /\ ReasonOf(restart) \in Reasons /\ IdealReasonOf(restart) \in Reasons
           /\ position = 0 => ReasonOf(restart) = "first_observation"
           /\ ReasonOf(restart) \in SourceReasons =>
                /\ position > 0 /\ ~TargetForced
                /\ \/ Previous("scalar") + 1 >= NumRows
                   \/ (Previous("scalar") + 1) - 1 \notin sourceLinks
                   \/ sourceStates[Previous("scalar") + 1] # targetStates[position]
           /\ ReasonOf(restart) \notin SourceReasons =>
                IdealReasonOf(restart) = ReasonOf(restart)
           /\ IdealReasonOf(restart) # "continuation" => ScalarRestarts(restart)
           /\ IdealReasonOf(restart) # "continuation" <=>
                position = 0 \/ TargetForced \/ Hits(restart)
<1>1. position \in Nat
  BY DEF IInv, TypeOK
<1>2. /\ TargetForcedReason \in TargetReasons \cup {"none"}
      /\ TargetForcedReason # "none" <=> position = 0 \/ TargetForced
      /\ position = 0 => TargetForcedReason = "first_observation"
  BY DEF TargetForcedReason, TargetForced, TargetReasons
<1>3. DrawnReason(restart) \in DrawnReasons /\ (DrawnReason(restart) # "continuation" <=> Hits(restart))
  BY DEF DrawnReason, DrawnReasons
<1>4. \/ DeterministicReason = TargetForcedReason /\ TargetForcedReason # "none"
      \/ DeterministicReason = "none" /\ TargetForcedReason = "none"
      \/ /\ DeterministicReason \in SourceReasons /\ TargetForcedReason = "none"
         /\ \/ Previous("scalar") + 1 >= NumRows
            \/ (Previous("scalar") + 1) - 1 \notin sourceLinks
            \/ sourceStates[Previous("scalar") + 1] # targetStates[position]
  <2> DEFINE next == Previous("scalar") + 1
  <2>1. CASE TargetForcedReason # "none"
    BY <2>1 DEF DeterministicReason
  <2>2. CASE TargetForcedReason = "none"
    <3>1. DeterministicReason =
            IF next >= NumRows THEN "source_end"
            ELSE IF next - 1 \notin sourceLinks THEN "source_gap"
            ELSE IF sourceStates[next] # targetStates[position]
                 THEN "source_state_mismatch"
            ELSE "none"
      BY <2>2 DEF DeterministicReason
    <3>2. CASE next >= NumRows
      BY <2>2, <3>1, <3>2 DEF SourceReasons
    <3>3. CASE ~(next >= NumRows) /\ next - 1 \notin sourceLinks
      BY <2>2, <3>1, <3>3 DEF SourceReasons
    <3>4. CASE ~(next >= NumRows) /\ next - 1 \in sourceLinks
      BY <2>2, <3>1, <3>4 DEF SourceReasons
    <3>5. QED
      BY <3>2, <3>3, <3>4
  <2>3. QED
    BY <2>1, <2>2
<1>5. /\ ReasonOf(restart) \in Reasons /\ IdealReasonOf(restart) \in Reasons
      /\ position = 0 => ReasonOf(restart) = "first_observation"
  BY <1>2, <1>3, <1>4 DEF ReasonOf, IdealReasonOf, Reasons, TargetReasons
<1>6. ReasonOf(restart) \in SourceReasons =>
        /\ position > 0 /\ ~TargetForced
        /\ \/ Previous("scalar") + 1 >= NumRows
           \/ (Previous("scalar") + 1) - 1 \notin sourceLinks
           \/ sourceStates[Previous("scalar") + 1] # targetStates[position]
  <2>1. ReasonOf(restart) \in SourceReasons => TargetForcedReason = "none" /\ DeterministicReason # "none"
    BY <1>2, <1>3, <1>4 DEF ReasonOf, SourceReasons, TargetReasons, DrawnReasons
  <2>2. QED
    BY <1>1, <1>2, <1>4, <2>1
<1>7. ReasonOf(restart) \notin SourceReasons => IdealReasonOf(restart) = ReasonOf(restart)
  BY <1>2, <1>3, <1>4 DEF ReasonOf, IdealReasonOf
<1>8. IdealReasonOf(restart) # "continuation" <=> position = 0 \/ TargetForced \/ Hits(restart)
  BY <1>2, <1>3 DEF IdealReasonOf, TargetReasons
<1>9. IdealReasonOf(restart) # "continuation" => ReasonOf(restart) # "continuation"
  BY <1>7 DEF SourceReasons
<1>10. QED
  BY <1>5, <1>6, <1>7, <1>8, <1>9 DEF ScalarRestarts

\* Types: a row is one of the history, a reason one of the eight.
LEMMA TypeStep ==
    ASSUME IInv, NEW restart \in Draws, NEW rank \in Draws, Sample(restart, rank)
    PROVE  TypeOK'
<1> USE BootstrapAssumption
<1>1. position \in Positions /\ position' \in 0..NumPositions
  BY DEF Sample, IInv, TypeOK, Positions
<1>2. indices' \in [Implementations -> [Positions -> Rows \cup {NoRow}]]
  <2>1. PICK x \in Eligible(targetStates[position]) :
          \A i \in Running : indices'[i] = [indices[i] EXCEPT ![position] = x]
    BY SampleExtends
  <2>2. x \in Rows
    BY DEF Eligible
  <2>3. indices \in [Implementations -> [Positions -> Rows \cup {NoRow}]]
    BY DEF IInv, TypeOK
  <2>4. \A i \in Implementations : indices'[i] \in [Positions -> Rows \cup {NoRow}]
    <3> TAKE i \in Implementations
    <3>1. CASE i \in Running
      <4>1. indices[i] \in [Positions -> Rows \cup {NoRow}]
        BY <2>3
      <4>2. indices'[i] = [indices[i] EXCEPT ![position] = x]
        BY <2>1, <3>1
      <4>3. QED
        BY <1>1, <2>2, <4>1, <4>2
    <3>2. CASE i \notin Running
      <4>1. indices'[i] = indices[i]
        BY <3>2 DEF Sample
      <4>2. QED
        BY <2>3, <4>1
    <3>3. QED
      BY <3>1, <3>2
  <2>5. indices' = [i \in Implementations |-> indices'[i]]
    BY DEF Sample
  <2> QED
    BY <2>4, <2>5
<1>3. restarts' \in [Implementations -> SUBSET Positions]
  <2>1. \A i \in Implementations :
          restarts[i] \cup {p \in {position} : i \in Restarting(restart)} \in SUBSET Positions
    BY <1>1 DEF IInv, TypeOK
  <2>2. QED
    BY <2>1 DEF Sample
<1>4. ideal' \in [IdealForms -> SUBSET Positions]
  <2>1. \A f \in IdealForms :
          ideal[f] \cup {p \in {position} : f \in IdealRestarting(restart)} \in SUBSET Positions
    BY <1>1 DEF IInv, TypeOK
  <2>2. QED
    BY <2>1 DEF Sample
<1>5. /\ reasons' \in [Positions -> Reasons \cup {"none"}]
      /\ idealReasons' \in [Positions -> Reasons \cup {"none"}]
  <2>1. ReasonOf(restart) \in Reasons /\ IdealReasonOf(restart) \in Reasons
    BY ReasonsSay DEF Sample
  <2>2. QED
    BY <1>1, <2>1 DEF Sample, IInv, TypeOK
<1>6. /\ sourceStates' \in [Rows -> States] /\ sourceLinks' \in SUBSET (0..(NumRows - 2))
      /\ targetStates' \in [Positions -> States]
      /\ targetLinks' \in SUBSET (0..(NumPositions - 2))
  BY DEF Sample, inputs, IInv, TypeOK
<1>7. QED
  BY <1>1, <1>2, <1>3, <1>4, <1>5, <1>6 DEF TypeOK

\* What is the same for all that run stays the same for all.
LEMMA TwinsStep ==
    ASSUME IInv, NEW restart \in Draws, NEW rank \in Draws, Sample(restart, rank)
    PROVE  TwinsAgree' /\ Supported' /\ RestartsReached'
<1>1. PICK x \in Eligible(targetStates[position]) : \A i \in Running :
        /\ indices'[i] = [indices[i] EXCEPT ![position] = x]
        /\ restarts'[i] = restarts[i] \cup {p \in {position} : ScalarRestarts(restart)}
  BY SampleExtends
<1>2. Running' = Running
  BY DEF Sample, inputs, Running, OneState
<1>3. \A i, j \in Running : indices'[i] = indices'[j] /\ restarts'[i] = restarts'[j]
  BY <1>1 DEF IInv, TwinsAgree
<1>4. ideal'["scalar"] = ideal'["matrix"]
  <2>1. "scalar" \in IdealRestarting(restart) <=> "matrix" \in IdealRestarting(restart)
    BY ReasonsSay DEF IdealRestarting, IdealForms, Sample
  <2>2. ideal["scalar"] = ideal["matrix"]
    BY DEF IInv, TwinsAgree
  <2>3. QED
    BY <2>1, <2>2 DEF Sample, IdealForms
<1>5. Supported'
  BY DEF IInv, Sample, inputs, Supported, Eligible
<1>6. RestartsReached'
  <2>1. Reached' = Reached \cup {position}
    BY ScalarExtends
  <2>2. QED
    BY <2>1 DEF IInv, RestartsReached, Sample
<1>7. QED
  BY <1>2, <1>3, <1>4, <1>5, <1>6 DEF TwinsAgree

\* The trace stays sound.
LEMMA TraceSoundStep ==
    ASSUME IInv, NEW restart \in Draws, NEW rank \in Draws, Sample(restart, rank)
    PROVE  TraceSound'
<1> USE BootstrapAssumption
<1>1. UNCHANGED inputs /\ position < NumPositions
  BY DEF Sample
<1>2. UNCHANGED <<sourceStates, sourceLinks, targetStates, targetLinks>>
  BY <1>1 DEF inputs
<1>3. \A s : Eligible(s)' = Eligible(s)
  BY <1>2 DEF Eligible
<1>4. /\ position \in Positions /\ position \in Nat
      /\ Reached' = Reached \cup {position} /\ position \notin Reached
  BY ScalarExtends
<1>5. /\ reasons'[position] = ReasonOf(restart)
      /\ \A p \in Reached : reasons'[p] = reasons[p]
  <2>1. reasons \in [Positions -> Reasons \cup {"none"}] /\ Reached \subseteq Positions
    BY <1>4 DEF IInv, TypeOK, Reached, Positions
  <2>2. reasons' = [reasons EXCEPT ![position] = ReasonOf(restart)]
    BY DEF Sample
  <2>3. QED
    BY <1>4, <2>1, <2>2
<1>6. SUFFICES ASSUME NEW p \in Reached'
               PROVE
        /\ indices'["scalar"][p] \in Eligible(targetStates[p])
        /\ p \in restarts'["scalar"] <=> reasons'[p] # "continuation"
        /\ p = 0 => p \in restarts'["scalar"] /\ reasons'[p] = "first_observation"
        /\ (p > 0 /\ p \notin restarts'["scalar"]) =>
             /\ indices'["scalar"][p] = indices'["scalar"][p - 1] + 1
             /\ indices'["scalar"][p - 1] \in sourceLinks
             /\ p - 1 \in targetLinks /\ targetStates[p] = targetStates[p - 1]
        /\ (p > 0 /\ reasons'[p] \in SourceReasons) =>
             /\ p - 1 \in targetLinks /\ targetStates[p] = targetStates[p - 1]
             /\ \/ indices'["scalar"][p - 1] + 1 >= NumRows
                \/ (indices'["scalar"][p - 1] + 1) - 1 \notin sourceLinks
                \/ sourceStates[indices'["scalar"][p - 1] + 1] # targetStates[p]
  BY <1>2, <1>3 DEF TraceSound
<1>7. p \in Nat /\ (p > 0 => p - 1 \in Reached)
  BY <1>4 DEF Reached
<1>8. CASE p \in Reached
  <2>1. /\ indices'["scalar"][p] = indices["scalar"][p]
        /\ p > 0 => indices'["scalar"][p - 1] = indices["scalar"][p - 1]
        /\ p \in restarts'["scalar"] <=> p \in restarts["scalar"]
    BY <1>7, <1>8, ScalarExtends
  <2>2. reasons'[p] = reasons[p]
    BY <1>5, <1>8
  <2>3. QED
    BY <1>8, <2>1, <2>2 DEF IInv, TraceSound
<1>9. CASE p = position
  <2>1. /\ indices'["scalar"][p] \in Eligible(targetStates[p])
        /\ p \in restarts'["scalar"] <=> ScalarRestarts(restart)
        /\ ~ScalarRestarts(restart) =>
             p > 0 /\ indices'["scalar"][p] = indices["scalar"][p - 1] + 1
        /\ p > 0 => indices'["scalar"][p - 1] = indices["scalar"][p - 1]
    BY <1>7, <1>9, ScalarExtends
  <2>2. reasons'[p] = ReasonOf(restart)
    BY <1>5, <1>9
  <2>3. p \in restarts'["scalar"] <=> reasons'[p] # "continuation"
    BY <2>1, <2>2 DEF ScalarRestarts
  <2>4. p = 0 => p \in restarts'["scalar"] /\ reasons'[p] = "first_observation"
    BY <1>1, <1>9, <2>2, <2>3, ReasonsSay
  <2>5. ASSUME p > 0, p \notin restarts'["scalar"]
        PROVE  /\ indices'["scalar"][p] = indices'["scalar"][p - 1] + 1
               /\ indices'["scalar"][p - 1] \in sourceLinks
               /\ p - 1 \in targetLinks /\ targetStates[p] = targetStates[p - 1]
    <3>1. ~TargetForced /\ Previous("scalar") \in sourceLinks
      BY <1>1, <1>9, <2>1, <2>5, ScalarCases
    <3>2. QED
      BY <1>9, <2>1, <2>5, <3>1 DEF TargetForced, Previous
  <2>6. ASSUME p > 0, reasons'[p] \in SourceReasons
        PROVE  /\ p - 1 \in targetLinks /\ targetStates[p] = targetStates[p - 1]
               /\ \/ indices'["scalar"][p - 1] + 1 >= NumRows
                  \/ (indices'["scalar"][p - 1] + 1) - 1 \notin sourceLinks
                  \/ sourceStates[indices'["scalar"][p - 1] + 1] # targetStates[p]
    <3>1. /\ ~TargetForced
          /\ \/ Previous("scalar") + 1 >= NumRows
             \/ (Previous("scalar") + 1) - 1 \notin sourceLinks
             \/ sourceStates[Previous("scalar") + 1] # targetStates[position]
      BY <1>1, <2>2, <2>6, ReasonsSay
    <3>2. Previous("scalar") = indices'["scalar"][p - 1]
      BY <1>9, <2>1, <2>6 DEF Previous
    <3>3. QED
      BY <1>9, <3>1, <3>2 DEF TargetForced
  <2>7. QED
    BY <2>1, <2>3, <2>4, <2>5, <2>6
<1>10. QED
  BY <1>4, <1>8, <1>9

\* What a position adds to the ideal trace and to the reasons.
LEMMA IdealExtends ==
    ASSUME IInv, NEW restart \in Draws, NEW rank \in Draws, Sample(restart, rank)
    PROVE  /\ \A p \in Reached : p \in ideal'["scalar"] <=> p \in ideal["scalar"]
           /\ position \in ideal'["scalar"] <=> IdealReasonOf(restart) # "continuation"
           /\ \A p \in Reached : /\ reasons'[p] = reasons[p]
                                  /\ idealReasons'[p] = idealReasons[p]
           /\ reasons'[position] = ReasonOf(restart)
           /\ idealReasons'[position] = IdealReasonOf(restart)
<1>1. /\ position \in Positions /\ Reached \subseteq Positions /\ position \notin Reached
      /\ position \in Nat
  BY ScalarExtends, BootstrapAssumption DEF Reached, Positions
<1>2. ideal'["scalar"] = ideal["scalar"]
        \cup {p \in {position} : IdealReasonOf(restart) # "continuation"}
  BY DEF Sample, IdealRestarting, IdealForms
<1>3. ideal["scalar"] \subseteq Reached
  BY DEF IInv, RestartsReached, IdealForms
<1>4. /\ reasons \in [Positions -> Reasons \cup {"none"}]
      /\ idealReasons \in [Positions -> Reasons \cup {"none"}]
  BY DEF IInv, TypeOK
<1>5. /\ reasons' = [reasons EXCEPT ![position] = ReasonOf(restart)]
      /\ idealReasons' = [idealReasons EXCEPT ![position] = IdealReasonOf(restart)]
  BY DEF Sample
<1>6. /\ \A p \in Reached : /\ reasons'[p] = reasons[p]
                             /\ idealReasons'[p] = idealReasons[p]
      /\ reasons'[position] = ReasonOf(restart)
      /\ idealReasons'[position] = IdealReasonOf(restart)
  BY <1>1, <1>4, <1>5
<1>7. QED
  BY <1>1, <1>2, <1>3, <1>6

\* The ideal trace stays the counterfactual of the conditioned one.
LEMMA IdealStep ==
    ASSUME IInv, NEW restart \in Draws, NEW rank \in Draws, Sample(restart, rank)
    PROVE  IdealSound' /\ IdealIsCounterfactual'
<1>1. position < NumPositions /\ UNCHANGED inputs
  BY DEF Sample
<1>2. UNCHANGED <<targetStates, targetLinks>>
  BY <1>1 DEF inputs
<1>3. /\ Reached' = Reached \cup {position}
      /\ \A p \in Reached : p \in restarts'["scalar"] <=> p \in restarts["scalar"]
      /\ position \in restarts'["scalar"] <=> ScalarRestarts(restart)
  BY ScalarExtends
<1>4. IdealSound'
  <2>1. SUFFICES ASSUME NEW p \in Reached',
                        p = 0 \/ p - 1 \notin targetLinks
                              \/ targetStates[p] # targetStates[p - 1]
                 PROVE  p \in ideal'["scalar"]
    BY <1>2 DEF IdealSound
  <2>2. CASE p \in Reached
    BY <2>1, <2>2, IdealExtends DEF IInv, IdealSound
  <2>3. CASE p = position
    <3>1. position = 0 \/ TargetForced
      BY <2>1, <2>3 DEF TargetForced
    <3>2. IdealReasonOf(restart) # "continuation"
      BY <1>1, <3>1, ReasonsSay
    <3>3. QED
      BY <2>3, <3>2, IdealExtends
  <2>4. QED
    BY <1>3, <2>2, <2>3
<1>5. IdealIsCounterfactual'
  <2>1. SUFFICES ASSUME NEW p \in Reached'
                 PROVE
          /\ p \in ideal'["scalar"] => p \in restarts'["scalar"]
          /\ (p \in restarts'["scalar"] /\ p \notin ideal'["scalar"]) =>
               reasons'[p] \in SourceReasons
          /\ reasons'[p] \notin SourceReasons => idealReasons'[p] = reasons'[p]
    BY DEF IdealIsCounterfactual
  <2>2. CASE p \in Reached
    <3>1. /\ p \in ideal'["scalar"] <=> p \in ideal["scalar"]
          /\ p \in restarts'["scalar"] <=> p \in restarts["scalar"]
          /\ reasons'[p] = reasons[p] /\ idealReasons'[p] = idealReasons[p]
      BY <1>3, <2>2, IdealExtends
    <3>2. QED
      BY <2>2, <3>1 DEF IInv, IdealIsCounterfactual
  <2>3. CASE p = position
    <3>1. /\ p \in ideal'["scalar"] <=> IdealReasonOf(restart) # "continuation"
          /\ p \in restarts'["scalar"] <=> ScalarRestarts(restart)
          /\ reasons'[p] = ReasonOf(restart) /\ idealReasons'[p] = IdealReasonOf(restart)
      BY <1>3, <2>3, IdealExtends
    <3>2. /\ ReasonOf(restart) \notin SourceReasons =>
               IdealReasonOf(restart) = ReasonOf(restart)
          /\ IdealReasonOf(restart) # "continuation" => ScalarRestarts(restart)
      BY <1>1, ReasonsSay
    <3>3. QED
      BY <3>1, <3>2 DEF ScalarRestarts
  <2>4. QED
    BY <1>3, <2>2, <2>3
<1>6. QED
  BY <1>4, <1>5

\* Blocks stay pieces of history: the last one grows by the row after its last.
LEMMA BlocksStep ==
    ASSUME IInv, NEW restart \in Draws, NEW rank \in Draws, Sample(restart, rank)
    PROVE  BlocksAreHistory'
<1> USE BootstrapAssumption
<1>1. UNCHANGED <<sourceStates, sourceLinks, targetStates, targetLinks>>
  BY DEF Sample, inputs
<1>2. /\ position \in Nat
      /\ Reached' = Reached \cup {position} /\ position \notin Reached
      /\ \A k \in Reached : /\ indices'["scalar"][k] = indices["scalar"][k]
                            /\ k \in restarts'["scalar"] <=> k \in restarts["scalar"]
  BY ScalarExtends
<1>3. SUFFICES ASSUME NEW p \in Reached', NEW q \in Reached', p <= q,
                      \A k \in (p + 1)..q : k \notin restarts'["scalar"],
                      NEW first, first = indices'["scalar"][p]
               PROVE
        /\ indices'["scalar"][q] = first + (q - p)
        /\ \A k \in first..(first + (q - p)) : sourceStates[k] = targetStates[p]
        /\ \A k \in first..(first + (q - p) - 1) : k \in sourceLinks
        /\ \A k \in p..q : targetStates[k] = targetStates[p]
  BY <1>1 DEF BlocksAreHistory
<1>4. /\ p \in Nat /\ q \in Nat
      /\ Reached = 0..(position - 1)
      /\ q # position => p \in Reached /\ q \in Reached
  BY <1>2, <1>3 DEF Reached
<1>5. \A r \in Reached' : /\ indices'["scalar"][r] \in Rows
                          /\ sourceStates[indices'["scalar"][r]] = targetStates[r]
  BY <1>1, TraceSoundStep DEF TraceSound, Eligible
<1>6. first \in Int /\ sourceStates[first] = targetStates[p]
  BY <1>3, <1>5 DEF Rows
<1>7. CASE q # position
  <2>1. p \in Reached /\ q \in Reached /\ first = indices["scalar"][p]
        /\ indices'["scalar"][q] = indices["scalar"][q]
    BY <1>2, <1>3, <1>4, <1>7
  <2>2. \A k \in (p + 1)..q : k \notin restarts["scalar"]
    <3>1. \A k \in (p + 1)..q : k \in Reached
      <4>1. q <= position - 1
        BY <1>4, <2>1
      <4>2. (p + 1)..q \subseteq 0..(position - 1)
        BY <1>2, <1>4, <4>1
      <4>3. QED
        BY <1>4, <4>2
    <3>2. QED
      BY <1>2, <1>3, <3>1
  <2>3. QED
    BY <1>3, <2>1, <2>2 DEF IInv, BlocksAreHistory
<1>8. CASE q = position /\ p = position
  <2>1. q - p = 0 /\ first + (q - p) = first /\ first + (q - p) - 1 = first - 1
    BY <1>4, <1>6, <1>8
  <2>2. \A k \in first..first : k = first
    BY <1>6
  <2>3. \A k \in p..q : k = p
    BY <1>4, <1>8
  <2>4. first..(first - 1) = {}
    BY <1>6
  <2>5. QED
    BY <1>3, <1>6, <1>8, <2>1, <2>2, <2>3, <2>4
<1>9. CASE q = position /\ p < position
  <2> DEFINE r == position - 1
  <2>1. /\ p \in Reached /\ r \in Reached /\ p <= r /\ q - 1 = r /\ q > 0 /\ r \in Nat
        /\ q \in (p + 1)..q
    BY <1>4, <1>9
  <2>2. /\ first = indices["scalar"][p]
        /\ indices'["scalar"][r] = indices["scalar"][r]
    BY <1>2, <1>3, <2>1
  <2>3. /\ indices'["scalar"][q] = indices["scalar"][r] + 1
        /\ indices["scalar"][r] \in sourceLinks
        /\ targetStates[q] = targetStates[r]
    <3>1. q \notin restarts'["scalar"]
      BY <1>3, <2>1
    <3>2. QED
      BY <1>1, <2>1, <2>2, <3>1, TraceSoundStep DEF TraceSound
  <2>4. \A k \in (p + 1)..r : k \notin restarts["scalar"]
    <3>1. \A k \in (p + 1)..r : k \in Reached /\ k \in (p + 1)..q
      BY <1>4, <1>9, <2>1
    <3>2. QED
      BY <1>2, <1>3, <3>1
  <2> HIDE DEF r
  <2>5. /\ indices["scalar"][r] = first + (r - p)
        /\ \A k \in first..(first + (r - p)) : sourceStates[k] = targetStates[p]
        /\ \A k \in first..(first + (r - p) - 1) : k \in sourceLinks
        /\ \A k \in p..r : targetStates[k] = targetStates[p]
    BY <2>1, <2>2, <2>4 DEF IInv, BlocksAreHistory
  <2>6. r = q - 1
    BY <2>1
  <2>7. indices'["scalar"][q] = first + (q - p)
    BY <1>4, <1>6, <2>3, <2>5, <2>6
  <2>8. \A k \in p..q : targetStates[k] = targetStates[p]
    <3>1. targetStates[r] = targetStates[p]
      BY <1>4, <2>1, <2>5
    <3>2. \A k \in p..q : k \in p..r \/ k = q
      BY <1>4, <2>6
    <3>3. QED
      BY <2>3, <2>5, <3>1, <3>2
  <2>9. \A k \in first..(first + (q - p)) : sourceStates[k] = targetStates[p]
    <3>1. sourceStates[first + (q - p)] = targetStates[q] /\ targetStates[q] = targetStates[p]
      BY <1>3, <1>4, <1>5, <2>7, <2>8
    <3>2. \A k \in first..(first + (q - p)) :
            k \in first..(first + (r - p)) \/ k = first + (q - p)
      <4>1. first + (r - p) = (first + (q - p)) - 1 /\ first + (q - p) \in Int
        <5>1. q - p \in Int /\ r - p = (q - p) - 1
          BY <1>4, <2>6
        <5>2. \A m \in Int : first + (m - 1) = (first + m) - 1 /\ first + m \in Int
          BY <1>6
        <5>3. QED
          BY <5>1, <5>2
      <4>2. \A n \in Int : \A k \in first..n : k \in first..(n - 1) \/ k = n
        BY <1>6
      <4>3. QED
        BY <4>1, <4>2
    <3>3. QED
      BY <2>5, <3>1, <3>2
  <2>10. \A k \in first..(first + (q - p) - 1) : k \in sourceLinks
    <3>1. first + (r - p) \in sourceLinks
      BY <2>3, <2>5
    <3>2. \A k \in first..(first + (q - p) - 1) :
            k \in first..(first + (r - p) - 1) \/ k = first + (r - p)
      <4>1. first + (q - p) - 1 = first + (r - p) /\ first + (r - p) \in Int
        BY <1>4, <1>6, <2>6
      <4>2. \A n \in Int : \A k \in first..n : k \in first..(n - 1) \/ k = n
        BY <1>6
      <4>3. first + (r - p) - 1 = (first + (r - p)) - 1
        <5>1. r - p \in Int
          BY <1>4, <2>6
        <5>2. \A m \in Int : first + m - 1 = (first + m) - 1
          BY <1>6
        <5>3. QED
          BY <5>1, <5>2
      <4>4. QED
        BY <4>1, <4>2, <4>3
    <3>3. QED
      BY <2>5, <3>1, <3>2
  <2>11. QED
    BY <2>7, <2>8, <2>9, <2>10
<1>10. QED
  BY <1>3, <1>4, <1>7, <1>8, <1>9

\* Whatever is drawn, the invariant stays.
LEMMA NextIInv == IInv /\ [Next]_vars => IInv'
<1> SUFFICES ASSUME IInv, [Next]_vars PROVE IInv'
  OBVIOUS
<1>1. ASSUME NEW restart \in Draws, NEW rank \in Draws, Sample(restart, rank)
      PROVE  IInv'
  BY <1>1, TypeStep, TwinsStep, TraceSoundStep, IdealStep, BlocksStep DEF IInv
<1>2. CASE UNCHANGED vars
  <2> USE <1>2 DEF vars, inputs, trace, Reached
  <2>1. TypeOK' /\ Supported' /\ RestartsReached'
    BY DEF IInv, TypeOK, Supported, Eligible, RestartsReached
  <2>2. TwinsAgree'
    BY DEF IInv, TwinsAgree, Running, OneState
  <2>3. TraceSound' /\ IdealSound'
    BY DEF IInv, TraceSound, IdealSound, Eligible
  <2>4. BlocksAreHistory' /\ IdealIsCounterfactual'
    BY DEF IInv, BlocksAreHistory, IdealIsCounterfactual
  <2>5. QED
    BY <2>1, <2>2, <2>3, <2>4 DEF IInv
<1>3. QED
  BY <1>1, <1>2 DEF Next

\* The invariant holds for every history, target and geometry.
THEOREM Invariant == Spec => []IInv
  BY InitIInv, NextIInv, PTL DEF Spec

-----------------------------------------------------------------------------
(* What the traces promise *)

\* Every row that is taken is a row of the history (np.empty is never read).
THEOREM TypeCorrect == Spec => []TypeOK
<1>1. IInv => TypeOK
  BY DEF IInv
<1>2. QED
  BY <1>1, Invariant, PTL

\* The six implementations, and both forms of the ideal trace, are one algorithm.
THEOREM TwinsAlwaysAgree == Spec => []TwinsAgree
<1>1. IInv => TwinsAgree
  BY DEF IInv
<1>2. QED
  BY <1>1, Invariant, PTL

\* Within a block the path is history as it was.
THEOREM BlocksAlwaysHistory == Spec => []BlocksAreHistory
<1>1. IInv => BlocksAreHistory
  BY DEF IInv
<1>2. QED
  BY <1>1, Invariant, PTL

\* What the conditioned trace restarts beyond the ideal one, the history forced.
THEOREM IdealAlwaysCounterfactual == Spec => []IdealIsCounterfactual
<1>1. IInv => IdealIsCounterfactual
  BY DEF IInv
<1>2. QED
  BY <1>1, Invariant, PTL

\* The reader of realized blocks accepts every trace.
LEMMA ReaderFollows == IInv => ReaderAccepts
<1> USE BootstrapAssumption
<1> SUFFICES ASSUME IInv PROVE ReaderAccepts
  OBVIOUS
<1>0. Reached \subseteq Nat
  BY DEF IInv, TypeOK, Reached
<1>1. ASSUME NEW p \in Reached, p \notin restarts["scalar"]
      PROVE  /\ p # 0
             /\ indices["scalar"][p] = indices["scalar"][p - 1] + 1
             /\ indices["scalar"][p - 1] \in sourceLinks
             /\ p - 1 \in targetLinks /\ targetStates[p] = targetStates[p - 1]
  <2>1. p \in Nat
    BY <1>0
  <2>2. p # 0
    BY <1>1 DEF IInv, TraceSound
  <2>3. QED
    BY <1>1, <2>1, <2>2 DEF IInv, TraceSound
<1>2. AcceptsTarget(restarts["scalar"])
  BY <1>1 DEF AcceptsTarget, TargetBoundaries
<1>3. AcceptsTarget(ideal["scalar"])
  BY DEF IInv, IdealSound, AcceptsTarget, TargetBoundaries
<1>4. AcceptsSource("scalar")
  <2>1. \A p \in Reached : indices["scalar"][p] \in 0..(NumRows - 1)
    BY DEF IInv, TraceSound, Eligible, Rows
  <2>2. QED
    BY <1>1, <2>1 DEF AcceptsSource, Discontinuous
<1>5. QED
  BY <1>2, <1>3, <1>4 DEF ReaderAccepts

\* The reader of realized blocks accepts every trace, wherever it stands.
THEOREM ReaderAlwaysAccepts == Spec => []ReaderAccepts
  BY ReaderFollows, Invariant, PTL

\* The support diagnostic counts the rows from which a block can reach L, and no
\* other: the history cuts short no block from one of these.
LEMMA SupportFollows == IInv => SupportIsHonest
<1> USE BootstrapAssumption
<1>1. SUFFICES ASSUME IInv, NEW p \in Reached, NEW q \in Reached,
                      p < q, q < p + MeanLength,
                      \A k \in (p + 1)..(q - 1) : k \notin restarts["scalar"],
                      NEW first, first = indices["scalar"][p]
               PROVE
      /\ first \in EligibleStarts(targetStates[p]) => reasons[q] \notin SourceReasons
      /\ (q = p + MeanLength - 1 /\ q \notin restarts["scalar"]) =>
           first \in EligibleStarts(targetStates[p])
  BY DEF SupportIsHonest
<1>2. /\ p \in Nat /\ q \in Nat /\ q > 0 /\ q - 1 \in Reached /\ p <= q - 1
      /\ first \in Rows /\ first \in Nat
  BY <1>1 DEF IInv, TypeOK, TraceSound, Eligible, Reached, Rows
<1>3. indices["scalar"][q - 1] = first + ((q - 1) - p)
  BY <1>1, <1>2 DEF IInv, BlocksAreHistory
<1>4. \A k \in p..(q - 1) : targetStates[k] = targetStates[p]
  BY <1>1, <1>2 DEF IInv, BlocksAreHistory
<1>5. ASSUME first \in EligibleStarts(targetStates[p]), reasons[q] \in SourceReasons
      PROVE  FALSE
  <2> DEFINE next == indices["scalar"][q - 1] + 1
  <2>1. next = first + (q - p) /\ next - 1 = first + (q - p) - 1
    BY <1>2, <1>3
  <2>2. /\ targetStates[q] = targetStates[q - 1]
        /\ next >= NumRows \/ next - 1 \notin sourceLinks
                           \/ sourceStates[next] # targetStates[q]
    BY <1>1, <1>2, <1>5 DEF IInv, TraceSound
  <2>3. targetStates[q] = targetStates[p]
    BY <1>2, <1>4, <2>2
  <2>4. /\ first <= NumRows - MeanLength
        /\ \A k \in first..(first + MeanLength - 1) : sourceStates[k] = targetStates[p]
        /\ \A k \in first..(first + MeanLength - 2) : k \in sourceLinks
    BY <1>5 DEF EligibleStarts
  <2> HIDE DEF next
  <2>5. /\ next < NumRows
        /\ next \in first..(first + MeanLength - 1)
        /\ next - 1 \in first..(first + MeanLength - 2)
    BY <1>1, <1>2, <2>1, <2>4
  <2>6. QED
    BY <2>2, <2>3, <2>4, <2>5
<1>6. ASSUME q = p + MeanLength - 1, q \notin restarts["scalar"]
      PROVE  first \in EligibleStarts(targetStates[p])
  <2>1. \A k \in (p + 1)..q : k \notin restarts["scalar"]
    <3>1. \A k \in (p + 1)..q : k \in (p + 1)..(q - 1) \/ k = q
      BY <1>2
    <3>2. QED
      BY <1>1, <1>6, <3>1
  <2>2. /\ indices["scalar"][q] = first + (q - p)
        /\ \A k \in first..(first + (q - p)) : sourceStates[k] = targetStates[p]
        /\ \A k \in first..(first + (q - p) - 1) : k \in sourceLinks
    BY <1>1, <1>2, <2>1 DEF IInv, BlocksAreHistory
  <2>3. indices["scalar"][q] \in Rows
    BY <1>1 DEF IInv, TraceSound, Eligible
  <2>4. /\ first + (q - p) = first + MeanLength - 1
        /\ first + (q - p) - 1 = first + MeanLength - 2
    BY <1>2, <1>6
  <2>5. first \in 0..(NumRows - MeanLength)
    BY <1>2, <2>2, <2>3, <2>4 DEF Rows
  <2>6. QED
    BY <2>2, <2>4, <2>5 DEF EligibleStarts
<1>7. QED
  BY <1>5, <1>6

\* So the support diagnostic is right of every trace, wherever it stands.
THEOREM SupportAlwaysHonest == Spec => []SupportIsHonest
  BY SupportFollows, Invariant, PTL

-----------------------------------------------------------------------------
(* Sums *)

\* The sums of the first numbers, up to the n-th, on top of a base.
SumsTo(law, base, n, f) == f = [i \in 0..n |-> IF i = 0 THEN base ELSE f[i - 1] + law[i]]

\* There are such sums for every n: of the least n without, the last could be added.
LEMMA SumsExist ==
  ASSUME NEW law, NEW base, NEW n \in Nat
  PROVE  \E f : SumsTo(law, base, n, f)
<1> DEFINE Bad == {k \in Nat : ~\E f : SumsTo(law, base, k, f)}
<1> SUFFICES ASSUME Bad # {} PROVE FALSE
  OBVIOUS
<1>1. PICK k \in Bad : \A l \in Bad : k <= l
  BY LeastNumber
<1>2. k # 0
  <2>1. SumsTo(law, base, 0, [i \in 0..0 |-> base])
    BY DEF SumsTo
  <2> QED
    BY <2>1
<1>3. k - 1 \in Nat /\ k - 1 \notin Bad
  BY <1>1, <1>2
<1>4. PICK f : SumsTo(law, base, k - 1, f)
  BY <1>3
<1> DEFINE g == [i \in 0..k |-> IF i < k THEN f[i] ELSE f[i - 1] + law[i]]
<1>5. \A i \in 0..(k - 1) : f[i] = IF i = 0 THEN base ELSE f[i - 1] + law[i]
  BY <1>4 DEF SumsTo
<1>6. ASSUME NEW i \in 0..k PROVE g[i] = IF i = 0 THEN base ELSE g[i - 1] + law[i]
  <2>1. CASE i = 0
    BY <1>2, <1>3, <1>5, <2>1
  <2>2. CASE i # 0
    <3>1. i - 1 \in 0..(k - 1) /\ g[i - 1] = f[i - 1]
      BY <1>3, <2>2
    <3>2. g[i] = f[i - 1] + law[i]
      <4>1. CASE i = k
        BY <1>3, <4>1
      <4>2. CASE i # k
        <5>1. i \in 0..(k - 1) /\ i < k
          BY <1>3, <4>2
        <5>2. f[i] = f[i - 1] + law[i]
          BY <1>5, <2>2, <5>1
        <5> QED
          BY <5>1, <5>2
      <4> QED
        BY <4>1, <4>2
    <3> QED
      BY <2>2, <3>1, <3>2
  <2> QED
    BY <2>1, <2>2
<1>7. SumsTo(law, base, k, g)
  BY <1>6, Zenon DEF SumsTo
<1> QED
  BY <1>1, <1>7

\* Sums of natural numbers grow.
LEMMA SumsGrow ==
  ASSUME NEW n \in Nat, NEW law, \A i \in 1..n : law[i] \in Nat,
         NEW base \in Nat, NEW f, SumsTo(law, base, n, f)
  PROVE  /\ f[0] = base
         /\ \A i \in 0..n : f[i] \in Nat
         /\ \A i \in 1..n : f[i] = f[i - 1] + law[i]
         /\ \A i, j \in 0..n : i <= j => f[i] <= f[j]
<1>1. \A i \in 0..n : f[i] = IF i = 0 THEN base ELSE f[i - 1] + law[i]
  BY DEF SumsTo
<1>2. f[0] = base /\ \A i \in 1..n : f[i] = f[i - 1] + law[i]
  BY <1>1
<1> DEFINE Good(j) == f[j] \in Nat /\ \A i \in 0..j : f[i] <= f[j]
           Bad == {j \in 0..n : ~Good(j)}
<1>3. Bad = {}
  <2> SUFFICES ASSUME Bad # {} PROVE FALSE
    OBVIOUS
  <2>1. PICK j \in Bad : \A l \in Bad : j <= l
    <3>1. Bad \in SUBSET Nat
      OBVIOUS
    <3> QED
      BY <3>1, LeastNumber
  <2>2. j \in 0..n /\ ~Good(j)
    BY <2>1
  <2>3. j # 0
    BY <1>2, <2>2
  <2>4. j \in 1..n /\ j - 1 \in 0..n
    BY <2>2, <2>3
  <2>5. Good(j - 1)
    BY <2>1, <2>4
  <2>6. f[j] = f[j - 1] + law[j] /\ law[j] \in Nat
    BY <1>2, <2>4
  <2>7. \A i \in 0..j : i \in 0..(j - 1) \/ i = j
    BY <2>2
  <2>8. f[j] \in Nat /\ f[j - 1] <= f[j]
    BY <2>5, <2>6
  <2>9. \A i \in 0..j : f[i] <= f[j]
    <3> TAKE i \in 0..j
    <3>1. CASE i = j
      BY <2>8, <3>1
    <3>2. CASE i \in 0..(j - 1)
      <4>1. f[i] <= f[j - 1] /\ f[i] \in Nat
        <5>1. i \in 0..n /\ ~(j <= i)
          BY <2>2, <3>2
        <5>2. Good(i)
          BY <2>1, <5>1
        <5> QED
          BY <2>5, <3>2, <5>2
      <4> QED
        BY <2>5, <2>8, <4>1
    <3> QED
      BY <2>7, <3>1, <3>2
  <2> QED
    BY <2>2, <2>8, <2>9
<1>4. \A j \in 0..n : Good(j)
  BY <1>3
<1>5. ASSUME NEW i \in 0..n, NEW j \in 0..n, i <= j PROVE f[i] <= f[j]
  <2>1. i \in 0..j
    BY <1>5
  <2> QED
    BY <1>4, <2>1
<1> QED
  BY <1>2, <1>4, <1>5

\* What the first lengths come to.
LEMMA TotalIs ==
  ASSUME NEW lengths, Len(lengths) \in Nat, \A i \in 1..Len(lengths) : lengths[i] \in Nat
  PROVE  /\ TotalOf(lengths, 0) = 0
         /\ \A k \in 0..Len(lengths) : TotalOf(lengths, k) \in Nat
         /\ \A k \in 1..Len(lengths) :
              TotalOf(lengths, k) = TotalOf(lengths, k - 1) + lengths[k]
         /\ \A i, j \in 0..Len(lengths) : i <= j => TotalOf(lengths, i) <= TotalOf(lengths, j)
<1> DEFINE n == Len(lengths)
           sum == CHOOSE f : f = [i \in 0..n |-> IF i = 0 THEN 0 ELSE f[i - 1] + lengths[i]]
<1>1. \E f : f = [i \in 0..n |-> IF i = 0 THEN 0 ELSE f[i - 1] + lengths[i]]
  <2>1. \E f : SumsTo(lengths, 0, n, f)
    BY SumsExist
  <2> QED
    BY <2>1, Zenon DEF SumsTo
<1>2. SumsTo(lengths, 0, n, sum)
  BY <1>1, Zenon DEF SumsTo
<1>3. \A k : TotalOf(lengths, k) = sum[k]
  BY DEF TotalOf
<1> HIDE DEF sum
<1>4. /\ sum[0] = 0 /\ \A i \in 0..n : sum[i] \in Nat
      /\ \A i \in 1..n : sum[i] = sum[i - 1] + lengths[i]
      /\ \A i, j \in 0..n : i <= j => sum[i] <= sum[j]
  BY <1>2, SumsGrow
<1> QED
  BY <1>3, <1>4

\* The cumulative probabilities of a law.
LEMMA CumulativeIs ==
  ASSUME NEW law \in [States -> 0..Grid]
  PROVE  /\ \A s \in States : Cumulative(law)[s] \in Nat
         /\ \A s, t \in States : s <= t => Cumulative(law)[s] <= Cumulative(law)[t]
<1> USE BootstrapAssumption
<1> DEFINE n == NumStates - 1
           sum == CHOOSE f : f = [s \in States |-> IF s = 0 THEN law[0] ELSE f[s - 1] + law[s]]
<1>1. n \in Nat /\ States = 0..n
  BY DEF States
<1>2. \E f : f = [s \in States |-> IF s = 0 THEN law[0] ELSE f[s - 1] + law[s]]
  <2>1. \E f : SumsTo(law, law[0], n, f)
    BY <1>1, SumsExist
  <2>2. \E f : SumsTo(law, law[0], n, f) /\ 0..n = States
    BY <1>1, <2>1
  <2> HIDE DEF n
  <2> QED
    BY <2>2, Zenon DEF SumsTo
<1>3. SumsTo(law, law[0], n, sum)
  BY <1>1, <1>2, Zenon DEF SumsTo
<1>4. Cumulative(law) = sum
  BY DEF Cumulative
<1>5. law[0] \in Nat /\ \A i \in 1..n : law[i] \in Nat
  BY <1>1
<1> HIDE DEF sum, n
<1>6. /\ \A i \in 0..n : sum[i] \in Nat
      /\ \A i, j \in 0..n : i <= j => sum[i] <= sum[j]
  BY <1>1, <1>3, <1>5, SumsGrow
<1> QED
  BY <1>1, <1>4, <1>6

-----------------------------------------------------------------------------
(* The categorical draw *)

\* The four hands draw the same state, and one of the model.
LEMMA SameDraw ==
  ASSUME NEW law \in [States -> 0..Grid], NEW u \in Draws
  PROVE  /\ CategoricalIndex(law, u) \in States
         /\ \A c \in Chains : Drawn(c, law, u) = CategoricalIndex(law, u)
<1> USE BootstrapAssumption
<1> DEFINE C == Cumulative(law)
           N == NumStates
           above == {s \in States : u < C[s]}
           searched == {s \in 0..(N - 2) : u < C[s]}
           below == {s \in States : u >= C[s]}
           sorted == {s \in States : u >= (IF s = N - 1 THEN Grid ELSE C[s])}
<1>1. /\ \A s \in States : C[s] \in Nat
      /\ \A s, t \in States : s <= t => C[s] <= C[t]
  BY CumulativeIs
<1>2. /\ N \in Nat \ {0} /\ States = 0..(N - 1) /\ u \in Nat /\ u < Grid /\ Grid \in Nat
      /\ \A s \in 0..(N - 2) : s \in States
  BY DEF States, Draws
<1>3. /\ CategoricalIndex(law, u) =
           IF above = {} THEN N - 1 ELSE CHOOSE s \in above : \A t \in above : s <= t
      /\ CategoricalColumns(law, u) =
           IF Cardinality(below) < N - 1 THEN Cardinality(below) ELSE N - 1
      /\ SearchSorted(law, u) = Cardinality(sorted)
      /\ CategoricalFromUniform(law, u) =
           IF searched = {} THEN N - 1 ELSE CHOOSE s \in searched : \A t \in searched : s <= t
  BY DEF CategoricalIndex, CategoricalColumns, SearchSorted, CategoricalFromUniform, Clip
<1>4. \A a \in 0..N : Cardinality(0..(a - 1)) = a
  <2> TAKE a \in 0..N
  <2>1. CASE a = 0
    <3>1. 0..(a - 1) = {}
      BY <2>1
    <3> QED
      BY <2>1, <3>1, FS_EmptySet
  <2>2. CASE a # 0
    BY <2>2, <1>2, FS_Interval
  <2> QED
    BY <2>1, <2>2
<1> HIDE DEF C, N
<1>5. CASE above = {}
  <2>1. below = 0..(N - 1)
    BY <1>1, <1>2, <1>5
  <2>2. sorted = 0..((N - 1) - 1)
    BY <1>1, <1>2, <1>5
  <2>3. searched = {}
    BY <1>2, <1>5
  <2>4. Cardinality(below) = N /\ Cardinality(sorted) = N - 1
    <3>1. N \in 0..N /\ N - 1 \in 0..N
      BY <1>2
    <3> QED
      BY <1>4, <2>1, <2>2, <3>1, Zenon
  <2> QED
    BY <1>2, <1>3, <1>5, <2>3, <2>4 DEF Chains, Drawn
<1>6. CASE above # {}
  <2>1. PICK a \in above : \A t \in above : a <= t
    <3>1. above \in SUBSET Nat
      BY <1>2
    <3> QED
      BY <1>6, <3>1, LeastNumber
  <2>2. a \in 0..(N - 1) /\ u < C[a]
    BY <1>2, <2>1
  <2>3. CategoricalIndex(law, u) = a
    <3>1. \A s \in above : (\A t \in above : s <= t) => s = a
      BY <1>2, <2>1
    <3> QED
      BY <1>3, <1>6, <2>1, <3>1
  <2>4. \A s \in States : u < C[s] <=> a <= s
    BY <1>1, <1>2, <2>1, <2>2
  <2>5. below = 0..(a - 1)
    BY <1>1, <1>2, <2>2, <2>4
  <2>6. sorted = 0..(a - 1)
    BY <1>1, <1>2, <2>2, <2>4
  <2>7. Cardinality(below) = a /\ Cardinality(sorted) = a
    <3>1. a \in 0..N
      BY <1>2, <2>2
    <3> QED
      BY <1>4, <2>5, <2>6, <3>1, Zenon
  <2>8. CategoricalFromUniform(law, u) = a
    <3>1. CASE a = N - 1
      <4>1. searched = {}
        BY <1>2, <2>4, <3>1
      <4> QED
        BY <1>3, <3>1, <4>1
    <3>2. CASE a # N - 1
      <4>1. a \in searched /\ \A t \in searched : a <= t
        BY <1>2, <2>2, <2>4, <3>2
      <4>2. \A s \in searched : (\A t \in searched : s <= t) => s = a
        BY <1>2, <4>1
      <4> QED
        BY <1>3, <4>1, <4>2
    <3> QED
      BY <3>1, <3>2
  <2>9. CategoricalColumns(law, u) = a /\ SearchSorted(law, u) = a
    BY <1>2, <1>3, <2>2, <2>7
  <2>10. a \in States
    BY <1>2, <2>2
  <2> QED
    BY <2>3, <2>8, <2>9, <2>10 DEF Chains, Drawn
<1> QED
  BY <1>5, <1>6

-----------------------------------------------------------------------------
(* Sequences that are flattened *)

\* A function on the first n numbers is a sequence.
LEMMA IsSeq ==
  ASSUME NEW T, NEW n \in Nat, NEW f \in [1..n -> T]
  PROVE  f \in Seq(T) /\ Len(f) = n
<1>1. f \in Seq(T)
  BY SeqDef, Zenon
<1>2. DOMAIN f = 1..n
  OBVIOUS
<1> QED
  BY <1>1, <1>2

\* What a concatenation holds.
LEMMA ConcatAt ==
  ASSUME NEW S, NEW F \in Seq(S), NEW E \in Seq(S)
  PROVE  /\ F \o E \in Seq(S) /\ Len(F \o E) = Len(F) + Len(E)
         /\ \A i \in 1..Len(F) : (F \o E)[i] = F[i]
         /\ \A n \in 1..Len(E) : (F \o E)[Len(F) + n] = E[n]
<1> DEFINE G == F \o E
<1>1. /\ G \in Seq(S) /\ Len(G) = Len(F) + Len(E) /\ Len(F) \in Nat /\ Len(E) \in Nat
      /\ \A i \in 1..(Len(F) + Len(E)) : G[i] = IF i <= Len(F) THEN F[i] ELSE E[i - Len(F)]
  BY ConcatProperties
<1> HIDE DEF G
<1>2. \A i \in 1..Len(F) : G[i] = F[i]
  BY <1>1
<1>3. ASSUME NEW n \in 1..Len(E) PROVE G[Len(F) + n] = E[n]
  <2>1. Len(F) + n \in 1..(Len(F) + Len(E)) /\ ~(Len(F) + n <= Len(F))
        /\ (Len(F) + n) - Len(F) = n
    BY <1>1
  <2> QED
    BY <1>1, <2>1
<1> QED
  BY <1>1, <1>2, <1>3 DEF G

\* The sequences that are flattened up to the i-th.
Flattens(s, n, f) == f = [i \in 1..n |-> IF i = 1 THEN s[i] ELSE f[i - 1] \o s[i]]

\* There is one for every length.
LEMMA FlattensExists ==
  ASSUME NEW s, NEW n \in Nat
  PROVE  \E f : Flattens(s, n, f)
<1> DEFINE Bad == {k \in Nat : ~\E f : Flattens(s, k, f)}
<1> SUFFICES ASSUME Bad # {} PROVE FALSE
  OBVIOUS
<1>1. PICK k \in Bad : \A l \in Bad : k <= l
  BY LeastNumber
<1>2. k # 0
  <2>1. Flattens(s, 0, [i \in 1..0 |-> s])
    BY DEF Flattens
  <2> QED
    BY <2>1
<1>3. k - 1 \in Nat /\ k - 1 \notin Bad
  BY <1>1, <1>2
<1>4. PICK f : Flattens(s, k - 1, f)
  BY <1>3
<1> DEFINE g == [i \in 1..k |-> IF i < k THEN f[i]
                               ELSE IF i = 1 THEN s[i] ELSE f[i - 1] \o s[i]]
<1>5. \A i \in 1..(k - 1) : f[i] = IF i = 1 THEN s[i] ELSE f[i - 1] \o s[i]
  BY <1>4 DEF Flattens
<1>6. ASSUME NEW i \in 1..k PROVE g[i] = IF i = 1 THEN s[i] ELSE g[i - 1] \o s[i]
  <2>1. CASE i = 1
    <3>1. k > 1 => 1 \in 1..(k - 1)
      BY <1>1
    <3> QED
      BY <2>1, <1>5, <3>1
  <2>2. CASE i # 1
    <3>1. i - 1 \in 1..k /\ i - 1 < k /\ g[i - 1] = f[i - 1]
      BY <1>1, <2>2
    <3>2. CASE i = k
      <4>1. ~(i < k)
        BY <1>1, <3>2
      <4>2. g[i] = f[i - 1] \o s[i]
        BY <2>2, <4>1
      <4> QED
        BY <2>2, <3>1, <4>2
    <3>3. CASE i < k
      <4>1. i \in 1..(k - 1)
        BY <1>1, <3>3
      <4>2. f[i] = f[i - 1] \o s[i]
        BY <4>1, <2>2, <1>5
      <4> QED
        BY <2>2, <3>1, <3>3, <4>2
    <3> QED
      BY <1>1, <3>2, <3>3
  <2> QED
    BY <2>1, <2>2
<1>7. Flattens(s, k, g)
  BY <1>6, Zenon DEF Flattens
<1> QED
  BY <1>1, <1>7

\* FlattenSeq is the last of them.
LEMMA FlattenSeqIs ==
  ASSUME NEW s, Len(s) \in Nat \ {0}
  PROVE  \E f : Flattens(s, Len(s), f) /\ FlattenSeq(s) = f[Len(s)]
<1> DEFINE F == CHOOSE f : f = [i \in 1..Len(s) |-> IF i = 1 THEN s[i] ELSE f[i - 1] \o s[i]]
<1>1. \E f : f = [i \in 1..Len(s) |-> IF i = 1 THEN s[i] ELSE f[i - 1] \o s[i]]
  BY FlattensExists DEF Flattens
<1>2. Flattens(s, Len(s), F)
  BY <1>1, Zenon DEF Flattens
<1>3. FlattenSeq(s) = F[Len(s)]
  BY DEF FlattenSeq
<1> QED
  BY <1>2, <1>3

\* A place within a part that ends before c is before c.
LEMMA Within ==
  ASSUME NEW a \in Nat, NEW b \in Nat, NEW c \in Nat, NEW e \in Nat, e = a + b, e <= c,
         NEW n \in 1..b
  PROVE  a + n \in 1..c
  OBVIOUS

\* In a flattened sequence the l-th begins after the lengths of those before it.
AreLengths(lengths, s) ==
    Len(lengths) = Len(s) /\ \A k \in 1..Len(s) : lengths[k] = Len(s[k])

LaidOut(S, s, lengths) ==
    /\ FlattenSeq(s) \in Seq(S)
    /\ Len(FlattenSeq(s)) = TotalOf(lengths, Len(s))
    /\ \A l \in 1..Len(s) : \A n \in 1..Len(s[l]) :
         FlattenSeq(s)[TotalOf(lengths, l - 1) + n] = s[l][n]

LEMMA FlattenAt ==
  ASSUME NEW S, NEW s \in Seq(Seq(S)), s # << >>, NEW lengths, AreLengths(lengths, s)
  PROVE  LaidOut(S, s, lengths)
<1>0. Len(lengths) = Len(s) /\ \A k \in 1..Len(s) : lengths[k] = Len(s[k])
  BY DEF AreLengths
<1> DEFINE T(k) == TotalOf(lengths, k)
<1>1. Len(s) \in Nat \ {0} /\ \A k \in 1..Len(s) : s[k] \in Seq(S) /\ Len(s[k]) \in Nat
  OBVIOUS
<1>2. /\ T(0) = 0 /\ \A k \in 0..Len(s) : T(k) \in Nat
      /\ \A k \in 1..Len(s) : T(k) = T(k - 1) + Len(s[k])
      /\ \A i, j \in 0..Len(s) : i <= j => T(i) <= T(j)
  BY <1>0, <1>1, TotalIs
<1> HIDE DEF T
<1>3. PICK f : Flattens(s, Len(s), f) /\ FlattenSeq(s) = f[Len(s)]
  BY <1>1, FlattenSeqIs
<1>4. \A i \in 1..Len(s) : f[i] = IF i = 1 THEN s[i] ELSE f[i - 1] \o s[i]
  BY <1>3 DEF Flattens
<1> DEFINE Good(k) == /\ f[k] \in Seq(S) /\ Len(f[k]) = T(k)
                      /\ \A l \in 1..k : \A n \in 1..Len(s[l]) : f[k][T(l - 1) + n] = s[l][n]
           Bad == {k \in 1..Len(s) : ~Good(k)}
<1>5. Bad = {}
  <2> SUFFICES ASSUME Bad # {} PROVE FALSE
    OBVIOUS
  <2>1. PICK k \in Bad : \A l \in Bad : k <= l
    <3>1. Bad \in SUBSET Nat
      OBVIOUS
    <3> QED
      BY <3>1, LeastNumber
  <2>2. k \in 1..Len(s) /\ ~Good(k)
    BY <2>1
  <2>3. CASE k = 1
    <3>1. f[1] = s[1] /\ s[1] \in Seq(S) /\ 1 \in 1..Len(s)
      BY <1>1, <1>4
    <3>2. T(1) = Len(s[1]) /\ T(1 - 1) = 0
      BY <1>1, <1>2, <3>1
    <3>3. \A l \in 1..1 : l = 1
      OBVIOUS
    <3>4. \A l \in 1..1 : \A n \in 1..Len(s[l]) : f[1][T(l - 1) + n] = s[l][n]
      BY <1>1, <3>1, <3>2, <3>3
    <3> QED
      BY <2>2, <2>3, <3>1, <3>2, <3>4
  <2>4. CASE k # 1
    <3>1. k - 1 \in 1..Len(s) /\ k - 1 \in Nat /\ k \in 1..Len(s)
      BY <1>1, <2>2, <2>4
    <3>2. Good(k - 1)
      <4>1. k - 1 \notin Bad
        <5> HIDE DEF Bad
        <5>1. k \in Nat /\ ~(k <= k - 1)
          BY <3>1
        <5> QED
          BY <2>1, <5>1
      <4> HIDE DEF Good
      <4> QED
        BY <3>1, <4>1
    <3>3. f[k] = f[k - 1] \o s[k] /\ s[k] \in Seq(S)
      BY <1>1, <1>4, <2>2, <2>4
    <3> DEFINE F == f[k - 1]
    <3>4. F \in Seq(S) /\ Len(F) = T(k - 1) /\ T(k - 1) \in Nat /\ Len(s[k]) \in Nat
      BY <1>1, <1>2, <3>1, <3>2
    <3>5. /\ f[k] \in Seq(S) /\ Len(f[k]) = T(k - 1) + Len(s[k])
          /\ \A i \in 1..T(k - 1) : f[k][i] = F[i]
          /\ \A n \in 1..Len(s[k]) : f[k][T(k - 1) + n] = s[k][n]
      <4> HIDE DEF F
      <4>1. /\ F \o s[k] \in Seq(S) /\ Len(F \o s[k]) = Len(F) + Len(s[k])
            /\ \A i \in 1..Len(F) : (F \o s[k])[i] = F[i]
            /\ \A n \in 1..Len(s[k]) : (F \o s[k])[Len(F) + n] = s[k][n]
        <5>1. F \in Seq(S) /\ s[k] \in Seq(S)
          BY <3>3, <3>4
        <5> HIDE DEF F
        <5> QED
          BY <5>1, ConcatAt
      <4>2. Len(F) = T(k - 1)
        BY <3>4
      <4>3. f[k] = F \o s[k]
        BY <3>3, Zenon DEF F
      <4> HIDE DEF F
      <4> QED
        BY <4>1, <4>2, <4>3, Zenon
    <3>6. Len(f[k]) = T(k)
      BY <1>2, <3>1, <3>5
    <3>7. ASSUME NEW l \in 1..k, NEW n \in 1..Len(s[l])
          PROVE  f[k][T(l - 1) + n] = s[l][n]
      <4>1. CASE l = k
        BY <3>5, <4>1
      <4>2. CASE l # k
        <5>1. l \in 1..(k - 1) /\ l \in 1..Len(s) /\ l - 1 \in 0..Len(s) /\ l \in 0..Len(s)
              /\ k - 1 \in 0..Len(s) /\ l <= k - 1
          <6>1. Len(s) \in Nat
            BY <1>1
          <6>2. k \in 1..Len(s)
            BY <2>2
          <6> QED
            BY <4>2, <6>1, <6>2
        <5>2. T(l) = T(l - 1) + Len(s[l]) /\ T(l) <= T(k - 1)
              /\ T(l) \in Nat /\ T(l - 1) \in Nat /\ Len(s[l]) \in Nat
          BY <1>1, <1>2, <5>1
        <5>3. T(l - 1) + n \in 1..T(k - 1)
          <6>1. T(k - 1) \in Nat
            BY <3>4
          <6> QED
            BY <5>2, <6>1, Within
        <5>4. F[T(l - 1) + n] = s[l][n]
          BY <3>2, <5>1
        <5> QED
          BY <3>5, <5>3, <5>4
      <4> QED
        BY <4>1, <4>2
    <3> QED
      BY <2>2, <3>5, <3>6, <3>7
  <2> QED
    BY <2>3, <2>4
<1>6. Good(Len(s))
  BY <1>1, <1>5
<1> QED
  BY <1>3, <1>6 DEF T, LaidOut

-----------------------------------------------------------------------------
(* The expansion of the months *)

\* Each month is repeated as often as it has sessions.
LEMMA RepeatIs ==
  ASSUME NEW S, NEW states \in Seq(S), states # << >>,
         geometry.sessions \in Nat \ {0}
  PROVE  /\ Repeat(states) \in Seq(S)
         /\ Len(Repeat(states)) = Len(states) * geometry.sessions
         /\ \A m \in 1..Len(states) : \A n \in 1..geometry.sessions :
              Repeat(states)[(m - 1) * geometry.sessions + n] = states[m]
<1> DEFINE size == geometry.sessions
           s == [m \in DOMAIN states |-> [k \in 1..size |-> states[m]]]
           lengths == [m \in 1..Len(states) |-> size]
<1>1. /\ Len(states) \in Nat \ {0} /\ DOMAIN states = 1..Len(states)
      /\ \A m \in 1..Len(states) : states[m] \in S
  OBVIOUS
<1>2. Repeat(states) = FlattenSeq(s)
  BY DEF Repeat
<1>3. \A m \in 1..Len(states) : s[m] \in Seq(S) /\ Len(s[m]) = size
  <2> TAKE m \in 1..Len(states)
  <2>1. s[m] = [k \in 1..size |-> states[m]] /\ s[m] \in [1..size -> S]
    BY <1>1
  <2> QED
    BY <2>1, IsSeq
<1>4. s \in [1..Len(states) -> Seq(S)] /\ Len(states) \in Nat
  BY <1>1, <1>3
<1> HIDE DEF s
<1>5. s \in Seq(Seq(S)) /\ Len(s) = Len(states)
  BY <1>4, IsSeq
<1>6. lengths \in [1..Len(states) -> Nat] /\ \A m \in 1..Len(states) : lengths[m] = size
  OBVIOUS
<1> HIDE DEF lengths
<1>7. Len(lengths) = Len(states)
  BY <1>4, <1>6, IsSeq
<1>8. s # << >>
  BY <1>1, <1>5
<1>9. /\ FlattenSeq(s) \in Seq(S)
      /\ Len(FlattenSeq(s)) = TotalOf(lengths, Len(s))
      /\ \A l \in 1..Len(s) : \A n \in 1..Len(s[l]) :
           FlattenSeq(s)[TotalOf(lengths, l - 1) + n] = s[l][n]
  <2>1. AreLengths(lengths, s)
    BY <1>3, <1>5, <1>6, <1>7 DEF AreLengths
  <2>2. LaidOut(S, s, lengths)
    BY <1>5, <1>8, <2>1, FlattenAt
  <2> QED
    BY <2>2 DEF LaidOut
<1>10. \A k \in 0..Len(states) : TotalOf(lengths, k) = k * size
  <2>1. /\ TotalOf(lengths, 0) = 0
        /\ \A k \in 1..Len(states) : TotalOf(lengths, k) = TotalOf(lengths, k - 1) + size
    <3>1. Len(lengths) \in Nat /\ \A i \in 1..Len(lengths) : lengths[i] \in Nat
      BY <1>1, <1>6, <1>7
    <3> QED
      BY <1>6, <1>7, <3>1, TotalIs
  <2> DEFINE Bad == {k \in 0..Len(states) : TotalOf(lengths, k) # k * size}
  <2> SUFFICES ASSUME Bad # {} PROVE FALSE
    OBVIOUS
  <2>2. PICK k \in Bad : \A l \in Bad : k <= l
    <3>1. Bad \in SUBSET Nat
      OBVIOUS
    <3> QED
      BY <3>1, LeastNumber
  <2>3. k # 0
    BY <2>1, <2>2
  <2>4. k \in 1..Len(states) /\ k - 1 \in 0..Len(states)
    BY <2>2, <2>3
  <2>5. TotalOf(lengths, k - 1) = (k - 1) * size
    BY <2>2, <2>4
  <2>6. (k - 1) * size + size = k * size
    BY <2>4
  <2> QED
    BY <2>1, <2>2, <2>4, <2>5, <2>6
<1>11. ASSUME NEW m \in 1..Len(states), NEW n \in 1..size
       PROVE  FlattenSeq(s)[(m - 1) * size + n] = states[m]
  <2>1. TotalOf(lengths, m - 1) = (m - 1) * size
    <3>1. m - 1 \in 0..Len(states)
      BY <1>1
    <3> QED
      BY <1>10, <3>1
  <2>2. s[m][n] = states[m]
    BY <1>1 DEF s
  <2>3. m \in 1..Len(s) /\ n \in 1..Len(s[m])
    BY <1>3, <1>5
  <2> QED
    BY <1>9, <2>1, <2>2, <2>3
<1>12. Len(FlattenSeq(s)) = Len(states) * size
  <2>1. Len(states) \in 0..Len(states)
    BY <1>1
  <2> QED
    BY <1>5, <1>9, <1>10, <2>1
<1> QED
  BY <1>2, <1>9, <1>11, <1>12

\* Division with a remainder.
LEMMA Divides ==
  ASSUME NEW n \in Nat, NEW size \in Nat \ {0}
  PROVE  /\ n \div size \in Nat
         /\ (n \div size) * size <= n
         /\ n < (n \div size) * size + size
  OBVIOUS

\* The geometry of a path.
LEMMA GeometryIs ==
  ASSUME geometry \in Geometries
  PROVE  LET K == Len(geometry.days) IN
         /\ K \in Nat \ {0} /\ Len(geometry.months) = K /\ DOMAIN geometry.days = 1..K
         /\ DOMAIN geometry.months = 1..K
         /\ geometry.sessions \in Nat \ {0}
         /\ \A k \in 1..K : /\ geometry.months[k] \in Nat \ {0} /\ geometry.days[k] \in Nat \ {0}
                            /\ geometry.days[k] <= geometry.months[k] * geometry.sessions
         /\ TotalOf(geometry.days, 0) = 0 /\ TotalOf(geometry.days, K) = NumPositions
         /\ \A k \in 0..K : TotalOf(geometry.days, k) \in Nat
         /\ \A k \in 1..K :
              TotalOf(geometry.days, k) = TotalOf(geometry.days, k - 1) + geometry.days[k]
         /\ TotalOf(geometry.months, 0) = 0 /\ TotalOf(geometry.months, K) = NumMonths
         /\ \A k \in 0..K : TotalOf(geometry.months, k) \in Nat
         /\ \A k \in 1..K :
              TotalOf(geometry.months, k) = TotalOf(geometry.months, k - 1) + geometry.months[k]
         /\ \A i, j \in 0..K : i <= j => TotalOf(geometry.months, i) <= TotalOf(geometry.months, j)
<1> DEFINE K == Len(geometry.days)
<1>1. TerminalTruncation(geometry) /\ Total(geometry.days) = NumPositions
  BY PathAssumption
<1>2. /\ geometry.months \in Seq(Nat \ {0}) /\ geometry.days \in Seq(Nat \ {0})
      /\ geometry.sessions \in Nat \ {0} /\ Len(geometry.months) = K
      /\ \A k \in DOMAIN geometry.months :
           geometry.days[k] <= geometry.months[k] * geometry.sessions
  <2>1. /\ geometry.months \in Seq(Nat \ {0}) /\ geometry.days \in Seq(Nat \ {0})
        /\ geometry.sessions \in Nat \ {0} /\ Len(geometry.months) = K
        /\ \A k \in DOMAIN geometry.months : geometry.days[k] \in
             ((geometry.months[k] - 1) * geometry.sessions + 1)
               ..(geometry.months[k] * geometry.sessions)
    BY <1>1 DEF TerminalTruncation
  <2> QED
    BY <2>1
<1>3. /\ K \in Nat /\ DOMAIN geometry.days = 1..K /\ DOMAIN geometry.months = 1..K
      /\ \A k \in 1..K : geometry.months[k] \in Nat \ {0} /\ geometry.days[k] \in Nat \ {0}
  BY <1>2
<1>4. /\ TotalOf(geometry.days, 0) = 0
      /\ \A k \in 0..K : TotalOf(geometry.days, k) \in Nat
      /\ \A k \in 1..K :
           TotalOf(geometry.days, k) = TotalOf(geometry.days, k - 1) + geometry.days[k]
  BY <1>3, TotalIs
<1>5. /\ TotalOf(geometry.months, 0) = 0
      /\ \A k \in 0..K : TotalOf(geometry.months, k) \in Nat
      /\ \A k \in 1..K :
           TotalOf(geometry.months, k) = TotalOf(geometry.months, k - 1) + geometry.months[k]
      /\ \A i, j \in 0..K : i <= j => TotalOf(geometry.months, i) <= TotalOf(geometry.months, j)
  BY <1>2, <1>3, TotalIs
<1>6. TotalOf(geometry.days, K) = NumPositions /\ TotalOf(geometry.months, K) = NumMonths
  BY <1>1, <1>2 DEF Total, NumMonths
<1>7. K # 0
  BY <1>4, <1>6, BootstrapAssumption
<1> QED
  BY <1>2, <1>3, <1>4, <1>5, <1>6, <1>7

\* A position lies in the segment that is chosen for it.
LEMMA SegmentIs ==
  ASSUME geometry \in Geometries, NEW p \in Positions
  PROVE  /\ SegmentAt(p) \in 1..Len(geometry.days)
         /\ TotalOf(geometry.days, SegmentAt(p) - 1) <= p
         /\ p < TotalOf(geometry.days, SegmentAt(p))
<1> DEFINE K == Len(geometry.days)
           T(k) == TotalOf(geometry.days, k)
           Beyond == {k \in 0..K : p < T(k)}
<1>1. /\ K \in Nat \ {0} /\ DOMAIN geometry.days = 1..K /\ T(0) = 0 /\ T(K) = NumPositions
      /\ \A k \in 0..K : T(k) \in Nat
  BY GeometryIs
<1>2. p \in Nat /\ p < NumPositions
  BY BootstrapAssumption DEF Positions
<1> HIDE DEF K, T
<1>3. Beyond \in SUBSET Nat /\ K \in Beyond
  BY <1>1, <1>2
<1>4. PICK k \in Beyond : \A l \in Beyond : k <= l
  BY <1>3, LeastNumber
<1>5. k \in 1..K /\ k - 1 \in 0..K /\ k - 1 \notin Beyond
  BY <1>1, <1>2, <1>4
<1>6. T(k - 1) <= p /\ p < T(k)
  BY <1>1, <1>2, <1>4, <1>5
<1>7. \E j \in DOMAIN geometry.days : T(j - 1) <= p /\ p < T(j)
  BY <1>1, <1>5, <1>6
<1>8. SegmentAt(p) \in DOMAIN geometry.days /\ T(SegmentAt(p) - 1) <= p /\ p < T(SegmentAt(p))
  BY <1>7 DEF SegmentAt, T
<1> QED
  BY <1>1, <1>8 DEF T, K

\* Both expansions put the same month at a position.
LEMMA SameExpansion ==
  ASSUME geometry \in Geometries, NEW S,
         \A m \in 0..(NumMonths - 1) : monthly["scalar"][m] \in S, NEW p \in Positions
  PROVE  /\ MonthAt(p) \in 0..(NumMonths - 1)
         /\ ExpandedStates[p + 1] = monthly["scalar"][MonthAt(p)]
<1> DEFINE K == Len(geometry.days)
           D(k) == TotalOf(geometry.days, k)
           M(k) == TotalOf(geometry.months, k)
           size == geometry.sessions
           months == geometry.months
           days == geometry.days
           k == SegmentAt(p)
           t == p - D(k - 1)
           q == t \div size
           s == [j \in DOMAIN months |-> SubSeq(Repeat(MonthsOf(j)), 1, days[j])]
<1>1. /\ K \in Nat \ {0} /\ Len(months) = K /\ DOMAIN months = 1..K /\ size \in Nat \ {0}
      /\ \A j \in 1..K : /\ months[j] \in Nat \ {0} /\ days[j] \in Nat \ {0}
                         /\ days[j] <= months[j] * size
      /\ \A j \in 0..K : D(j) \in Nat /\ M(j) \in Nat
      /\ \A j \in 1..K : D(j) = D(j - 1) + days[j] /\ M(j) = M(j - 1) + months[j]
      /\ M(K) = NumMonths
      /\ \A i, j \in 0..K : i <= j => M(i) <= M(j)
  BY GeometryIs
<1>2. k \in 1..K /\ D(k - 1) <= p /\ p < D(k) /\ p \in Nat /\ {k - 1, k, K} \subseteq 0..K
  <2>1. k \in 1..K /\ D(k - 1) <= p /\ p < D(k) /\ p \in Nat
    BY SegmentIs DEF Positions
  <2>2. K \in Nat
    BY <1>1
  <2> HIDE DEF k, K
  <2> QED
    BY <2>1, <2>2
<1>3. MonthAt(p) = M(k - 1) + q
  BY DEF MonthAt
<1>4. ExpandedStates = FlattenSeq(s)
  BY DEF ExpandedStates
<1>5. \A j \in 1..K : /\ MonthsOf(j) = [m \in 1..months[j] |-> monthly["scalar"][M(j - 1) + m - 1]]
                      /\ s[j] = SubSeq(Repeat(MonthsOf(j)), 1, days[j])
  BY <1>1 DEF MonthsOf
<1>6. DOMAIN s = 1..K /\ s = [j \in 1..K |-> s[j]]
  BY <1>1
<1> HIDE DEF K, D, M, size, months, days, k, t, q, s
<1>7. ASSUME NEW j \in 1..K
      PROVE  /\ MonthsOf(j) \in Seq(S) /\ Len(MonthsOf(j)) = months[j] /\ MonthsOf(j) # << >>
             /\ \A m \in 1..months[j] : MonthsOf(j)[m] = monthly["scalar"][M(j - 1) + m - 1]
  <2>1. /\ j - 1 \in 0..K /\ j \in 0..K /\ M(j) <= NumMonths /\ M(j - 1) \in Nat /\ M(j) \in Nat
        /\ M(j) = M(j - 1) + months[j] /\ months[j] \in Nat \ {0} /\ NumMonths \in Nat
    <3>1. j - 1 \in 0..K /\ j \in 0..K /\ K \in 0..K
      BY <1>1
    <3> QED
      BY <1>1, <3>1
  <2>2. \A m \in 1..months[j] : M(j - 1) + m - 1 \in 0..(NumMonths - 1)
    BY <2>1
  <2>3. MonthsOf(j) \in [1..months[j] -> S]
    BY <1>5, <2>2
  <2>4. MonthsOf(j) \in Seq(S) /\ Len(MonthsOf(j)) = months[j]
    BY <2>1, <2>3, IsSeq
  <2> QED
    BY <1>5, <2>1, <2>4
<1>8. ASSUME NEW j \in 1..K
      PROVE  /\ Repeat(MonthsOf(j)) \in Seq(S) /\ Len(Repeat(MonthsOf(j))) = months[j] * size
             /\ \A m \in 1..months[j] : \A n \in 1..size :
                  Repeat(MonthsOf(j))[(m - 1) * size + n] = MonthsOf(j)[m]
  <2>1. MonthsOf(j) \in Seq(S) /\ MonthsOf(j) # << >> /\ geometry.sessions \in Nat \ {0}
    BY <1>1, <1>7 DEF size
  <2>2. /\ Repeat(MonthsOf(j)) \in Seq(S)
        /\ Len(Repeat(MonthsOf(j))) = Len(MonthsOf(j)) * size
        /\ \A m \in 1..Len(MonthsOf(j)) : \A n \in 1..size :
             Repeat(MonthsOf(j))[(m - 1) * size + n] = MonthsOf(j)[m]
    BY <2>1, RepeatIs, Zenon DEF size
  <2>3. Len(MonthsOf(j)) = months[j]
    BY <1>7
  <2> QED
    BY <2>2, <2>3, Zenon
<1>9. ASSUME NEW j \in 1..K
      PROVE  /\ s[j] \in Seq(S) /\ Len(s[j]) = days[j]
             /\ \A n \in 1..days[j] : s[j][n] = Repeat(MonthsOf(j))[n]
  <2> DEFINE R == Repeat(MonthsOf(j))
  <2>0. R \in Seq(S) /\ Len(R) = months[j] * size /\ s[j] = SubSeq(R, 1, days[j])
    BY <1>5, <1>8
  <2>1. R \in Seq(S) /\ Len(R) \in Nat /\ days[j] \in Nat \ {0} /\ days[j] <= Len(R)
        /\ s[j] = SubSeq(R, 1, days[j])
    <3> HIDE DEF R
    <3>1. days[j] \in Nat \ {0} /\ months[j] \in Nat /\ size \in Nat
          /\ days[j] <= months[j] * size
      BY <1>1
    <3>2. months[j] * size \in Nat
      BY <3>1
    <3> QED
      BY <2>0, <3>1, <3>2
  <2> HIDE DEF R
  <2>2. s[j] \in Seq(S) /\ Len(s[j]) = days[j] /\ \A n \in 1..days[j] : s[j][n] = R[n]
    BY <2>1
  <2> QED
    BY <2>2 DEF R
<1>10. s \in Seq(Seq(S)) /\ Len(s) = K /\ s # << >>
  <2>1. s \in [1..K -> Seq(S)] /\ K \in Nat
    BY <1>1, <1>6, <1>9
  <2>2. s \in Seq(Seq(S)) /\ Len(s) = K
    BY <2>1, IsSeq
  <2> QED
    BY <1>1, <2>2
<1>11. \A n \in 1..days[k] : FlattenSeq(s)[D(k - 1) + n] = s[k][n]
  <2>1. AreLengths(days, s)
    BY <1>9, <1>10 DEF K, days, AreLengths
  <2>2. /\ FlattenSeq(s) \in Seq(S)
        /\ Len(FlattenSeq(s)) = TotalOf(days, Len(s))
        /\ \A l \in 1..Len(s) : \A n \in 1..Len(s[l]) :
             FlattenSeq(s)[TotalOf(days, l - 1) + n] = s[l][n]
    <3>1. LaidOut(S, s, days)
      BY <1>10, <2>1, FlattenAt
    <3> QED
      BY <3>1 DEF LaidOut
  <2> QED
    BY <1>2, <1>9, <1>10, <2>2 DEF D, days
<1>12. t \in Nat /\ t < days[k] /\ p + 1 = D(k - 1) + (t + 1) /\ D(k - 1) \in Nat
  <2>1. k - 1 \in 0..K /\ k \in 0..K
    BY <1>2
  <2>2. D(k - 1) \in Nat /\ D(k) = D(k - 1) + days[k] /\ days[k] \in Nat
    BY <1>1, <1>2, <2>1
  <2> QED
    BY <1>2, <2>2 DEF t
<1>13. q \in Nat /\ q * size <= t /\ t < q * size + size
  BY <1>1, <1>12, Divides DEF q
<1>14. q < months[k]
  <2>1. /\ months[k] \in Nat /\ size \in Nat \ {0} /\ days[k] \in Nat
        /\ days[k] <= months[k] * size
    BY <1>1, <1>2
  <2> SUFFICES ASSUME months[k] <= q PROVE FALSE
    BY <1>13, <2>1
  <2>2. PICK d \in Nat : q = months[k] + d
    <3>1. q - months[k] \in Nat /\ q = months[k] + (q - months[k])
      BY <1>13, <2>1
    <3> QED
      BY <3>1
  <2>3. (months[k] + d) * size = months[k] * size + d * size
    BY <2>1
  <2>4. d * size \in Nat /\ months[k] * size \in Nat
    BY <2>1
  <2> QED
    BY <1>12, <1>13, <2>1, <2>2, <2>3, <2>4
<1>15. MonthAt(p) \in 0..(NumMonths - 1)
  <2>1. k - 1 \in 0..K /\ k \in 0..K /\ K \in 0..K
    BY <1>2
  <2>2. /\ M(k - 1) \in Nat /\ M(k) = M(k - 1) + months[k] /\ M(k) <= NumMonths
        /\ NumMonths \in Nat /\ months[k] \in Nat
    BY <1>1, <1>2, <2>1
  <2> QED
    BY <1>3, <1>13, <1>14, <2>2
<1>16. ExpandedStates[p + 1] = Repeat(MonthsOf(k))[t + 1]
  <2>1. t + 1 \in 1..days[k]
    <3>1. days[k] \in Nat
      BY <1>1, <1>2
    <3> QED
      BY <1>12, <3>1
  <2>2. ExpandedStates[p + 1] = s[k][t + 1]
    BY <1>4, <1>11, <1>12, <2>1
  <2> QED
    BY <1>2, <1>9, <2>1, <2>2
<1>17. Repeat(MonthsOf(k))[t + 1] = MonthsOf(k)[q + 1]
  <2> DEFINE n == t - q * size + 1
             x == q * size
  <2>1. x \in Nat /\ ((q + 1) - 1) * size = x
    BY <1>1, <1>13
  <2> HIDE DEF x
  <2>2. t - x + 1 \in 1..size /\ q + 1 \in 1..months[k] /\ x + (t - x + 1) = t + 1
    BY <1>1, <1>2, <1>12, <1>13, <1>14, <2>1 DEF x
  <2>3. Repeat(MonthsOf(k))[((q + 1) - 1) * size + (t - x + 1)] = MonthsOf(k)[q + 1]
    BY <1>2, <1>8, <2>2
  <2> QED
    BY <2>1, <2>2, <2>3
<1>18. MonthsOf(k)[q + 1] = monthly["scalar"][M(k - 1) + q]
  <2>1. q + 1 \in 1..months[k] /\ M(k - 1) \in Nat /\ M(k - 1) + (q + 1) - 1 = M(k - 1) + q
    <3>1. M(k - 1) \in Nat /\ months[k] \in Nat
      BY <1>1, <1>2
    <3> QED
      BY <1>13, <1>14, <3>1
  <2>2. MonthsOf(k)[q + 1] = monthly["scalar"][M(k - 1) + (q + 1) - 1]
    BY <1>2, <1>7, <2>1
  <2> QED
    BY <2>1, <2>2
<1> QED
  BY <1>3, <1>15, <1>16, <1>17, <1>18
-----------------------------------------------------------------------------
(* A path from its first draw *)

\* The trace waits for the chain, with a history that supports every state.
ChainFirst ==
    stage = "chain" => Init /\ \A s \in States : Eligible(s) # {}

PathInv ==
    /\ geometry \in Geometries /\ stage \in {"chain", "trace"}
    /\ month \in 0..NumMonths
    /\ monthly \in [Chains -> [0..(NumMonths - 1) -> States \cup {-1}]]
    /\ ChainFirst /\ PathsAgree

\* Of as many months as there are in the geometry, at least one.
LEMMA MonthsAre ==
    ASSUME geometry \in Geometries
    PROVE  NumMonths \in Nat \ {0}
<1> DEFINE K == Len(geometry.days)
           M(k) == TotalOf(geometry.months, k)
<1>1. /\ K \in Nat \ {0} /\ M(K) = NumMonths /\ \A k \in 0..K : M(k) \in Nat
      /\ \A k \in 1..K : M(k) = M(k - 1) + geometry.months[k]
      /\ \A k \in 1..K : geometry.months[k] \in Nat \ {0}
  BY GeometryIs
<1> HIDE DEF K, M
<1>2. K \in 1..K /\ K \in 0..K /\ K - 1 \in 0..K
  BY <1>1
<1>3. M(K) = M(K - 1) + geometry.months[K] /\ M(K - 1) \in Nat /\ geometry.months[K] \in Nat \ {0}
  BY <1>1, <1>2
<1> QED
  BY <1>1, <1>3

\* A path starts where a trace may start: its target is of the one state that the
\* chain has not replaced yet, or that there is.
LEMMA PathStarts == PathInit => Init /\ PathInv
<1> USE BootstrapAssumption
<1> SUFFICES ASSUME PathInit PROVE Init /\ PathInv
  OBVIOUS
<1>1. geometry \in Geometries /\ NumMonths \in Nat \ {0} /\ month = 0
  BY MonthsAre DEF PathInit
<1>2. 0 \in States /\ Rows # {} /\ 0 \in Rows
  BY DEF States, Rows
<1>3. sourceStates \in [Rows -> States] /\ targetStates \in [Positions -> States]
  BY <1>2 DEF PathInit
<1>4. targetLinks \in SUBSET (0..(NumPositions - 2))
  BY DEF PathInit
<1>5. Supported
  <2>1. CASE \A s \in States : Eligible(s) # {}
    <3>1. \A r \in Rows : \A s \in 0..sourceStates[r] : s \in States
      <4> SUFFICES ASSUME NEW r \in Rows, NEW s \in 0..sourceStates[r] PROVE s \in States
        OBVIOUS
      <4>1. sourceStates[r] \in 0..(NumStates - 1)
        BY <1>3 DEF States
      <4> QED
        BY <4>1 DEF States
    <3> QED
      BY <2>1, <3>1, <1>3 DEF Supported
  <2>2. CASE OneState
    <3>1. 0 \in Eligible(0) /\ \A s \in 0..0 : s = 0
      BY <1>2, <2>2 DEF OneState, Eligible
    <3>2. \A r \in Rows : sourceStates[r] = 0
      BY <2>2 DEF OneState
    <3>3. \A p \in Positions : targetStates[p] = 0
      BY <2>2 DEF OneState
    <3> QED
      BY <3>1, <3>2, <3>3 DEF Supported
  <2> QED
    BY <2>1, <2>2 DEF PathInit
<1>6. Init
  BY <1>3, <1>4, <1>5 DEF PathInit, Init
<1>7. monthly \in [Chains -> [0..(NumMonths - 1) -> States \cup {-1}]]
  <2> HIDE DEF NumMonths
  <2> QED
    BY DEF PathInit
<1>8. PathsAgree
  <2>1. \A c \in Chains : monthly[c] = monthly["scalar"]
    <3> HIDE DEF NumMonths
    <3> QED
      BY DEF PathInit, Chains
  <2>2. 0..(month - 1) = {} /\ month # NumMonths
    BY <1>1
  <2> QED
    BY <2>1, <2>2 DEF PathsAgree
<1>9. ChainFirst /\ stage \in {"chain", "trace"}
  BY <1>6 DEF ChainFirst, PathInit, OneState
<1>10. month \in 0..NumMonths
  BY <1>1
<1> QED
  BY <1>1, <1>6, <1>7, <1>8, <1>9, <1>10 DEF PathInv

\* The law of the next month: each hand that follows has the same one.
LEMMA SameLaw ==
    ASSUME PathInv, month < NumMonths, NEW c \in Chains, Follows(c)
    PROVE  LawOf(c) = LawOf("scalar") /\ LawOf("scalar") \in [States -> 0..Grid]
<1>1. geometry \in Geometries /\ month \in 0..NumMonths /\ NumMonths \in Nat \ {0}
  BY MonthsAre DEF PathInv
<1>2. monthly[c] = monthly["scalar"] /\ \A m \in 0..(month - 1) : monthly["scalar"][m] \in States
  BY DEF PathInv, PathsAgree
<1>3. CASE month \in SegmentStarts
  BY <1>3, PathAssumption DEF LawOf
<1>4. CASE month \notin SegmentStarts
  <2>1. month # 0
    <3>1. TotalOf(geometry.months, 0) = 0 /\ Len(geometry.months) \in Nat \ {0}
      BY <1>1, GeometryIs
    <3>2. 0 \in 0..(Len(geometry.months) - 1)
      BY <3>1
    <3> QED
      BY <1>4, <3>1, <3>2 DEF SegmentStarts
  <2>2. month - 1 \in 0..(month - 1)
    BY <1>1, <2>1
  <2> QED
    BY <1>2, <1>4, <2>2, PathAssumption DEF LawOf
<1> QED
  BY <1>3, <1>4

\* A month of the chain.
LEMMA DrawKeeps ==
    ASSUME PathInv, NEW u \in Draws, DrawState(u)
    PROVE  PathInv'
<1> DEFINE drawn == CategoricalIndex(LawOf("scalar"), u)
<1>1. /\ geometry \in Geometries /\ NumMonths \in Nat \ {0} /\ month \in 0..(NumMonths - 1)
      /\ geometry' = geometry /\ NumMonths' = NumMonths /\ month' = month + 1
      /\ stage = "chain" /\ stage' = "chain"
  BY MonthsAre DEF PathInv, DrawState, NumMonths
<1>2. "scalar" \in Chains /\ Follows("scalar")
  BY DEF Chains, Follows
<1>3. drawn \in States /\ \A c \in Chains : Follows(c) => Drawn(c, LawOf(c), u) = drawn
  <2>1. LawOf("scalar") \in [States -> 0..Grid]
        /\ \A c \in Chains : Follows(c) => LawOf(c) = LawOf("scalar")
    BY <1>1, <1>2, SameLaw DEF DrawState
  <2>2. drawn \in States /\ \A c \in Chains : Drawn(c, LawOf("scalar"), u) = drawn
    BY <2>1, SameDraw
  <2> QED
    BY <2>1, <2>2
<1> HIDE DEF drawn
<1>4. monthly' = [c \in Chains |->
          IF Follows(c) THEN [monthly[c] EXCEPT ![month] = drawn] ELSE monthly[c]]
  BY <1>3 DEF DrawState
<1>5. /\ \A c \in Chains : Follows(c) => monthly[c] = monthly["scalar"]
      /\ \A m \in 0..(month - 1) : monthly["scalar"][m] \in States
      /\ monthly \in [Chains -> [0..(NumMonths - 1) -> States \cup {-1}]]
  BY DEF PathInv, PathsAgree
<1>6. monthly' \in [Chains -> [0..(NumMonths - 1) -> States \cup {-1}]]
  <2> HIDE DEF NumMonths, Chains, States
  <2> QED
    BY <1>3, <1>4, <1>5
<1>7. \A c \in Chains : Follows(c) => monthly'[c] = monthly'["scalar"]
  BY <1>2, <1>4, <1>5
<1>8. \A m \in 0..month : monthly'["scalar"][m] \in States
  <2> SUFFICES ASSUME NEW m \in 0..month PROVE monthly'["scalar"][m] \in States
    OBVIOUS
  <2>1. monthly'["scalar"] = [monthly["scalar"] EXCEPT ![month] = drawn]
    BY <1>2, <1>4
  <2>2. m \in 0..(NumMonths - 1) /\ (m # month => m \in 0..(month - 1))
    BY <1>1
  <2>3. monthly["scalar"] \in [0..(NumMonths - 1) -> States \cup {-1}]
    BY <1>2, <1>5
  <2> QED
    BY <1>3, <1>5, <2>1, <2>2, <2>3
<1>9. PathsAgree'
  <2>1. \A c \in Chains : Follows(c)' = Follows(c)
    BY <1>1 DEF Follows
  <2>2. 0..(month' - 1) = 0..month /\ stage' # "trace"
    BY <1>1
  <2> QED
    BY <1>7, <1>8, <2>1, <2>2 DEF PathsAgree
<1>10. ChainFirst'
  <2>1. Init /\ \A s \in States : Eligible(s) # {}
    BY <1>1 DEF PathInv, ChainFirst
  <2>2. UNCHANGED vars
    BY DEF DrawState
  <2> QED
    BY <2>1, <2>2 DEF ChainFirst, Init, Supported, Eligible, Fresh, vars, inputs, trace
<1>11. month' \in 0..NumMonths' /\ stage' \in {"chain", "trace"}
  BY <1>1
<1> QED
  BY <1>1, <1>6, <1>9, <1>10, <1>11 DEF PathInv

\* The expansion gives a trace its target, and it is the one that repetition gives.
LEMMA ExpandStarts ==
    ASSUME PathInv, Expand
    PROVE  PathInv' /\ Init'
<1> USE BootstrapAssumption
<1>1. /\ geometry \in Geometries /\ NumMonths \in Nat \ {0} /\ month = NumMonths
      /\ UNCHANGED <<geometry, month, monthly, sourceStates, sourceLinks, trace>>
      /\ stage = "chain" /\ stage' = "trace"
      /\ targetStates' = [p \in Positions |-> monthly["matrix"][MonthAt(p)]]
      /\ targetLinks' = SegmentLinks
  BY MonthsAre DEF PathInv, Expand
<1>2. monthly["matrix"] = monthly["scalar"]
  BY DEF PathInv, PathsAgree, Follows, Chains
<1>3. \A m \in 0..(NumMonths - 1) : monthly["scalar"][m] \in States
  BY <1>1 DEF PathInv, PathsAgree
<1>4. \A p \in Positions : /\ monthly["scalar"][MonthAt(p)] \in States
                           /\ ExpandedStates[p + 1] = monthly["scalar"][MonthAt(p)]
  BY <1>1, <1>3, SameExpansion
<1>5. ExpandedStates' = ExpandedStates
  BY <1>1 DEF ExpandedStates, Repeat, MonthsOf
<1>6. /\ \A p \in Positions : targetStates'[p] = ExpandedStates'[p + 1]
      /\ targetStates' \in [Positions -> States]
  BY <1>1, <1>2, <1>4, <1>5
<1>7. PathsAgree'
  <2>1. /\ \A c \in Chains : Follows(c)' = Follows(c)
        /\ \A c \in Chains : Follows(c) => monthly[c] = monthly["scalar"]
        /\ \A m \in 0..(month - 1) : monthly["scalar"][m] \in States
    BY <1>1 DEF Follows, PathInv, PathsAgree
  <2> QED
    BY <1>1, <1>6, <2>1 DEF PathsAgree
<1>8. PathInv'
  <2>1. month' \in 0..NumMonths' /\ NumMonths' = NumMonths
    BY <1>1 DEF NumMonths
  <2> QED
    BY <1>1, <1>7, <2>1 DEF PathInv, ChainFirst
<1>9. Init /\ \A s \in States : Eligible(s) # {}
  BY <1>1 DEF PathInv, ChainFirst
<1>10. Supported'
  <2>1. \A r \in Rows : \A s \in 0..sourceStates[r] : s \in States
    <3> SUFFICES ASSUME NEW r \in Rows, NEW s \in 0..sourceStates[r] PROVE s \in States
      OBVIOUS
    <3>1. sourceStates[r] \in 0..(NumStates - 1)
      BY <1>9 DEF Init, States
    <3> QED
      BY <3>1 DEF States
  <2> QED
    BY <1>1, <1>6, <1>9, <2>1 DEF Supported, Eligible
<1>11. Fresh'
  BY <1>1, <1>9 DEF Init, Fresh, trace
<1>12. targetLinks' \in SUBSET (0..(NumPositions - 2))
  BY <1>1 DEF SegmentLinks
<1> QED
  BY <1>1, <1>6, <1>8, <1>9, <1>10, <1>11, <1>12 DEF Init

\* Sampling reads the path and leaves it.
LEMMA SampleKeepsPath ==
    ASSUME PathInv, UNCHANGED <<chain, inputs>>, stage = "trace" \/ UNCHANGED trace
    PROVE  PathInv'
<1>1. UNCHANGED <<geometry, stage, month, monthly, sourceStates, targetStates>>
  BY DEF chain, inputs
<1>2. NumMonths' = NumMonths /\ ExpandedStates' = ExpandedStates
      /\ \A c \in Chains : Follows(c)' = Follows(c)
  BY <1>1 DEF NumMonths, ExpandedStates, Repeat, MonthsOf, Follows
<1>3. PathsAgree'
  <2>1. /\ \A c \in Chains : Follows(c) => monthly[c] = monthly["scalar"]
        /\ \A m \in 0..(month - 1) : monthly["scalar"][m] \in States
        /\ (stage = "trace" /\ month = NumMonths) =>
             \A p \in Positions : targetStates[p] = ExpandedStates[p + 1]
    BY DEF PathInv, PathsAgree
  <2> QED
    BY <1>1, <1>2, <2>1 DEF PathsAgree
<1>4. ChainFirst'
  <2>1. CASE stage = "trace"
    BY <1>1, <2>1 DEF ChainFirst
  <2>2. CASE UNCHANGED trace
    BY <2>2, <1>1 DEF PathInv, ChainFirst, Init, Supported, Eligible, Fresh, inputs, trace
  <2> QED
    BY <2>1, <2>2
<1> QED
  BY <1>1, <1>2, <1>3, <1>4 DEF PathInv

\* A path keeps both invariants: that of the chain, and that of the trace, which
\* starts when its target is there.
LEMMA PathStep == PathInv /\ IInv /\ [PathNext]_<<vars, chain>> => PathInv' /\ IInv'
<1> SUFFICES ASSUME PathInv, IInv, [PathNext]_<<vars, chain>> PROVE PathInv' /\ IInv'
  OBVIOUS
<1>1. ASSUME NEW u \in Draws, DrawState(u) PROVE PathInv' /\ IInv'
  <2>1. UNCHANGED vars
    BY <1>1 DEF DrawState
  <2> QED
    BY <1>1, <2>1, DrawKeeps, NextIInv
<1>2. ASSUME Expand PROVE PathInv' /\ IInv'
  <2>1. PathInv' /\ Init'
    BY <1>2, ExpandStarts
  <2>2. Init' => IInv'
    BY InitIInv, PTL
  <2> QED
    BY <2>1, <2>2
<1>3. ASSUME NEW restart \in Draws, NEW rank \in Draws, SampleRow(restart, rank)
      PROVE  PathInv' /\ IInv'
  <2>1. Next /\ UNCHANGED <<chain, inputs>> /\ stage = "trace"
    BY <1>3 DEF SampleRow, Next, Sample
  <2> QED
    BY <2>1, NextIInv, SampleKeepsPath
<1>4. ASSUME UNCHANGED <<vars, chain>> PROVE PathInv' /\ IInv'
  <2>1. UNCHANGED vars /\ UNCHANGED <<chain, inputs>> /\ UNCHANGED trace
    BY <1>4 DEF vars
  <2> QED
    BY <2>1, NextIInv, SampleKeepsPath
<1> QED
  BY <1>1, <1>2, <1>3, <1>4 DEF PathNext

LEMMA PathInvHolds == PathSpec => [](PathInv /\ IInv)
<1>1. PathInit => PathInv /\ IInv
  BY PathStarts, InitIInv
<1> QED
  BY <1>1, PathStep, PTL DEF PathSpec

\* The four hands draw one chain, and its two expansions are one target, for any
\* accepted law, geometry and draws.
THEOREM PathsAlwaysAgree == PathSpec => []PathsAgree
<1>1. PathInv => PathsAgree
  BY DEF PathInv
<1> QED
  BY <1>1, PathInvHolds, PTL

\* What was proved of a trace with a given target holds of the trace of a path whose
\* target the chain has given: no expansion leaves what a trace may start from.
THEOREM PathsAreTraces ==
    PathSpec => [](/\ TypeOK /\ TwinsAgree /\ BlocksAreHistory
                   /\ IdealIsCounterfactual /\ ReaderAccepts /\ SupportIsHonest)
<1>1. IInv => TypeOK /\ TwinsAgree /\ BlocksAreHistory /\ IdealIsCounterfactual
  BY DEF IInv
<1> QED
  BY <1>1, ReaderFollows, SupportFollows, PathInvHolds, PTL

-----------------------------------------------------------------------------
(* The bridge: the order of its work *)

TierA(d) == Item("tierA", d, 0)
Batch(d, n) == Item("batch", d, n)
Look(d, n) == Item("look", d, n)
Event(n) == Item("event", "none", n)

\* The last look of a process, and whether it passes.
LastLook(d) == Len(science.looks[d])
Passes(d) == science.looks[d][LastLook(d)] = "pass_above_tail"
Looked(d) == Exists(Look(d, LastLook(d)))
TiersPass == \A d \in Dgps : science.tierA[d]

BenchPassed == Exists(Bench) /\ disk[Bench].passed

\* What the program has done before it comes to a file, or to its action.
Ready(f) ==
    /\ f.kind \in {"batch", "tierA", "look"} => BenchPassed
    /\ f.kind \in {"batch", "tierA"} /\ f.dgp = "nonparametric" => Exists(TierA("model"))
    /\ f.kind = "look" =>
        /\ TiersPass /\ \A d \in Dgps : Exists(TierA(d))
        /\ f.dgp = "nonparametric" => Looked("model")
    /\ f.kind = "final" =>
        /\ Exists(Bench)
        /\ BenchPassed => \A d \in Dgps : Exists(TierA(d))
        /\ BenchPassed /\ TiersPass => \A d \in Dgps : Looked(d)

\* What FINAL says of the gates.
Gates == [d \in Dgps |-> BenchPassed /\ TiersPass /\ Passes(d)]

Measurements == [passed : BOOLEAN, timing : Timings]
Reports == [action : Actions, outcome : {"passed", "failed"} \cup Decisions]

\* The content c is what the file f says.
Fits(f, c) ==
    /\ f.kind \in {"binding", "batch"} => c = Whole
    /\ f.kind = "bench" => c \in Measurements
    /\ f.kind = "tierA" => c = Says(Verdict(science.tierA[f.dgp]))
    /\ f.kind = "look" =>
        /\ f.index \in 1..LastLook(f.dgp)
        /\ science.looks[f.dgp][f.index] # "invalid"
        /\ c = Says(science.looks[f.dgp][f.index])
    /\ f.kind = "event" => c \in Reports
    /\ f.kind = "final" => Exists(Bench) /\ c = [bench |-> disk[Bench], gates |-> Gates]

\* The file is there with all that is before it in its directory.
UpTo(kind, d, last) == \A n \in 1..last : Exists(Item(kind, d, n))
Rests(f) ==
    /\ f.kind \in {"batch", "look"} => UpTo(f.kind, f.dgp, f.index - 1)
    /\ f.kind = "tierA" => UpTo("batch", f.dgp, NumBatches)

DiskRight == \A f \in DOMAIN disk : Fits(f, disk[f]) /\ Rests(f)

-----------------------------------------------------------------------------
(* What a caller is at *)

Writing == {"write", "temp", "linked"}

WorkTyped ==
    /\ pc \in [Callers -> Steps]
    /\ current \in [Callers -> Actions \cup {NoItem}]
    /\ known \in [Callers -> 0..(IF NumBatches > NumLooks THEN NumBatches ELSE NumLooks)]
    /\ job \in [Callers -> [file : Files \cup {NoItem}, content : Contents]]

BridgeTyped ==
    /\ mode \in {"canonical", "staged"}
    /\ science \in Sciences
    /\ DOMAIN disk \subseteq Files
    /\ litter \subseteq {Directory(f) : f \in Files}
    /\ faults \in 0..MaxFaults

\* It knows of receipts that are there.
Counts(p) ==
    pc[p] = "work" =>
        /\ current[p].kind \in {"tierA", "look"}
        /\ current[p].kind = "tierA" =>
            known[p] <= NumBatches /\ UpTo("batch", current[p].dgp, known[p])
        /\ current[p].kind = "look" => UpTo("look", current[p].dgp, known[p])

\* The file that it writes is of its action, and may be written.
Writer(p) ==
    pc[p] \in Writing =>
        LET f == job[p].file
        IN /\ f \in Files
           /\ pc[p] # "linked" => Fits(f, job[p].content) /\ Rests(f)
           /\ pc[p] = "linked" => Exists(f)
           /\ f.kind = "batch" => current[p] = TierA(f.dgp) /\ f.index = known[p] + 1
           /\ f.kind = "look" => /\ current[p].kind = "look" /\ current[p].dgp = f.dgp
                                 /\ f.index = known[p] + 1
           /\ f.kind \in {"bench", "tierA", "final"} => current[p] = f

\* The canonical driver comes to an action in order.
Canonical(p) ==
    mode = "canonical" /\ pc[p] # "idle" =>
        /\ pc[p] \in {"read", "work"} \cup Writing
        /\ current[p] \in {Bench, FinalFile} \cup {TierA(d) : d \in Dgps}
                            \cup {Look(d, 0) : d \in Dgps}
        /\ Ready(current[p])
        /\ pc[p] \in Writing => job[p].file.kind \notin {"binding", "event"}

CanonicalDisk ==
    mode = "canonical" => \A f \in DOMAIN disk :
        f.kind \notin {"binding", "event"} /\ Ready(f)

-----------------------------------------------------------------------------
(* The staged chain *)

ModelEnd == 4 + LastLook("model")
OtherEnd == ModelEnd + 1 + LastLook("nonparametric")

\* The n-th action of a chain that ends as late as it may, and its outcome.
ActionAt(n) ==
    IF n = 1 THEN Bench
    ELSE IF n = 2 THEN TierA("model")
    ELSE IF n = 3 THEN TierA("nonparametric")
    ELSE IF n < ModelEnd THEN Look("model", n - 3)
    ELSE IF n = ModelEnd THEN Item("complete", "model", 0)
    ELSE IF n < OtherEnd THEN Look("nonparametric", n - ModelEnd)
    ELSE IF n = OtherEnd THEN Item("complete", "nonparametric", 0)
    ELSE Item("actual", "none", 0)

OutcomeAt(n) ==
    IF n = 1 THEN Verdict(disk[Bench].passed)
    ELSE IF n = 2 THEN Verdict(science.tierA["model"])
    ELSE IF n = 3 THEN Verdict(science.tierA["nonparametric"])
    ELSE IF n < ModelEnd THEN science.looks["model"][n - 3]
    ELSE IF n = ModelEnd THEN Verdict(Passes("model"))
    ELSE IF n < OtherEnd THEN science.looks["nonparametric"][n - ModelEnd]
    ELSE IF n = OtherEnd THEN Verdict(Passes("nonparametric"))
    ELSE "passed"

\* Whether the chain goes on to its n-th action.
Open(n) ==
    /\ n <= OtherEnd + 1
    /\ n > 1 => BenchPassed \/ n = 1
    /\ n > 3 => TiersPass
    /\ n > OtherEnd => \A d \in Dgps : Passes(d)

Done(a) ==
    /\ a.kind \in {"bench", "tierA"} => Exists(a)
    /\ a.kind = "look" => IF a.index = 0 THEN Looked(a.dgp) ELSE Exists(a)

\* The length of the chain.
Progress == Cardinality({m \in 1..MaxEvents : Exists(Event(m))})

Chain ==
    mode = "staged" =>
        /\ \A n \in 1..MaxEvents : Exists(Event(n)) <=> n \in 1..Progress
        /\ \A n \in 1..Progress :
            /\ Open(n) /\ Done(ActionAt(n))
            /\ disk[Event(n)] = [action |-> ActionAt(n), outcome |-> OutcomeAt(n)]
        /\ \A f \in DOMAIN disk :
            /\ f.kind # "final"
            /\ f.kind \in {"bench", "tierA", "batch", "look"} =>
                \E n \in 1..(Progress + 1) : Open(n) /\ ActionOf(f) = ActionAt(n)

\* The staged driver is at the next action of the chain.
AtNext(p) == Open(Progress + 1) /\ current[p] = ActionAt(Progress + 1)

Staged(p) ==
    mode = "staged" /\ pc[p] # "idle" =>
        /\ p = StagedCaller
        /\ pc[p] \in {"read", "work", "record"} => AtNext(p)
        /\ pc[p] = "work" /\ current[p].kind = "look" =>
            known[p] \in {current[p].index - 1, current[p].index}
        /\ pc[p] = "record" => Done(current[p])
        /\ pc[p] \in Writing =>
            LET f == job[p].file
            IN /\ f.kind # "final"
               /\ f.kind \notin {"binding", "event"} => AtNext(p) /\ ActionOf(f) = current[p]
               /\ f.kind = "event" /\ pc[p] # "linked" =>
                    /\ AtNext(p) /\ Done(current[p])
                    /\ f = Event(Progress + 1)
                    /\ job[p].content =
                        [action |-> current[p], outcome |-> OutcomeAt(Progress + 1)]

\* What holds of one caller.
AtWork(p) == Counts(p) /\ Writer(p) /\ Canonical(p) /\ Staged(p)

\* The inductive invariant.
BInv ==
    /\ BridgeTyped
    /\ WorkTyped
    /\ DiskRight
    /\ CanonicalDisk
    /\ Chain
    /\ \A p \in Callers : AtWork(p)

-----------------------------------------------------------------------------
(* Receipts that are numbered without a gap *)

\* Numbers without a gap are as many as the last of them says.
LEMMA NoGap ==
  ASSUME NEW N \in Nat, NEW S \in SUBSET (1..N),
         \A n \in S : \A m \in 1..n : m \in S
  PROVE  Cardinality(S) \in 0..N /\ S = 1..Cardinality(S)
<1> DEFINE Above == {k \in Nat : \A n \in S : n <= k}
<1>1. N \in Above
  OBVIOUS
<1>2. PICK k \in Above : \A l \in Above : k <= l
  BY <1>1, LeastNumber
<1>3. S = 1..k
  <2>1. S \subseteq 1..k
    BY <1>2
  <2>2. CASE k = 0
    BY <2>1, <2>2
  <2>3. CASE k # 0
    <3>1. k - 1 \in Nat /\ k - 1 \notin Above
      BY <1>2, <2>3
    <3>2. k \in S
      BY <3>1, <1>2
    <3> QED
      BY <2>1, <3>2
  <2> QED
    BY <2>2, <2>3
<1>4. Cardinality(S) = k
  BY <1>2, <1>3, FS_Interval
<1>5. k <= N
  BY <1>1, <1>2
<1> QED
  BY <1>2, <1>3, <1>4, <1>5

\* A sequence of looks ends with the one that decides.
LEMMA LookFacts ==
  ASSUME BridgeTyped, NEW d \in Dgps
  PROVE  /\ LastLook(d) \in 1..NumLooks
         /\ DOMAIN science.looks[d] = 1..LastLook(d)
         /\ \A i \in 1..LastLook(d) :
              /\ science.looks[d][i] \in Decisions \cup {"invalid"}
              /\ science.looks[d][i] = "continue" <=> i < LastLook(d)
         /\ science.tierA[d] \in BOOLEAN
<1>1. science \in Science
  BY BridgeAssumption DEF BridgeTyped
<1>2. science.looks[d] \in LookSequences /\ science.tierA[d] \in BOOLEAN
  BY <1>1 DEF Science
<1>3. PICK n \in 1..NumLooks : science.looks[d] \in [1..n -> Decisions \cup {"invalid"}]
  BY <1>2 DEF LookSequences
<1>4. Len(science.looks[d]) = n
  BY <1>3, BridgeAssumption
<1>5. \A i \in DOMAIN science.looks[d] : science.looks[d][i] = "continue" <=> i < n
  BY <1>2, <1>4 DEF LookSequences
<1> QED
  BY <1>2, <1>3, <1>4, <1>5 DEF LastLook

\* The files by their kinds.
LEMMA FileKinds ==
  ASSUME NEW f \in Files
  PROVE  /\ f.kind = "bench" <=> f = Bench
         /\ f.kind = "binding" <=> f = Binding
         /\ f.kind = "final" <=> f = FinalFile
         /\ f.kind = "tierA" => f.dgp \in Dgps /\ f = TierA(f.dgp)
         /\ f.kind = "batch" => /\ f.dgp \in Dgps /\ f.index \in 1..NumBatches
                                /\ f = Batch(f.dgp, f.index)
         /\ f.kind = "look" => /\ f.dgp \in Dgps /\ f.index \in 1..NumLooks
                               /\ f = Look(f.dgp, f.index)
         /\ f.kind = "event" => f.index \in 1..MaxEvents /\ f = Event(f.index)
         /\ f.kind \in {"bench", "binding", "final", "tierA", "batch", "look", "event"}
<1> USE DEF Bench, Binding, FinalFile, TierA, Batch, Look, Event, Item
<1>1. CASE f \in {Item(k, "none", 0) : k \in {"binding", "bench", "final"}}
  BY <1>1
<1>2. CASE f \in {Item("tierA", d, 0) : d \in Dgps}
  BY <1>2
<1>3. CASE f \in {Item("batch", d, n) : d \in Dgps, n \in 1..NumBatches}
  BY <1>3
<1>4. CASE f \in {Item("look", d, n) : d \in Dgps, n \in 1..NumLooks}
  BY <1>4
<1>5. CASE f \in {Item("event", "none", n) : n \in 1..MaxEvents}
  BY <1>5
<1> QED
  BY <1>1, <1>2, <1>3, <1>4, <1>5 DEF Files

\* The names of the files.
LEMMA FilesAre ==
  /\ Bench \in Files /\ Binding \in Files /\ FinalFile \in Files
  /\ \A d \in Dgps : TierA(d) \in Files
  /\ \A d \in Dgps, n \in 1..NumBatches : Batch(d, n) \in Files
  /\ \A d \in Dgps, n \in 1..NumLooks : Look(d, n) \in Files
  /\ \A n \in 1..MaxEvents : Event(n) \in Files
<1> USE DEF Files, Bench, Binding, FinalFile, TierA, Batch, Look, Event
<1>1. Bench \in Files /\ Binding \in Files /\ FinalFile \in Files
  OBVIOUS
<1>2. \A d \in Dgps : TierA(d) \in Files
  OBVIOUS
<1>3. \A d \in Dgps, n \in 1..NumBatches : Batch(d, n) \in Files
  OBVIOUS
<1>4. \A d \in Dgps, n \in 1..NumLooks : Look(d, n) \in Files
  OBVIOUS
<1>5. \A n \in 1..MaxEvents : Event(n) \in Files
  OBVIOUS
<1> QED
  BY <1>1, <1>2, <1>3, <1>4, <1>5

\* The batches of a process that are there are the first.
LEMMA BatchesAre ==
  ASSUME BridgeTyped, DiskRight, NEW d \in Dgps
  PROVE  /\ Batches(d) \in 0..NumBatches
         /\ \A n \in 1..NumBatches : Exists(Batch(d, n)) <=> n <= Batches(d)
<1> DEFINE S == {n \in 1..NumBatches : Exists(Item("batch", d, n))}
<1>1. \A n \in S : \A m \in 1..n : m \in S
  <2> SUFFICES ASSUME NEW n \in S, NEW m \in 1..n PROVE m \in S
    OBVIOUS
  <2>1. \A l \in 1..(n - 1) : Exists(Item("batch", d, l))
    BY DEF DiskRight, Rests, UpTo, Exists, Item
  <2> QED
    BY <2>1, BridgeAssumption
<1>2. Cardinality(S) \in 0..NumBatches /\ S = 1..Cardinality(S)
  BY <1>1, NoGap, BridgeAssumption
<1> QED
  BY <1>2, BridgeAssumption DEF Batches, Batch

\* So are its looks, up to the one that decides at most.
LEMMA LooksAre ==
  ASSUME BridgeTyped, DiskRight, NEW d \in Dgps
  PROVE  /\ Looks(d) \in 0..LastLook(d)
         /\ \A n \in 1..NumLooks : Exists(Look(d, n)) <=> n <= Looks(d)
         /\ Looked(d) <=> Looks(d) = LastLook(d)
<1> DEFINE S == {n \in 1..NumLooks : Exists(Item("look", d, n))}
<1>0. LastLook(d) \in 1..NumLooks /\ NumLooks \in Nat
  BY LookFacts, BridgeAssumption
<1>1. \A n \in S : \A m \in 1..n : m \in S
  <2> SUFFICES ASSUME NEW n \in S, NEW m \in 1..n PROVE m \in S
    OBVIOUS
  <2>1. \A l \in 1..(n - 1) : Exists(Item("look", d, l))
    BY DEF DiskRight, Rests, UpTo, Exists, Item
  <2> QED
    BY <2>1, BridgeAssumption
<1>2. Cardinality(S) \in 0..NumLooks /\ S = 1..Cardinality(S)
  BY <1>1, NoGap, BridgeAssumption
<1>3. \A n \in S : n <= LastLook(d)
  BY DEF DiskRight, Fits, Exists, Item
<1>4. Cardinality(S) <= LastLook(d)
  BY <1>0, <1>2, <1>3
<1> QED
  BY <1>0, <1>2, <1>4 DEF Looks, Look, Looked

-----------------------------------------------------------------------------
(* What the staged chain says *)

\* The chain up to its n-th event.
Planned(n) == [i \in 1..n |-> [action |-> ActionAt(i), outcome |-> OutcomeAt(i)]]

\* Where the looks of the two processes end in the chain.
LEMMA EndsAre ==
  ASSUME BridgeTyped
  PROVE  /\ ModelEnd \in Nat /\ OtherEnd \in Nat
         /\ ModelEnd >= 5 /\ OtherEnd >= ModelEnd + 2
         /\ OtherEnd + 1 <= MaxEvents /\ MaxEvents \in Nat
         /\ ModelEnd = 4 + LastLook("model")
         /\ OtherEnd = ModelEnd + 1 + LastLook("nonparametric")
         /\ LastLook("model") \in Nat \ {0} /\ LastLook("nonparametric") \in Nat \ {0}
<1>1. LastLook("model") \in 1..NumLooks /\ LastLook("nonparametric") \in 1..NumLooks
  BY LookFacts DEF Dgps
<1> QED
  BY <1>1, BridgeAssumption DEF ModelEnd, OtherEnd, MaxEvents

\* How many events there may be.
LEMMA ProgressIs ==
  ASSUME BridgeTyped
  PROVE  Progress \in 0..MaxEvents
<1>1. MaxEvents \in Nat
  BY EndsAre
<1>2. IsFiniteSet(1..MaxEvents) /\ Cardinality(1..MaxEvents) = MaxEvents
  BY <1>1, FS_Interval
<1>3. {m \in 1..MaxEvents : Exists(Event(m))} \subseteq 1..MaxEvents
  OBVIOUS
<1> QED
  BY <1>2, <1>3, FS_Subset, FS_CardinalityType DEF Progress

\* Where the actions of each kind are.
LEMMA KindsAt ==
  ASSUME BridgeTyped, NEW i \in 1..(OtherEnd + 1)
  PROVE  /\ ActionAt(i).kind = "bench" /\ ActionAt(i).dgp = "none" <=> i = 1
         /\ ActionAt(i).kind = "tierA" /\ ActionAt(i).dgp = "model" <=> i = 2
         /\ ActionAt(i).kind = "tierA" /\ ActionAt(i).dgp = "nonparametric" <=> i = 3
         /\ ActionAt(i).kind = "look" /\ ActionAt(i).dgp = "model" <=>
              i \in 4..(ModelEnd - 1)
         /\ ActionAt(i).kind = "look" /\ ActionAt(i).dgp = "nonparametric" <=>
              i \in (ModelEnd + 1)..(OtherEnd - 1)
         /\ ActionAt(i).kind = "complete" /\ ActionAt(i).dgp = "model" <=> i = ModelEnd
         /\ ActionAt(i).kind = "complete" /\ ActionAt(i).dgp = "nonparametric" <=>
              i = OtherEnd
         /\ ActionAt(i).kind = "actual" /\ ActionAt(i).dgp = "none" <=> i = OtherEnd + 1
         /\ ActionAt(i).kind \in {"bench", "tierA", "look", "complete", "actual"}
<1>1. ModelEnd \in Nat /\ OtherEnd \in Nat /\ ModelEnd >= 5 /\ OtherEnd >= ModelEnd + 2
  BY EndsAre
<1> QED
  BY <1>1 DEF ActionAt, Bench, TierA, Look, Item

\* The chain in order, event by event.
LEMMA PlannedIs ==
  ASSUME NEW n \in Nat
  PROVE  /\ Len(Planned(n)) = n /\ DOMAIN Planned(n) = 1..n
         /\ \A i \in 1..n : /\ Planned(n)[i].action = ActionAt(i)
                            /\ Planned(n)[i].outcome = OutcomeAt(i)
         /\ Planned(n) = << >> <=> n = 0
  BY DEF Planned

\* What is recorded of an action that is once in the chain.
LEMMA RecordedAt ==
  ASSUME NEW n \in Nat, NEW kind, NEW d, NEW k \in Nat \ {0},
         \A i \in 1..n : ActionAt(i).kind = kind /\ ActionAt(i).dgp = d <=> i = k
  PROVE  Recorded(Planned(n), kind, d) = IF k <= n THEN {OutcomeAt(k)} ELSE {}
<1>1. {m \in DOMAIN Planned(n) : Planned(n)[m].action.kind = kind
                                 /\ Planned(n)[m].action.dgp = d}
        = IF k <= n THEN {k} ELSE {}
  BY PlannedIs
<1>2. k <= n => Planned(n)[k].outcome = OutcomeAt(k)
  BY PlannedIs
<1> QED
  BY <1>1, <1>2 DEF Recorded

\* The looks of a process up to the n-th event.
LEMMA LookEventsAre ==
  ASSUME BridgeTyped, NEW n \in 0..(OtherEnd + 1)
  PROVE  /\ n \in 3..(ModelEnd - 1) =>
              Cardinality(LookEvents(Planned(n), "model")) = n - 3
         /\ n \in ModelEnd..(OtherEnd - 1) =>
              Cardinality(LookEvents(Planned(n), "nonparametric")) = n - ModelEnd
<1>1. ModelEnd \in Nat /\ OtherEnd \in Nat /\ ModelEnd >= 5 /\ OtherEnd >= ModelEnd + 2
  BY EndsAre
<1>2. ASSUME n \in 3..(ModelEnd - 1) PROVE LookEvents(Planned(n), "model") = 4..n
  BY <1>1, <1>2, PlannedIs, KindsAt DEF LookEvents
<1>3. ASSUME n \in ModelEnd..(OtherEnd - 1)
      PROVE  LookEvents(Planned(n), "nonparametric") = (ModelEnd + 1)..n
  BY <1>1, <1>3, PlannedIs, KindsAt DEF LookEvents
<1>4. \A m \in Nat : m >= 3 => Cardinality(4..m) = m - 3
  BY FS_Interval
<1>5. ASSUME NEW a \in Nat, NEW b \in Nat, b >= a
      PROVE  Cardinality((a + 1)..b) = b - a
  <2>1. Cardinality((a + 1)..b) = IF a + 1 > b THEN 0 ELSE b - (a + 1) + 1
    BY FS_Interval
  <2> QED
    BY <1>5, <2>1
<1> QED
  BY <1>1, <1>2, <1>3, <1>4, <1>5

\* What the events say of the gates.
LEMMA RecordedIs ==
  ASSUME BridgeTyped, NEW n \in 0..(OtherEnd + 1)
  PROVE  /\ n > 0 => Recorded(Planned(n), "bench", "none") = {Verdict(disk[Bench].passed)}
         /\ Recorded(Planned(n), "tierA", "model") =
              IF 2 <= n THEN {Verdict(science.tierA["model"])} ELSE {}
         /\ Recorded(Planned(n), "tierA", "nonparametric") =
              IF 3 <= n THEN {Verdict(science.tierA["nonparametric"])} ELSE {}
         /\ Recorded(Planned(n), "complete", "model") =
              IF ModelEnd <= n THEN {Verdict(Passes("model"))} ELSE {}
         /\ Recorded(Planned(n), "complete", "nonparametric") =
              IF OtherEnd <= n THEN {Verdict(Passes("nonparametric"))} ELSE {}
         /\ Recorded(Planned(n), "actual", "none") =
              IF OtherEnd + 1 <= n THEN {"passed"} ELSE {}
<1>1. ModelEnd \in Nat /\ OtherEnd \in Nat /\ ModelEnd >= 5 /\ OtherEnd >= ModelEnd + 2
  BY EndsAre
<1>2. /\ OutcomeAt(1) = Verdict(disk[Bench].passed)
      /\ OutcomeAt(2) = Verdict(science.tierA["model"])
      /\ OutcomeAt(3) = Verdict(science.tierA["nonparametric"])
      /\ OutcomeAt(ModelEnd) = Verdict(Passes("model"))
      /\ OutcomeAt(OtherEnd) = Verdict(Passes("nonparametric"))
      /\ OutcomeAt(OtherEnd + 1) = "passed"
  BY <1>1 DEF OutcomeAt
<1>3. Recorded(Planned(n), "bench", "none") = IF 1 <= n THEN {OutcomeAt(1)} ELSE {}
  BY <1>1, KindsAt, RecordedAt
<1>4. Recorded(Planned(n), "tierA", "model") = IF 2 <= n THEN {OutcomeAt(2)} ELSE {}
  BY <1>1, KindsAt, RecordedAt
<1>5. Recorded(Planned(n), "tierA", "nonparametric") =
        IF 3 <= n THEN {OutcomeAt(3)} ELSE {}
  BY <1>1, KindsAt, RecordedAt
<1>6. Recorded(Planned(n), "complete", "model") =
        IF ModelEnd <= n THEN {OutcomeAt(ModelEnd)} ELSE {}
  BY <1>1, KindsAt, RecordedAt
<1>7. Recorded(Planned(n), "complete", "nonparametric") =
        IF OtherEnd <= n THEN {OutcomeAt(OtherEnd)} ELSE {}
  BY <1>1, KindsAt, RecordedAt
<1>8. Recorded(Planned(n), "actual", "none") =
        IF OtherEnd + 1 <= n THEN {OutcomeAt(OtherEnd + 1)} ELSE {}
  BY <1>1, KindsAt, RecordedAt
<1> QED
  BY <1>1, <1>2, <1>3, <1>4, <1>5, <1>6, <1>7, <1>8

\* What the first n events do not yet say.
LEMMA MissingIs ==
  ASSUME BridgeTyped, NEW n \in 0..(OtherEnd + 1)
  PROVE  /\ Missing(Planned(n), "tierA") =
              IF n < 2 THEN Dgps ELSE IF n < 3 THEN {"nonparametric"} ELSE {}
         /\ Missing(Planned(n), "complete") =
              IF n < ModelEnd THEN Dgps
              ELSE IF n < OtherEnd THEN {"nonparametric"} ELSE {}
         /\ n >= 3 => (Passed(Planned(n), "tierA") <=> TiersPass)
         /\ n >= OtherEnd =>
              (Passed(Planned(n), "complete") <=> \A d \in Dgps : Passes(d))
<1>1. ModelEnd \in Nat /\ OtherEnd \in Nat /\ ModelEnd >= 5 /\ OtherEnd >= ModelEnd + 2
  BY EndsAre
<1>2. \A d \in Dgps : science.tierA[d] \in BOOLEAN
  BY LookFacts
<1>3. Missing(Planned(n), "tierA") =
        IF n < 2 THEN Dgps ELSE IF n < 3 THEN {"nonparametric"} ELSE {}
  BY <1>1, RecordedIs DEF Missing, Dgps
<1>4. Missing(Planned(n), "complete") =
        IF n < ModelEnd THEN Dgps ELSE IF n < OtherEnd THEN {"nonparametric"} ELSE {}
  BY <1>1, RecordedIs DEF Missing, Dgps
<1>5. n >= 3 => (Passed(Planned(n), "tierA") <=> TiersPass)
  BY <1>1, <1>2, RecordedIs DEF Passed, TiersPass, Verdict, Dgps
<1>6. n >= OtherEnd => (Passed(Planned(n), "complete") <=> \A d \in Dgps : Passes(d))
  BY <1>1, RecordedIs DEF Passed, Passes, Verdict, Dgps
<1> QED
  BY <1>3, <1>4, <1>5, <1>6

\* The next look, or the completion that follows the look that decides.
LEMMA NextLookIs ==
  ASSUME BridgeTyped, NEW n \in 3..(OtherEnd - 1)
  PROVE  NextLook(Planned(n)) = ActionAt(n + 1)
<1>1. /\ ModelEnd \in Nat /\ OtherEnd \in Nat /\ ModelEnd >= 5 /\ OtherEnd >= ModelEnd + 2
      /\ ModelEnd = 4 + LastLook("model")
      /\ OtherEnd = ModelEnd + 1 + LastLook("nonparametric")
      /\ LastLook("model") \in Nat \ {0} /\ LastLook("nonparametric") \in Nat \ {0}
  BY EndsAre
<1>2. Planned(n)[Len(Planned(n))].outcome = OutcomeAt(n)
  BY PlannedIs
<1>3. CASE n < ModelEnd
  <2>1. FirstOf(Missing(Planned(n), "complete")) = "model"
    BY <1>1, <1>3, MissingIs DEF FirstOf, Dgps
  <2>2. Cardinality(LookEvents(Planned(n), "model")) = n - 3
    BY <1>1, <1>3, LookEventsAre
  <2>3. n > 3 => (OutcomeAt(n) = "continue" <=> n - 3 < LastLook("model"))
    <3>1. n > 3 => OutcomeAt(n) = science.looks["model"][n - 3]
      BY <1>1, <1>3 DEF OutcomeAt
    <3>2. n > 3 => n - 3 \in 1..LastLook("model")
      BY <1>1, <1>3
    <3> QED
      BY <3>1, <3>2, LookFacts DEF Dgps
  <2>4. ActionAt(n + 1) = IF n + 1 < ModelEnd THEN Item("look", "model", n - 2)
                          ELSE Item("complete", "model", 0)
    BY <1>1, <1>3 DEF ActionAt, Look
  <2> QED
    <3>1. NextLook(Planned(n)) =
            IF n - 3 = 0 \/ OutcomeAt(n) = "continue" THEN Item("look", "model", n - 3 + 1)
            ELSE Item("complete", "model", 0)
      BY <1>2, <2>1, <2>2 DEF NextLook
    <3>2. n - 3 = 0 \/ OutcomeAt(n) = "continue" <=> n + 1 < ModelEnd
      BY <1>1, <1>3, <2>3
    <3> QED
      BY <1>1, <1>3, <2>4, <3>1, <3>2
<1>4. CASE n >= ModelEnd
  <2>1. FirstOf(Missing(Planned(n), "complete")) = "nonparametric"
    BY <1>1, <1>4, MissingIs DEF FirstOf
  <2>2. Cardinality(LookEvents(Planned(n), "nonparametric")) = n - ModelEnd
    BY <1>1, <1>4, LookEventsAre
  <2>3. n > ModelEnd =>
          (OutcomeAt(n) = "continue" <=> n - ModelEnd < LastLook("nonparametric"))
    <3>1. n > ModelEnd => OutcomeAt(n) = science.looks["nonparametric"][n - ModelEnd]
      BY <1>1, <1>4 DEF OutcomeAt
    <3>2. n > ModelEnd => n - ModelEnd \in 1..LastLook("nonparametric")
      BY <1>1, <1>4
    <3> QED
      BY <3>1, <3>2, LookFacts DEF Dgps
  <2>4. ActionAt(n + 1) = IF n + 1 < OtherEnd THEN Item("look", "nonparametric", n + 1 - ModelEnd)
                          ELSE Item("complete", "nonparametric", 0)
    BY <1>1, <1>4 DEF ActionAt, Look
  <2> QED
    <3>1. NextLook(Planned(n)) =
            IF n - ModelEnd = 0 \/ OutcomeAt(n) = "continue" THEN Item("look", "nonparametric", n - ModelEnd + 1)
            ELSE Item("complete", "nonparametric", 0)
      BY <1>2, <2>1, <2>2 DEF NextLook
    <3>2. n - ModelEnd = 0 \/ OutcomeAt(n) = "continue" <=> n + 1 < OtherEnd
      BY <1>1, <1>4, <2>3
    <3> QED
      BY <1>1, <1>4, <2>4, <3>1, <3>2
<1> QED
  BY <1>1, <1>3, <1>4

\* The next action after the first n events is the one in order, if there is one.
LEMMA NextIs ==
  ASSUME BridgeTyped, DiskRight, NEW n \in 0..(OtherEnd + 1), n > 0 => Open(n),
         n > 0 => Exists(Bench)
  PROVE  NextAction(Planned(n)) = IF Open(n + 1) THEN ActionAt(n + 1) ELSE NoItem
<1>1. ModelEnd \in Nat /\ OtherEnd \in Nat /\ ModelEnd >= 5 /\ OtherEnd >= ModelEnd + 2
  BY EndsAre
<1> DEFINE E == Planned(n)
<1>2. E = << >> <=> n = 0
  BY PlannedIs
<1>3. CASE n = 0
  BY <1>1, <1>2, <1>3 DEF NextAction, Open, ActionAt
<1>4. CASE n > 0
  <2>1. Exists(Bench) /\ disk[Bench].passed \in BOOLEAN
    BY <1>4 DEF DiskRight, Fits, Measurements, Exists, Bench, Item
  <2>2. "failed" \in Recorded(E, "bench", "none") <=> ~BenchPassed
    BY <1>4, <2>1, RecordedIs DEF Verdict, BenchPassed
  <2>3. CASE ~BenchPassed
    <3>1. n = 1 /\ ~Open(n + 1)
      BY <1>4, <2>3 DEF Open
    <3> QED
      BY <1>2, <1>4, <2>2, <2>3, <3>1 DEF NextAction
  <2>4. CASE BenchPassed /\ n < 3
    <3>1. n \in {1, 2} /\ Open(n + 1)
      BY <1>1, <1>4, <2>4 DEF Open
    <3>2. /\ Missing(E, "tierA") # {}
          /\ FirstOf(Missing(E, "tierA")) = IF n = 1 THEN "model" ELSE "nonparametric"
      BY <3>1, MissingIs DEF FirstOf, Dgps
    <3> QED
      BY <1>2, <1>4, <2>2, <2>4, <3>1, <3>2 DEF NextAction, ActionAt, TierA
  <2>5. CASE BenchPassed /\ n >= 3
    <3>1. /\ Missing(E, "tierA") = {}
          /\ Passed(E, "tierA") <=> TiersPass
      BY <2>5, MissingIs
    <3>2. CASE ~TiersPass
      BY <1>1, <1>2, <1>4, <2>2, <2>5, <3>1, <3>2 DEF NextAction, Open
    <3>3. CASE TiersPass /\ n < OtherEnd
      <4>1. Missing(E, "complete") # {}
        BY <1>1, <2>5, <3>3, MissingIs DEF Dgps
      <4>2. NextLook(E) = ActionAt(n + 1)
        BY <1>1, <2>5, <3>3, NextLookIs
      <4>3. Open(n + 1)
        BY <1>1, <2>5, <3>3 DEF Open
      <4> QED
        BY <1>2, <1>4, <2>2, <2>5, <3>1, <3>3, <4>1, <4>2, <4>3 DEF NextAction
    <3>4. CASE TiersPass /\ n >= OtherEnd
      <4>1. /\ Missing(E, "complete") = {}
            /\ Passed(E, "complete") <=> \A d \in Dgps : Passes(d)
            /\ Recorded(E, "actual", "none") = {} <=> n = OtherEnd
        BY <1>1, <2>5, <3>4, MissingIs, RecordedIs
      <4>2. Open(n + 1) <=> n = OtherEnd /\ \A d \in Dgps : Passes(d)
        BY <1>1, <2>5, <3>4 DEF Open
      <4>3. n = OtherEnd => ActionAt(n + 1) = Item("actual", "none", 0)
        BY <1>1 DEF ActionAt
      <4> QED
        BY <1>2, <1>4, <2>2, <2>5, <3>1, <3>4, <4>1, <4>2, <4>3 DEF NextAction
    <3> QED
      BY <1>1, <3>2, <3>3, <3>4
  <2> QED
    BY <2>3, <2>4, <2>5
<1> QED
  BY <1>3, <1>4

\* What the checkpoints say of the n-th action, once it is done, is its outcome.
LEMMA LiveIs ==
  ASSUME BridgeTyped, DiskRight, NEW n \in 1..(OtherEnd + 1), Done(ActionAt(n))
  PROVE  LiveOutcome(Planned(n - 1), ActionAt(n)) = OutcomeAt(n)
<1>1. /\ ModelEnd \in Nat /\ OtherEnd \in Nat /\ ModelEnd >= 5 /\ OtherEnd >= ModelEnd + 2
      /\ ModelEnd = 4 + LastLook("model")
      /\ OtherEnd = ModelEnd + 1 + LastLook("nonparametric")
      /\ LastLook("model") \in Nat \ {0} /\ LastLook("nonparametric") \in Nat \ {0}
  BY EndsAre
<1>2. n > 1 => Planned(n - 1)[Len(Planned(n - 1))].outcome = OutcomeAt(n - 1)
  BY PlannedIs
<1>3. CASE n = 1
  BY <1>3 DEF LiveOutcome, ActionAt, OutcomeAt, Done, Bench, Item
<1>4. CASE n \in {2, 3}
  <2>1. PICK d \in Dgps : /\ ActionAt(n) = TierA(d)
                          /\ OutcomeAt(n) = Verdict(science.tierA[d])
    BY <1>4 DEF ActionAt, OutcomeAt, Dgps
  <2>2. Exists(TierA(d)) /\ disk[TierA(d)] = Says(Verdict(science.tierA[d]))
    BY <2>1 DEF Done, DiskRight, Fits, Exists, TierA, Item
  <2> QED
    BY <2>1, <2>2 DEF LiveOutcome, Says, TierA, Item
<1>5. ASSUME NEW d \in Dgps, NEW i \in 1..LastLook(d), ActionAt(n) = Look(d, i),
             OutcomeAt(n) = science.looks[d][i]
      PROVE  LiveOutcome(Planned(n - 1), ActionAt(n)) = OutcomeAt(n)
  <2>1. i \in 1..NumLooks
    BY LookFacts, BridgeAssumption
  <2>2. Exists(Look(d, i)) /\ i <= Looks(d)
    BY <1>5, <2>1, LooksAre DEF Done, Look, Item
  <2>3. disk[Look(d, i)] = Says(science.looks[d][i])
    BY <2>2 DEF DiskRight, Fits, Exists, Look, Item
  <2> QED
    BY <1>5, <2>2, <2>3 DEF LiveOutcome, Says, Look, Item
<1>6. CASE n \in 4..(ModelEnd - 1)
  <2>1. /\ "model" \in Dgps /\ n - 3 \in 1..LastLook("model")
        /\ ActionAt(n) = Look("model", n - 3)
        /\ OutcomeAt(n) = science.looks["model"][n - 3]
    BY <1>1, <1>6 DEF ActionAt, OutcomeAt, Dgps
  <2> QED
    BY <2>1, <1>5
<1>7. CASE n \in (ModelEnd + 1)..(OtherEnd - 1)
  <2>1. /\ "nonparametric" \in Dgps /\ n - ModelEnd \in 1..LastLook("nonparametric")
        /\ ActionAt(n) = Look("nonparametric", n - ModelEnd)
        /\ OutcomeAt(n) = science.looks["nonparametric"][n - ModelEnd]
    BY <1>1, <1>7 DEF ActionAt, OutcomeAt, Dgps
  <2> QED
    BY <2>1, <1>5
<1>8. CASE n = ModelEnd
  <2>1. OutcomeAt(n - 1) = science.looks["model"][LastLook("model")]
    BY <1>1, <1>8 DEF OutcomeAt
  <2>2. ActionAt(n) = Item("complete", "model", 0) /\ OutcomeAt(n) = Verdict(Passes("model"))
    BY <1>1, <1>8 DEF ActionAt, OutcomeAt
  <2>3. Planned(n - 1)[Len(Planned(n - 1))].outcome = OutcomeAt(n - 1)
    BY <1>1, <1>2, <1>8
  <2>4. LiveOutcome(Planned(n - 1), ActionAt(n)) =
          Verdict(Planned(n - 1)[Len(Planned(n - 1))].outcome = "pass_above_tail")
    BY <2>2 DEF LiveOutcome, Item
  <2> QED
    BY <2>1, <2>2, <2>3, <2>4 DEF Passes
<1>9. CASE n = OtherEnd
  <2>1. OutcomeAt(n - 1) = science.looks["nonparametric"][LastLook("nonparametric")]
    BY <1>1, <1>9 DEF OutcomeAt
  <2>2. /\ ActionAt(n) = Item("complete", "nonparametric", 0)
        /\ OutcomeAt(n) = Verdict(Passes("nonparametric"))
    BY <1>1, <1>9 DEF ActionAt, OutcomeAt
  <2>3. Planned(n - 1)[Len(Planned(n - 1))].outcome = OutcomeAt(n - 1)
    BY <1>1, <1>2, <1>9
  <2>4. LiveOutcome(Planned(n - 1), ActionAt(n)) =
          Verdict(Planned(n - 1)[Len(Planned(n - 1))].outcome = "pass_above_tail")
    BY <2>2 DEF LiveOutcome, Item
  <2> QED
    BY <2>1, <2>2, <2>3, <2>4 DEF Passes
<1>10. CASE n = OtherEnd + 1
  BY <1>1, <1>10 DEF LiveOutcome, ActionAt, OutcomeAt, Item
<1> QED
  BY <1>1, <1>3, <1>4, <1>6, <1>7, <1>8, <1>9, <1>10

-----------------------------------------------------------------------------
(* What stays as checkpoints are added *)

Grows ==
    /\ mode' = mode /\ science' = science
    /\ DOMAIN disk \subseteq DOMAIN disk'
    /\ \A f \in DOMAIN disk : disk'[f] = disk[f]

\* What has been said stays true of a disk that only grows.
LEMMA GrowthKeeps ==
  ASSUME Grows
  PROVE  /\ \A f : Exists(f) => Exists(f)'
         /\ \A k, d, n : UpTo(k, d, n) => UpTo(k, d, n)'
         /\ \A f : Rests(f) => Rests(f)'
         /\ \A f : Ready(f) => Ready(f)'
         /\ \A f, c : Fits(f, c) => Fits(f, c)'
         /\ \A a : Done(a) => Done(a)'
         /\ Exists(Bench) => (BenchPassed' <=> BenchPassed)
<1>1. \A f : Exists(f) => Exists(f)'
  BY DEF Grows, Exists
<1>2. \A k, d, n : UpTo(k, d, n) => UpTo(k, d, n)'
  BY <1>1 DEF UpTo
<1>3. \A f : Rests(f) => Rests(f)'
  BY <1>2 DEF Rests
<1>4. Exists(Bench) => Exists(Bench)' /\ disk'[Bench] = disk[Bench]
  BY DEF Grows, Exists
<1>5. Exists(Bench) => (BenchPassed' <=> BenchPassed)
  BY <1>4 DEF BenchPassed
<1>6. \A d : LastLook(d)' = LastLook(d) /\ (Passes(d)' <=> Passes(d))
  BY DEF LastLook, Passes, Grows
<1>7. \A d : Looked(d) => Looked(d)'
  BY <1>1, <1>6 DEF Looked
<1>8. TiersPass' <=> TiersPass
  BY DEF TiersPass, Grows
<1>9. \A f : Ready(f) => Ready(f)'
  BY <1>1, <1>5, <1>7, <1>8 DEF Ready, BenchPassed
<1>10. Exists(Bench) => Gates' = Gates
  BY <1>5, <1>6, <1>8 DEF Gates
<1>11. \A f, c : Fits(f, c) => Fits(f, c)'
  BY <1>4, <1>6, <1>10 DEF Fits, Grows
<1>12. \A a : Done(a) => Done(a)'
  BY <1>1, <1>7 DEF Done
<1> QED
  BY <1>1, <1>2, <1>3, <1>5, <1>9, <1>11, <1>12

\* The chain in order does not depend on what is added.
LEMMA ScheduleStays ==
  ASSUME Grows
  PROVE  /\ ModelEnd' = ModelEnd /\ OtherEnd' = OtherEnd
         /\ \A n : ActionAt(n)' = ActionAt(n)
         /\ \A n \in Nat : Open(n) => Open(n)'
         /\ \A n : n = 1 /\ Exists(Bench) => OutcomeAt(n)' = OutcomeAt(n)
         /\ \A n : n # 1 => OutcomeAt(n)' = OutcomeAt(n)
<1>1. \A d : LastLook(d)' = LastLook(d) /\ (Passes(d)' <=> Passes(d))
  BY DEF LastLook, Passes, Grows
<1>2. ModelEnd' = ModelEnd /\ OtherEnd' = OtherEnd
  BY <1>1 DEF ModelEnd, OtherEnd
<1>3. \A n : ActionAt(n)' = ActionAt(n)
  BY <1>2 DEF ActionAt, Bench, TierA, Look, Item
<1>4. \A n \in Nat : Open(n) => Open(n)'
  BY <1>1, <1>2, GrowthKeeps DEF Open, BenchPassed, TiersPass, Grows
<1>5. \A n : n # 1 => OutcomeAt(n)' = OutcomeAt(n)
  BY <1>1, <1>2 DEF OutcomeAt, Grows
<1>6. Exists(Bench) => disk'[Bench] = disk[Bench]
  BY DEF Grows, Exists
<1>7. \A n : n = 1 /\ Exists(Bench) => OutcomeAt(n)' = OutcomeAt(n)
  BY <1>6 DEF OutcomeAt
<1> QED
  BY <1>2, <1>3, <1>4, <1>5, <1>7

\* A step that adds none leaves all that is said of the disk.
LEMMA DiskStays ==
  ASSUME BInv, UNCHANGED <<mode, science, disk>>
  PROVE  /\ Grows /\ Progress' = Progress
         /\ DiskRight' /\ CanonicalDisk' /\ Chain'
         /\ \A n : OutcomeAt(n)' = OutcomeAt(n)
<1>1. Grows
  BY DEF Grows
<1>2. Progress' = Progress
  BY DEF Progress, Exists
<1>3. DiskRight' /\ CanonicalDisk'
  BY <1>1, GrowthKeeps DEF BInv, DiskRight, CanonicalDisk
<1>4. \A n : OutcomeAt(n)' = OutcomeAt(n)
  BY DEF OutcomeAt, ModelEnd, OtherEnd, LastLook, Passes
<1>5. Chain'
  <2> SUFFICES ASSUME mode = "staged" PROVE Chain'
    BY DEF Chain
  <2>1. \A n \in 1..MaxEvents : (Exists(Event(n)) <=> n \in 1..Progress)'
    BY <1>2 DEF BInv, Chain, Exists
  <2>2. ASSUME NEW n \in 1..Progress
        PROVE  /\ Open(n)' /\ Done(ActionAt(n))'
               /\ disk'[Event(n)] = [action |-> ActionAt(n)', outcome |-> OutcomeAt(n)']
    <3>1. n \in Nat /\ Open(n) /\ Done(ActionAt(n))
          /\ disk[Event(n)] = [action |-> ActionAt(n), outcome |-> OutcomeAt(n)]
      BY <2>2 DEF BInv, Chain
    <3> QED
      BY <1>1, <1>4, <3>1, GrowthKeeps, ScheduleStays
  <2>3. ASSUME NEW f \in DOMAIN disk
        PROVE  /\ f.kind # "final"
               /\ f.kind \in {"bench", "tierA", "batch", "look"} =>
                   \E n \in 1..(Progress + 1) : Open(n)' /\ ActionOf(f) = ActionAt(n)'
    <3>1. /\ f.kind # "final"
          /\ f.kind \in {"bench", "tierA", "batch", "look"} =>
              \E n \in 1..(Progress + 1) : Open(n) /\ ActionOf(f) = ActionAt(n)
      BY <2>3 DEF BInv, Chain
    <3> QED
      BY <1>1, <3>1, ScheduleStays
  <2> QED
    BY <1>2, <2>1, <2>2, <2>3 DEF Chain
<1> QED
  BY <1>1, <1>2, <1>3, <1>4, <1>5

-----------------------------------------------------------------------------
(* The types of what a caller is at *)

\* What fits a file is of the type of contents.
LEMMA ContentsFit ==
  ASSUME BridgeTyped, DiskRight, NEW f \in Files, NEW c, Fits(f, c)
  PROVE  c \in Contents
<1>1. Exists(Bench) => disk[Bench] \in Measurements
  BY DEF DiskRight, Fits, Exists, Bench, Item
<1>2. f.kind \in {"binding", "batch"} => c \in Contents
  BY DEF Fits, Contents, Whole, Says
<1>3. f.kind = "bench" => c \in Contents
  BY DEF Fits, Contents, Measurements
<1>4. f.kind = "tierA" => c \in Contents
  BY DEF Fits, Contents, Says, Verdict
<1>5. f.kind = "look" => c \in Contents
  <2> SUFFICES ASSUME f.kind = "look" PROVE c \in Contents
    OBVIOUS
  <2>1. f.dgp \in Dgps
    BY FileKinds
  <2>2. /\ f.index \in 1..LastLook(f.dgp) /\ science.looks[f.dgp][f.index] # "invalid"
        /\ c = Says(science.looks[f.dgp][f.index])
    BY DEF Fits
  <2>3. science.looks[f.dgp][f.index] \in Decisions
    BY <2>1, <2>2, LookFacts
  <2> QED
    BY <2>2, <2>3 DEF Contents
<1>6. f.kind = "event" => c \in Contents
  BY DEF Fits, Contents, Reports
<1>7. f.kind = "final" => c \in Contents
  <2> SUFFICES ASSUME f.kind = "final" PROVE c \in Contents
    OBVIOUS
  <2>1. Gates \in [Dgps -> BOOLEAN]
    BY DEF Gates
  <2>2. c \in [bench : Measurements, gates : [Dgps -> BOOLEAN]]
    BY <1>1, <2>1 DEF Fits
  <2> QED
    BY <2>2 DEF Contents, Measurements
<1> QED
  BY <1>2, <1>3, <1>4, <1>5, <1>6, <1>7, FileKinds

\* A caller goes on to another step of an action.
LEMMA GoesTyped ==
  ASSUME WorkTyped, NEW p \in Callers, NEW step \in Steps,
         NEW a \in Actions \cup {NoItem},
         NEW n \in 0..(IF NumBatches > NumLooks THEN NumBatches ELSE NumLooks),
         Goes(p, step, a, n), UNCHANGED job
  PROVE  /\ WorkTyped'
         /\ pc'[p] = step /\ current'[p] = a /\ known'[p] = n /\ job'[p] = job[p]
  BY DEF WorkTyped, Goes

\* A caller is about to write a file.
LEMMA WritesTyped ==
  ASSUME WorkTyped, NEW p \in Callers, NEW f \in Files, NEW c \in Contents, Writes(p, f, c)
  PROVE  /\ WorkTyped'
         /\ pc'[p] = "write" /\ job'[p].file = f /\ job'[p].content = c
         /\ current' = current /\ known' = known
  BY DEF WorkTyped, Writes, Steps

\* Of a caller whose call is over nothing is said.
LEMMA EndsKeeps ==
  ASSUME WorkTyped, NEW p \in Callers, Ends(p)
  PROVE  WorkTyped' /\ AtWork(p)'
<1>1. Whole \in Contents /\ "idle" \in Steps /\ NoItem \in Actions \cup {NoItem}
      /\ NoItem \in Files \cup {NoItem}
      /\ 0 \in 0..(IF NumBatches > NumLooks THEN NumBatches ELSE NumLooks)
  BY BridgeAssumption DEF Contents, Whole, Steps
<1>2. WorkTyped' /\ pc'[p] = "idle"
  BY <1>1 DEF WorkTyped, Ends, Goes
<1>3. AtWork(p)'
  BY <1>2 DEF AtWork, Counts, Writer, Canonical, Staged, Writing
<1> QED
  BY <1>2, <1>3

-----------------------------------------------------------------------------
(* A caller has completed an action, or written a file *)

CanonicalActions == {Bench, FinalFile} \cup {TierA(d) : d \in Dgps} \cup {Look(d, 0) : d \in Dgps}

\* An aggregate of Tier A that is there says whether the gate passes.
LEMMA TierAIs ==
  ASSUME BridgeTyped, DiskRight, NEW d \in Dgps, Exists(TierA(d))
  PROVE  TierAPassed(d) <=> science.tierA[d]
<1>1. disk[TierA(d)] = Says(Verdict(science.tierA[d]))
  BY DEF DiskRight, Fits, Exists, TierA, Item
<1>2. science.tierA[d] \in BOOLEAN
  BY LookFacts
<1> QED
  BY <1>1, <1>2 DEF TierAPassed, TierA, Says, Verdict

\* The canonical driver goes on to an action that it has reached.
LEMMA FollowingReady ==
  ASSUME BridgeTyped, DiskRight, NEW a \in CanonicalActions \ {FinalFile},
         Ready(a), Done(a)
  PROVE  Following(a) \in CanonicalActions /\ Ready(Following(a))
<1> USE DEF Item
<1>1. CASE a = Bench
  <2>1. Exists(Bench) /\ (disk[Bench].passed <=> BenchPassed)
    BY <1>1 DEF Done, Bench, BenchPassed
  <2>2. Following(a) = IF disk[Bench].passed THEN TierA("model") ELSE FinalFile
    BY <1>1 DEF Following, TierA, Bench
  <2> QED
    BY <2>1, <2>2 DEF CanonicalActions, Ready, TierA, FinalFile, Dgps
<1>2. CASE a = TierA("model")
  <2>1. Following(a) = TierA("nonparametric")
    BY <1>2 DEF Following, TierA, Bench
  <2>2. BenchPassed /\ Exists(TierA("model"))
    BY <1>2 DEF Ready, Done, TierA
  <2> QED
    BY <2>1, <2>2 DEF CanonicalActions, Ready, TierA, Dgps
<1>3. CASE a = TierA("nonparametric")
  <2>1. BenchPassed /\ \A d \in Dgps : Exists(TierA(d))
    BY <1>3 DEF Ready, Done, TierA, Dgps
  <2>2. (\A d \in Dgps : TierAPassed(d)) <=> TiersPass
    BY <2>1, TierAIs DEF TiersPass
  <2>3. Following(a) = IF TiersPass THEN Look("model", 0) ELSE FinalFile
    BY <1>3, <2>2 DEF Following, TierA, Bench, Look
  <2>4. TiersPass => Ready(Look("model", 0))
    BY <2>1 DEF Ready, Look
  <2>5. ~TiersPass => Ready(FinalFile)
    BY <2>1 DEF Ready, FinalFile, BenchPassed
  <2> QED
    BY <2>3, <2>4, <2>5 DEF CanonicalActions, Dgps
<1>4. CASE a = Look("model", 0)
  <2>1. Following(a) = Look("nonparametric", 0)
    BY <1>4 DEF Following, TierA, Bench, Look
  <2>2. BenchPassed /\ TiersPass /\ (\A d \in Dgps : Exists(TierA(d))) /\ Looked("model")
    BY <1>4 DEF Ready, Done, Look
  <2> QED
    BY <2>1, <2>2 DEF CanonicalActions, Ready, Look, Dgps
<1>5. CASE a = Look("nonparametric", 0)
  <2>1. Following(a) = FinalFile
    BY <1>5 DEF Following, TierA, Bench, Look
  <2>2. /\ BenchPassed /\ TiersPass /\ \A d \in Dgps : Exists(TierA(d))
        /\ Looked("model") /\ Looked("nonparametric")
    BY <1>5 DEF Ready, Done, Look
  <2> QED
    BY <2>1, <2>2 DEF CanonicalActions, Ready, FinalFile, BenchPassed, Dgps
<1> QED
  BY <1>1, <1>2, <1>3, <1>4, <1>5 DEF CanonicalActions, Dgps

\* The actions of the chain are actions.
LEMMA ActionsAre ==
  /\ CanonicalActions \subseteq Actions
  /\ BridgeTyped => \A n \in 1..(OtherEnd + 1) : ActionAt(n) \in Actions
<1>1. CanonicalActions \subseteq Actions
  BY DEF CanonicalActions, Actions, Bench, FinalFile, TierA, Look
<1>2. ASSUME BridgeTyped, NEW n \in 1..(OtherEnd + 1) PROVE ActionAt(n) \in Actions
  <2>1. /\ ModelEnd = 4 + LastLook("model")
        /\ OtherEnd = ModelEnd + 1 + LastLook("nonparametric")
        /\ LastLook("model") \in 1..NumLooks /\ LastLook("nonparametric") \in 1..NumLooks
    BY <1>2, EndsAre, LookFacts DEF Dgps
  <2>2. /\ Bench \in Actions /\ \A d \in Dgps : TierA(d) \in Actions
        /\ Item("actual", "none", 0) \in Actions
        /\ \A d \in Dgps : Item("complete", d, 0) \in Actions
    BY DEF Actions, Bench, TierA
  <2>3. \A d \in Dgps, i \in 1..NumLooks : Look(d, i) \in Actions
    BY DEF Actions, Look
  <2>4. /\ n > 3 /\ n < ModelEnd => n - 3 \in 1..NumLooks
        /\ n > ModelEnd /\ n < OtherEnd => n - ModelEnd \in 1..NumLooks
    BY <2>1, BridgeAssumption
  <2> QED
    BY <2>1, <2>2, <2>3, <2>4 DEF ActionAt, Dgps
<1> QED
  BY <1>1, <1>2

\* The action is completed: what was promised of the next one holds.
LEMMA CompletesKeeps ==
  ASSUME BInv, NEW p \in Callers, UNCHANGED <<mode, science, disk>>, pc[p] # "idle",
         Completes(p), Done(current[p]), current[p] # FinalFile,
         mode = "staged" => AtNext(p)
  PROVE  WorkTyped' /\ AtWork(p)'
<1>1. WorkTyped /\ BridgeTyped /\ DiskRight /\ AtWork(p)
  BY DEF BInv
<1>2. /\ {"record", "read"} \subseteq Steps
      /\ 0 \in 0..(IF NumBatches > NumLooks THEN NumBatches ELSE NumLooks)
  BY BridgeAssumption DEF Steps
<1>3. CASE mode = "staged"
  <2>1. current[p] \in Actions \cup {NoItem}
    BY <1>1 DEF WorkTyped
  <2>2. /\ WorkTyped'
        /\ pc'[p] = "record" /\ current'[p] = current[p]
    BY <1>1, <1>2, <1>3, <2>1, GoesTyped DEF Completes
  <2>3. p = StagedCaller
    BY <1>1, <1>3 DEF AtWork, Staged
  <2>4. Open(Progress + 1)' /\ current'[p] = ActionAt(Progress + 1)'
    <3>1. Grows /\ Progress' = Progress /\ Progress + 1 \in Nat
      BY DiskStays, ProgressIs DEF BInv
    <3> QED
      BY <1>3, <2>2, <3>1, ScheduleStays DEF AtNext
  <2>5. Done(current[p])'
    BY <2>2, DiskStays, GrowthKeeps
  <2> QED
    BY <1>3, <2>2, <2>3, <2>4, <2>5
    DEF AtWork, Counts, Writer, Canonical, Staged, Writing, AtNext
<1>4. CASE mode = "canonical"
  <2>1. current[p] \in CanonicalActions \ {FinalFile} /\ Ready(current[p])
    BY <1>1, <1>4 DEF AtWork, Canonical, CanonicalActions
  <2>2. Following(current[p]) \in CanonicalActions /\ Ready(Following(current[p]))
    BY <1>1, <2>1, FollowingReady
  <2>3. Following(current[p]) \in Actions \cup {NoItem}
    BY <2>2, ActionsAre
  <2>4. /\ WorkTyped'
        /\ pc'[p] = "read" /\ current'[p] = Following(current[p])
    BY <1>1, <1>2, <1>4, <2>3, GoesTyped DEF Completes
  <2>5. Ready(current[p])'
    BY <2>2, <2>4, DiskStays, GrowthKeeps
  <2> QED
    BY <1>4, <2>2, <2>4, <2>5
    DEF AtWork, Counts, Writer, Canonical, Staged, Writing, CanonicalActions
<1> QED
  BY <1>1, <1>3, <1>4 DEF BridgeTyped

\* The file is there: the caller goes on to what comes after it.
LEMMA WrittenKeeps ==
  ASSUME BInv, NEW p \in Callers, UNCHANGED <<mode, science, disk>>, pc[p] \in Writing,
         Exists(job[p].file), Written(p)
  PROVE  WorkTyped' /\ AtWork(p)'
<1> DEFINE f == job[p].file
<1>1. WorkTyped /\ BridgeTyped /\ DiskRight /\ Writer(p) /\ Canonical(p) /\ Staged(p)
  BY DEF BInv, AtWork
<1>2. f \in Files /\ Exists(f) /\ Fits(f, disk[f]) /\ Rests(f) /\ pc[p] # "idle"
  BY <1>1 DEF Writer, DiskRight, Exists, Writing
<1>3. Grows /\ Progress' = Progress /\ Progress + 1 \in Nat
  BY <1>1, DiskStays, ProgressIs
<1>4. /\ {"next", "work"} \subseteq Steps
      /\ NumBatches \in Nat /\ NumLooks \in Nat
  BY BridgeAssumption DEF Steps
<1>5. CASE f.kind \in {"binding", "event"}
  <2>1. mode = "staged" /\ p = StagedCaller
    BY <1>1, <1>2, <1>5 DEF Canonical, Staged, BridgeTyped
  <2>2. WorkTyped' /\ pc'[p] = "next"
    BY <1>1, <1>4, <1>5, GoesTyped DEF Written
  <2> QED
    BY <2>1, <2>2 DEF AtWork, Counts, Writer, Canonical, Staged, Writing
<1>6. CASE f.kind \in {"batch", "look"}
  <2>1. /\ f.index = known[p] + 1 /\ f.dgp \in Dgps
        /\ current[p].kind = IF f.kind = "batch" THEN "tierA" ELSE "look"
        /\ current[p].dgp = f.dgp
        /\ f.index \in 1..(IF f.kind = "batch" THEN NumBatches ELSE NumLooks)
        /\ f = Item(f.kind, f.dgp, f.index)
    BY <1>1, <1>2, <1>6, FileKinds DEF Writer, TierA, Item, Batch, Look
  <2>2. UpTo(f.kind, f.dgp, f.index)
    <3>1. UpTo(f.kind, f.dgp, f.index - 1)
      BY <1>2, <1>6 DEF Rests
    <3> QED
      BY <1>2, <1>4, <2>1, <3>1 DEF UpTo
  <2>3. /\ current[p] \in Actions \cup {NoItem}
        /\ known[p] + 1 \in 0..(IF NumBatches > NumLooks THEN NumBatches ELSE NumLooks)
    BY <1>1, <1>4, <2>1 DEF WorkTyped
  <2>4. Goes(p, "work", current[p], known[p] + 1) /\ UNCHANGED job
    BY <1>6 DEF Written
  <2>5. /\ WorkTyped'
        /\ pc'[p] = "work" /\ current'[p] = current[p] /\ known'[p] = known[p] + 1
    BY <1>1, <1>4, <2>3, <2>4, GoesTyped
  <2>6. Counts(p)'
    BY <1>3, <1>4, <1>6, <2>1, <2>2, <2>5, GrowthKeeps DEF Counts
  <2>7. Canonical(p)'
    <3>1. Ready(current[p]) => Ready(current[p])'
      BY <1>3, <2>5, GrowthKeeps
    <3> QED
      BY <1>1, <1>2, <2>5, <3>1 DEF Canonical, Writing
  <2>8. Staged(p)'
    <3> SUFFICES ASSUME mode = "staged" PROVE Staged(p)'
      BY DEF Staged
    <3>1. p = StagedCaller /\ AtNext(p) /\ ActionOf(f) = current[p]
      BY <1>1, <1>2, <1>6 DEF Staged
    <3>2. AtNext(p)'
      BY <1>3, <2>5, <3>1, ScheduleStays DEF AtNext
    <3>3. current[p].kind = "look" => current[p].index = known[p] + 1
      BY <1>6, <2>1, <3>1 DEF ActionOf, Item
    <3> QED
      BY <2>5, <3>1, <3>2, <3>3 DEF Staged, Writing
  <2> QED
    BY <2>5, <2>6, <2>7, <2>8 DEF AtWork, Writer, Writing
<1>7. CASE f.kind = "final"
  BY <1>1, <1>7, EndsKeeps DEF Written
<1>8. CASE f.kind \in {"bench", "tierA"}
  <2>1. current[p] = f /\ Completes(p)
    BY <1>1, <1>8 DEF Writer, Written
  <2>2. Done(f) /\ f # FinalFile
    BY <1>2, <1>8 DEF Done, FinalFile, Item
  <2>3. mode = "staged" => AtNext(p)
    BY <1>1, <1>2, <1>8 DEF Staged
  <2> QED
    BY <1>2, <2>1, <2>2, <2>3, CompletesKeeps
<1> QED
  BY <1>2, <1>5, <1>6, <1>7, <1>8, FileKinds

-----------------------------------------------------------------------------
(* One step of a caller *)

\* A call of either driver.
LEMMA CallKeeps ==
  ASSUME BInv, NEW p \in Callers, Call(p)
  PROVE  WorkTyped' /\ AtWork(p)'
<1>1. WorkTyped /\ BridgeTyped /\ UNCHANGED <<mode, science, disk>>
  BY DEF BInv, Call, Reads
<1>2. CASE mode = "staged"
  <2>1. p = StagedCaller /\ Writes(p, Binding, Whole)
    BY <1>2 DEF Call
  <2>2. /\ Fits(Binding, Whole)' /\ Rests(Binding)' /\ Binding \in Files
        /\ Binding.kind = "binding"
    BY FilesAre DEF Fits, Rests, Binding, Item
  <2>3. Whole \in Contents
    BY DEF Contents, Whole
  <2>4. /\ WorkTyped' /\ pc'[p] = "write"
        /\ job'[p].file = Binding /\ job'[p].content = Whole
    BY <1>1, <2>1, <2>2, <2>3, WritesTyped
  <2> QED
    BY <1>1, <1>2, <2>1, <2>2, <2>4
    DEF AtWork, Counts, Writer, Canonical, Staged, Writing
<1>3. CASE mode = "canonical"
  <2>1. /\ "read" \in Steps /\ Bench \in Actions \cup {NoItem}
        /\ 0 \in 0..(IF NumBatches > NumLooks THEN NumBatches ELSE NumLooks)
    BY BridgeAssumption DEF Steps, Actions, Bench
  <2>2. WorkTyped' /\ pc'[p] = "read" /\ current'[p] = Bench
    BY <1>1, <1>3, <2>1, GoesTyped DEF Call
  <2>3. Ready(Bench)'
    BY DEF Ready, Bench, Item
  <2> QED
    BY <1>1, <1>3, <2>2, <2>3 DEF AtWork, Counts, Writer, Canonical, Staged, Writing
<1> QED
  BY <1>1, <1>2, <1>3 DEF BridgeTyped

\* The chain that is on disk.
LEMMA EventsAre ==
  ASSUME BInv, mode = "staged"
  PROVE  /\ Events = Planned(Progress)
         /\ Progress \in 0..(OtherEnd + 1)
         /\ Progress > 0 => Open(Progress) /\ Exists(Bench)
<1>1. BridgeTyped /\ Progress \in 0..MaxEvents
  BY ProgressIs DEF BInv
<1>2. \A n \in 1..Progress :
        /\ Open(n) /\ Done(ActionAt(n))
        /\ disk[Event(n)] = [action |-> ActionAt(n), outcome |-> OutcomeAt(n)]
  BY DEF BInv, Chain
<1>3. Events = Planned(Progress)
  BY <1>2 DEF Events, Planned, Progress, Event
<1>4. OtherEnd \in Nat
  BY <1>1, EndsAre
<1>5. Progress > 0 => Open(Progress) /\ Done(ActionAt(1))
  <2>1. Progress > 0 => Progress \in 1..Progress /\ 1 \in 1..Progress
    BY <1>1
  <2> QED
    BY <1>2, <2>1
<1> QED
  BY <1>1, <1>3, <1>4, <1>5 DEF Open, Done, ActionAt, Bench, Item

\* The staged driver takes the next action in order, and no other.
LEMMA NextStagedKeeps ==
  ASSUME BInv, NEW p \in Callers, NextStaged(p)
  PROVE  WorkTyped' /\ AtWork(p)'
<1>1. WorkTyped /\ BridgeTyped /\ DiskRight /\ UNCHANGED <<mode, science, disk>>
  BY DEF BInv, NextStaged, Reads
<1>2. mode = "staged" /\ p = StagedCaller
  BY DEF BInv, AtWork, Canonical, Staged, NextStaged, BridgeTyped, Writing
<1>3. CASE Reverifies /\ NextAction(Events) # NoItem
  <2>1. NextAction(Events) = IF Open(Progress + 1) THEN ActionAt(Progress + 1) ELSE NoItem
    BY <1>1, <1>2, EventsAre, NextIs
  <2>2. Open(Progress + 1) /\ NextAction(Events) = ActionAt(Progress + 1)
    BY <1>3, <2>1
  <2>3. Progress + 1 \in 1..(OtherEnd + 1)
    BY <1>1, <1>2, <2>2, EventsAre, EndsAre DEF Open
  <2>4. /\ "read" \in Steps /\ NextAction(Events) \in Actions \cup {NoItem}
        /\ 0 \in 0..(IF NumBatches > NumLooks THEN NumBatches ELSE NumLooks)
    BY <1>1, <2>2, <2>3, ActionsAre, BridgeAssumption DEF Steps
  <2>5. Goes(p, "read", NextAction(Events), 0) /\ UNCHANGED job
    BY <1>3 DEF NextStaged
  <2>6. WorkTyped' /\ pc'[p] = "read" /\ current'[p] = ActionAt(Progress + 1)
    BY <1>1, <2>2, <2>4, <2>5, GoesTyped
  <2>7. AtNext(p)'
    <3>1. Grows /\ Progress' = Progress /\ Progress + 1 \in Nat
      BY <1>1, <2>3, DiskStays
    <3> QED
      BY <2>2, <2>6, <3>1, ScheduleStays DEF AtNext
  <2> QED
    BY <1>1, <1>2, <2>6, <2>7 DEF AtWork, Counts, Writer, Canonical, Staged, Writing
<1>4. CASE ~(Reverifies /\ NextAction(Events) # NoItem)
  BY <1>1, <1>4, EndsKeeps DEF NextStaged
<1> QED
  BY <1>3, <1>4

\* What the looks decide is what FINAL says of the gates.
LEMMA GatesAre ==
  ASSUME BridgeTyped, DiskRight, Ready(FinalFile), NEW d \in Dgps,
         \A f \in DOMAIN disk : Ready(f)
  PROVE  TierBPassed(d) <=> BenchPassed /\ TiersPass /\ Passes(d)
<1>1. Looks(d) \in 0..LastLook(d) /\ LastLook(d) \in 1..NumLooks
  BY LooksAre, LookFacts
<1>2. CASE BenchPassed /\ TiersPass
  <2>1. Looks(d) = LastLook(d) /\ Exists(Look(d, LastLook(d)))
    BY <1>2, LooksAre DEF Ready, FinalFile, Item, Looked
  <2>2. disk[Look(d, LastLook(d))] = Says(science.looks[d][LastLook(d)])
    BY <2>1 DEF DiskRight, Fits, Exists, Look, Item
  <2> QED
    BY <1>1, <1>2, <2>1, <2>2 DEF TierBPassed, Passes, Says, Look
<1>3. CASE ~(BenchPassed /\ TiersPass)
  <2>1. ~Exists(Look(d, 1))
    BY <1>3 DEF Ready, Look, Item, Exists
  <2>2. Looks(d) = 0
    BY <1>1, <2>1, LooksAre, BridgeAssumption
  <2> QED
    BY <1>3, <2>2 DEF TierBPassed
<1> QED
  BY <1>2, <1>3

\* A caller begins to write a file of its action.
LEMMA WritesKeeps ==
  ASSUME BInv, NEW p \in Callers, UNCHANGED <<mode, science, disk>>, pc[p] # "idle",
         NEW f \in Files, NEW c, Writes(p, f, c), Fits(f, c), Rests(f),
         f.kind = "batch" => current[p] = TierA(f.dgp) /\ f.index = known[p] + 1,
         f.kind = "look" => /\ current[p].kind = "look" /\ current[p].dgp = f.dgp
                            /\ f.index = known[p] + 1,
         f.kind \in {"bench", "tierA", "final"} => current[p] = f,
         mode = "canonical" => f.kind \notin {"binding", "event"},
         mode = "staged" =>
            /\ f.kind \notin {"final", "event"}
            /\ AtNext(p) /\ ActionOf(f) = current[p]
  PROVE  WorkTyped' /\ AtWork(p)'
<1>1. /\ WorkTyped /\ BridgeTyped /\ DiskRight /\ Canonical(p) /\ Staged(p)
      /\ c \in Contents
  BY ContentsFit DEF BInv, AtWork
<1>2. /\ WorkTyped'
      /\ pc'[p] = "write" /\ job'[p].file = f /\ job'[p].content = c
      /\ current' = current /\ known' = known
  BY <1>1, WritesTyped
<1>3. Grows /\ Progress' = Progress /\ Progress + 1 \in Nat
  BY <1>1, DiskStays, ProgressIs
<1>4. Writer(p)'
  <2>1. Fits(f, c)' /\ Rests(f)'
    BY <1>3, GrowthKeeps
  <2> QED
    BY <1>2, <2>1 DEF Writer, Writing, TierA, Item
<1>5. Canonical(p)'
  <2> SUFFICES ASSUME mode = "canonical" PROVE Canonical(p)'
    BY <1>3 DEF Canonical, Grows
  <2>1. Ready(current[p]) => Ready(current[p])'
    BY <1>2, <1>3, GrowthKeeps
  <2> QED
    BY <1>1, <1>2, <2>1 DEF Canonical, Writing
<1>6. Staged(p)'
  <2> SUFFICES ASSUME mode = "staged" PROVE Staged(p)'
    BY DEF Staged
  <2>1. AtNext(p)'
    BY <1>2, <1>3, ScheduleStays DEF AtNext
  <2> QED
    BY <1>1, <1>2, <2>1 DEF Staged, Writing, ActionOf
<1> QED
  BY <1>2, <1>4, <1>5, <1>6 DEF AtWork, Counts

\* The benchmark, what follows the gates, and FINAL.
LEMMA ReadPlainKeeps ==
  ASSUME BInv, NEW p \in Callers, ReadPlain(p)
  PROVE  WorkTyped' /\ AtWork(p)'
<1>1. /\ WorkTyped /\ BridgeTyped /\ DiskRight /\ Canonical(p) /\ Staged(p)
      /\ UNCHANGED <<mode, science, disk>> /\ pc[p] = "read"
      /\ current[p].kind \in {"bench", "complete", "actual", "final"}
  BY DEF BInv, AtWork, ReadPlain, Reads
<1>2. mode = "staged" => /\ AtNext(p) /\ current[p] = ActionAt(Progress + 1)
                         /\ Progress + 1 \in 1..(OtherEnd + 1)
  BY <1>1, ProgressIs, EndsAre DEF Staged, AtNext, Open
<1>3. mode = "staged" => current[p].kind # "final"
  BY <1>1, <1>2, KindsAt
<1>4. CASE current[p].kind = "final"
  <2>1. mode = "canonical" /\ current[p] = FinalFile /\ Ready(FinalFile)
    BY <1>1, <1>3, <1>4 DEF Canonical, BridgeTyped, Bench, TierA, Look, FinalFile, Item
  <2>2. \A f \in DOMAIN disk : Ready(f)
    BY <2>1 DEF BInv, CanonicalDisk
  <2>3. [d \in Dgps |-> TierBPassed(d)] = Gates
    <3>1. \A d \in Dgps : TierBPassed(d) <=> BenchPassed /\ TiersPass /\ Passes(d)
      BY <1>1, <2>1, <2>2, GatesAre
    <3> QED
      BY <3>1 DEF Gates, TierBPassed
  <2>4. Writes(p, FinalFile, [bench |-> disk[Bench], gates |-> Gates])
    BY <1>4, <2>3 DEF ReadPlain
  <2>5. Exists(Bench)
    BY <2>1 DEF Ready, FinalFile, Item
  <2>6. /\ Fits(FinalFile, [bench |-> disk[Bench], gates |-> Gates])
        /\ Rests(FinalFile) /\ FinalFile \in Files /\ FinalFile.kind = "final"
    BY <2>5, FilesAre DEF Fits, Rests, FinalFile, Item
  <2> QED
    BY <1>1, <2>1, <2>4, <2>6, WritesKeeps
<1>5. CASE current[p].kind = "bench" /\ ~Exists(Bench)
  <2>1. current[p] = Bench
    <3>1. CASE mode = "canonical"
      BY <1>1, <1>5, <3>1 DEF Canonical, Bench, TierA, Look, FinalFile, Item
    <3>2. CASE mode = "staged"
      BY <1>1, <1>2, <1>5, <3>2 DEF ActionAt, TierA, Look, Item
    <3> QED
      BY <1>1, <3>1, <3>2 DEF BridgeTyped
  <2>2. PICK b \in Measurements : Writes(p, Bench, b)
    BY <1>5 DEF ReadPlain, Measurements
  <2>3. Fits(Bench, b) /\ Rests(Bench) /\ Bench \in Files /\ Bench.kind = "bench"
    BY FilesAre DEF Fits, Rests, Bench, Item
  <2>4. ActionOf(Bench) = Bench
    BY DEF ActionOf, Bench, Item
  <2> QED
    BY <1>1, <1>2, <2>1, <2>2, <2>3, <2>4, WritesKeeps
<1>6. CASE current[p].kind # "final" /\ ~(current[p].kind = "bench" /\ ~Exists(Bench))
  <2>1. Completes(p)
    BY <1>6 DEF ReadPlain
  <2>2. Done(current[p])
    <3>1. current[p].kind = "bench" => current[p] = Bench
      <4>1. CASE mode = "canonical"
        BY <1>1, <4>1 DEF Canonical, Bench, TierA, Look, FinalFile, Item
      <4>2. CASE mode = "staged"
        BY <1>1, <1>2, <4>2 DEF ActionAt, TierA, Look, Item
      <4> QED
        BY <1>1, <4>1, <4>2 DEF BridgeTyped
    <3> QED
      BY <1>1, <1>6, <3>1 DEF Done
  <2>3. current[p] # FinalFile
    BY <1>6 DEF FinalFile, Item
  <2> QED
    BY <1>1, <1>2, <2>1, <2>2, <2>3, CompletesKeeps
<1> QED
  BY <1>4, <1>5, <1>6

\* The action that a caller is at.
LEMMA CurrentIs ==
  ASSUME BInv, NEW p \in Callers, pc[p] \in {"read", "work", "record"}
  PROVE  /\ current[p].kind = "tierA" =>
              current[p].dgp \in Dgps /\ current[p] = TierA(current[p].dgp)
         /\ current[p].kind = "look" =>
              /\ current[p].dgp \in Dgps
              /\ current[p] = Look(current[p].dgp, current[p].index)
              /\ mode = "canonical" => current[p].index = 0
              /\ mode = "staged" => current[p].index \in 1..LastLook(current[p].dgp)
<1>1. BridgeTyped /\ Canonical(p) /\ Staged(p)
  BY DEF BInv, AtWork
<1>2. CASE mode = "canonical"
  <2>1. current[p] \in CanonicalActions
    BY <1>1, <1>2 DEF Canonical, CanonicalActions
  <2> QED
    BY <1>2, <2>1 DEF CanonicalActions, TierA, Look, Bench, FinalFile, Item
<1>3. CASE mode = "staged"
  <2>1. /\ current[p] = ActionAt(Progress + 1) /\ Progress + 1 \in 1..(OtherEnd + 1)
    BY <1>1, <1>3, ProgressIs, EndsAre DEF Staged, AtNext, Open
  <2>2. /\ ModelEnd \in Nat /\ OtherEnd \in Nat /\ ModelEnd >= 5 /\ OtherEnd >= ModelEnd + 2
        /\ ModelEnd = 4 + LastLook("model")
        /\ OtherEnd = ModelEnd + 1 + LastLook("nonparametric")
        /\ LastLook("model") \in Nat \ {0} /\ LastLook("nonparametric") \in Nat \ {0}
    BY <1>1, EndsAre
  <2>3. current[p].kind = "tierA" => \E d \in Dgps : current[p] = TierA(d)
    BY <2>1, <2>2 DEF ActionAt, TierA, Look, Bench, Item, Dgps
  <2>4. ASSUME current[p].kind = "look"
        PROVE  \E d \in Dgps : \E i \in 1..LastLook(d) : current[p] = Look(d, i)
    <3>1. PICK n \in 1..(OtherEnd + 1) : current[p] = ActionAt(n)
      BY <2>1
    <3>2. \/ n \in 4..(ModelEnd - 1)
          \/ n \in (ModelEnd + 1)..(OtherEnd - 1)
      BY <2>2, <2>4, <3>1 DEF ActionAt, TierA, Bench, Item
    <3>3. CASE n \in 4..(ModelEnd - 1)
      <4>1. n - 3 \in 1..LastLook("model") /\ current[p] = Look("model", n - 3)
        BY <2>2, <3>1, <3>3 DEF ActionAt
      <4> QED
        BY <4>1 DEF Dgps
    <3>4. CASE n \in (ModelEnd + 1)..(OtherEnd - 1)
      <4>1. /\ n - ModelEnd \in 1..LastLook("nonparametric")
            /\ current[p] = Look("nonparametric", n - ModelEnd)
        BY <2>2, <3>1, <3>4 DEF ActionAt
      <4> QED
        BY <4>1 DEF Dgps
    <3> QED
      BY <3>2, <3>3, <3>4
  <2>5. ASSUME current[p].kind = "look"
        PROVE  /\ current[p].dgp \in Dgps
               /\ current[p] = Look(current[p].dgp, current[p].index)
               /\ current[p].index \in 1..LastLook(current[p].dgp)
    <3>1. PICK d \in Dgps : \E i \in 1..LastLook(d) : current[p] = Look(d, i)
      BY <2>4, <2>5
    <3> PICK i \in 1..LastLook(d) : current[p] = Look(d, i)
      BY <3>1
    <3>2. current[p].dgp = d /\ current[p].index = i
      BY DEF Look, Item
    <3> QED
      BY <3>2
  <2> QED
    <3>1. ASSUME current[p].kind = "tierA"
          PROVE  current[p].dgp \in Dgps /\ current[p] = TierA(current[p].dgp)
      <4>1. PICK d \in Dgps : current[p] = TierA(d)
        BY <2>3, <3>1
      <4>2. current[p].dgp = d
        BY <4>1 DEF TierA, Item
      <4> QED
        BY <4>1, <4>2
    <3> QED
      BY <1>3, <2>5, <3>1
<1> QED
  BY <1>1, <1>2, <1>3 DEF BridgeTyped

\* A caller has listed the receipts of its action.
LEMMA ListedKeeps ==
  ASSUME BInv, NEW p \in Callers, UNCHANGED <<mode, science, disk>>, pc[p] = "read",
         NEW n \in 0..(IF NumBatches > NumLooks THEN NumBatches ELSE NumLooks),
         Goes(p, "work", current[p], n), UNCHANGED job,
         current[p].kind \in {"tierA", "look"},
         current[p].kind = "tierA" => n <= NumBatches /\ UpTo("batch", current[p].dgp, n),
         current[p].kind = "look" => UpTo("look", current[p].dgp, n),
         mode = "staged" /\ current[p].kind = "look" =>
            n \in {current[p].index - 1, current[p].index}
  PROVE  WorkTyped' /\ AtWork(p)'
<1>1. /\ WorkTyped /\ BridgeTyped /\ Canonical(p) /\ Staged(p)
      /\ Grows /\ Progress' = Progress /\ Progress + 1 \in Nat
  BY DiskStays, ProgressIs DEF BInv, AtWork
<1>2. "work" \in Steps /\ current[p] \in Actions \cup {NoItem}
  BY <1>1 DEF Steps, WorkTyped
<1>3. WorkTyped' /\ pc'[p] = "work" /\ current'[p] = current[p] /\ known'[p] = n
  BY <1>1, <1>2, GoesTyped
<1>4. Counts(p)'
  BY <1>1, <1>3, GrowthKeeps DEF Counts
<1>5. Canonical(p)'
  <2>1. Ready(current[p]) => Ready(current[p])'
    BY <1>1, <1>3, GrowthKeeps
  <2> QED
    BY <1>1, <1>3, <2>1 DEF Canonical, Writing
<1>6. Staged(p)'
  <2> SUFFICES ASSUME mode = "staged" PROVE Staged(p)'
    BY DEF Staged
  <2>1. AtNext(p)'
    BY <1>1, <1>3, ScheduleStays DEF AtNext, Staged
  <2> QED
    BY <1>1, <1>3, <2>1 DEF Staged, Writing
<1> QED
  BY <1>3, <1>4, <1>5, <1>6 DEF AtWork, Writer, Writing

\* Tier A is read: it knows of batches that are there.
LEMMA ReadTierAKeeps ==
  ASSUME BInv, NEW p \in Callers, ReadTierA(p)
  PROVE  WorkTyped' /\ AtWork(p)'
<1> DEFINE d == current[p].dgp
<1>1. /\ WorkTyped /\ BridgeTyped /\ DiskRight /\ Staged(p)
      /\ UNCHANGED <<mode, science, disk>> /\ pc[p] = "read" /\ current[p].kind = "tierA"
  BY DEF BInv, AtWork, ReadTierA, Reads
<1>2. d \in Dgps /\ current[p] = TierA(d)
  BY <1>1, CurrentIs
<1>3. CASE Completes(p) /\ Exists(current[p])
  <2>1. Done(current[p]) /\ current[p] # FinalFile
    BY <1>1, <1>3 DEF Done, FinalFile, Item
  <2> QED
    BY <1>1, <1>3, <2>1, CompletesKeeps DEF Staged
<1>4. CASE Goes(p, "work", current[p], Batches(d)) /\ UNCHANGED job
  <2>1. /\ Batches(d) \in 0..NumBatches /\ NumBatches \in Nat /\ NumLooks \in Nat
        /\ UpTo("batch", d, Batches(d))
    BY <1>1, <1>2, BatchesAre, BridgeAssumption DEF UpTo, Batch
  <2>2. Batches(d) \in 0..(IF NumBatches > NumLooks THEN NumBatches ELSE NumLooks)
    BY <2>1
  <2> QED
    BY <1>1, <1>4, <2>1, <2>2, ListedKeeps
<1>5. CASE Ends(p)
  BY <1>1, <1>5, EndsKeeps
<1> QED
  BY <1>3, <1>4, <1>5 DEF ReadTierA

\* The looks are read: it knows of looks that are there.
LEMMA ReadLooksKeeps ==
  ASSUME BInv, NEW p \in Callers, ReadLooks(p)
  PROVE  WorkTyped' /\ AtWork(p)'
<1> DEFINE d == current[p].dgp
<1>1. /\ WorkTyped /\ BridgeTyped /\ DiskRight
      /\ UNCHANGED <<mode, science, disk>> /\ pc[p] = "read" /\ current[p].kind = "look"
  BY DEF BInv, ReadLooks, Reads
<1>2. d \in Dgps
  BY <1>1, CurrentIs
<1>3. CASE /\ Goes(p, "work", current[p], Looks(d)) /\ UNCHANGED job
           /\ mode = "staged" => Looks(d) \in {current[p].index - 1, current[p].index}
  <2>1. /\ Looks(d) \in 0..NumLooks /\ NumBatches \in Nat /\ NumLooks \in Nat
        /\ UpTo("look", d, Looks(d))
    <3>1. Looks(d) \in 0..LastLook(d) /\ LastLook(d) \in 1..NumLooks
      BY <1>1, <1>2, LooksAre, LookFacts
    <3> QED
      BY <1>1, <1>2, <3>1, LooksAre, BridgeAssumption DEF UpTo, Look
  <2>2. Looks(d) \in 0..(IF NumBatches > NumLooks THEN NumBatches ELSE NumLooks)
    BY <2>1
  <2> QED
    BY <1>1, <1>3, <2>1, <2>2, ListedKeeps
<1>4. CASE Ends(p)
  BY <1>1, <1>4, EndsKeeps
<1> QED
  BY <1>3, <1>4 DEF ReadLooks

\* What a caller works out is what the file says.
LEMMA ContentIs ==
  ASSUME NEW f
  PROVE  /\ f.kind = "batch" => Content(f) = Whole
         /\ f.kind = "tierA" => Content(f) = Says(Verdict(science.tierA[f.dgp]))
         /\ f.kind = "look" => Content(f) = Says(science.looks[f.dgp][f.index])
  BY DEF Content

\* The next batch, or the aggregate over all of them.
LEMMA WorkTierAKeeps ==
  ASSUME BInv, NEW p \in Callers, WorkTierA(p)
  PROVE  WorkTyped' /\ AtWork(p)'
<1> DEFINE d == current[p].dgp
           f == IF known[p] < NumBatches THEN Batch(d, known[p] + 1) ELSE current[p]
<1>1. /\ WorkTyped /\ BridgeTyped /\ DiskRight /\ Staged(p) /\ Counts(p)
      /\ UNCHANGED <<mode, science, disk>> /\ pc[p] = "work" /\ current[p].kind = "tierA"
  BY DEF BInv, AtWork, WorkTierA, Reads
<1>2. d \in Dgps /\ current[p] = TierA(d)
  BY <1>1, CurrentIs
<1>3. /\ known[p] \in Nat /\ NumBatches \in Nat
      /\ known[p] <= NumBatches /\ UpTo("batch", d, known[p])
  BY <1>1, BridgeAssumption DEF Counts, WorkTyped
<1>4. Writes(p, f, Content(f))
  BY DEF WorkTierA, Batch
<1>5. /\ f \in Files /\ ActionOf(f) = current[p] /\ f.kind \in {"batch", "tierA"}
      /\ f.kind = "batch" => f.dgp = d /\ f.index = known[p] + 1
      /\ f.kind = "tierA" => f = current[p] /\ known[p] = NumBatches
  BY <1>2, <1>3, FilesAre DEF ActionOf, Batch, TierA, Item
<1>6. Rests(f)
  BY <1>2, <1>3, <1>5 DEF Rests, Batch, TierA, Item
<1>7. Fits(f, Content(f))
  BY <1>5, ContentIs DEF Fits
<1> QED
  BY <1>1, <1>2, <1>4, <1>5, <1>6, <1>7, WritesKeeps DEF Staged

\* The next look, which no look before it has made needless.
LEMMA WorkLooksKeeps ==
  ASSUME BInv, NEW p \in Callers, WorkLooks(p)
  PROVE  WorkTyped' /\ AtWork(p)'
<1> DEFINE d == current[p].dgp
           n == known[p]
           f == Look(d, n + 1)
           enough == IF mode = "staged" THEN n = current[p].index ELSE Terminal(d, n)
<1>1. /\ WorkTyped /\ BridgeTyped /\ DiskRight /\ Staged(p) /\ Counts(p)
      /\ UNCHANGED <<mode, science, disk>> /\ pc[p] = "work" /\ current[p].kind = "look"
  BY DEF BInv, AtWork, WorkLooks, Reads
<1>2. /\ d \in Dgps /\ current[p] = Look(d, current[p].index)
      /\ mode = "canonical" => current[p].index = 0
      /\ mode = "staged" => current[p].index \in 1..LastLook(d)
  BY <1>1, CurrentIs
<1>3. n \in Nat /\ UpTo("look", d, n) /\ LastLook(d) \in 1..NumLooks /\ NumLooks \in Nat
  BY <1>1, <1>2, LookFacts, BridgeAssumption DEF Counts, WorkTyped
<1>4. n > 0 => /\ Exists(Look(d, n)) /\ n \in 1..LastLook(d)
               /\ disk[Look(d, n)] = Says(science.looks[d][n])
  <2> SUFFICES ASSUME n > 0
               PROVE  /\ Exists(Look(d, n)) /\ n \in 1..LastLook(d)
                      /\ disk[Look(d, n)] = Says(science.looks[d][n])
    OBVIOUS
  <2>1. Exists(Look(d, n))
    BY <1>3 DEF UpTo, Look
  <2> QED
    BY <1>1, <2>1 DEF DiskRight, Fits, Exists, Look, Item
<1>5. Terminal(d, n) <=> n = LastLook(d)
  <2>1. n > 0 => (Terminal(d, n) <=> science.looks[d][n] # "continue")
    BY <1>4 DEF Terminal, Says, Look
  <2>2. n > 0 => (science.looks[d][n] = "continue" <=> n < LastLook(d))
    BY <1>1, <1>2, <1>4, LookFacts
  <2>3. n = 0 => ~Terminal(d, n)
    BY DEF Terminal
  <2> QED
    BY <1>3, <1>4, <2>1, <2>2, <2>3
<1>6. CASE enough /\ Completes(p)
  <2>1. CASE mode = "staged"
    <3>1. n = current[p].index /\ n > 0 /\ Exists(Look(d, n))
      BY <1>2, <1>4, <1>6, <2>1
    <3> QED
      BY <1>1, <1>2, <1>6, <2>1, <3>1, CompletesKeeps
      DEF Done, Look, Item, FinalFile, Staged
  <2>2. CASE mode = "canonical"
    <3>1. Looked(d)
      BY <1>3, <1>4, <1>5, <1>6, <2>2 DEF Looked
    <3> QED
      BY <1>1, <1>2, <1>6, <2>2, <3>1, CompletesKeeps
      DEF Done, Look, Item, FinalFile
  <2> QED
    BY <1>1, <2>1, <2>2 DEF BridgeTyped
<1>7. CASE ~enough /\ Content(f) # Says("invalid") /\ Writes(p, f, Content(f))
  <2>1. n + 1 \in 1..LastLook(d) /\ (mode = "staged" => n + 1 = current[p].index)
    <3>1. CASE mode = "staged"
      BY <1>1, <1>2, <1>3, <1>7, <3>1 DEF Staged
    <3>2. CASE mode = "canonical"
      BY <1>3, <1>4, <1>5, <1>7, <3>2
    <3> QED
      BY <1>1, <3>1, <3>2 DEF BridgeTyped
  <2>2. f \in Files /\ f.kind = "look" /\ f.dgp = d /\ f.index = n + 1
    BY <1>2, <1>3, <2>1, FilesAre DEF Look, Item
  <2>3. Fits(f, Content(f))
    BY <1>7, <2>1, <2>2, ContentIs DEF Fits
  <2>4. Rests(f)
    BY <1>3, <2>2 DEF Rests
  <2>5. mode = "staged" => AtNext(p) /\ ActionOf(f) = current[p]
    BY <1>1, <1>2, <2>1, <2>2 DEF Staged, ActionOf, Look
  <2> QED
    BY <1>1, <1>7, <2>2, <2>3, <2>4, <2>5, WritesKeeps
<1>8. CASE Ends(p)
  BY <1>1, <1>8, EndsKeeps
<1>9. \/ enough /\ Completes(p)
      \/ ~enough /\ Content(f) # Says("invalid") /\ Writes(p, f, Content(f))
      \/ Ends(p)
  BY DEF WorkLooks, Look
<1> QED
  BY <1>6, <1>7, <1>8, <1>9

\* What is done has an outcome that an event may have.
LEMMA OutcomesAre ==
  ASSUME BridgeTyped, DiskRight, NEW n \in 1..(OtherEnd + 1), Done(ActionAt(n))
  PROVE  OutcomeAt(n) \in {"passed", "failed"} \cup Decisions
<1>1. /\ ModelEnd \in Nat /\ OtherEnd \in Nat /\ ModelEnd >= 5 /\ OtherEnd >= ModelEnd + 2
      /\ ModelEnd = 4 + LastLook("model")
      /\ OtherEnd = ModelEnd + 1 + LastLook("nonparametric")
      /\ LastLook("model") \in Nat \ {0} /\ LastLook("nonparametric") \in Nat \ {0}
  BY EndsAre
<1>2. ASSUME NEW d \in Dgps, NEW i \in 1..LastLook(d), Exists(Look(d, i))
      PROVE  science.looks[d][i] \in Decisions
  <2>1. science.looks[d][i] # "invalid"
    BY <1>2 DEF DiskRight, Fits, Exists, Look, Item
  <2> QED
    BY <2>1, LookFacts
<1>3. CASE n \in 4..(ModelEnd - 1)
  <2>1. /\ "model" \in Dgps /\ n - 3 \in 1..LastLook("model")
        /\ ActionAt(n) = Look("model", n - 3)
        /\ OutcomeAt(n) = science.looks["model"][n - 3]
    BY <1>1, <1>3 DEF ActionAt, OutcomeAt, Dgps
  <2>2. Exists(Look("model", n - 3))
    BY <2>1 DEF Done, Look, Item
  <2> QED
    BY <1>2, <2>1, <2>2
<1>4. CASE n \in (ModelEnd + 1)..(OtherEnd - 1)
  <2>1. /\ "nonparametric" \in Dgps /\ n - ModelEnd \in 1..LastLook("nonparametric")
        /\ ActionAt(n) = Look("nonparametric", n - ModelEnd)
        /\ OutcomeAt(n) = science.looks["nonparametric"][n - ModelEnd]
    BY <1>1, <1>4 DEF ActionAt, OutcomeAt, Dgps
  <2>2. Exists(Look("nonparametric", n - ModelEnd))
    BY <2>1 DEF Done, Look, Item
  <2> QED
    BY <1>2, <2>1, <2>2
<1>5. CASE n \notin (4..(ModelEnd - 1)) \cup ((ModelEnd + 1)..(OtherEnd - 1))
  BY <1>1, <1>5 DEF OutcomeAt, Verdict
<1> QED
  BY <1>3, <1>4, <1>5

\* The event that is recorded is the next one in order.
LEMMA RecordEventKeeps ==
  ASSUME BInv, NEW p \in Callers, RecordEvent(p)
  PROVE  WorkTyped' /\ AtWork(p)'
<1> DEFINE f == Event(Progress + 1)
           c == [action |-> current[p], outcome |-> LiveOutcome(Events, current[p])]
<1>1. /\ WorkTyped /\ BridgeTyped /\ DiskRight /\ Staged(p) /\ Canonical(p)
      /\ UNCHANGED <<mode, science, disk>> /\ pc[p] = "record"
  BY DEF BInv, AtWork, RecordEvent, Reads
<1>2. /\ mode = "staged" /\ p = StagedCaller /\ AtNext(p) /\ Done(current[p])
  BY <1>1 DEF Canonical, Staged, BridgeTyped, Writing
<1>3. /\ Progress + 1 \in 1..(OtherEnd + 1) /\ Progress + 1 \in 1..MaxEvents
      /\ current[p] = ActionAt(Progress + 1)
      /\ Progress \in Nat /\ Progress + 1 - 1 = Progress
  BY <1>1, <1>2, ProgressIs, EndsAre DEF AtNext, Open
<1>4. Events = Planned(Progress) /\ Len(Events) = Progress
  BY <1>2, <1>3, EventsAre, PlannedIs
<1>5. LiveOutcome(Events, current[p]) = OutcomeAt(Progress + 1)
  BY <1>1, <1>2, <1>3, <1>4, LiveIs
<1>6. f \in Files /\ f.kind = "event"
  BY <1>3, FilesAre DEF Event, Item
<1>7. c \in Reports
  BY <1>1, <1>2, <1>3, <1>5, ActionsAre, OutcomesAre DEF Reports
<1>8. Fits(f, c) /\ Rests(f) /\ c \in Contents
  BY <1>6, <1>7 DEF Fits, Rests, Contents, Reports
<1>9. CASE Writes(p, f, c)
  <2>1. /\ WorkTyped'
        /\ pc'[p] = "write" /\ job'[p].file = f /\ job'[p].content = c
        /\ current' = current /\ known' = known
    BY <1>1, <1>6, <1>8, <1>9, WritesTyped
  <2>2. Grows /\ Progress' = Progress /\ \A n : OutcomeAt(n)' = OutcomeAt(n)
    BY <1>1, DiskStays
  <2>3. \A g, x : g = f /\ x = c => Fits(g, x)' /\ Rests(g)'
    BY <1>8, <2>2, GrowthKeeps
  <2>4. Writer(p)'
    <3>1. /\ Fits(job[p].file, job[p].content)' /\ Rests(job[p].file)'
          /\ job'[p].file \in Files /\ job'[p].file.kind = "event"
      BY <1>6, <2>1, <2>3
    <3> QED
      BY <2>1, <3>1 DEF Writer, Writing
  <2>5. AtNext(p)' /\ Done(current[p])'
    BY <1>2, <1>3, <2>1, <2>2, ScheduleStays, GrowthKeeps DEF AtNext
  <2>6. Staged(p)'
    BY <1>1, <1>2, <1>5, <1>6, <2>1, <2>2, <2>5 DEF Staged, Writing, Event
  <2> QED
    BY <1>1, <1>2, <2>1, <2>4, <2>6 DEF AtWork, Counts, Canonical
<1>10. CASE Ends(p)
  BY <1>1, <1>10, EndsKeeps
<1>11. Writes(p, f, c) \/ Ends(p)
  BY <1>4 DEF RecordEvent, Event
<1> QED
  BY <1>9, <1>10, <1>11

\* The temporary is made, or the file is there already.
LEMMA MakeTemporaryKeeps ==
  ASSUME BInv, NEW p \in Callers, MakeTemporary(p)
  PROVE  WorkTyped' /\ AtWork(p)'
<1>1. /\ WorkTyped /\ BridgeTyped /\ AtWork(p)
      /\ UNCHANGED <<mode, science, disk>> /\ pc[p] = "write"
  BY DEF BInv, MakeTemporary, Reads
<1>2. CASE pc' = [pc EXCEPT ![p] = "temp"] /\ UNCHANGED <<current, known, job>>
  <2>1. WorkTyped' /\ pc'[p] = "temp"
    BY <1>1, <1>2 DEF WorkTyped, Steps
  <2>2. /\ Grows /\ Progress' = Progress /\ Progress + 1 \in Nat
        /\ \A n : OutcomeAt(n)' = OutcomeAt(n)
    BY <1>1, DiskStays, ProgressIs
  <2>3. Writer(p)'
    <3>1. Fits(job[p].file, job[p].content)' /\ Rests(job[p].file)'
      BY <1>1, <1>2, <2>2, GrowthKeeps DEF AtWork, Writer, Writing
    <3> QED
      BY <1>1, <1>2, <2>1, <3>1 DEF AtWork, Writer, Writing
  <2>4. Canonical(p)'
    <3>1. Ready(current[p]) => Ready(current[p])'
      BY <1>2, <2>2, GrowthKeeps
    <3> QED
      BY <1>1, <1>2, <2>1, <3>1 DEF AtWork, Canonical, Writing
  <2>5. Staged(p)'
    <3>1. AtNext(p) => AtNext(p)'
      BY <1>2, <2>2, ScheduleStays DEF AtNext
    <3>2. Done(current[p]) => Done(current[p])'
      BY <1>2, <2>2, GrowthKeeps
    <3> QED
      BY <1>1, <1>2, <2>1, <2>2, <3>1, <3>2 DEF AtWork, Staged, Writing, Event
  <2> QED
    BY <2>1, <2>3, <2>4, <2>5 DEF AtWork, Counts
<1>3. CASE Exists(job[p].file) /\ Written(p)
  BY <1>1, <1>3, WrittenKeeps DEF Writing
<1>4. CASE Ends(p)
  BY <1>1, <1>4, EndsKeeps
<1> QED
  BY <1>2, <1>3, <1>4 DEF MakeTemporary

\* The temporary is removed after the link.
LEMMA UnlinkTemporaryKeeps ==
  ASSUME BInv, NEW p \in Callers, UnlinkTemporary(p)
  PROVE  WorkTyped' /\ AtWork(p)'
<1>1. /\ AtWork(p) /\ UNCHANGED <<mode, science, disk>> /\ pc[p] = "linked" /\ Written(p)
  BY DEF BInv, UnlinkTemporary, Reads
<1>2. Exists(job[p].file) /\ pc[p] \in Writing
  BY <1>1 DEF AtWork, Writer, Writing
<1> QED
  BY <1>1, <1>2, WrittenKeeps

-----------------------------------------------------------------------------
(* The link *)

\* The file that p links is new.
Adds(p) ==
    LET f == job[p].file
    IN /\ pc[p] = "temp" /\ ~Exists(f)
       /\ disk' = [g \in DOMAIN disk \cup {f} |-> IF g = f THEN job[p].content ELSE disk[g]]
       /\ pc' = [pc EXCEPT ![p] = "linked"]
       /\ UNCHANGED <<mode, science, current, known, job>>

\* The link adds one file and changes none.
LEMMA AddsGrows ==
  ASSUME BInv, NEW p \in Callers, Adds(p)
  PROVE  /\ Grows /\ job[p].file \in Files /\ Exists(job[p].file)'
         /\ DOMAIN disk' = DOMAIN disk \cup {job[p].file}
         /\ disk'[job[p].file] = job[p].content
         /\ Fits(job[p].file, job[p].content) /\ Rests(job[p].file)
<1>1. Grows /\ Exists(job[p].file)'
  BY DEF Adds, Grows, Exists
<1>2. AtWork(p)
  BY DEF BInv
<1> QED
  BY <1>1, <1>2 DEF Adds, AtWork, Writer, Writing

\* The file is one that may be there, and all that is before it is.
LEMMA AddsRight ==
  ASSUME BInv, NEW p \in Callers, Adds(p)
  PROVE  (DOMAIN disk \subseteq Files)' /\ DiskRight' /\ CanonicalDisk'
<1> DEFINE f == job[p].file
<1>1. /\ Grows /\ f \in Files /\ DOMAIN disk' = DOMAIN disk \cup {f}
      /\ disk'[f] = job[p].content
      /\ Fits(f, job[p].content) /\ Rests(f)
  BY AddsGrows
<1>2. /\ BridgeTyped /\ DiskRight /\ CanonicalDisk /\ AtWork(p)
      /\ pc[p] = "temp" /\ mode' = mode
  BY DEF BInv, Adds
<1>3. (DOMAIN disk \subseteq Files)'
  BY <1>1, <1>2 DEF BridgeTyped
<1>4. DiskRight'
  <2>1. \A g \in DOMAIN disk : disk'[g] = disk[g] /\ Fits(g, disk[g]) /\ Rests(g)
    BY <1>1, <1>2 DEF Grows, DiskRight
  <2>2. \A g \in DOMAIN disk' : \E c : disk'[g] = c /\ Fits(g, c) /\ Rests(g)
    BY <1>1, <2>1
  <2>3. \A g \in DOMAIN disk' : \E c : disk'[g] = c /\ Fits(g, c)' /\ Rests(g)'
    BY <1>1, <2>2, GrowthKeeps
  <2> QED
    BY <2>3 DEF DiskRight
<1>5. CanonicalDisk'
  <2> SUFFICES ASSUME mode = "canonical" PROVE CanonicalDisk'
    BY <1>2 DEF CanonicalDisk
  <2>1. f.kind \notin {"binding", "event"} /\ Ready(current[p])
    BY <1>2 DEF AtWork, Canonical, Writing
  <2>2. Ready(f)
    BY <1>1, <1>2, <2>1, FileKinds DEF AtWork, Writer, Writing, Ready, TierA, Item
  <2>3. \A g \in DOMAIN disk' : g.kind \notin {"binding", "event"} /\ Ready(g)
    BY <1>1, <1>2, <2>1, <2>2 DEF CanonicalDisk
  <2> QED
    BY <1>1, <2>3, GrowthKeeps DEF CanonicalDisk
<1> QED
  BY <1>3, <1>4, <1>5

\* A new file is of the next action, or the next event of the chain.
LEMMA AddsChain ==
  ASSUME BInv, NEW p \in Callers, Adds(p)
  PROVE  /\ Chain'
         /\ mode = "staged" /\ job[p].file.kind # "event" => Progress' = Progress
<1> SUFFICES ASSUME mode = "staged"
             PROVE  Chain' /\ (job[p].file.kind # "event" => Progress' = Progress)
  BY DEF Chain, Adds
<1> DEFINE f == job[p].file
           S == {m \in 1..MaxEvents : Exists(Event(m))}
<1>1. /\ Grows /\ f \in Files /\ DOMAIN disk' = DOMAIN disk \cup {f}
      /\ disk'[f] = job[p].content
  BY AddsGrows
<1>2. /\ BridgeTyped /\ Chain /\ Staged(p) /\ pc[p] = "temp"
      /\ Progress \in 0..MaxEvents /\ MaxEvents \in Nat /\ OtherEnd + 1 <= MaxEvents
      /\ OtherEnd \in Nat
  BY ProgressIs, EndsAre DEF BInv, AtWork, Adds
<1>3. S = 1..Progress
  BY <1>2 DEF Chain
<1>4. /\ f.kind # "final"
      /\ f.kind \notin {"binding", "event"} => AtNext(p) /\ ActionOf(f) = current[p]
      /\ f.kind = "event" =>
          /\ AtNext(p) /\ Done(current[p]) /\ f = Event(Progress + 1)
          /\ job[p].content = [action |-> current[p], outcome |-> OutcomeAt(Progress + 1)]
  BY <1>2 DEF Staged, Writing
<1>5. \A m \in 1..MaxEvents : Exists(Event(m))' <=> Exists(Event(m)) \/ Event(m) = f
  BY <1>1 DEF Exists, Event, Item
<1>6. f.kind # "event" => Progress' = Progress
  <2>1. ASSUME f.kind # "event", NEW m \in 1..MaxEvents
        PROVE  Exists(Event(m))' <=> Exists(Event(m))
    <3>1. Event(m) # f
      BY <2>1 DEF Event, Item
    <3> QED
      BY <1>5, <3>1
  <2> QED
    BY <2>1 DEF Progress
<1>7. f.kind = "event" => Progress' = Progress + 1 /\ Progress + 1 <= MaxEvents
  <2> SUFFICES ASSUME f.kind = "event"
               PROVE  Progress' = Progress + 1 /\ Progress + 1 <= MaxEvents
    OBVIOUS
  <2>1. Progress + 1 <= MaxEvents
    BY <1>2, <1>4 DEF AtNext, Open
  <2>2. \A m \in 1..MaxEvents : Event(m) = f <=> m = Progress + 1
    BY <1>4 DEF Event, Item
  <2>3. {m \in 1..MaxEvents : Exists(Event(m))'} = 1..(Progress + 1)
    BY <1>2, <1>3, <1>5, <2>1, <2>2
  <2>4. Cardinality(1..(Progress + 1)) = Progress + 1
    <3>1. /\ 1 \in Int /\ Progress + 1 \in Int
          /\ ~(1 > Progress + 1) /\ ((Progress + 1) - 1) + 1 = Progress + 1
      BY <1>2
    <3> QED
      BY <3>1, FS_Interval
  <2> QED
    BY <2>1, <2>3, <2>4 DEF Progress
<1>8. \A m \in 1..MaxEvents : Exists(Event(m))' <=> m \in 1..Progress'
  <2>1. CASE f.kind = "event"
    <3>1. \A m \in 1..MaxEvents : Event(m) = f <=> m = Progress + 1
      BY <1>4, <2>1 DEF Event, Item
    <3> QED
      BY <1>2, <1>3, <1>5, <1>7, <2>1, <3>1
  <2>2. CASE f.kind # "event"
    <3>1. \A m \in 1..MaxEvents : Event(m) # f
      BY <2>2 DEF Event, Item
    <3> QED
      BY <1>3, <1>5, <1>6, <2>2, <3>1
  <2> QED
    BY <2>1, <2>2
<1>9. \A n \in Nat : n = 1 /\ Done(ActionAt(n)) => Exists(Bench)
  BY DEF ActionAt, Done, Bench, Item
<1>10. ASSUME NEW n \in 1..Progress
       PROVE  /\ Open(n)' /\ Done(ActionAt(n))'
              /\ disk'[Event(n)] = [action |-> ActionAt(n)', outcome |-> OutcomeAt(n)']
  <2>1. /\ n \in Nat /\ n \in 1..MaxEvents /\ Open(n) /\ Done(ActionAt(n))
        /\ Event(n) \in DOMAIN disk
        /\ disk[Event(n)] = [action |-> ActionAt(n), outcome |-> OutcomeAt(n)]
    BY <1>2, <1>3, <1>10 DEF Chain, Exists
  <2>2. disk'[Event(n)] = disk[Event(n)]
    BY <1>1, <2>1 DEF Grows
  <2>3. ActionAt(n)' = ActionAt(n) /\ Open(n)' /\ OutcomeAt(n)' = OutcomeAt(n)
    BY <1>1, <1>9, <2>1, ScheduleStays
  <2> QED
    BY <1>1, <2>1, <2>2, <2>3, GrowthKeeps
<1>11. ASSUME f.kind = "event", NEW n, n = Progress + 1
       PROVE  /\ Open(n)' /\ Done(ActionAt(n))'
              /\ disk'[Event(n)] = [action |-> ActionAt(n)', outcome |-> OutcomeAt(n)']
  <2>1. /\ n \in Nat /\ Open(n) /\ Done(ActionAt(n)) /\ f = Event(n)
        /\ job[p].content = [action |-> ActionAt(n), outcome |-> OutcomeAt(n)]
    BY <1>2, <1>4, <1>11 DEF AtNext
  <2>2. ActionAt(n)' = ActionAt(n) /\ Open(n)' /\ OutcomeAt(n)' = OutcomeAt(n)
    BY <1>1, <1>9, <2>1, ScheduleStays
  <2> QED
    BY <1>1, <2>1, <2>2, GrowthKeeps
<1>12. \A n \in 1..Progress' :
         /\ Open(n)' /\ Done(ActionAt(n))'
         /\ disk'[Event(n)] = [action |-> ActionAt(n)', outcome |-> OutcomeAt(n)']
  <2> TAKE n \in 1..Progress'
  <2>1. n \in 1..Progress \/ (f.kind = "event" /\ n = Progress + 1)
    BY <1>2, <1>6, <1>7
  <2> QED
    BY <1>10, <1>11, <2>1
<1>13. ASSUME NEW g \in DOMAIN disk'
       PROVE  /\ g.kind # "final"
              /\ g.kind \in {"bench", "tierA", "batch", "look"} =>
                  \E n \in 1..(Progress' + 1) : Open(n)' /\ ActionOf(g) = ActionAt(n)'
  <2>1. /\ g.kind # "final"
        /\ g.kind \in {"bench", "tierA", "batch", "look"} =>
             \E n \in 1..(Progress + 1) : Open(n) /\ ActionOf(g) = ActionAt(n)
    <3>1. CASE g \in DOMAIN disk
      BY <1>2, <3>1 DEF Chain
    <3>2. CASE g = f
      BY <1>2, <1>4, <3>2 DEF AtNext
    <3> QED
      BY <1>1, <3>1, <3>2
  <2>2. \A n \in 1..(Progress + 1) : n \in Nat /\ n \in 1..(Progress' + 1)
    BY <1>2, <1>6, <1>7
  <2> QED
    BY <1>1, <2>1, <2>2, ScheduleStays
<1>14. Chain'
  BY <1>8, <1>12, <1>13 DEF Chain
<1> QED
  BY <1>6, <1>14

\* The caller that links stays at its action.
LEMMA AddsKeeps ==
  ASSUME BInv, NEW p \in Callers, Adds(p)
  PROVE  WorkTyped' /\ AtWork(p)'
<1> DEFINE f == job[p].file
<1>1. Grows /\ f \in Files /\ Exists(f)' /\ Progress + 1 \in Nat
  <2>1. Progress \in 0..MaxEvents /\ MaxEvents \in Nat
    BY ProgressIs, EndsAre DEF BInv
  <2>2. Grows /\ job[p].file \in Files /\ Exists(job[p].file)'
    BY AddsGrows
  <2> QED
    BY <2>1, <2>2
<1>2. WorkTyped /\ AtWork(p) /\ UNCHANGED <<mode, current, known, job>> /\ pc[p] = "temp"
  BY DEF BInv, Adds
<1>3. WorkTyped' /\ pc'[p] = "linked"
  BY <1>2 DEF WorkTyped, Adds, Steps
<1>4. Writer(p)'
  <2>1. Exists(job[p].file)'
    BY <1>1, <1>2
  <2> QED
    BY <1>2, <1>3, <2>1 DEF AtWork, Writer, Writing
<1>5. Canonical(p)'
  <2>1. Ready(current[p]) => Ready(current[p])'
    BY <1>1, <1>2, GrowthKeeps
  <2> QED
    BY <1>2, <1>3, <2>1 DEF AtWork, Canonical, Writing
<1>6. Staged(p)'
  <2> SUFFICES ASSUME mode = "staged" PROVE Staged(p)'
    BY <1>2 DEF Staged
  <2>1. f.kind # "event" /\ AtNext(p) => AtNext(p)'
    BY <1>1, <1>2, AddsChain, ScheduleStays DEF AtNext
  <2> QED
    BY <1>2, <1>3, <2>1 DEF AtWork, Staged, Writing
<1> QED
  BY <1>3, <1>4, <1>5, <1>6 DEF AtWork, Counts

\* Nobody loses what another adds.
LEMMA OthersKeepWork ==
  ASSUME BInv, Grows, NEW q \in Callers,
         pc'[q] = pc[q], current'[q] = current[q], known'[q] = known[q], job'[q] = job[q],
         mode = "staged" => pc[q] = "idle"
  PROVE  AtWork(q)'
<1>1. AtWork(q) /\ BridgeTyped /\ mode' = mode
  BY DEF BInv, Grows
<1>2. Counts(q)'
  BY <1>1, GrowthKeeps DEF AtWork, Counts
<1>3. Writer(q)'
  <2>1. /\ Fits(job[q].file, job[q].content) => Fits(job[q].file, job[q].content)'
        /\ Rests(job[q].file) => Rests(job[q].file)'
        /\ Exists(job[q].file) => Exists(job[q].file)'
    BY <1>1, GrowthKeeps
  <2> QED
    BY <1>1, <2>1 DEF AtWork, Writer
<1>4. Canonical(q)'
  <2>1. Ready(current[q]) => Ready(current[q])'
    BY <1>1, GrowthKeeps
  <2> QED
    BY <1>1, <2>1 DEF AtWork, Canonical
<1>5. Staged(q)'
  BY <1>1 DEF Staged
<1> QED
  BY <1>2, <1>3, <1>4, <1>5 DEF AtWork

-----------------------------------------------------------------------------
(* The invariant of the bridge *)

\* Nothing is on disk, and nobody is at work.
LEMMA BridgeInitHolds == BridgeInit => BInv
<1> SUFFICES ASSUME BridgeInit PROVE BInv
  OBVIOUS
<1>1. WorkTyped
  <2>1. Whole \in Contents /\ "idle" \in Steps
    BY DEF Contents, Whole, Says, Steps
  <2>2. 0 \in 0..(IF NumBatches > NumLooks THEN NumBatches ELSE NumLooks)
    BY BridgeAssumption
  <2> QED
    BY <2>1, <2>2 DEF BridgeInit, WorkTyped
<1>2. BridgeTyped /\ DOMAIN disk = {}
  BY BridgeAssumption DEF BridgeInit, BridgeTyped
<1>3. DiskRight /\ CanonicalDisk
  BY <1>2 DEF DiskRight, CanonicalDisk
<1>4. Progress = 0
  <2>1. {m \in 1..MaxEvents : Exists(Event(m))} = {}
    BY <1>2 DEF Exists
  <2> QED
    BY <2>1, FS_EmptySet DEF Progress
<1>5. Chain
  BY <1>2, <1>4 DEF Chain, Exists
<1>6. \A p \in Callers : AtWork(p)
  BY DEF BridgeInit, AtWork, Counts, Writer, Canonical, Staged, Writing
<1> QED
  BY <1>1, <1>2, <1>3, <1>5, <1>6 DEF BInv

\* A caller acts alone: what it does is to itself, and to the disk if it links.
Own(p) == Call(p) \/ Work(p) \/ Kill(p) \/ Raise(p)

\* What a step of a caller says of that caller.
LEMMA OwnKeeps ==
  ASSUME BInv, NEW p \in Callers, Own(p)
  PROVE  /\ WorkTyped' /\ AtWork(p)'
         /\ UNCHANGED <<mode, science, disk>> \/ Adds(p)
<1>1. WorkTyped
  BY DEF BInv
<1>2. CASE Kill(p) \/ Raise(p)
  BY <1>1, <1>2, EndsKeeps DEF Kill, Raise
<1>3. CASE LinkFile(p)
  <2>1. CASE ~Exists(job[p].file)
    <3>1. Adds(p)
      BY <1>3, <2>1 DEF LinkFile, Stays, Adds
    <3> QED
      BY <3>1, AddsKeeps
  <2>2. CASE Exists(job[p].file) /\ disk[job[p].file] = job[p].content
    <3>1. /\ Written(p) /\ UNCHANGED <<mode, science, disk>> /\ pc[p] \in Writing
      BY <1>3, <2>2 DEF LinkFile, Stays, Writing
    <3> QED
      BY <2>2, <3>1, WrittenKeeps
  <2>3. CASE Exists(job[p].file) /\ disk[job[p].file] # job[p].content
    <3>1. Ends(p) /\ UNCHANGED <<mode, science, disk>>
      BY <1>3, <2>3 DEF LinkFile, Stays
    <3> QED
      BY <1>1, <3>1, EndsKeeps
  <2> QED
    BY <2>1, <2>2, <2>3
<1>4. CASE Call(p)
  BY <1>4, CallKeeps DEF Call, Reads
<1>5. CASE NextStaged(p)
  BY <1>5, NextStagedKeeps DEF NextStaged, Reads
<1>6. CASE ReadPlain(p)
  BY <1>6, ReadPlainKeeps DEF ReadPlain, Reads
<1>7. CASE ReadTierA(p)
  BY <1>7, ReadTierAKeeps DEF ReadTierA, Reads
<1>8. CASE ReadLooks(p)
  BY <1>8, ReadLooksKeeps DEF ReadLooks, Reads
<1>9. CASE WorkTierA(p)
  BY <1>9, WorkTierAKeeps DEF WorkTierA, Reads
<1>10. CASE WorkLooks(p)
  BY <1>10, WorkLooksKeeps DEF WorkLooks, Reads
<1>11. CASE RecordEvent(p)
  BY <1>11, RecordEventKeeps DEF RecordEvent, Reads
<1>12. CASE MakeTemporary(p)
  BY <1>12, MakeTemporaryKeeps DEF MakeTemporary, Reads
<1>13. CASE UnlinkTemporary(p)
  BY <1>13, UnlinkTemporaryKeeps DEF UnlinkTemporary, Reads
<1> QED
  BY <1>2, <1>3, <1>4, <1>5, <1>6, <1>7, <1>8, <1>9, <1>10, <1>11, <1>12, <1>13
  DEF Own, Work

\* Every step of p leaves the others where they are.
LEMMA OwnIsOwn ==
  ASSUME WorkTyped, NEW p \in Callers, Own(p), NEW q \in Callers \ {p}
  PROVE  /\ pc'[q] = pc[q] /\ current'[q] = current[q]
         /\ known'[q] = known[q] /\ job'[q] = job[q]
<1> DEFINE Others == /\ pc'[q] = pc[q] /\ current'[q] = current[q]
                     /\ known'[q] = known[q] /\ job'[q] = job[q]
<1>1. \A step, a, n : Goes(p, step, a, n) /\ UNCHANGED job => Others
  BY DEF WorkTyped, Goes
<1>2. Ends(p) => Others
  BY DEF WorkTyped, Ends, Goes
<1>3. \A f, c : Writes(p, f, c) => Others
  BY DEF WorkTyped, Writes
<1>4. Completes(p) => Others
  BY <1>1 DEF Completes
<1>5. Written(p) => Others
  <2>1. CASE job[p].file.kind \in {"binding", "event"}
    BY <1>1, <2>1 DEF Written
  <2>2. CASE job[p].file.kind \in {"batch", "look"}
    BY <1>1, <2>2 DEF Written
  <2>3. CASE job[p].file.kind = "final"
    BY <1>2, <2>3 DEF Written
  <2>4. CASE job[p].file.kind \notin {"binding", "event", "batch", "look", "final"}
    BY <1>4, <2>4 DEF Written
  <2> QED
    BY <2>1, <2>2, <2>3, <2>4
<1>6. \A step : pc' = [pc EXCEPT ![p] = step] /\ UNCHANGED <<current, known, job>> => Others
  BY DEF WorkTyped
<1>7. Kill(p) \/ Raise(p) => Others
  BY <1>2 DEF Kill, Raise
<1>8. MakeTemporary(p) \/ LinkFile(p) \/ UnlinkTemporary(p) => Others
  BY <1>2, <1>5, <1>6 DEF MakeTemporary, LinkFile, UnlinkTemporary
<1>9. Call(p) \/ NextStaged(p) => Others
  BY <1>1, <1>2, <1>3 DEF Call, NextStaged
<1>10. ReadPlain(p) => Others
  <2> SUFFICES ASSUME ReadPlain(p) PROVE Others
    OBVIOUS
  <2>1. (\E f, c : Writes(p, f, c)) \/ Completes(p)
    <3>1. CASE current[p].kind = "final"
      BY <3>1 DEF ReadPlain
    <3>2. CASE current[p].kind = "bench" /\ ~Exists(Bench)
      BY <3>2 DEF ReadPlain
    <3>3. CASE current[p].kind # "final" /\ ~(current[p].kind = "bench" /\ ~Exists(Bench))
      BY <3>3 DEF ReadPlain
    <3> QED
      BY <3>1, <3>2, <3>3
  <2> QED
    BY <1>3, <1>4, <2>1
<1>11. ReadTierA(p) \/ ReadLooks(p) => Others
  BY <1>1, <1>2, <1>4 DEF ReadTierA, ReadLooks
<1>12. WorkTierA(p) \/ WorkLooks(p) \/ RecordEvent(p) => Others
  BY <1>2, <1>3, <1>4 DEF WorkTierA, WorkLooks, RecordEvent
<1> QED
  BY <1>7, <1>8, <1>9, <1>10, <1>11, <1>12 DEF Own, Work

\* Only kills leave temporaries, and only they and exceptions are counted.
LEMMA LitterTyped ==
  ASSUME BInv, NEW p \in Callers, Own(p)
  PROVE  (litter \subseteq {Directory(f) : f \in Files})' /\ (faults \in 0..MaxFaults)'
<1>1. /\ litter \subseteq {Directory(f) : f \in Files} /\ faults \in 0..MaxFaults
      /\ MaxFaults \in Nat /\ Writer(p)
  BY BridgeAssumption DEF BInv, BridgeTyped, AtWork
<1>2. CASE Kill(p)
  <2>1. pc[p] \in Writing => job[p].file \in Files
    BY <1>1 DEF Writer
  <2>2. litter' \subseteq {Directory(f) : f \in Files}
    BY <1>1, <1>2, <2>1 DEF Kill, Writing
  <2> QED
    BY <1>1, <1>2, <2>2 DEF Kill, Fault
<1>3. CASE Raise(p)
  BY <1>1, <1>3 DEF Raise, Fault
<1>4. CASE Call(p) \/ Work(p)
  <2>1. UNCHANGED <<litter, faults>>
    BY <1>4 DEF Call, Work, NextStaged, ReadPlain, ReadTierA, ReadLooks, WorkTierA,
       WorkLooks, RecordEvent, MakeTemporary, LinkFile, UnlinkTemporary, Reads, Stays
  <2> QED
    BY <1>1, <2>1
<1> QED
  BY <1>2, <1>3, <1>4 DEF Own

\* The staged driver's caller is alone.
LEMMA OnlyStaged ==
  ASSUME BInv, NEW p \in Callers, Own(p), mode = "staged", NEW q \in Callers \ {p}
  PROVE  pc[q] = "idle"
<1>1. Staged(p) /\ Staged(q)
  BY DEF BInv, AtWork
<1>2. pc[p] = "idle" => p = StagedCaller
  <2>1. pc[p] = "idle" => Call(p)
    BY DEF Own, Work, NextStaged, ReadPlain, ReadTierA, ReadLooks, WorkTierA, WorkLooks,
       RecordEvent, MakeTemporary, LinkFile, UnlinkTemporary, Kill, Raise
  <2> QED
    BY <2>1 DEF Call
<1>3. p = StagedCaller
  BY <1>1, <1>2 DEF Staged
<1> QED
  BY <1>1, <1>3 DEF Staged

\* The invariant is inductive.
LEMMA BridgeStepHolds == BInv /\ [BridgeNext]_bridge => BInv'
<1> SUFFICES ASSUME BInv, [BridgeNext]_bridge PROVE BInv'
  OBVIOUS
<1>1. ASSUME NEW p \in Callers, Own(p) PROVE BInv'
  <2>1. /\ WorkTyped' /\ AtWork(p)'
        /\ UNCHANGED <<mode, science, disk>> \/ Adds(p)
    BY <1>1, OwnKeeps
  <2>2. BridgeTyped' /\ DiskRight' /\ CanonicalDisk' /\ Chain' /\ Grows
    <3>1. CASE UNCHANGED <<mode, science, disk>>
      BY <1>1, <3>1, DiskStays, LitterTyped DEF BInv, BridgeTyped
    <3>2. CASE Adds(p)
      <4>1. UNCHANGED <<mode, science>>
        BY <3>2 DEF Adds
      <4> QED
        BY <1>1, <3>2, <4>1, AddsGrows, AddsRight, AddsChain, LitterTyped DEF BInv, BridgeTyped
    <3> QED
      BY <2>1, <3>1, <3>2
  <2>3. ASSUME NEW q \in Callers \ {p} PROVE AtWork(q)'
    <3>1. WorkTyped
      BY DEF BInv
    <3> QED
      BY <1>1, <2>2, <2>3, <3>1, OwnIsOwn, OnlyStaged, OthersKeepWork
  <2> QED
    BY <2>1, <2>2, <2>3 DEF BInv
<1>2. CASE UNCHANGED bridge
  <2>1. /\ UNCHANGED <<mode, science, disk>>
        /\ UNCHANGED <<litter, pc, current, known, job, faults>>
    BY <1>2 DEF bridge
  <2>2. Grows /\ DiskRight' /\ CanonicalDisk' /\ Chain' /\ Progress' = Progress
    BY <2>1, DiskStays
  <2>3. WorkTyped' /\ BridgeTyped'
    BY <2>1 DEF BInv, WorkTyped, BridgeTyped
  <2>4. ASSUME NEW q \in Callers PROVE AtWork(q)'
    <3>1. AtWork(q) /\ Grows /\ Progress' = Progress /\ Progress + 1 \in Nat
          /\ \A n : OutcomeAt(n)' = OutcomeAt(n)
      BY <2>1, DiskStays, ProgressIs, EndsAre DEF BInv
    <3>2. /\ mode' = mode /\ pc' = pc /\ current' = current /\ known' = known /\ job' = job
      BY <2>1
    <3>3. /\ Fits(job[q].file, job[q].content) => Fits(job[q].file, job[q].content)'
          /\ Rests(job[q].file) => Rests(job[q].file)'
          /\ Exists(job[q].file) => Exists(job[q].file)'
      BY <3>1, <3>2, GrowthKeeps
    <3>4. Ready(current[q]) => Ready(current[q])'
      BY <3>1, <3>2, GrowthKeeps
    <3>5. Counts(q)' /\ Writer(q)' /\ Canonical(q)'
      <4>1. Counts(q)'
        BY <3>1, <3>2, GrowthKeeps DEF AtWork, Counts
      <4>2. Writer(q)'
        BY <3>1, <3>2, <3>3 DEF AtWork, Writer
      <4>3. Canonical(q)'
        BY <3>1, <3>2, <3>4 DEF AtWork, Canonical
      <4> QED
        BY <4>1, <4>2, <4>3
    <3>6. AtNext(q) => AtNext(q)'
      BY <3>1, <3>2, ScheduleStays DEF AtNext
    <3>7. Done(current[q]) => Done(current[q])'
      BY <3>1, <3>2, GrowthKeeps
    <3>8. Staged(q)'
      BY <3>1, <3>2, <3>6, <3>7 DEF AtWork, Staged, Event
    <3> QED
      BY <3>5, <3>8 DEF AtWork
  <2> QED
    BY <2>2, <2>3, <2>4 DEF BInv
<1> QED
  BY <1>1, <1>2 DEF BridgeNext, Own

\* It holds in every state.
LEMMA BridgeInvHolds == BridgeSpec => []BInv
  BY BridgeInitHolds, BridgeStepHolds, PTL DEF BridgeSpec

-----------------------------------------------------------------------------
(* What the invariant gives *)

\* FINAL is over whole families, or over nothing beyond a gate that failed.
LEMMA FinalFollows == BInv => FinalReverifies
<1> SUFFICES ASSUME BInv, Exists(FinalFile) PROVE Reconstructed
  BY DEF FinalReverifies
<1> DEFINE benchmark == disk[Bench]
           passed == benchmark.passed /\ \A d \in Dgps : TierAPassed(d)
<1>1. BridgeTyped /\ DiskRight /\ FinalFile.kind = "final"
  BY DEF BInv, FinalFile, Item
<1>2. mode = "canonical"
  BY <1>1 DEF BInv, Chain, Exists, BridgeTyped
<1>3. \A f \in DOMAIN disk : Ready(f)
  BY <1>2 DEF BInv, CanonicalDisk
<1>4. /\ Exists(Bench) /\ Ready(FinalFile)
      /\ disk[FinalFile] = [bench |-> disk[Bench], gates |-> Gates]
  BY <1>1, <1>3 DEF DiskRight, Fits, Exists
<1>5. benchmark.passed \in BOOLEAN /\ (BenchPassed <=> benchmark.passed)
  BY <1>1, <1>4 DEF DiskRight, Fits, Measurements, Exists, BenchPassed, Bench, Item
<1>6. \A d \in Dgps : Exists(TierA(d)) <=> benchmark.passed
  <2>1. \A d \in Dgps : Exists(TierA(d)) => BenchPassed
    BY <1>3 DEF Ready, Exists, TierA, Item
  <2>2. \A d \in Dgps : BenchPassed => Exists(TierA(d))
    BY <1>1, <1>4 DEF Ready
  <2> QED
    BY <1>5, <2>1, <2>2
<1>7. passed <=> BenchPassed /\ TiersPass
  <2>1. ASSUME benchmark.passed, NEW d \in Dgps PROVE TierAPassed(d) <=> science.tierA[d]
    BY <1>1, <1>6, <2>1, TierAIs
  <2> QED
    BY <1>5, <2>1 DEF TiersPass
<1>8. ASSUME NEW d \in Dgps PROVE Batches(d) = IF benchmark.passed THEN NumBatches ELSE 0
  <2>1. /\ Batches(d) \in 0..NumBatches /\ NumBatches \in Nat \ {0}
        /\ \A n \in 1..NumBatches : Exists(Batch(d, n)) <=> n <= Batches(d)
    BY <1>1, BatchesAre, BridgeAssumption
  <2>2. CASE benchmark.passed
    <3>1. Exists(TierA(d))
      BY <1>6, <2>2
    <3>2. UpTo("batch", d, NumBatches)
      BY <1>1, <3>1 DEF DiskRight, Rests, Exists, TierA, Item
    <3>3. Exists(Batch(d, NumBatches))
      BY <2>1, <3>2 DEF UpTo, Batch
    <3> QED
      BY <2>1, <2>2, <3>3
  <2>3. CASE ~benchmark.passed
    <3>1. ~Exists(Batch(d, 1))
      BY <1>3, <1>5, <2>3 DEF Ready, Exists, Batch, Item
    <3> QED
      BY <2>1, <2>3, <3>1
  <2> QED
    BY <2>2, <2>3
<1>9. ASSUME NEW d \in Dgps
      PROVE  /\ Looks(d) > 0 <=> passed
             /\ \A n \in 1..Looks(d) : Terminal(d, n) <=> n = Looks(d)
  <2>1. /\ Looks(d) \in 0..LastLook(d) /\ LastLook(d) \in 1..NumLooks
        /\ NumLooks \in Nat \ {0}
        /\ \A n \in 1..NumLooks : Exists(Look(d, n)) <=> n <= Looks(d)
        /\ Looked(d) <=> Looks(d) = LastLook(d)
    BY <1>1, LooksAre, LookFacts, BridgeAssumption
  <2>2. CASE passed
    <3>1. Looks(d) = LastLook(d)
      BY <1>1, <1>4, <1>7, <2>1, <2>2 DEF Ready
    <3>2. ASSUME NEW n \in 1..Looks(d) PROVE Terminal(d, n) <=> n = Looks(d)
      <4>1. n \in 1..LastLook(d) /\ n \in 1..NumLooks /\ n > 0
        BY <2>1, <3>1
      <4>2. Exists(Look(d, n))
        BY <2>1, <4>1
      <4>3. disk[Look(d, n)] = Says(science.looks[d][n])
        BY <1>1, <4>2 DEF DiskRight, Fits, Exists, Look, Item
      <4>4. science.looks[d][n] = "continue" <=> n < LastLook(d)
        BY <1>1, <4>1, LookFacts
      <4> QED
        BY <2>1, <3>1, <4>1, <4>3, <4>4 DEF Terminal, Says, Look
    <3> QED
      BY <2>1, <2>2, <3>1, <3>2
  <2>3. CASE ~passed
    <3>1. ~Exists(Look(d, 1))
      BY <1>3, <1>7, <2>3 DEF Ready, Exists, Look, Item
    <3>2. Looks(d) = 0
      BY <2>1, <3>1
    <3> QED
      BY <2>3, <3>2
  <2> QED
    BY <2>2, <2>3
<1>10. ASSUME NEW d \in Dgps
       PROVE  disk[FinalFile].gates[d] <=> passed /\ TierBPassed(d)
  <2>1. TierBPassed(d) <=> BenchPassed /\ TiersPass /\ Passes(d)
    BY <1>1, <1>3, <1>4, GatesAre
  <2>2. disk[FinalFile].gates[d] <=> BenchPassed /\ TiersPass /\ Passes(d)
    <3>1. disk[FinalFile].gates = Gates
      BY <1>4
    <3>2. Gates[d] = (BenchPassed /\ TiersPass /\ Passes(d))
      BY DEF Gates
    <3> QED
      BY <3>1, <3>2, Zenon
  <2> QED
    BY <1>7, <2>1, <2>2
<1> QED
  BY <1>4, <1>6, <1>8, <1>9, <1>10 DEF Reconstructed, TierA

\* The chain is accepted, and nothing is on disk that it does not lead to.
LEMMA PrefixFollows == BInv => PrefixReverifies
<1> SUFFICES ASSUME BInv PROVE PrefixReverifies
  OBVIOUS
<1>1. BridgeTyped /\ WorkTyped /\ DiskRight
  BY DEF BInv
<1>2. BridgeTypeOK
  <2>1. \A f \in DOMAIN disk : disk[f] \in Contents
    BY <1>1, ContentsFit DEF DiskRight, BridgeTyped
  <2>2. \A p \in Callers : job[p].file \in Files \cup {NoItem} /\ job[p].content \in Contents
    BY <1>1 DEF WorkTyped
  <2> QED
    BY <1>1, <2>1, <2>2 DEF BridgeTypeOK, BridgeTyped, WorkTyped
<1> SUFFICES ASSUME mode = "staged"
             PROVE  /\ Accepted(Events)
                    /\ \A f \in DOMAIN disk \ {Binding} : f.kind # "event" =>
                          ActionOf(f) \in {Events[n].action : n \in DOMAIN Events}
                                            \cup {NextAction(Events)}
  BY <1>2 DEF PrefixReverifies
<1>3. /\ Events = Planned(Progress) /\ Progress \in 0..(OtherEnd + 1)
      /\ Progress > 0 => Open(Progress) /\ Exists(Bench)
      /\ OtherEnd \in Nat
  BY <1>1, EventsAre, EndsAre
<1>4. \A n \in 1..Progress : Open(n) /\ Done(ActionAt(n))
  BY DEF BInv, Chain
<1>5. Accepted(Events)
  <2> SUFFICES ASSUME NEW n \in 1..Progress
               PROVE  LET prefix == SubSeq(Events, 1, n - 1)
                      IN /\ Events[n].action = NextAction(prefix)
                         /\ Events[n].outcome = LiveOutcome(prefix, Events[n].action)
    BY <1>3, PlannedIs DEF Accepted
  <2>1. SubSeq(Events, 1, n - 1) = Planned(n - 1)
    BY <1>3 DEF Planned
  <2>2. Events[n].action = ActionAt(n) /\ Events[n].outcome = OutcomeAt(n)
    BY <1>3, PlannedIs
  <2>3. n - 1 > 0 => Open(n - 1) /\ Exists(Bench)
    BY <1>3, <1>4
  <2>4. NextAction(Planned(n - 1)) = ActionAt(n)
    <3>1. n - 1 \in 0..(OtherEnd + 1) /\ (n - 1) + 1 = n /\ Open(n)
      BY <1>3, <1>4
    <3> QED
      BY <1>1, <2>3, <3>1, NextIs
  <2>5. LiveOutcome(Planned(n - 1), ActionAt(n)) = OutcomeAt(n)
    <3>1. n \in 1..(OtherEnd + 1) /\ Done(ActionAt(n))
      BY <1>3, <1>4
    <3> QED
      BY <1>1, <3>1, LiveIs
  <2> QED
    BY <2>1, <2>2, <2>4, <2>5
<1>6. ASSUME NEW f \in DOMAIN disk \ {Binding}, f.kind # "event"
      PROVE  ActionOf(f) \in {Events[n].action : n \in DOMAIN Events} \cup {NextAction(Events)}
  <2>1. f \in Files
    BY <1>1 DEF BridgeTyped
  <2>2. PICK n \in 1..(Progress + 1) : Open(n) /\ ActionOf(f) = ActionAt(n)
    <3>1. f.kind \in {"bench", "tierA", "batch", "look"}
      BY <1>6, <2>1, FileKinds DEF BInv, Chain
    <3> QED
      BY <1>6, <3>1 DEF BInv, Chain
  <2>3. CASE n \in 1..Progress
    BY <1>3, <2>2, <2>3, PlannedIs
  <2>4. CASE n = Progress + 1
    BY <1>1, <1>3, <2>2, <2>4, NextIs
  <2> QED
    BY <1>3, <2>3, <2>4
<1> QED
  BY <1>5, <1>6

\* Whoever wrote what, through kills and calls again, FINAL is what the
\* reverification reconstructs from the checkpoints.
THEOREM FinalAlwaysReverifies == BridgeSpec => []FinalReverifies
  BY BridgeInvHolds, FinalFollows, PTL

\* The chain of the staged driver is always one that its next reverification
\* accepts, and no checkpoint is beyond the action that it comes to next.
THEOREM PrefixAlwaysReverifies == BridgeSpec => []PrefixReverifies
  BY BridgeInvHolds, PrefixFollows, PTL
=============================================================================
