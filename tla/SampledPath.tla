---------------------------- MODULE SampledPath ----------------------------
(***************************************************************************)
(* One path of the bootstrap from its first draw: the Markov chain gives a *)
(* state to each month, segment by segment; the months are expanded into   *)
(* the positions of the path; the trace of BootstrapTrace then samples a   *)
(* row for each.  Chain and expansion are in the program several times     *)
(* over, too, and run side by side.                                        *)
(***************************************************************************)
EXTENDS BootstrapTrace, SequencesExt

CONSTANTS
    Stationary,     \* Stationary[s], in units of 1 / Grid
    Transition,     \* Transition[s][t]
    Geometries      \* [months, days: lengths of the segments, sessions: of a month]

\* What the first k lengths come to: where what follows them starts; and all of them.
TotalOf(lengths, k) ==
    LET sum[i \in 0..Len(lengths)] == IF i = 0 THEN 0 ELSE sum[i - 1] + lengths[i]
    IN sum[k]

Total(lengths) == TotalOf(lengths, Len(lengths))

\* Each segment is of whole months at first, and is then cut short within its last.
TerminalTruncation(g) ==
    /\ g.months \in Seq(Nat \ {0}) /\ g.days \in Seq(Nat \ {0}) /\ g.sessions \in Nat \ {0}
    /\ Len(g.months) = Len(g.days)
    /\ \A k \in DOMAIN g.months :
         g.days[k] \in ((g.months[k] - 1) * g.sessions + 1)..(g.months[k] * g.sessions)

ASSUME PathAssumption ==
    /\ Stationary \in [States -> 0..Grid]
    /\ Transition \in [States -> [States -> 0..Grid]]
    /\ \A g \in Geometries : TerminalTruncation(g) /\ Total(g.days) = NumPositions

Chains == {"scalar", "matrix", "adequacy", "open"}

VARIABLES
    geometry,   \* of this path
    stage,      \* "chain" or "trace"
    month,      \* the next month of the chain
    monthly     \* monthly[c][m]: the state that implementation c gave month m

chain == <<geometry, stage, month, monthly>>

NumMonths == Total(geometry.months)

-----------------------------------------------------------------------------
(* The categorical draw, by four hands *)

Cumulative(law) ==
    LET sum[s \in States] == IF s = 0 THEN law[0] ELSE sum[s - 1] + law[s] IN sum

Clip(s) == IF s < NumStates - 1 THEN s ELSE NumStates - 1

\* The first state whose cumulative probability exceeds the uniform; the last one
\* where rounding leaves the sum below it.
CategoricalIndex(law, u) ==
    LET above == {s \in States : u < Cumulative(law)[s]} IN
    IF above = {} THEN NumStates - 1 ELSE CHOOSE s \in above : \A t \in above : s <= t

\* The number of cumulative probabilities that do not exceed the uniform, clipped.
CategoricalColumns(law, u) == Clip(Cardinality({s \in States : u >= Cumulative(law)[s]}))

\* searchsorted from the right, over a sum that was set to one.
SearchSorted(law, u) ==
    Cardinality({s \in States : u >= (IF s = NumStates - 1 THEN Grid ELSE Cumulative(law)[s])})

\* categorical_from_uniform of the streams: all but the last state are searched.
CategoricalFromUniform(law, u) ==
    LET above == {s \in 0..(NumStates - 2) : u < Cumulative(law)[s]} IN
    IF above = {} THEN NumStates - 1 ELSE CHOOSE s \in above : \A t \in above : s <= t

Drawn(c, law, u) ==
    CASE c = "scalar" -> CategoricalIndex(law, u)
      [] c = "matrix" -> CategoricalColumns(law, u)
      [] c = "adequacy" -> SearchSorted(law, u)
      [] c = "open" -> CategoricalFromUniform(law, u)

-----------------------------------------------------------------------------
(* The chain *)

SegmentStarts == {TotalOf(geometry.months, k) : k \in 0..(Len(geometry.months) - 1)}

\* The chain of a whole path knows no segments.
Follows(c) == c # "open" \/ Len(geometry.months) = 1

\* A segment starts from the stationary law, without regard to what was before.
LawOf(c) ==
    IF month \in SegmentStarts THEN Stationary ELSE Transition[monthly[c][month - 1]]

DrawState(u) ==
    /\ stage = "chain" /\ month < NumMonths
    /\ monthly' = [c \in Chains |->
         IF Follows(c) THEN [monthly[c] EXCEPT ![month] = Drawn(c, LawOf(c), u)]
         ELSE monthly[c]]
    /\ month' = month + 1
    /\ UNCHANGED <<vars, geometry, stage>>

-----------------------------------------------------------------------------
(* The expansion *)

Repeat(states) == FlattenSeq([m \in DOMAIN states |-> [k \in 1..geometry.sessions |-> states[m]]])

\* Segment k of the chain, as a sequence.
MonthsOf(k) ==
    LET first == TotalOf(geometry.months, k - 1) IN
    [m \in 1..geometry.months[k] |-> monthly["scalar"][first + m - 1]]

\* Mutant: all months are repeated, and the whole is cut short once.
ExpandedAcrossGap ==
    SubSeq(FlattenSeq([k \in DOMAIN geometry.months |-> Repeat(MonthsOf(k))]), 1, NumPositions)

\* expand_monthly_states_to_daily: repeat each month, and cut each segment short.
ExpandedStates ==
    FlattenSeq([k \in DOMAIN geometry.months |->
        SubSeq(Repeat(MonthsOf(k)), 1, geometry.days[k])])

SegmentAt(p) ==
    CHOOSE k \in DOMAIN geometry.days :
        /\ TotalOf(geometry.days, k - 1) <= p
        /\ p < TotalOf(geometry.days, k)

\* _expand_target_states: the month of each position, by division.
MonthAt(p) ==
    LET k == SegmentAt(p) IN
    TotalOf(geometry.months, k - 1)
        + (p - TotalOf(geometry.days, k - 1)) \div geometry.sessions

\* All links but those over the end of a segment.
SegmentLinks ==
    0..(NumPositions - 2)
        \ {TotalOf(geometry.days, k) - 1 : k \in 1..(Len(geometry.days) - 1)}

Expand ==
    /\ stage = "chain" /\ month = NumMonths
    /\ targetStates' = [p \in Positions |-> monthly["matrix"][MonthAt(p)]]
    /\ targetLinks' = SegmentLinks
    /\ stage' = "trace"
    /\ UNCHANGED <<sourceStates, sourceLinks, trace, geometry, month, monthly>>

-----------------------------------------------------------------------------
(* A path *)

\* Either a path of the model, whose target the chain is to give, or one without
\* states, whose target is given.
PathInit ==
    /\ geometry \in Geometries
    /\ sourceLinks \in SUBSET (0..(NumRows - 2))
    /\ sourceStates \in [Rows -> States]
    /\ targetStates = [p \in Positions |-> 0]
    /\ \/ /\ stage = "chain" /\ targetLinks = {}
          /\ \A s \in States : Eligible(s) # {}
       \/ /\ stage = "trace" /\ OneState
          /\ targetLinks \in {0..(NumPositions - 2), sourceLinks, SegmentLinks}
          /\ targetLinks \subseteq 0..(NumPositions - 2)
    /\ month = 0
    /\ monthly = [c \in Chains |-> [m \in 0..(NumMonths - 1) |-> -1]]
    /\ Fresh

SampleRow(restart, rank) == stage = "trace" /\ Sample(restart, rank) /\ UNCHANGED chain

PathNext ==
    \/ \E u \in Draws : DrawState(u)
    \/ Expand
    \/ \E restart, rank \in Draws : SampleRow(restart, rank)

PathSpec == PathInit /\ [][PathNext]_<<vars, chain>>

-----------------------------------------------------------------------------
(* Properties *)

\* The four hands draw the same chain from the same uniforms, for whatever law is
\* accepted (with zeros, or short of one by rounding), and both expansions of it,
\* by repetition and by division, put the same state at each position.
PathsAgree ==
    /\ \A c \in Chains : Follows(c) => monthly[c] = monthly["scalar"]
    /\ \A m \in 0..(month - 1) : monthly["scalar"][m] \in States
    /\ (stage = "trace" /\ month = NumMonths) =>
         \A p \in Positions : targetStates[p] = ExpandedStates[p + 1]
=============================================================================
