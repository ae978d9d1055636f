---------------------------- MODULE MCBridgeDriver ----------------------------
(***************************************************************************)
(* BridgeDriver on two batches and two planned looks, for requests of each *)
(* kind: a gate of Tier A fails, a look decides at once, later, at the     *)
(* maximum, or has an invalid pair.                                        *)
(***************************************************************************)
EXTENDS BridgeDriver

\* Every sequence of looks of the model process, a late failure of the other,
\* and a Tier A that fails for either.
Pass == <<"pass_above_tail">>
Results(a, b, s, t) ==
    [tierA |-> [d \in Dgps |-> IF d = "model" THEN a ELSE b],
     looks |-> [d \in Dgps |-> IF d = "model" THEN s ELSE t]]
MCSciences ==
    {Results(TRUE, TRUE, s, Pass) : s \in LookSequences}
        \cup {Results(TRUE, TRUE, Pass, <<"continue", "fail_closed_at_maximum">>),
              Results(FALSE, TRUE, Pass, Pass), Results(TRUE, FALSE, Pass, Pass)}
=============================================================================
