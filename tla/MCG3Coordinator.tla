-------------------------- MODULE MCG3Coordinator --------------------------
(***************************************************************************)
(* A graph with the shapes of the G3 registry: a selection, two branches   *)
(* behind it, one of them the owner of two look families, and a join.      *)
(*                                                                         *)
(*   1 input  2 selection  3 holdout  4 block calibration  5 production    *)
(*   6 artifact                                                            *)
(***************************************************************************)
EXTENDS G3Coordinator

SmallDependencies == <<{}, {1}, {2}, {2}, {3}, {4, 5}>>
SmallOwner == <<4, 4>>
SmallSchedule == <<2, 2>>
=============================================================================
