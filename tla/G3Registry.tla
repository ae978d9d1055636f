---------------------------- MODULE G3Registry ----------------------------
(***************************************************************************)
(* The graph of the program: G3_TASK_REGISTRY and                          *)
(* G3_PLANNED_LOOK_REGISTRY of model/g3_registry.py.                       *)
(***************************************************************************)
EXTENDS Naturals, Sequences

\* G3_GATE_ORDER
GateOrder == <<
    "input_integrity", "design_candidate_viability", "design_predictive_selection",
    "sealed_holdout_veto", "design_macro_stability", "design_latent_correctness",
    "design_refitted_adequacy", "design_block_calibration", "design_fragmentation",
    "design_dependence", "production_fit_same_k", "production_macro_stability",
    "production_latent_correctness", "production_refitted_adequacy",
    "production_block_calibration", "production_fragmentation",
    "production_dependence", "four_cell_adequacy_holm", "four_cell_dependence_holm",
    "bridge_resource_preflight", "bridge_tier_a_model_dgp",
    "bridge_tier_a_nonparametric_dgp", "bridge_tier_b_model_dgp",
    "bridge_tier_b_nonparametric_dgp", "actual_artifact_bridge", "artifact_integrity">>

AfterSelection == {"sealed_holdout_veto", "design_macro_stability",
                   "design_latent_correctness", "design_refitted_adequacy",
                   "design_block_calibration"}
AfterProductionFit == {"production_macro_stability", "production_latent_correctness",
                       "production_refitted_adequacy", "production_block_calibration"}
TierA == {"bridge_tier_a_model_dgp", "bridge_tier_a_nonparametric_dgp"}
TierB == {"bridge_tier_b_model_dgp", "bridge_tier_b_nonparametric_dgp"}

\* What bridge_resource_preflight depends on.
BridgeNeeds ==
    {"design_macro_stability", "production_macro_stability",
     "design_fragmentation", "production_fragmentation",
     "four_cell_adequacy_holm", "four_cell_dependence_holm"}

\* What production_fit_same_k depends on.
ProductionFitNeeds == {"sealed_holdout_veto"}

\* The dependencies of each G3TaskSpec.
DependsOn(task) ==
    CASE task = "input_integrity" -> {}
      [] task = "design_candidate_viability" -> {"input_integrity"}
      [] task = "design_predictive_selection" -> {"design_candidate_viability"}
      [] task \in AfterSelection -> {"design_predictive_selection"}
      [] task = "design_fragmentation" -> {"design_block_calibration"}
      [] task = "design_dependence" ->
           {"design_block_calibration", "design_fragmentation"}
      [] task = "production_fit_same_k" -> ProductionFitNeeds
      [] task \in AfterProductionFit -> {"production_fit_same_k"}
      [] task = "production_fragmentation" -> {"production_block_calibration"}
      [] task = "production_dependence" ->
           {"production_block_calibration", "production_fragmentation"}
      [] task = "four_cell_adequacy_holm" ->
           {"design_latent_correctness", "design_refitted_adequacy",
            "production_latent_correctness", "production_refitted_adequacy"}
      [] task = "four_cell_dependence_holm" ->
           {"design_dependence", "production_dependence"}
      [] task = "bridge_resource_preflight" -> BridgeNeeds
      [] task \in TierA -> {"bridge_resource_preflight"}
      [] task \in TierB -> TierA
      [] task = "actual_artifact_bridge" -> TierA \cup TierB
      [] task = "artifact_integrity" -> {"actual_artifact_bridge"}

\* The owners of the six planned-look families, in registry order.
LookOwners == <<"design_block_calibration", "design_block_calibration",
                "production_block_calibration", "production_block_calibration",
                "bridge_tier_b_model_dgp", "bridge_tier_b_nonparametric_dgp">>

Position(task) == CHOOSE n \in 1..Len(GateOrder) : GateOrder[n] = task
=============================================================================
