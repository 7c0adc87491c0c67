----------------------------- MODULE DrivenReplay -----------------------------
(***************************************************************************)
(* The driven replay of the full mechanism (dynamics/full_7999.py): each   *)
(* block's demand is evaluated at the current fees, quantised, cut to what *)
(* the inclusion rule lets into the block, and handed to step_full_7999.   *)
(* What is rejected is recorded and forgotten: there is no backlog.        *)
(*                                                                         *)
(* Demand is a float; here it is any bundle of whole gas, whose data need  *)
(* not be a multiple of the data quantum.                                  *)
(***************************************************************************)
EXTENDS Full7999

CONSTANTS Rules,             \* the inclusion rules replayed
          Demand,            \* the bundles a block's demand may be
          data_quantum       \* DEFAULT_GAS_QUANTUM; it is 1 for the others

VARIABLES inclusion_rule,
          driven             \* what the last row adds to result, or None

driven_vars == <<excess_gas, base_fee, result, inclusion_rule, driven>>

Inclusion == INSTANCE Allocation

DEMAND_TO_MECHANISM ==
  [r \in Inclusion!DEMAND_RESOURCES |-> IF r = "data" THEN "bandwidth" ELSE r]

quantum == [r \in Inclusion!DEMAND_RESOURCES |-> IF r = "data" THEN data_quantum ELSE 1]

limits == [r \in Inclusion!DEMAND_RESOURCES |-> config[DEMAND_TO_MECHANISM[r]].gas_limit]

ASSUME DrivenAssumption ==
  /\ Rules \subseteq {"separate_resource_caps", "proportional_bundle_caps",
                      "parent_bal_consistent_caps"}
  /\ Demand \subseteq Inclusion!BundleDemandEvaluation
  /\ data_quantum \in Nat \ {0}
  /\ Inclusion!valid_inputs(limits, quantum)

-----------------------------------------------------------------------------
offered_before_quantization(evaluation) ==
  [r \in Inclusion!DEMAND_RESOURCES |->
     IF r = "data"
     THEN evaluation.static_data + evaluation.execution_bal + evaluation.state_bal
     ELSE evaluation[r]]

offered_gas(evaluation) ==
  [r \in Inclusion!DEMAND_RESOURCES |->
     Inclusion!quantize_nearest(offered_before_quantization(evaluation)[r], quantum[r])]

allocated(evaluation, loses) ==
  LET offered == offered_gas(evaluation)
  IN  CASE inclusion_rule = "separate_resource_caps" ->
             Inclusion!SeparateResourceCaps(offered, limits)
        [] inclusion_rule = "proportional_bundle_caps" ->
             Inclusion!ProportionalBundleCaps(offered, limits, quantum)
        [] inclusion_rule = "parent_bal_consistent_caps" ->
             Inclusion!ParentBALConsistentCaps(evaluation, offered, limits, quantum,
                                               loses)

usage(included) ==
  [r \in Resources |-> CASE r = "execution" -> included["execution"]
                         [] r = "bandwidth" -> included["data"]
                         [] r = "state" -> included["state"]]

DrivenInit ==
  /\ Init
  /\ inclusion_rule \in Rules
  /\ driven = None

\* One turn of the loop: demand, quantisation, inclusion, transition, row.
DrivenStep(evaluation, loses, blob_base_fee) ==
  LET allocation == allocated(evaluation, loses)
  IN  /\ Step(usage(allocation.included), blob_base_fee)
      /\ driven' = [evaluation |-> evaluation,
                    offered |-> offered_gas(evaluation),
                    included |-> allocation.included,
                    unserved |-> allocation.unserved,
                    binding |-> allocation.binding,
                    next_base_fee |-> base_fee']
      /\ UNCHANGED inclusion_rule

DrivenNext ==
  \E evaluation \in Demand, loses \in BOOLEAN, blob_base_fee \in BlobBaseFees :
    DrivenStep(evaluation, loses, blob_base_fee)

DrivenSpec == DrivenInit /\ [][DrivenNext]_driven_vars

-----------------------------------------------------------------------------
(* Properties.                                                             *)

\* Inclusion never takes more than was offered or than a limit admits, keeps
\* to the data quantum, and loses nothing: what is not included is unserved,
\* and the mechanism is never handed a block over a limit.
\* Offers are rounded to the nearest quantum and inclusion down, so that the
\* two could disagree by a quantum.
InclusionIsFeasible ==
  driven # None =>
    /\ result.invalid = {}
    /\ \A r \in Inclusion!DEMAND_RESOURCES :
         /\ driven.included[r] >= 0
         /\ driven.unserved[r] >= 0
         /\ driven.included[r] + driven.unserved[r] = driven.offered[r]
         /\ limits[r] # None => driven.included[r] <= limits[r]
         /\ driven.included[r] % quantum[r] = 0

exceeded_limits ==
  {r \in Inclusion!limited(limits) :
     offered_before_quantization(driven.evaluation)[r] > limits[r]}

\* Nothing is rationed unless demand exceeds a limit, and a block whose offer
\* does is full: a limit is reached exactly and reported as binding.  (The
\* parent rule reaches the data limit only: its execution is a float product.)
RationedBlocksAreFull ==
  driven # None =>
    /\ (\E r \in Inclusion!DEMAND_RESOURCES : driven.unserved[r] > 0)
          => exceeded_limits # {}
    /\ inclusion_rule # "parent_bal_consistent_caps" =>
         \A r \in Inclusion!limited(limits) :
           driven.offered[r] > limits[r] =>
             \E b \in driven.binding :
               /\ driven.included[b] = limits[b]
               /\ inclusion_rule = "separate_resource_caps" => b = r

\* A bundle is cut as a whole.  The proportional rule leaves no resource a
\* larger share than the tightest limit admits, and no share smaller by a
\* quantum or more.  The parent rule leaves a parent the share that its BAL is
\* left, but for the gas that two floors may take.
BundlesAreCutAsAWhole ==
  driven # None =>
    /\ inclusion_rule = "proportional_bundle_caps" =>
         LET over == {b \in Inclusion!limited(limits) : driven.offered[b] > limits[b]}
         IN  /\ \A b \in over, r \in Inclusion!DEMAND_RESOURCES :
                  driven.included[r] * driven.offered[b] <= driven.offered[r] * limits[b]
             /\ over # {} =>
                  \E b \in over : \A r \in Inclusion!DEMAND_RESOURCES :
                    (driven.included[r] + quantum[r]) * driven.offered[b]
                      > driven.offered[r] * limits[b]
    /\ inclusion_rule = "parent_bal_consistent_caps" =>
         LET scale == Inclusion!execution_cap_scale(driven.offered, limits)
             bundle == Inclusion!data_bundle_scale(driven.evaluation, scale, limits)
             whole == scale.offered * bundle.offered
             kept == driven.offered["execution"] * scale.limit * bundle.limit
         IN  /\ driven.included["execution"] * whole <= kept
             /\ (driven.included["execution"] + 2) * whole >= kept
             /\ driven.included["state"] * bundle.offered
                  <= driven.offered["state"] * bundle.limit
             /\ (driven.included["state"] + 1) * bundle.offered
                  >= driven.offered["state"] * bundle.limit

\* The parent rule's execution cap is reached, as the test of the rule has it
\* for a block of 200 over a limit of 150.
ExecutionCapIsReached ==
  driven # None /\ inclusion_rule = "parent_bal_consistent_caps" =>
    (exceeded_limits = {"execution"} =>
       driven.included["execution"] = limits["execution"])

=============================================================================
