------------------------------ MODULE Allocation ------------------------------
(***************************************************************************)
(* The inclusion rules of dynamics/allocation.py: what of an offer enters  *)
(* a block.  Execution and data have limits and state has none.  Amounts   *)
(* are whole gas; the components of a bundle are whole before they are     *)
(* scaled and fractions after it.                                          *)
(***************************************************************************)
EXTENDS FeeMath, Scaling

DEMAND_RESOURCES == {"execution", "data", "state"}

\* The demand of a block, split by the activity its data comes from.
BundleDemandEvaluation ==
  [execution : Nat, state : Nat,
   static_data : Nat, execution_bal : Nat, state_bal : Nat]

\* What an allocation is called with: _validate_inputs.
valid_inputs(limits, quantum) ==
  \A r \in DEMAND_RESOURCES :
    /\ quantum[r] > 0
    /\ limits[r] # None => limits[r] > 0 /\ limits[r] % quantum[r] = 0

\* Mutant: an amount on the quantum is rounded up too.
quantize_nearest_up(value, quantum) ==
  ((value \div quantum) + 1) * quantum

\* round() takes a half to the even quotient.
quantize_nearest(value, quantum) ==
  LET k == value \div quantum
      rest == 2 * (value % quantum)
  IN  IF rest > quantum \/ (rest = quantum /\ k % 2 = 1) THEN (k + 1) * quantum
      ELSE k * quantum

\* Mutant: a scaled amount stays off the quantum.
floor_to_quantum_forgotten(value, quantum) == value

floor_to_quantum(value, quantum) == (value \div quantum) * quantum

\* The rest of an Allocation follows from what is included.
allocation(offered, included, limits) ==
  [included |-> included,
   unserved |-> [r \in DEMAND_RESOURCES |-> offered[r] - included[r]],
   binding |-> {r \in DEMAND_RESOURCES :
                  limits[r] # None /\ included[r] = limits[r]}]

limited(limits) == {r \in DEMAND_RESOURCES : limits[r] # None}

SeparateResourceCaps(offered, limits) ==
  allocation(offered,
             [r \in DEMAND_RESOURCES |->
                IF limits[r] = None THEN offered[r] ELSE Smaller(offered[r], limits[r])],
             limits)

\* The least fraction of an offer that a limit leaves room for.
capacity_ratio(offered, limits) ==
  LET over == {r \in limited(limits) : offered[r] > limits[r]}
  IN  IF over = {} THEN [limit |-> 1, offered |-> 1]
      ELSE LET tightest == CHOOSE r \in over :
                             \A q \in over :
                               limits[r] * offered[q] <= limits[q] * offered[r]
           IN  [limit |-> limits[tightest], offered |-> offered[tightest]]

ProportionalBundleCaps(offered, limits, quantum) ==
  LET ratio == capacity_ratio(offered, limits)
      share(r) == floor_to_quantum((offered[r] * ratio.limit) \div ratio.offered,
                                   quantum[r])
  IN  allocation(offered,
                 [r \in DEMAND_RESOURCES |->
                    IF limits[r] = None THEN share(r) ELSE Smaller(share(r), limits[r])],
                 limits)

-----------------------------------------------------------------------------
(* ParentBALConsistentCaps.                                                *)

\* execution_cap_scale, as the fraction limit / offered.
execution_cap_scale(offered, limits) ==
  IF limits["execution"] # None /\ offered["execution"] > limits["execution"]
  THEN [limit |-> limits["execution"], offered |-> offered["execution"]]
  ELSE [limit |-> 1, offered |-> 1]

\* data_after_execution_cap times the denominator of the execution scale.
data_after_execution_cap(evaluation, scale) ==
  (evaluation.static_data + evaluation.state_bal) * scale.offered
    + evaluation.execution_bal * scale.limit

\* data_bundle_scale: the fraction that the data limit leaves of what the
\* execution cap left.
data_bundle_scale(evaluation, scale, limits) ==
  LET data == data_after_execution_cap(evaluation, scale)
  IN  IF limits["data"] # None /\ data > limits["data"] * scale.offered
      THEN [limit |-> limits["data"] * scale.offered, offered |-> data]
      ELSE [limit |-> 1, offered |-> 1]

\* Mutant: the data limit does not touch the parents of the data.
included_parent_kept(after_cap, bundle, quantum, loses) == after_cap

included_parent(after_cap, bundle, quantum, loses) ==
  floor_to_quantum(scaled_floor(after_cap, bundle.limit, bundle.offered, loses), quantum)

ParentBALConsistentCaps(evaluation, offered, limits, quantum, loses) ==
  LET scale == execution_cap_scale(offered, limits)
      bundle == data_bundle_scale(evaluation, scale, limits)
      execution_after_cap ==
        floor_to_quantum(scaled_floor(offered["execution"], scale.limit,
                                      scale.offered, loses), quantum["execution"])
      data_after_cap ==
        scaled_floor(1, data_after_execution_cap(evaluation, scale), scale.offered, loses)
      data == IF bundle.limit # bundle.offered THEN limits["data"]
              ELSE IF scale.limit = scale.offered THEN offered["data"]
              ELSE floor_to_quantum(data_after_cap, quantum["data"])
  IN  allocation(offered,
                 [r \in DEMAND_RESOURCES |->
                    CASE r = "execution" ->
                           included_parent(execution_after_cap, bundle,
                                           quantum["execution"], loses)
                      [] r = "state" ->
                           included_parent(offered["state"], bundle,
                                           quantum["state"], loses)
                      [] r = "data" -> data],
                 limits)

=============================================================================
