-------------------------- MODULE GlamsterdamOnlyConfig --------------------------
(***************************************************************************)
(* The constants of the Glamsterdam-only baseline, the arguments of        *)
(* make_glamsterdam_only_config, and the blocks it is replayed on.         *)
(* Mechanism A keeps them for its execution_state resource.                *)
(***************************************************************************)
EXTENDS FeeMath

CONSTANTS execution_state_gas_limit, execution_state_target_ratio, min_base_fee

CONSTANTS InitialBaseFees, ExecutionGas, StateGas,
          MaxBaseFee         \* bound: no block that leaves a larger fee

gas_target == execution_state_gas_limit \div execution_state_target_ratio

\* update_eip1559_base_fee refuses a zero target.
ASSUME BaselineConfigAssumption ==
  /\ execution_state_gas_limit \in Nat \ {0}
  /\ execution_state_target_ratio \in Nat \ {0}
  /\ gas_target > 0
  /\ min_base_fee \in Nat

ASSUME BaselineInputAssumption ==
  /\ \A fee \in InitialBaseFees : fee \in Nat /\ fee >= min_base_fee
  /\ ExecutionGas \subseteq Nat
  /\ StateGas \subseteq Nat
  /\ MaxBaseFee \in Nat
=================================================================================
