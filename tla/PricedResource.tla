---------------------------- MODULE PricedResource ----------------------------
(***************************************************************************)
(* What one EIP-7999 resource with a hard limit promises, whatever the     *)
(* mechanism around it does: its fee is a function of its excess alone,    *)
(* and no block moves the excess further than an empty block lowers it or  *)
(* a full one raises it.  Raw usage over the limit, the reserve and the    *)
(* blob fee are invisible here: an implementation may use them only inside *)
(* these bounds.                                                           *)
(***************************************************************************)
EXTENDS FeeMath

CONSTANT config          \* the ResourceFeeConfig of the resource

VARIABLES excess_gas, base_fee

full_rise == normalized(config.gas_limit - config.gas_target,
                        config.gas_limit, config)
empty_fall == normalized(config.gas_target, config.gas_limit, config)

\* A warm start may overshoot the fee it aims at, never undershoot it.
Init ==
  /\ excess_gas \in Nat
  /\ base_fee \in Nat
  /\ base_fee <= compute_base_fee(excess_gas, config)

Block ==
  /\ excess_gas' \in Nat
  /\ excess_gas' <= excess_gas + full_rise
  /\ excess_gas' >= excess_gas - empty_fall
  /\ base_fee' = compute_base_fee(excess_gas', config)

Spec == Init /\ [][Block]_<<excess_gas, base_fee>>
=============================================================================
