------------------------------ MODULE MechanismA ------------------------------
(***************************************************************************)
(* Mechanism A (mechanisms/bandwidth_7999_state_8037.py): an EIP-1559 fee  *)
(* on execution_state, the larger of execution and state gas, next to an   *)
(* EIP-7999 bandwidth resource with its reserve.  The constants are the    *)
(* arguments of make_mechanism_A_config.                                   *)
(***************************************************************************)
EXTENDS GlamsterdamOnlyConfig

CONSTANTS bandwidth_gas_limit, bandwidth_target_ratio, bandwidth_reserve_factor,
          BASE_FEE_UPDATE_FRACTION, GAS_NORMALIZATION_FACTOR

CONSTANTS BandwidthGas, BlobBaseFees,
          MaxExcess      \* bound on the bandwidth excess

VARIABLES base_fee,      \* fee of each resource governing the next block
          excess_gas,    \* excess of bandwidth; execution_state keeps none
          result         \* the row the last replayed block left, or None

vars == <<base_fee, excess_gas, result>>

Resources == {"execution_state", "bandwidth"}

\* What result_for_block records of a block.
Row == [gas_used: [Resources -> Nat], base_fee: [Resources -> Nat],
        blob_base_fee: Nat, invalid: SUBSET Resources]

ASSUME RowAssumption == None \notin Row

execution_state_target == gas_target

bandwidth ==
  [gas_limit |-> bandwidth_gas_limit,
   gas_target |-> bandwidth_gas_limit \div bandwidth_target_ratio,
   min_base_fee |-> min_base_fee,
   update_fraction |-> BASE_FEE_UPDATE_FRACTION,
   gas_normalization_factor |-> GAS_NORMALIZATION_FACTOR,
   normalization_denominator |-> None,
   reserve_factor |-> bandwidth_reserve_factor]

\* What the bandwidth resource asks of its arguments, and of the shared minimum.
ASSUME MechanismAAssumption ==
  /\ bandwidth_gas_limit \in Nat \ {0}
  /\ bandwidth_target_ratio \in Nat \ {0}
  /\ bandwidth_reserve_factor \in Nat
  /\ min_base_fee \in Nat \ {0}
  /\ BASE_FEE_UPDATE_FRACTION \in Nat \ {0}
  /\ GAS_NORMALIZATION_FACTOR \in Nat \ {0}
  /\ BandwidthGas \subseteq Nat
  /\ BlobBaseFees \subseteq Nat
  /\ MaxExcess \in Nat

Init ==
  /\ base_fee \in [Resources -> InitialBaseFees]
  /\ excess_gas = excess_gas_for_base_fee(base_fee["bandwidth"], bandwidth)
  /\ result = None

\* Mutant: raw usage reaches the update.
apply_execution_state_block_uncapped(gas_used) ==
  update_eip1559_base_fee(base_fee["execution_state"], gas_used,
                          execution_state_target, min_base_fee)

apply_execution_state_block(gas_used) ==
  update_eip1559_base_fee(base_fee["execution_state"],
                          Smaller(gas_used, execution_state_gas_limit),
                          execution_state_target, min_base_fee)

\* Mutant: raw usage reaches the update.
apply_bandwidth_block_uncapped(gas_used, blob_base_fee) ==
  apply_resource_block(excess_gas, base_fee["bandwidth"], gas_used, bandwidth,
                       blob_base_fee)

apply_bandwidth_block(gas_used, blob_base_fee) ==
  apply_resource_block(excess_gas, base_fee["bandwidth"],
                       Smaller(gas_used, bandwidth_gas_limit), bandwidth,
                       blob_base_fee)

exceeded(used, bandwidth_gas) ==
  {r \in Resources : IF r = "bandwidth" THEN bandwidth_gas > bandwidth_gas_limit
                                        ELSE used > execution_state_gas_limit}

\* One turn of the loop of replay_bandwidth_7999_state_8037.
Step(execution_gas_used, state_gas_used, bandwidth_gas, blob_base_fee) ==
  LET used == Larger(execution_gas_used, state_gas_used)
      fee  == apply_execution_state_block(used)
      data == apply_bandwidth_block(bandwidth_gas, blob_base_fee)
  IN  /\ fee <= MaxBaseFee
      /\ data.excess_gas <= MaxExcess
      /\ base_fee' = [execution_state |-> fee, bandwidth |-> data.base_fee]
      /\ excess_gas' = data.excess_gas
      /\ result' = [gas_used |-> [execution_state |-> used,
                                  bandwidth |-> bandwidth_gas],
                    base_fee |-> base_fee,
                    blob_base_fee |-> blob_base_fee,
                    invalid |-> exceeded(used, bandwidth_gas)]

Next ==
  \E execution_gas_used \in ExecutionGas, state_gas_used \in StateGas,
     bandwidth_gas \in BandwidthGas, blob_base_fee \in BlobBaseFees :
       Step(execution_gas_used, state_gas_used, bandwidth_gas, blob_base_fee)

Spec == Init /\ [][Next]_vars

\* The loop goes on as long as the list has blocks; a list that ends in empty
\* blocks is as long as the replay needs.
LiveSpec == Spec /\ WF_vars(Step(0, 0, 0, 0))

-----------------------------------------------------------------------------
(* Properties.                                                             *)

TypeOK ==
  /\ base_fee \in [Resources -> Nat]
  /\ base_fee["execution_state"] >= min_base_fee
  /\ excess_gas \in Nat
  /\ result = None \/ result \in Row

Baseline ==
  INSTANCE GlamsterdamOnly WITH
    base_fee <- base_fee["execution_state"],
    result <- IF result = None THEN None
              ELSE [gas_used |-> result.gas_used["execution_state"],
                    base_fee |-> result.base_fee["execution_state"],
                    invalid |-> "execution_state" \in result.invalid]

\* Taking bandwidth out into a market of its own changes nothing else: the
\* execution_state column of every Mechanism A replay, fees, usage and flags,
\* is a replay of the Glamsterdam-only baseline on the same blocks.
ExecutionStateIsBaseline == Baseline!Spec

\* A replay that from some block on is of blocks without execution and state
\* gas brings every execution_state fee down, to 7 wei and no further.
EmptyBlocksDrain == Baseline!EmptyBlocksDrain

BandwidthMarket ==
  INSTANCE PricedResource WITH config <- bandwidth,
                               base_fee <- base_fee["bandwidth"]

\* Bandwidth keeps the promise the full mechanism keeps: its fee is a function
\* of its excess, moved by no more than a full or an empty block moves it.
BandwidthIsPriced == BandwidthMarket!Spec
=============================================================================
