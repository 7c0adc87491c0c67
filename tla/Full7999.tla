------------------------------- MODULE Full7999 -------------------------------
(***************************************************************************)
(* The passive replay of the full EIP-7999 mechanism                       *)
(* (mechanisms/full_7999.py): execution, bandwidth and state each carry an *)
(* excess and a base fee; a block is charged the fees in force before it   *)
(* and leaves the fees of the next one.  The reserve on bandwidth is       *)
(* anchored to the blob base fee that comes with the block.                *)
(*                                                                         *)
(* The constants are the arguments of make_full_7999_config.  A block is   *)
(* any raw usage, over a limit or not, with any blob base fee.             *)
(***************************************************************************)
EXTENDS FeeMath

CONSTANTS execution_gas_limit, bandwidth_gas_limit, state_gas_target,
          execution_target_ratio, bandwidth_target_ratio,
          bandwidth_reserve_factor, min_base_fee,
          BASE_FEE_UPDATE_FRACTION, GAS_NORMALIZATION_FACTOR

CONSTANTS InitialBaseFees,   \* the initial fee a replay is started from
          ExecutionGas, BandwidthGas, StateGas,    \* raw usage of a block
          BlobBaseFees,      \* the blob base fees a block can come with
          MaxExcess          \* bound: no block that leaves more is replayed

ASSUME ConfigAssumption ==
  /\ execution_gas_limit \in Nat \ {0}
  /\ bandwidth_gas_limit \in Nat \ {0}
  /\ state_gas_target \in Nat \ {0}
  /\ execution_target_ratio \in Nat \ {0}
  /\ bandwidth_target_ratio \in Nat \ {0}
  /\ bandwidth_reserve_factor \in Nat
  /\ min_base_fee \in Nat \ {0}
  /\ BASE_FEE_UPDATE_FRACTION \in Nat \ {0}
  /\ GAS_NORMALIZATION_FACTOR \in Nat \ {0}

ASSUME InputAssumption ==
  /\ \A fee \in InitialBaseFees : fee \in Nat /\ fee >= min_base_fee
  /\ ExecutionGas \subseteq Nat
  /\ BandwidthGas \subseteq Nat
  /\ StateGas \subseteq Nat
  /\ BlobBaseFees \subseteq Nat
  /\ MaxExcess \in Nat

VARIABLES excess_gas,    \* excess of each resource before the next block
          base_fee,      \* fee of each resource governing the next block
          result         \* the row the last replayed block left, or None

vars == <<excess_gas, base_fee, result>>

Resources == {"execution", "bandwidth", "state"}

FeeState == [Resources -> Nat]

\* What result_for_block and the reserve flags record of a block.
Row == [gas_used: [Resources -> Nat], base_fee: FeeState, blob_base_fee: Nat,
        invalid: SUBSET Resources, reserve_active: BOOLEAN]

ASSUME RowAssumption == None \notin Row

-----------------------------------------------------------------------------
limited(limit, ratio, factor) ==
  [gas_limit |-> limit, gas_target |-> limit \div ratio,
   min_base_fee |-> min_base_fee,
   update_fraction |-> BASE_FEE_UPDATE_FRACTION,
   gas_normalization_factor |-> GAS_NORMALIZATION_FACTOR,
   normalization_denominator |-> None, reserve_factor |-> factor]

\* make_full_7999_config: state has no limit and normalises by its target.
config ==
  [r \in Resources |->
     CASE r = "execution" ->
            limited(execution_gas_limit, execution_target_ratio, 0)
       [] r = "bandwidth" ->
            limited(bandwidth_gas_limit, bandwidth_target_ratio,
                    bandwidth_reserve_factor)
       [] r = "state" ->
            [gas_limit |-> None, gas_target |-> state_gas_target,
             min_base_fee |-> min_base_fee,
             update_fraction |-> BASE_FEE_UPDATE_FRACTION,
             gas_normalization_factor |-> GAS_NORMALIZATION_FACTOR,
             normalization_denominator |-> state_gas_target,
             reserve_factor |-> 0]]

\* Only bandwidth is anchored; the other resources carry no anchor.
reserve_anchor(r, blob_base_fee) ==
  IF r = "bandwidth" THEN blob_base_fee ELSE None

exceeded(gas_used) ==
  {r \in Resources : config[r].gas_limit # None /\ gas_used[r] > config[r].gas_limit}

-----------------------------------------------------------------------------
\* initialize_mechanism_states: each excess is warm-started from its fee.
Init ==
  /\ base_fee \in [Resources -> InitialBaseFees]
  /\ excess_gas = [r \in Resources |->
                     excess_gas_for_base_fee(base_fee[r], config[r])]
  /\ result = None

\* step_full_7999.  The row keeps the raw usage and the parent fees; the
\* transition sees the usage capped at the limits.
Step(gas_used, blob_base_fee) ==
  LET next == [r \in Resources |->
                 apply_resource_block(excess_gas[r], base_fee[r],
                                      capped(gas_used[r], config[r]), config[r],
                                      reserve_anchor(r, blob_base_fee))]
  IN  /\ \A r \in Resources : next[r].excess_gas <= MaxExcess
      /\ excess_gas' = [r \in Resources |-> next[r].excess_gas]
      /\ base_fee' = [r \in Resources |-> next[r].base_fee]
      /\ result' = [gas_used |-> gas_used,
                    base_fee |-> base_fee,
                    blob_base_fee |-> blob_base_fee,
                    invalid |-> exceeded(gas_used),
                    reserve_active |->
                      reserve_price_active(base_fee["bandwidth"], blob_base_fee,
                                           config["bandwidth"])]

Block == {gas_used \in [Resources -> ExecutionGas \cup BandwidthGas \cup StateGas] :
            /\ gas_used["execution"] \in ExecutionGas
            /\ gas_used["bandwidth"] \in BandwidthGas
            /\ gas_used["state"] \in StateGas}

Next == \E gas_used \in Block, blob_base_fee \in BlobBaseFees :
          Step(gas_used, blob_base_fee)

Spec == Init /\ [][Next]_vars

\* The replay loop takes the next block as long as the list has one, so a
\* long enough list is replayed to any length.
LiveSpec == Spec /\ WF_vars(Next)

-----------------------------------------------------------------------------
(* Properties.                                                             *)

TypeOK ==
  /\ excess_gas \in FeeState
  /\ base_fee \in FeeState
  /\ result = None \/ result \in Row

\* initialize_mechanism_states seeds each excess from an observed fee: it is
\* the smallest excess whose fee reaches the seed, so the first block may be
\* charged less than the excess stands for, and never more.
WarmStart ==
  result = None =>
    \A r \in Resources :
      /\ base_fee[r] <= compute_base_fee(excess_gas[r], config[r])
      /\ \/ excess_gas[r] = 0
         \/ compute_base_fee(excess_gas[r] - 1, config[r]) < base_fee[r]

\* While the EIP-7918 reserve is on, no block, empty ones included, makes
\* bandwidth cheaper or lowers its excess.
ReserveNeverCheapens ==
  [][result'.reserve_active =>
       /\ excess_gas'["bandwidth"] >= excess_gas["bandwidth"]
       /\ base_fee'["bandwidth"] >= base_fee["bandwidth"]]_vars

\* A bandwidth block of more gas never leaves a smaller excess or fee than a
\* block of less, on either side of the reserve and across the limit: the
\* reserve trades the target's subtraction for a scaled-down addition, and
\* the two must not cross.
MoreGasNeverCheapens ==
  \A blob_base_fee \in BlobBaseFees, x, y \in BandwidthGas :
    x < y =>
      LET after(gas_used) ==
            apply_resource_block(excess_gas["bandwidth"], base_fee["bandwidth"],
                                 capped(gas_used, config["bandwidth"]),
                                 config["bandwidth"], blob_base_fee)
      IN  /\ after(x).excess_gas <= after(y).excess_gas
          /\ after(x).base_fee <= after(y).base_fee

\* The fee of every resource follows its usage in the recorded row: up or
\* level at or over target, down or level at or under it.  Two things are
\* excepted, the reserve and the first block, whose warm-started fee may be
\* below what its excess stands for.
FeesFollowUsage ==
  [][\A r \in Resources :
       LET used == result'.gas_used[r]
       IN  /\ used >= config[r].gas_target => base_fee'[r] >= base_fee[r]
           /\ (/\ used <= config[r].gas_target
               /\ result # None
               /\ ~ (r = "bandwidth" /\ result'.reserve_active))
              => base_fee'[r] <= base_fee[r]]_vars

\* A recorded row agrees with itself: data_reserve_active is on exactly when
\* the recorded fee is below the recorded data_reserve_threshold_wei, which
\* is computed by another formula (a rounded-up division).
ReserveRowAgrees ==
  result # None /\ has_reserve_price(config["bandwidth"]) =>
    (result.reserve_active <=>
       result.base_fee["bandwidth"] <
         reserve_anchor_threshold_base_fee(result.blob_base_fee,
                                           config["bandwidth"]))

BandwidthMarket ==
  INSTANCE PricedResource WITH config <- config["bandwidth"],
                               excess_gas <- excess_gas["bandwidth"],
                               base_fee <- base_fee["bandwidth"]

ExecutionMarket ==
  INSTANCE PricedResource WITH config <- config["execution"],
                               excess_gas <- excess_gas["execution"],
                               base_fee <- base_fee["execution"]

\* A block over a limit moves the fees as a full block does and no further,
\* with the reserve on or off: both limited resources implement a
\* PricedResource for every raw usage.
LimitedResourcesArePriced == BandwidthMarket!Spec /\ ExecutionMarket!Spec

\* Once the blob fee stays as it is and every block uses some bandwidth, even
\* below target, the reserve lifts the fee until it is no longer needed; it may
\* come back on, and is then released again.
ReserveReleases ==
  \A blob_base_fee \in BlobBaseFees :
    <>[](/\ result # None
         /\ result.blob_base_fee = blob_base_fee
         /\ result.gas_used["bandwidth"] > 0)
      => []<>(result # None => ~result.reserve_active)
=============================================================================
