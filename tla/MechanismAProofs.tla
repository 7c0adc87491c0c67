--------------------------- MODULE MechanismAProofs ---------------------------
(***************************************************************************)
(* Proofs about the Glamsterdam-only baseline and about Mechanism A, which *)
(* refines it and, for its bandwidth, PricedResource: for every limit,     *)
(* target, minimum fee and block.                                          *)
(***************************************************************************)
EXTENDS MechanismA, FeeMathProofs

(***************************************************************************)
(* The baseline, replayed on its own.                                      *)
(***************************************************************************)
VARIABLES baseline_fee, baseline_row

Replay == INSTANCE GlamsterdamOnly WITH base_fee <- baseline_fee,
                                        result <- baseline_row

replay_vars == <<baseline_fee, baseline_row>>

LEMMA Target ==
  /\ gas_target \in Nat \ {0}
  /\ gas_target <= execution_state_gas_limit
<1>1. execution_state_gas_limit
        <= execution_state_target_ratio * execution_state_gas_limit
  BY BaselineConfigAssumption
<1>2. /\ gas_target \in Nat
      /\ gas_target <= execution_state_gas_limit
  BY <1>1, BaselineConfigAssumption, DivFacts, DivBound DEF gas_target
<1> QED BY <1>2, BaselineConfigAssumption

\* The instance computes with the very operators of this module.
LEMMA ReplayMath ==
  /\ Replay!gas_target = gas_target
  /\ \A x, y : /\ Replay!Larger(x, y) = Larger(x, y)
               /\ Replay!Smaller(x, y) = Smaller(x, y)
  /\ \A base_fee_now, used, target, minimum :
       Replay!update_eip1559_base_fee(base_fee_now, used, target, minimum)
         = update_eip1559_base_fee(base_fee_now, used, target, minimum)
  /\ Replay!BASE_FEE_MAX_CHANGE_DENOMINATOR = BASE_FEE_MAX_CHANGE_DENOMINATOR
BY DEF gas_target, Larger, Smaller, update_eip1559_base_fee,
       BASE_FEE_MAX_CHANGE_DENOMINATOR, Replay!gas_target, Replay!Larger,
       Replay!Smaller, Replay!update_eip1559_base_fee,
       Replay!BASE_FEE_MAX_CHANGE_DENOMINATOR

\* A block, as the transition sees it: its bottleneck, capped at the limit.
LEMMA BottleneckBlock ==
  ASSUME Replay!TypeOK, NEW execution_gas_used \in ExecutionGas,
         NEW state_gas_used \in StateGas,
         Replay!Step(execution_gas_used, state_gas_used)
  PROVE  \E used, seen \in Nat :
           /\ seen = Smaller(used, execution_state_gas_limit)
           /\ baseline_fee' = update_eip1559_base_fee(baseline_fee, seen, gas_target,
                                                      min_base_fee)
           /\ baseline_row' = [gas_used |-> used, base_fee |-> baseline_fee,
                               invalid |-> used > execution_state_gas_limit]
<1>1. Larger(execution_gas_used, state_gas_used) \in Nat
  BY BaselineInputAssumption DEF Larger
<1>2. Smaller(Larger(execution_gas_used, state_gas_used),
              execution_state_gas_limit) \in Nat
  BY <1>1, BaselineConfigAssumption DEF Smaller
<1> QED BY <1>1, <1>2, ReplayMath DEF Replay!Step

\* The fee stays a number at or over its minimum, and rows are well formed.
THEOREM BaselineTypeCorrect == Replay!Spec => []Replay!TypeOK
<1>1. Replay!Init => Replay!TypeOK
  BY BaselineInputAssumption DEF Replay!Init, Replay!TypeOK
<1>2. ASSUME Replay!TypeOK, NEW execution_gas_used \in ExecutionGas,
             NEW state_gas_used \in StateGas,
             Replay!Step(execution_gas_used, state_gas_used)
      PROVE  Replay!TypeOK'
  <2>1. PICK used, seen \in Nat :
          /\ baseline_fee' = update_eip1559_base_fee(baseline_fee, seen, gas_target,
                                                     min_base_fee)
          /\ baseline_row' = [gas_used |-> used, base_fee |-> baseline_fee,
                              invalid |-> used > execution_state_gas_limit]
    BY <1>2, BottleneckBlock
  <2>2. /\ baseline_fee \in Nat /\ min_base_fee \in Nat
        /\ min_base_fee <= baseline_fee
    BY <1>2, BaselineConfigAssumption DEF Replay!TypeOK
  <2>3. baseline_fee' \in Nat /\ baseline_fee' >= min_base_fee
    BY <2>1, <2>2, Target, Update1559
  <2> QED BY <2>1, <2>2, <2>3 DEF Replay!TypeOK
<1>3. Replay!TypeOK /\ [Replay!Next]_replay_vars => Replay!TypeOK'
  <2>1. Replay!TypeOK /\ UNCHANGED replay_vars => Replay!TypeOK'
    BY DEF Replay!TypeOK, replay_vars
  <2> QED BY <1>2, <2>1 DEF Replay!Next
<1> QED BY <1>1, <1>3, PTL DEF Replay!Spec, Replay!vars, replay_vars

\* Below 8 wei no block lowers the fee, and from above none takes it below 7.
THEOREM SubEightHolds == Replay!Spec => Replay!SubEightFeesDoNotFall
<1>1. Replay!TypeOK /\ [Replay!Next]_replay_vars
        => [baseline_fee' >= Replay!Smaller(baseline_fee, 7)]_replay_vars
  <2> SUFFICES ASSUME Replay!TypeOK, NEW execution_gas_used \in ExecutionGas,
                      NEW state_gas_used \in StateGas,
                      Replay!Step(execution_gas_used, state_gas_used)
               PROVE  baseline_fee' >= Smaller(baseline_fee, 7)
    BY ReplayMath DEF Replay!Next
  <2>1. PICK used, seen \in Nat :
          baseline_fee' = update_eip1559_base_fee(baseline_fee, seen, gas_target,
                                                  min_base_fee)
    BY BottleneckBlock
  <2>2. /\ baseline_fee \in Nat /\ min_base_fee \in Nat
        /\ min_base_fee <= baseline_fee
    BY BaselineConfigAssumption DEF Replay!TypeOK
  <2> QED BY <2>1, <2>2, Target, Update1559
<1> QED BY <1>1, BaselineTypeCorrect, PTL
     DEF Replay!Spec, Replay!SubEightFeesDoNotFall, Replay!vars, replay_vars

\* The recorded usage, over the limit or not, and the fee it leads to agree.
THEOREM FeeFollowsUsageHolds == Replay!Spec => Replay!FeeFollowsUsage
<1> DEFINE Follows ==
      LET full == ((baseline_fee * (execution_state_gas_limit - Replay!gas_target))
                     \div Replay!gas_target) \div Replay!BASE_FEE_MAX_CHANGE_DENOMINATOR
      IN  IF baseline_row'.gas_used > Replay!gas_target
              /\ Replay!gas_target < execution_state_gas_limit
          THEN /\ baseline_fee' > baseline_fee
               /\ baseline_fee' <= baseline_fee + Replay!Larger(full, 1)
          ELSE baseline_fee' <= baseline_fee
<1>1. Replay!TypeOK /\ [Replay!Next]_replay_vars => [Follows]_replay_vars
  <2> SUFFICES ASSUME Replay!TypeOK, NEW execution_gas_used \in ExecutionGas,
                      NEW state_gas_used \in StateGas,
                      Replay!Step(execution_gas_used, state_gas_used)
               PROVE  Follows
    BY DEF Replay!Next
  <2> DEFINE limit == execution_state_gas_limit
             full == change(baseline_fee, limit - gas_target, gas_target)
  <2>1. PICK used, seen \in Nat :
          /\ seen = Smaller(used, limit)
          /\ baseline_fee' = update_eip1559_base_fee(baseline_fee, seen, gas_target,
                                                     min_base_fee)
          /\ baseline_row' = [gas_used |-> used, base_fee |-> baseline_fee,
                              invalid |-> used > limit]
    BY BottleneckBlock
  <2>2. /\ baseline_fee \in Nat /\ min_base_fee \in Nat
        /\ min_base_fee <= baseline_fee
    BY BaselineConfigAssumption DEF Replay!TypeOK
  <2>3. /\ limit \in Nat /\ seen <= limit
        /\ used > gas_target /\ gas_target < limit => seen > gas_target
        /\ ~ (used > gas_target /\ gas_target < limit) => seen <= gas_target
    BY <2>1, Target, BaselineConfigAssumption DEF Smaller
  <2>4. /\ seen > gas_target => baseline_fee' > baseline_fee
        /\ seen <= gas_target => baseline_fee' <= baseline_fee
    BY <2>1, <2>2, Target, Update1559
  <2>5. baseline_fee' <= baseline_fee + Larger(full, 1)
    BY <2>1, <2>2, <2>3, Target, Update1559
  <2>6. baseline_row'.gas_used = used
    BY <2>1
  <2> HIDE DEF limit
  <2> QED BY <2>3, <2>4, <2>5, <2>6, ReplayMath DEF limit, change
<1> QED BY <1>1, BaselineTypeCorrect, PTL
     DEF Replay!Spec, Replay!FeeFollowsUsage, Replay!vars, replay_vars

\* From every reachable fee, more gas never leaves a smaller fee.
THEOREM MoreGasHolds == Replay!Spec => []Replay!MoreGasNeverCheapens
<1>1. Replay!TypeOK => Replay!MoreGasNeverCheapens
  <2> SUFFICES ASSUME Replay!TypeOK, NEW x \in ExecutionGas \cup StateGas,
                      NEW y \in ExecutionGas \cup StateGas, x < y
               PROVE  update_eip1559_base_fee(baseline_fee,
                        Smaller(x, execution_state_gas_limit), gas_target, min_base_fee)
                      <= update_eip1559_base_fee(baseline_fee,
                        Smaller(y, execution_state_gas_limit), gas_target, min_base_fee)
    BY ReplayMath DEF Replay!MoreGasNeverCheapens
  <2>1. x \in Nat /\ y \in Nat
    BY BaselineInputAssumption
  <2>2. /\ Smaller(x, execution_state_gas_limit) \in Nat
        /\ Smaller(y, execution_state_gas_limit) \in Nat
        /\ Smaller(x, execution_state_gas_limit)
             <= Smaller(y, execution_state_gas_limit)
    BY <2>1, BaselineConfigAssumption DEF Smaller
  <2>3. /\ baseline_fee \in Nat /\ min_base_fee \in Nat
        /\ min_base_fee <= baseline_fee
    BY BaselineConfigAssumption DEF Replay!TypeOK
  <2> QED BY <2>2, <2>3, Target, Mono1559
<1> QED BY <1>1, BaselineTypeCorrect, PTL

(***************************************************************************)
(* Mechanism A.                                                            *)
(***************************************************************************)
\* Bandwidth has a proper configuration, with its limit and minimum fee.
LEMMA BandwidthConfig == IsLimited(bandwidth) /\ IsCurve(bandwidth)
                         /\ bandwidth.gas_limit = bandwidth_gas_limit
                         /\ bandwidth.min_base_fee = min_base_fee
<1> DEFINE c == bandwidth
<1>1. /\ c.gas_limit = bandwidth_gas_limit
      /\ c.gas_target = bandwidth_gas_limit \div bandwidth_target_ratio
      /\ c.min_base_fee = min_base_fee
      /\ c.update_fraction = BASE_FEE_UPDATE_FRACTION
      /\ c.gas_normalization_factor = GAS_NORMALIZATION_FACTOR
      /\ c.normalization_denominator = None
      /\ c.reserve_factor = bandwidth_reserve_factor
  BY DEF bandwidth
<1>2. /\ c.gas_target \in Nat /\ c.gas_target <= c.gas_limit
      /\ c.gas_limit \in Nat \ {0}
  <2>1. bandwidth_gas_limit <= bandwidth_target_ratio * bandwidth_gas_limit
    BY MechanismAAssumption, BaselineConfigAssumption, BaselineInputAssumption
  <2> QED BY <1>1, <2>1, MechanismAAssumption, BaselineConfigAssumption, BaselineInputAssumption, DivFacts, DivBound
<1> HIDE DEF c
<1>3. c.gas_limit # None
  BY <1>2, NoneAssumption
<1>4. normalization_denominator_value(c) = c.gas_limit
  BY <1>1, <1>3 DEF normalization_denominator_value
<1>5. IsCurve(c)
  BY <1>1, MechanismAAssumption, BaselineConfigAssumption, BaselineInputAssumption DEF IsCurve
<1>6. IsConfig(c)
  BY <1>1, <1>2, <1>4, <1>5, MechanismAAssumption, BaselineConfigAssumption, BaselineInputAssumption DEF IsConfig
<1>7. IsLimited(c)
  BY <1>2, <1>4, <1>6 DEF IsLimited
<1> QED BY <1>1, <1>5, <1>7 DEF c

\* What the warm start makes of the two resources.
LEMMA Warm ==
  ASSUME Init
  PROVE  /\ base_fee \in [Resources -> Nat]
         /\ excess_gas \in Nat
         /\ base_fee["bandwidth"] <= compute_base_fee(excess_gas, bandwidth)
<1>1. /\ base_fee \in [Resources -> Nat]
      /\ base_fee["bandwidth"] >= min_base_fee
  BY MechanismAAssumption, BaselineConfigAssumption, BaselineInputAssumption DEF Init, Resources
<1>2. base_fee["bandwidth"] \in Nat
      /\ excess_gas = excess_gas_for_base_fee(base_fee["bandwidth"], bandwidth)
  BY <1>1 DEF Init, Resources
<1> QED BY <1>1, <1>2, BandwidthConfig, WarmStartExcess

\* The bandwidth side of a block.
LEMMA BandwidthBlock ==
  ASSUME excess_gas \in Nat, NEW used \in Nat, NEW blob_base_fee
  PROVE  LET data == apply_bandwidth_block(used, blob_base_fee)
         IN  /\ data.excess_gas \in Nat
             /\ data.excess_gas <= excess_gas
                  + normalized(bandwidth.gas_limit - bandwidth.gas_target,
                               bandwidth.gas_limit, bandwidth)
             /\ data.excess_gas >= excess_gas
                  - normalized(bandwidth.gas_target, bandwidth.gas_limit, bandwidth)
             /\ data.base_fee = compute_base_fee(data.excess_gas, bandwidth)
             /\ data.base_fee \in Nat
<1> DEFINE seen == Smaller(used, bandwidth_gas_limit)
           next == update_normalized_excess_gas(excess_gas, seen, bandwidth,
                                                base_fee["bandwidth"], blob_base_fee)
<1>1. /\ apply_bandwidth_block(used, blob_base_fee).excess_gas = next
      /\ apply_bandwidth_block(used, blob_base_fee).base_fee
           = compute_base_fee(next, bandwidth)
  BY DEF apply_bandwidth_block, apply_resource_block
<1>2. seen \in Nat /\ seen <= bandwidth.gas_limit
  BY BandwidthConfig, MechanismAAssumption, BaselineConfigAssumption, BaselineInputAssumption DEF Smaller
<1>3. IsLimited(bandwidth) /\ IsConfig(bandwidth)
  BY BandwidthConfig DEF IsLimited
<1> HIDE DEF seen
<1>4. next \in Nat
  BY <1>2, <1>3, UpdateDirection
<1>5. /\ next <= excess_gas
           + normalized(bandwidth.gas_limit - bandwidth.gas_target,
                        bandwidth.gas_limit, bandwidth)
      /\ next >= excess_gas
           - normalized(bandwidth.gas_target, bandwidth.gas_limit, bandwidth)
  BY <1>2, <1>3, UpdateBounded
<1> HIDE DEF next
<1>6. compute_base_fee(next, bandwidth) \in Nat
  BY <1>4, BandwidthConfig, FeeType
<1> QED BY <1>1, <1>4, <1>5, <1>6

\* The target of execution_state is positive, as update_eip1559_base_fee
\* requires.
LEMMA ExecutionStateTarget == execution_state_target \in Nat \ {0}
<1>1. execution_state_target \in Nat
  BY BaselineConfigAssumption, DivFacts DEF execution_state_target, gas_target
<1> QED BY <1>1, BaselineConfigAssumption DEF execution_state_target

\* The two fees stay numbers, the excess too, and rows are well formed.
LEMMA TypeStep ==
  ASSUME TypeOK, NEW execution_gas_used \in ExecutionGas,
         NEW state_gas_used \in StateGas, NEW bandwidth_gas \in BandwidthGas,
         NEW blob_base_fee \in BlobBaseFees,
         Step(execution_gas_used, state_gas_used, bandwidth_gas, blob_base_fee)
  PROVE  TypeOK' /\ result' \in Row
<1> DEFINE used == Larger(execution_gas_used, state_gas_used)
           fee  == apply_execution_state_block(used)
           data == apply_bandwidth_block(bandwidth_gas, blob_base_fee)
<1>1. used \in Nat /\ bandwidth_gas \in Nat /\ blob_base_fee \in Nat
  BY MechanismAAssumption, BaselineConfigAssumption, BaselineInputAssumption DEF Larger
<1>2. /\ base_fee' = [execution_state |-> fee, bandwidth |-> data.base_fee]
      /\ excess_gas' = data.excess_gas
      /\ result' = [gas_used |-> [execution_state |-> used,
                                  bandwidth |-> bandwidth_gas],
                    base_fee |-> base_fee,
                    blob_base_fee |-> blob_base_fee,
                    invalid |-> exceeded(used, bandwidth_gas)]
  BY DEF Step
<1> HIDE DEF used
<1>3. fee \in Nat /\ fee >= min_base_fee
  <2>1. Smaller(used, execution_state_gas_limit) \in Nat
    BY <1>1, MechanismAAssumption, BaselineConfigAssumption, BaselineInputAssumption DEF Smaller
  <2>2. /\ base_fee["execution_state"] \in Nat /\ min_base_fee \in Nat
        /\ min_base_fee <= base_fee["execution_state"]
    BY MechanismAAssumption, BaselineConfigAssumption, BaselineInputAssumption DEF TypeOK, Resources
  <2> QED BY <2>1, <2>2, ExecutionStateTarget, Update1559
        DEF apply_execution_state_block
<1>4. data.excess_gas \in Nat /\ data.base_fee \in Nat
  BY <1>1, BandwidthBlock DEF TypeOK
<1> HIDE DEF fee, data
<1>5. base_fee' \in [Resources -> Nat] /\ base_fee'["execution_state"] = fee
  BY <1>2, <1>3, <1>4 DEF Resources
<1>6. result' \in Row
  <2>1. base_fee \in [Resources -> Nat]
    BY DEF TypeOK
  <2>2. [execution_state |-> used, bandwidth |-> bandwidth_gas] \in [Resources -> Nat]
    BY <1>1 DEF Resources
  <2>3. exceeded(used, bandwidth_gas) \in SUBSET Resources
    BY DEF exceeded
  <2> QED BY <1>1, <1>2, <2>1, <2>2, <2>3 DEF Row
<1>7. TypeOK'
  BY <1>2, <1>3, <1>4, <1>5, <1>6 DEF TypeOK
<1> QED BY <1>6, <1>7

\* The state carried between blocks, and the recorded row, keep their types.
THEOREM TypeCorrect == Spec => []TypeOK
<1>1. Init => TypeOK
  <2> SUFFICES ASSUME Init
               PROVE  TypeOK
    OBVIOUS
  <2>1. base_fee["execution_state"] >= min_base_fee /\ result = None
    BY MechanismAAssumption, BaselineConfigAssumption, BaselineInputAssumption DEF Init, Resources
  <2> QED BY <2>1, Warm DEF TypeOK
<1>2. TypeOK /\ [Next]_vars => TypeOK'
  <2>1. TypeOK /\ UNCHANGED vars => TypeOK'
    BY DEF TypeOK, vars
  <2> QED BY <2>1, TypeStep DEF Next
<1> QED BY <1>1, <1>2, PTL DEF Spec

\* The fee operators of the abstract market are those of this module.
LEMMA MarketMath ==
  ASSUME NEW excess, NEW delta, NEW limit, NEW c
  PROVE  /\ BandwidthMarket!compute_base_fee(excess, c) = compute_base_fee(excess, c)
         /\ BandwidthMarket!normalized(delta, limit, c) = normalized(delta, limit, c)
BY DEF compute_base_fee, fake_exponential, fake_exponential_loop, exit_turn,
       normalized, BandwidthMarket!normalized, BandwidthMarket!compute_base_fee,
       BandwidthMarket!fake_exponential, BandwidthMarket!fake_exponential_loop,
       BandwidthMarket!exit_turn

\* Mechanism A's bandwidth implements PricedResource.
THEOREM BandwidthHolds == Spec => BandwidthIsPriced
<1>1. Init => BandwidthMarket!Init
  <2>1. base_fee \in [Resources -> Nat]
          => base_fee["bandwidth"] \in Nat
    BY DEF Resources
  <2> QED BY <2>1, Warm, MarketMath DEF BandwidthMarket!Init
<1>2. TypeOK /\ [Next]_vars =>
        [BandwidthMarket!Block]_<<excess_gas, base_fee["bandwidth"]>>
  <2>1. ASSUME TypeOK, NEW execution_gas_used \in ExecutionGas,
               NEW state_gas_used \in StateGas, NEW bandwidth_gas \in BandwidthGas,
               NEW blob_base_fee \in BlobBaseFees,
               Step(execution_gas_used, state_gas_used, bandwidth_gas, blob_base_fee)
        PROVE  BandwidthMarket!Block
    <3> DEFINE data == apply_bandwidth_block(bandwidth_gas, blob_base_fee)
    <3>1. excess_gas' = data.excess_gas /\ base_fee'["bandwidth"] = data.base_fee
      BY <2>1 DEF Step
    <3>2. bandwidth_gas \in Nat
      BY MechanismAAssumption, BaselineConfigAssumption, BaselineInputAssumption
    <3>3. /\ data.excess_gas \in Nat
          /\ data.excess_gas <= excess_gas
               + normalized(bandwidth.gas_limit - bandwidth.gas_target,
                            bandwidth.gas_limit, bandwidth)
          /\ data.excess_gas >= excess_gas
               - normalized(bandwidth.gas_target, bandwidth.gas_limit, bandwidth)
          /\ data.base_fee = compute_base_fee(data.excess_gas, bandwidth)
      BY <2>1, <3>2, BandwidthBlock DEF TypeOK
    <3> HIDE DEF data
    <3> QED BY <3>1, <3>3, MarketMath
         DEF BandwidthMarket!Block, BandwidthMarket!full_rise,
             BandwidthMarket!empty_fall
  <2>2. UNCHANGED vars => UNCHANGED <<excess_gas, base_fee["bandwidth"]>>
    BY DEF vars
  <2> QED BY <2>1, <2>2 DEF Next
<1> QED BY <1>1, <1>2, TypeCorrect, PTL
     DEF Spec, BandwidthIsPriced, BandwidthMarket!Spec

\* The execution_state column of Mechanism A is a Glamsterdam-only replay.
THEOREM BaselineHolds == Spec => ExecutionStateIsBaseline
<1> DEFINE row == IF result = None THEN None
                  ELSE [gas_used |-> result.gas_used["execution_state"],
                        base_fee |-> result.base_fee["execution_state"],
                        invalid |-> "execution_state" \in result.invalid]
<1>1. Init => Baseline!Init
  BY DEF Init, Baseline!Init, Resources
<1>2. TypeOK /\ [Next]_vars => [Baseline!Next]_<<base_fee["execution_state"], row>>
  <2>1. ASSUME TypeOK, NEW execution_gas_used \in ExecutionGas,
               NEW state_gas_used \in StateGas, NEW bandwidth_gas \in BandwidthGas,
               NEW blob_base_fee \in BlobBaseFees,
               Step(execution_gas_used, state_gas_used, bandwidth_gas, blob_base_fee)
        PROVE  Baseline!Step(execution_gas_used, state_gas_used)
    <3>1. result' # None
      BY <2>1, TypeStep, RowAssumption
    <3> QED BY <2>1, <3>1
       DEF Step, Baseline!Step, exceeded, Resources, apply_execution_state_block,
           execution_state_target, gas_target, Baseline!gas_target, Larger, Smaller,
           Baseline!Larger, Baseline!Smaller, update_eip1559_base_fee,
           Baseline!update_eip1559_base_fee, BASE_FEE_MAX_CHANGE_DENOMINATOR,
           Baseline!BASE_FEE_MAX_CHANGE_DENOMINATOR
  <2>2. UNCHANGED vars => UNCHANGED <<base_fee["execution_state"], row>>
    BY DEF vars
  <2> QED BY <2>1, <2>2 DEF Next, Baseline!Next
<1> QED BY <1>1, <1>2, TypeCorrect, PTL
     DEF Spec, ExecutionStateIsBaseline, Baseline!Spec, Baseline!vars
=============================================================================
