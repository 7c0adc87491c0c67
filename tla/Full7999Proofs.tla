---------------------------- MODULE Full7999Proofs ----------------------------
(***************************************************************************)
(* Proofs about the full EIP-7999 mechanism, for every configuration,      *)
(* every block and every blob fee: its passive replay (Full7999) and its   *)
(* driven one (DrivenReplay), under every inclusion rule.  Both are a      *)
(* Replay, so what is proved of one is proved of the other.                *)
(*                                                                         *)
(* TypeOK is inductive by itself.  The rest needs Charged as well: a fee   *)
(* never exceeds what its excess stands for, and equals it as soon as one  *)
(* block was replayed.  Without it nothing relates the fee a row records   *)
(* to the excess the next fee is computed from.  Of the driven replay,     *)
(* DrivenInv keeps which demand the last row was made from: what a rule    *)
(* includes is then a matter of its arithmetic.                            *)
(***************************************************************************)
EXTENDS DrivenReplay, FeeMathProofs

Charged ==
  \A r \in Resources :
    /\ base_fee[r] <= compute_base_fee(excess_gas[r], config[r])
    /\ result # None => base_fee[r] = compute_base_fee(excess_gas[r], config[r])

IInv == TypeOK /\ Charged /\ WarmStart /\ ReserveRowAgrees

\* A replay of any blocks, which the passive and the driven replay both are.
AnyBlock ==
  \E gas_used \in [Resources -> Nat], blob_base_fee \in Nat :
    Step(gas_used, blob_base_fee)

Replay == Init /\ [][AnyBlock]_vars

(***************************************************************************)
(* The configuration.                                                      *)
(***************************************************************************)
\* Execution and bandwidth have a proper configuration, whatever the limit,
\* the target ratio and the reserve factor.
LEMMA LimitedConfig ==
  ASSUME NEW limit \in Nat \ {0}, NEW ratio \in Nat \ {0}, NEW factor \in Nat
  PROVE  /\ IsLimited(limited(limit, ratio, factor))
         /\ limited(limit, ratio, factor).gas_limit = limit
         /\ limited(limit, ratio, factor).reserve_factor = factor
<1> DEFINE c == limited(limit, ratio, factor)
<1>1. limit \div ratio \in Nat /\ limit \div ratio <= limit
  <2>1. limit <= ratio * limit
    OBVIOUS
  <2> QED BY <2>1, DivBound, DivFacts
<1>2. /\ c.gas_limit = limit /\ c.gas_target = limit \div ratio
      /\ c.min_base_fee = min_base_fee
      /\ c.update_fraction = BASE_FEE_UPDATE_FRACTION
      /\ c.gas_normalization_factor = GAS_NORMALIZATION_FACTOR
      /\ c.normalization_denominator = None
      /\ c.reserve_factor = factor
  BY DEF limited
<1>3. limit # None
  BY NoneAssumption
<1> HIDE DEF c
<1>4. normalization_denominator_value(c) = limit
  BY <1>2, <1>3 DEF normalization_denominator_value
<1>5. IsCurve(c)
  BY <1>2, ConfigAssumption DEF IsCurve
<1>6. IsConfig(c)
  BY <1>1, <1>2, <1>4, <1>5, ConfigAssumption DEF IsConfig
<1>7. IsLimited(c)
  BY <1>1, <1>2, <1>4, <1>6 DEF IsLimited
<1> QED BY <1>2, <1>7 DEF c

\* What the proofs need of the three resources.
LEMMA Configs ==
  /\ \A r \in Resources : IsConfig(config[r])
  /\ \A r \in Resources : IsCurve(config[r])
  /\ \A r \in Resources : config[r].min_base_fee = min_base_fee
  /\ IsLimited(config["execution"])
  /\ IsLimited(config["bandwidth"])
  /\ config["state"].gas_limit = None
  /\ \A r \in Resources : r # "bandwidth" => ~has_reserve_price(config[r])
<1>1. /\ config["execution"] = limited(execution_gas_limit, execution_target_ratio, 0)
      /\ config["bandwidth"] = limited(bandwidth_gas_limit, bandwidth_target_ratio,
                                       bandwidth_reserve_factor)
      /\ config["state"] =
            [gas_limit |-> None, gas_target |-> state_gas_target,
             min_base_fee |-> min_base_fee,
             update_fraction |-> BASE_FEE_UPDATE_FRACTION,
             gas_normalization_factor |-> GAS_NORMALIZATION_FACTOR,
             normalization_denominator |-> state_gas_target,
             reserve_factor |-> 0]
  BY DEF config, Resources
<1> DEFINE s == config["state"]
<1>2. /\ s.gas_limit = None /\ s.gas_target = state_gas_target
      /\ s.min_base_fee = min_base_fee
      /\ s.update_fraction = BASE_FEE_UPDATE_FRACTION
      /\ s.gas_normalization_factor = GAS_NORMALIZATION_FACTOR
      /\ s.normalization_denominator = state_gas_target
      /\ s.reserve_factor = 0
  BY <1>1
<1> HIDE DEF s
<1>3. state_gas_target # None
  BY NoneAssumption, ConfigAssumption
<1>4. normalization_denominator_value(s) = state_gas_target
  BY <1>2, <1>3 DEF normalization_denominator_value
<1>5. ~has_reserve_price(s)
  BY <1>2 DEF has_reserve_price
<1>6. IsCurve(s)
  BY <1>2, ConfigAssumption DEF IsCurve
<1>7. IsConfig(s)
  BY <1>2, <1>4, <1>5, <1>6, ConfigAssumption DEF IsConfig
<1>8. IsLimited(config["execution"]) /\ config["execution"].reserve_factor = 0
  BY <1>1, ConfigAssumption, LimitedConfig
<1>9. IsLimited(config["bandwidth"])
  BY <1>1, ConfigAssumption, LimitedConfig
<1>10. ~has_reserve_price(config["execution"])
  BY <1>8 DEF has_reserve_price
<1>11. /\ config["execution"].min_base_fee = min_base_fee
       /\ config["bandwidth"].min_base_fee = min_base_fee
  BY <1>1 DEF limited
<1>12. \A r \in Resources : r = "execution" \/ r = "bandwidth" \/ r = "state"
  BY DEF Resources
<1>13. \A r \in Resources : IsConfig(config[r])
  BY <1>7, <1>8, <1>9, <1>12 DEF s, IsLimited
<1> QED BY <1>2, <1>5, <1>8, <1>9, <1>10, <1>11, <1>12, <1>13 DEF s, IsConfig

\* Capping at the limit keeps a block on its side of the target.
LEMMA CappedUsage ==
  ASSUME NEW r \in Resources, NEW used \in Nat
  PROVE  /\ capped(used, config[r]) \in Nat
         /\ IsLimited(config[r]) => capped(used, config[r]) <= config[r].gas_limit
         /\ used >= config[r].gas_target => capped(used, config[r]) >= config[r].gas_target
         /\ used <= config[r].gas_target => capped(used, config[r]) <= config[r].gas_target
<1> DEFINE c == config[r]
<1>1. c.gas_target \in Nat
  BY Configs DEF IsConfig
<1>2. CASE r = "state"
  <2>1. capped(used, c) = used
    BY <1>2, Configs DEF capped
  <2>2. ~IsLimited(c)
    BY <1>2, Configs, NoneAssumption DEF IsLimited
  <2> QED BY <2>1, <2>2
<1>3. CASE r # "state"
  <2>1. IsLimited(c)
    BY <1>3, Configs DEF Resources
  <2>2. c.gas_limit \in Nat /\ c.gas_target <= c.gas_limit
    BY <2>1 DEF IsLimited
  <2>3. capped(used, c) = Smaller(used, c.gas_limit)
    BY <2>2, NoneAssumption DEF capped
  <2> HIDE DEF c
  <2>4. /\ capped(used, c) \in Nat
        /\ capped(used, c) <= c.gas_limit
        /\ used >= c.gas_target => capped(used, c) >= c.gas_target
        /\ used <= c.gas_target => capped(used, c) <= c.gas_target
    BY <1>1, <2>2, <2>3 DEF Smaller
  <2> QED BY <2>4 DEF c
<1> QED BY <1>2, <1>3

\* More raw usage never becomes less capped usage.
LEMMA CappedMono ==
  ASSUME NEW r \in Resources, NEW x \in Nat, NEW y \in Nat, x <= y
  PROVE  capped(x, config[r]) <= capped(y, config[r])
<1> DEFINE c == config[r]
<1>1. CASE c.gas_limit = None
  BY <1>1 DEF capped
<1>2. CASE c.gas_limit # None
  <2>1. IsLimited(c)
    BY <1>2, Configs DEF Resources
  <2>2. c.gas_limit \in Nat
    BY <2>1 DEF IsLimited
  <2> QED BY <1>2, <2>2 DEF capped, Smaller
<1> QED BY <1>1, <1>2

(***************************************************************************)
(* One block.                                                              *)
(***************************************************************************)
\* The excess a block leaves in one resource.
after(r, gas_used, blob_base_fee) ==
  update_normalized_excess_gas(excess_gas[r], capped(gas_used[r], config[r]),
                               config[r], base_fee[r],
                               reserve_anchor(r, blob_base_fee))

\* The inputs of a block are natural numbers.
LEMMA Inputs ==
  ASSUME NEW gas_used \in Block, NEW blob_base_fee \in BlobBaseFees
  PROVE  /\ gas_used \in [Resources -> Nat]
         /\ blob_base_fee \in Nat
<1>1. ExecutionGas \cup BandwidthGas \cup StateGas \subseteq Nat
  BY InputAssumption
<1> QED BY <1>1, InputAssumption DEF Block

\* The fields of the state and of the row after a block.
LEMMA StepFields ==
  ASSUME NEW gas_used, NEW blob_base_fee, Step(gas_used, blob_base_fee)
  PROVE  /\ excess_gas' = [r \in Resources |-> after(r, gas_used, blob_base_fee)]
         /\ base_fee' = [r \in Resources |->
                           compute_base_fee(after(r, gas_used, blob_base_fee),
                                            config[r])]
         /\ result'.gas_used = gas_used
         /\ result'.base_fee = base_fee
         /\ result'.blob_base_fee = blob_base_fee
         /\ result'.invalid = exceeded(gas_used)
         /\ result'.reserve_active <=>
              reserve_price_active(base_fee["bandwidth"], blob_base_fee,
                                   config["bandwidth"])
  BY DEF Step, apply_resource_block, after

\* What a block does to one resource, in terms of the parent state alone.
LEMMA StepResource ==
  ASSUME TypeOK, NEW gas_used \in [Resources -> Nat], NEW blob_base_fee \in Nat,
         Step(gas_used, blob_base_fee), NEW r \in Resources
  PROVE  LET used   == capped(gas_used[r], config[r])
             active == reserve_price_active(base_fee[r],
                                            reserve_anchor(r, blob_base_fee),
                                            config[r])
         IN  /\ excess_gas'[r] = after(r, gas_used, blob_base_fee)
             /\ excess_gas'[r] \in Nat
             /\ excess_gas[r] \in Nat
             /\ base_fee'[r] = compute_base_fee(excess_gas'[r], config[r])
             /\ used \in Nat
             /\ active \/ used >= config[r].gas_target
                  => excess_gas'[r] >= excess_gas[r]
             /\ ~active /\ used <= config[r].gas_target
                  => excess_gas'[r] <= excess_gas[r]
<1> DEFINE used == capped(gas_used[r], config[r])
           anchor == reserve_anchor(r, blob_base_fee)
<1>1. gas_used[r] \in Nat
  OBVIOUS
<1>2. used \in Nat
  BY <1>1, CappedUsage
<1>3. excess_gas[r] \in Nat
  BY DEF TypeOK, FeeState
<1>4. IsConfig(config[r])
  BY Configs
<1>5. excess_gas'[r] = after(r, gas_used, blob_base_fee)
      /\ base_fee'[r] = compute_base_fee(after(r, gas_used, blob_base_fee), config[r])
  BY StepFields
<1>6. after(r, gas_used, blob_base_fee)
        = update_normalized_excess_gas(excess_gas[r], used, config[r],
                                       base_fee[r], anchor)
  BY DEF after
<1> HIDE DEF used, anchor
<1>7. LET next == update_normalized_excess_gas(excess_gas[r], used, config[r],
                                              base_fee[r], anchor)
      IN  /\ next \in Nat
          /\ reserve_price_active(base_fee[r], anchor, config[r])
               \/ used >= config[r].gas_target => next >= excess_gas[r]
          /\ ~reserve_price_active(base_fee[r], anchor, config[r])
               /\ used <= config[r].gas_target => next <= excess_gas[r]
  BY <1>2, <1>3, <1>4, UpdateDirection
<1> QED BY <1>2, <1>3, <1>5, <1>6, <1>7 DEF used, anchor

\* A replayed block leaves a row, and a row is never mistaken for None.
LEMMA RowIsSomething ==
  ASSUME TypeOK, NEW gas_used \in [Resources -> Nat], NEW blob_base_fee \in Nat,
         Step(gas_used, blob_base_fee)
  PROVE  result' \in Row /\ result' # None
<1>1. result' \in Row
  <2>1. result' = [gas_used |-> gas_used, base_fee |-> base_fee,
                   blob_base_fee |-> blob_base_fee,
                   invalid |-> exceeded(gas_used),
                   reserve_active |->
                     reserve_price_active(base_fee["bandwidth"], blob_base_fee,
                                          config["bandwidth"])]
    BY DEF Step
  <2>2. gas_used \in [Resources -> Nat] /\ blob_base_fee \in Nat
    OBVIOUS
  <2>3. base_fee \in FeeState
    BY DEF TypeOK
  <2>4. exceeded(gas_used) \in SUBSET Resources
    BY DEF exceeded
  <2>5. reserve_price_active(base_fee["bandwidth"], blob_base_fee,
                             config["bandwidth"]) \in BOOLEAN
    BY DEF reserve_price_active, has_reserve_price
  <2> QED BY <2>1, <2>2, <2>3, <2>4, <2>5 DEF Row
<1> QED BY <1>1, RowAssumption

\* A block keeps the types.
LEMMA TypeStep ==
  ASSUME TypeOK, NEW gas_used \in [Resources -> Nat], NEW blob_base_fee \in Nat,
         Step(gas_used, blob_base_fee)
  PROVE  TypeOK'
<1>1. ASSUME NEW r \in Resources
      PROVE  excess_gas'[r] \in Nat /\ base_fee'[r] \in Nat
  BY StepResource, FeeType, Configs
<1>2. excess_gas' \in FeeState
  BY <1>1, StepFields DEF FeeState
<1>3. base_fee' \in FeeState
  BY <1>1, StepFields DEF FeeState
<1>4. result' \in Row
  BY RowIsSomething
<1> QED BY <1>2, <1>3, <1>4 DEF TypeOK

\* What the warm start makes of each resource.
LEMMA WarmStarted ==
  ASSUME Init, NEW r \in Resources
  PROVE  /\ base_fee[r] \in Nat
         /\ excess_gas[r] \in Nat
         /\ base_fee[r] <= compute_base_fee(excess_gas[r], config[r])
         /\ excess_gas[r] = 0
              \/ compute_base_fee(excess_gas[r] - 1, config[r]) < base_fee[r]
<1>1. base_fee[r] \in Nat /\ base_fee[r] >= min_base_fee
  BY InputAssumption DEF Init
<1>2. excess_gas[r] = excess_gas_for_base_fee(base_fee[r], config[r])
  BY DEF Init
<1>3. IsCurve(config[r]) /\ config[r].min_base_fee = min_base_fee
  BY Configs
<1> QED BY <1>1, <1>2, <1>3, WarmStartExcess

(***************************************************************************)
(* The arithmetic of inclusion (dynamics/allocation.py).                   *)
(***************************************************************************)
\* Rounding an amount down to the quantum.
LEMMA RoundedDown ==
  ASSUME NEW value \in Nat, NEW q \in Nat \ {0}
  PROVE  LET down == Inclusion!floor_to_quantum(value, q)
         IN  /\ down \in Nat /\ down % q = 0
             /\ down <= value /\ value < down + q
             /\ value % q = 0 => down = value
<1> DEFINE k == value \div q
<1>1. k \in Nat /\ q * k <= value /\ value < q * k + q
  BY DivFacts
<1>2. value % q = 0 => value = k * q
  BY Multiples
<1> HIDE DEF k
<1>3. k * q \in Nat /\ (k * q) % q = 0 /\ k * q = q * k
  BY <1>1, Multiples
<1> QED BY <1>1, <1>2, <1>3 DEF Inclusion!floor_to_quantum, k

\* Rounding down keeps the order.
LEMMA RoundedMono ==
  ASSUME NEW x \in Nat, NEW y \in Nat, x <= y, NEW q \in Nat \ {0}
  PROVE  Inclusion!floor_to_quantum(x, q) <= Inclusion!floor_to_quantum(y, q)
<1>1. x \div q \in Nat /\ y \div q \in Nat /\ x \div q <= y \div q
  BY DivFacts, DivMono
<1> QED BY <1>1, ProductMono DEF Inclusion!floor_to_quantum

\* Rounding an amount to the nearest multiple stays on its side of any other,
\* and is not below rounding it down.
LEMMA RoundedToNearest ==
  ASSUME NEW value \in Nat, NEW q \in Nat \ {0}
  PROVE  LET near == Inclusion!quantize_nearest(value, q)
         IN  /\ near \in Nat /\ near % q = 0
             /\ Inclusion!floor_to_quantum(value, q) <= near
             /\ \A m \in Nat : m % q = 0 =>
                  /\ value <= m => near <= m
                  /\ m <= value => m <= near
             /\ q = 1 => near = value
<1> DEFINE k == value \div q
           near == Inclusion!quantize_nearest(value, q)
<1>1. k \in Nat /\ q * k <= value /\ value < q * k + q
  BY DivFacts
<1>2. value % q = value - q * k
  OBVIOUS
<1>3. near = k * q \/ (near = (k + 1) * q /\ value # q * k)
  <2>1. value = q * k => ~ (2 * (value % q) > q) /\ 2 * (value % q) # q
    BY <1>2
  <2>2. near = IF 2 * (value % q) > q \/ (2 * (value % q) = q /\ k % 2 = 1)
               THEN (k + 1) * q ELSE k * q
    BY DEF Inclusion!quantize_nearest
  <2> HIDE DEF near, k
  <2> QED BY <2>1, <2>2
<1> HIDE DEF near
<1>4. near \in Nat /\ near % q = 0
  <2>1. k \in Nat /\ k + 1 \in Nat
    BY <1>1
  <2> HIDE DEF k
  <2> QED BY <1>3, <2>1, Multiples
<1>5. Inclusion!floor_to_quantum(value, q) = k * q
  BY DEF Inclusion!floor_to_quantum
<1> HIDE DEF k
<1>6. (k + 1) * q = k * q + q /\ q * k = k * q /\ k * q \in Nat
  BY <1>1
<1>7. ASSUME NEW m \in Nat, m % q = 0
      PROVE  /\ value <= m => near <= m
             /\ m <= value => m <= near
  <2>1. PICK n \in Nat : m = n * q
    BY <1>7, Multiples
  <2>2. n <= k => n * q <= k * q
    BY <1>1
  <2>3. n >= k + 1 => n * q >= (k + 1) * q
    BY <1>1
  <2>4. n <= k \/ n >= k + 1
    BY <1>1
  <2> QED BY <1>1, <1>3, <1>6, <2>1, <2>2, <2>3, <2>4
<1>8. q = 1 => near = value
  <2>1. q = 1 => k = value
    BY <1>1
  <2> QED BY <1>1, <1>3, <1>6, <2>1
<1>9. Inclusion!floor_to_quantum(value, q) <= near
  BY <1>3, <1>5, <1>6
<1> QED BY <1>4, <1>7, <1>8, <1>9 DEF near

\* A scaled amount is the floor of the exact product, or one gas under a whole
\* product.
IsScaled(down, gas, limit, offered) ==
  /\ down \in Nat
  /\ down * offered <= gas * limit
  /\ gas * limit <= (down + 1) * offered
  /\ limit <= offered => down <= gas
  /\ limit = offered => down = gas

LEMMA ScaledDown ==
  ASSUME NEW gas \in Nat, NEW limit \in Nat, NEW offered \in Nat \ {0}, NEW loses
  PROVE  IsScaled(Inclusion!scaled_floor(gas, limit, offered, loses), gas, limit, offered)
<1> DEFINE product == gas * limit
           exact == product \div offered
           down == Inclusion!scaled_floor(gas, limit, offered, loses)
<1>1. product \in Nat
  OBVIOUS
<1>2. exact \in Nat /\ offered * exact <= product /\ product < offered * exact + offered
  BY <1>1, DivFacts
<1>3. \/ down = exact
      \/ down = exact - 1 /\ exact > 0 /\ limit # offered /\ product = exact * offered
  <2>1. product % offered = 0 => product = exact * offered
    BY <1>1, Multiples
  <2>2. down = IF loses /\ exact > 0 /\ limit # offered /\ product % offered = 0
               THEN exact - 1 ELSE exact
    BY DEF Inclusion!scaled_floor
  <2> HIDE DEF exact, product, down
  <2> QED BY <2>1, <2>2
<1>4. limit <= offered => exact <= gas
  <2>1. limit <= offered => product <= offered * gas
    OBVIOUS
  <2> HIDE DEF product
  <2> QED BY <1>1, <2>1, DivBound
<1>5. limit = offered => exact = gas
  <2>1. limit = offered => product = offered * gas
    OBVIOUS
  <2>2. \A n \in Nat : (offered * n) \div offered = n
    OBVIOUS
  <2> QED BY <2>1, <2>2
<1> HIDE DEF product, exact, down
<1>6. down \in Nat
  BY <1>2, <1>3
<1>7. /\ (down + 1) * offered = down * offered + offered
      /\ exact * offered = offered * exact
      /\ (exact - 1) * offered = exact * offered - offered
      /\ ((exact - 1) + 1) * offered = exact * offered
  BY <1>2, <1>6
<1>8. CASE down = exact
  BY <1>2, <1>4, <1>5, <1>7, <1>8 DEF down, product, IsScaled
<1>9. CASE down = exact - 1 /\ exact > 0 /\ limit # offered /\ product = exact * offered
  <2>1. down * offered <= product /\ product <= (down + 1) * offered
    BY <1>2, <1>7, <1>9
  <2> QED BY <1>2, <1>4, <1>6, <1>9, <2>1 DEF down, product, IsScaled
<1> QED BY <1>3, <1>8, <1>9

(***************************************************************************)
(* The inclusion rules, under the limits of a replay.                      *)
(***************************************************************************)
LEMMA LimitsAre ==
  /\ limits["execution"] \in Nat \ {0} /\ limits["data"] \in Nat \ {0}
  /\ limits["execution"] = config["execution"].gas_limit
  /\ limits["data"] = config["bandwidth"].gas_limit
  /\ limits["execution"] # None /\ limits["data"] # None /\ limits["state"] = None
  /\ quantum["execution"] = 1 /\ quantum["state"] = 1 /\ quantum["data"] \in Nat \ {0}
  /\ limits["data"] % quantum["data"] = 0
  /\ Inclusion!limited(limits) = {"execution", "data"}
<1>1. /\ limits["execution"] = config["execution"].gas_limit
      /\ limits["data"] = config["bandwidth"].gas_limit
      /\ limits["state"] = config["state"].gas_limit
  BY DEF limits, DEMAND_TO_MECHANISM, Inclusion!DEMAND_RESOURCES
<1>2. quantum["execution"] = 1 /\ quantum["state"] = 1 /\ quantum["data"] = data_quantum
  BY DEF quantum, Inclusion!DEMAND_RESOURCES
<1>3. /\ limits["execution"] \in Nat \ {0} /\ limits["data"] \in Nat \ {0}
      /\ limits["state"] = None
  BY <1>1, Configs DEF IsLimited
<1>4. limits["execution"] # None /\ limits["data"] # None
  BY <1>3, NoneAssumption
<1>5. limits["data"] % quantum["data"] = 0
  BY <1>4, DrivenAssumption DEF Inclusion!valid_inputs, Inclusion!DEMAND_RESOURCES
<1>6. Inclusion!limited(limits) = {"execution", "data"}
  BY <1>3, <1>4 DEF Inclusion!limited, Inclusion!DEMAND_RESOURCES
<1> QED BY <1>1, <1>2, <1>3, <1>4, <1>5, <1>6, DrivenAssumption

\* The resources whose demand is over a limit.
over_limit(evaluation) ==
  {r \in {"execution", "data"} : offered_before_quantization(evaluation)[r] > limits[r]}

\* What a block's demand offers the rules: quantising it moves nothing across
\* a limit.
LEMMA OfferedIs ==
  ASSUME NEW evaluation \in Demand
  PROVE  LET before == offered_before_quantization(evaluation)
             offered == offered_gas(evaluation)
         IN  /\ before \in [Inclusion!DEMAND_RESOURCES -> Nat]
             /\ offered \in [Inclusion!DEMAND_RESOURCES -> Nat]
             /\ \A r \in Inclusion!DEMAND_RESOURCES : offered[r] % quantum[r] = 0
             /\ offered["execution"] = before["execution"]
             /\ offered["state"] = before["state"]
             /\ \A r \in {"execution", "data"} :
                  /\ before[r] <= limits[r] => offered[r] <= limits[r]
                  /\ limits[r] <= before[r] => limits[r] <= offered[r]
             /\ Inclusion!floor_to_quantum(before["data"], quantum["data"])
                  <= offered["data"]
<1> DEFINE before == offered_before_quantization(evaluation)
           offered == offered_gas(evaluation)
<1>1. evaluation \in Inclusion!BundleDemandEvaluation
  BY DrivenAssumption
<1>2. before \in [Inclusion!DEMAND_RESOURCES -> Nat]
  BY <1>1 DEF offered_before_quantization, Inclusion!BundleDemandEvaluation,
              Inclusion!DEMAND_RESOURCES
<1>3. \A r \in Inclusion!DEMAND_RESOURCES :
        offered[r] = Inclusion!quantize_nearest(before[r], quantum[r])
  BY DEF offered_gas
<1>4. \A r \in Inclusion!DEMAND_RESOURCES : quantum[r] \in Nat \ {0}
  BY LimitsAre DEF Inclusion!DEMAND_RESOURCES
<1>5. DOMAIN offered = Inclusion!DEMAND_RESOURCES
      /\ offered = [r \in Inclusion!DEMAND_RESOURCES |-> offered[r]]
  BY DEF offered_gas
<1> HIDE DEF before, offered
<1>6. ASSUME NEW r \in Inclusion!DEMAND_RESOURCES
      PROVE  /\ offered[r] \in Nat /\ offered[r] % quantum[r] = 0
             /\ Inclusion!floor_to_quantum(before[r], quantum[r]) <= offered[r]
             /\ \A m \in Nat : m % quantum[r] = 0 =>
                  /\ before[r] <= m => offered[r] <= m
                  /\ m <= before[r] => m <= offered[r]
             /\ quantum[r] = 1 => offered[r] = before[r]
  <2>1. before[r] \in Nat /\ quantum[r] \in Nat \ {0}
    BY <1>2, <1>4
  <2>2. offered[r] = Inclusion!quantize_nearest(before[r], quantum[r])
    BY <1>3
  <2> DEFINE value == before[r]
             q == quantum[r]
  <2>3. value \in Nat /\ q \in Nat \ {0} /\ offered[r] = Inclusion!quantize_nearest(value, q)
    BY <2>1, <2>2
  <2> HIDE DEF value, q
  <2>4. /\ offered[r] \in Nat /\ offered[r] % q = 0
        /\ Inclusion!floor_to_quantum(value, q) <= offered[r]
        /\ \A m \in Nat : m % q = 0 =>
             /\ value <= m => offered[r] <= m
             /\ m <= value => m <= offered[r]
        /\ q = 1 => offered[r] = value
    BY <2>3, RoundedToNearest
  <2> QED BY <2>4 DEF value, q
<1>7. offered \in [Inclusion!DEMAND_RESOURCES -> Nat]
  BY <1>5, <1>6
<1>8. \A r \in {"execution", "data"} :
        /\ r \in Inclusion!DEMAND_RESOURCES
        /\ limits[r] \in Nat /\ limits[r] % quantum[r] = 0
  BY LimitsAre DEF Inclusion!DEMAND_RESOURCES
<1>9. \A r \in {"execution", "data"} :
        /\ before[r] <= limits[r] => offered[r] <= limits[r]
        /\ limits[r] <= before[r] => limits[r] <= offered[r]
  BY <1>6, <1>8
<1>10. /\ offered["execution"] = before["execution"]
       /\ offered["state"] = before["state"]
       /\ Inclusion!floor_to_quantum(before["data"], quantum["data"]) <= offered["data"]
  BY <1>6, LimitsAre DEF Inclusion!DEMAND_RESOURCES
<1> QED BY <1>2, <1>6, <1>7, <1>9, <1>10 DEF before, offered

\* What a rule takes of an offer, for the mechanism to see.
Feasible(offered, taken) ==
  \A r \in Inclusion!DEMAND_RESOURCES :
    /\ taken.included[r] \in Nat
    /\ taken.unserved[r] \in Nat
    /\ taken.included[r] + taken.unserved[r] = offered[r]
    /\ limits[r] # None => taken.included[r] <= limits[r]
    /\ taken.included[r] % quantum[r] = 0

\* The rest of an allocation follows.
LEMMA AllocationIs ==
  ASSUME NEW offered \in [Inclusion!DEMAND_RESOURCES -> Nat],
         NEW included \in [Inclusion!DEMAND_RESOURCES -> Nat],
         \A r \in Inclusion!DEMAND_RESOURCES :
           included[r] <= offered[r] /\ included[r] % quantum[r] = 0,
         \A r \in {"execution", "data"} : included[r] <= limits[r]
  PROVE  LET taken == Inclusion!allocation(offered, included, limits)
         IN  /\ Feasible(offered, taken)
             /\ taken.included = included
             /\ \A r \in Inclusion!DEMAND_RESOURCES :
                  taken.unserved[r] = offered[r] - included[r]
             /\ \A r \in {"execution", "data"} :
                  included[r] = limits[r] => r \in taken.binding
<1> DEFINE taken == Inclusion!allocation(offered, included, limits)
<1>1. /\ taken.included = included
      /\ taken.unserved = [r \in Inclusion!DEMAND_RESOURCES |-> offered[r] - included[r]]
      /\ taken.binding = {r \in Inclusion!DEMAND_RESOURCES :
                            limits[r] # None /\ included[r] = limits[r]}
  BY DEF Inclusion!allocation
<1> HIDE DEF taken
<1>2. \A r \in Inclusion!DEMAND_RESOURCES :
        limits[r] # None => r \in {"execution", "data"}
  BY LimitsAre DEF Inclusion!DEMAND_RESOURCES
<1>3. Feasible(offered, taken)
  BY <1>1, <1>2 DEF Feasible
<1>4. \A r \in {"execution", "data"} : included[r] = limits[r] => r \in taken.binding
  BY <1>1, LimitsAre DEF Inclusion!DEMAND_RESOURCES
<1> QED BY <1>1, <1>3, <1>4 DEF taken

\* Each resource has a limit of its own.
LEMMA SeparateRule ==
  ASSUME NEW evaluation \in Demand
  PROVE  LET offered == offered_gas(evaluation)
             taken == Inclusion!SeparateResourceCaps(offered, limits)
         IN  /\ Feasible(offered, taken)
             /\ over_limit(evaluation) = {} =>
                  \A r \in Inclusion!DEMAND_RESOURCES : taken.unserved[r] = 0
             /\ \A r \in {"execution", "data"} : offered[r] > limits[r] =>
                  r \in taken.binding /\ taken.included[r] = limits[r]
<1> DEFINE before == offered_before_quantization(evaluation)
           offered == offered_gas(evaluation)
           included == [r \in Inclusion!DEMAND_RESOURCES |->
                          IF limits[r] = None THEN offered[r]
                          ELSE Inclusion!Smaller(offered[r], limits[r])]
           taken == Inclusion!SeparateResourceCaps(offered, limits)
<1>1. /\ before \in [Inclusion!DEMAND_RESOURCES -> Nat]
      /\ offered \in [Inclusion!DEMAND_RESOURCES -> Nat]
      /\ \A r \in Inclusion!DEMAND_RESOURCES : offered[r] % quantum[r] = 0
      /\ \A r \in {"execution", "data"} : before[r] <= limits[r] => offered[r] <= limits[r]
  BY OfferedIs
<1>2. taken = Inclusion!allocation(offered, included, limits)
  BY DEF Inclusion!SeparateResourceCaps
<1> HIDE DEF offered, taken, before
<1>3. ASSUME NEW r \in Inclusion!DEMAND_RESOURCES
      PROVE  \/ limits[r] = None /\ included[r] = offered[r]
             \/ /\ r \in {"execution", "data"} /\ limits[r] \in Nat
                /\ limits[r] % quantum[r] = 0
                /\ included[r] = Inclusion!Smaller(offered[r], limits[r])
  BY LimitsAre DEF Inclusion!DEMAND_RESOURCES
<1>4. ASSUME NEW r \in {"execution", "data"}
      PROVE  /\ r \in Inclusion!DEMAND_RESOURCES /\ limits[r] \in Nat /\ limits[r] # None
             /\ included[r] = Inclusion!Smaller(offered[r], limits[r])
  BY LimitsAre DEF Inclusion!DEMAND_RESOURCES
<1>5. DOMAIN included = Inclusion!DEMAND_RESOURCES
      /\ included = [r \in Inclusion!DEMAND_RESOURCES |-> included[r]]
  OBVIOUS
<1> HIDE DEF included
<1>6. ASSUME NEW r \in Inclusion!DEMAND_RESOURCES
      PROVE  included[r] \in Nat /\ included[r] <= offered[r] /\ included[r] % quantum[r] = 0
  BY <1>1, <1>3 DEF Inclusion!Smaller
<1>7. included \in [Inclusion!DEMAND_RESOURCES -> Nat]
  BY <1>5, <1>6
<1>8. \A r \in {"execution", "data"} : included[r] <= limits[r]
  BY <1>1, <1>4 DEF Inclusion!Smaller
<1>9. /\ Feasible(offered, taken) /\ taken.included = included
      /\ \A r \in Inclusion!DEMAND_RESOURCES : taken.unserved[r] = offered[r] - included[r]
      /\ \A r \in {"execution", "data"} : included[r] = limits[r] => r \in taken.binding
  BY <1>1, <1>2, <1>6, <1>7, <1>8, AllocationIs
<1>10. ASSUME over_limit(evaluation) = {}, NEW r \in Inclusion!DEMAND_RESOURCES
       PROVE  taken.unserved[r] = 0
  <2>1. r \in {"execution", "data"} => offered[r] <= limits[r]
    <3>1. r \in {"execution", "data"} => ~ (before[r] > limits[r])
      BY <1>10 DEF over_limit, before
    <3> QED BY <1>1, <1>4, <3>1
  <2>2. included[r] = offered[r]
    BY <1>1, <1>3, <2>1 DEF Inclusion!Smaller
  <2> QED BY <1>1, <1>9, <2>2
<1>11. ASSUME NEW r \in {"execution", "data"}, offered[r] > limits[r]
       PROVE  r \in taken.binding /\ taken.included[r] = limits[r]
  <2>1. included[r] = limits[r]
    BY <1>1, <1>4, <1>11 DEF Inclusion!Smaller
  <2> QED BY <1>9, <2>1
<1> QED BY <1>9, <1>10, <1>11 DEF offered, taken

\* The resources whose offer is over a limit.
offered_over(offered) == {r \in {"execution", "data"} : offered[r] > limits[r]}

\* The fraction that scales a bundle is the tightest limit's.
LEMMA TightestLimit ==
  ASSUME NEW offered \in [Inclusion!DEMAND_RESOURCES -> Nat]
  PROVE  LET ratio == Inclusion!capacity_ratio(offered, limits)
         IN  /\ offered_over(offered) = {} => ratio = [limit |-> 1, offered |-> 1]
             /\ offered_over(offered) # {} =>
                  \E b \in offered_over(offered) :
                    /\ ratio = [limit |-> limits[b], offered |-> offered[b]]
                    /\ \A q \in offered_over(offered) :
                         limits[b] * offered[q] <= limits[q] * offered[b]
<1> DEFINE over == offered_over(offered)
           IsTightest(b) == \A q \in over : limits[b] * offered[q] <= limits[q] * offered[b]
           tightest == CHOOSE b \in over : IsTightest(b)
<1>1. {r \in Inclusion!limited(limits) : offered[r] > limits[r]} = over
  BY LimitsAre DEF offered_over
<1>2. Inclusion!capacity_ratio(offered, limits)
        = IF over = {} THEN [limit |-> 1, offered |-> 1]
          ELSE [limit |-> limits[tightest], offered |-> offered[tightest]]
  BY <1>1 DEF Inclusion!capacity_ratio
<1>3. /\ offered["execution"] \in Nat /\ offered["data"] \in Nat
      /\ limits["execution"] \in Nat /\ limits["data"] \in Nat
  BY LimitsAre DEF Inclusion!DEMAND_RESOURCES
<1>4. over \subseteq {"execution", "data"}
  BY DEF offered_over
<1> HIDE DEF over
<1>5. ASSUME over # {}
      PROVE  \E b \in over : IsTightest(b)
  <2> DEFINE cross == limits["execution"] * offered["data"]
             other == limits["data"] * offered["execution"]
  <2>1. /\ limits["execution"] * offered["execution"] \in Nat
        /\ limits["data"] * offered["data"] \in Nat
        /\ cross \in Nat /\ other \in Nat
    BY <1>3
  <2>2. CASE over = {"execution"}
    BY <2>1, <2>2
  <2>3. CASE over = {"data"}
    BY <2>1, <2>3
  <2>4. CASE over = {"execution", "data"} /\ cross <= other
    <3>1. IsTightest("execution")
      BY <2>1, <2>4
    <3> QED BY <2>4, <3>1
  <2>5. CASE over = {"execution", "data"} /\ other <= cross
    <3>1. IsTightest("data")
      BY <2>1, <2>5
    <3> QED BY <2>5, <3>1
  <2>6. over = {"execution"} \/ over = {"data"} \/ over = {"execution", "data"}
    BY <1>4, <1>5
  <2>7. cross <= other \/ other <= cross
    BY <2>1
  <2> QED BY <2>2, <2>3, <2>4, <2>5, <2>6, <2>7
<1>6. ASSUME over # {}
      PROVE  tightest \in over /\ IsTightest(tightest)
  <2> HIDE DEF IsTightest
  <2> QED BY <1>5, <1>6
<1> QED BY <1>2, <1>6 DEF over

\* A bundle's share of one resource: no more than the fraction limit / offered,
\* and no less by a quantum.
IsShare(share, gas, limit, offered, q) ==
  /\ share \in Nat /\ share % q = 0 /\ share <= gas
  /\ share * offered <= gas * limit
  /\ (share + q) * offered > gas * limit
  /\ \A n \in Nat : gas * limit <= n * offered => share <= n
  /\ \A n \in Nat : gas * limit = n * offered /\ n % q = 0 => share = n

LEMMA ShareIs ==
  ASSUME NEW gas \in Nat, NEW limit \in Nat, NEW offered \in Nat \ {0},
         limit <= offered, NEW q \in Nat \ {0}
  PROVE  IsShare(Inclusion!floor_to_quantum((gas * limit) \div offered, q),
                 gas, limit, offered, q)
<1> DEFINE product == gas * limit
           exact == product \div offered
           share == Inclusion!floor_to_quantum(exact, q)
<1>1. product \in Nat /\ product <= offered * gas
  <2>1. limit * gas <= offered * gas
    BY ProductMono
  <2> QED BY <2>1
<1> HIDE DEF product
<1>2. exact \in Nat /\ offered * exact <= product /\ product < offered * exact + offered
  BY <1>1, DivFacts
<1>3. exact <= gas
  BY <1>1, DivBound
<1>4. \A n \in Nat : product <= n * offered => exact <= n
  <2>1. \A n \in Nat : n * offered = offered * n
    OBVIOUS
  <2> HIDE DEF exact
  <2>2. ASSUME NEW n \in Nat, product <= n * offered
        PROVE  exact <= n
    BY <1>1, <2>1, <2>2, DivBound DEF exact
  <2> QED BY <2>2
<1>5. \A n \in Nat : product = n * offered => exact = n
  <2>1. ASSUME NEW n \in Nat, product = n * offered
        PROVE  exact = n
    <3>1. exact <= n
      <4>1. product <= n * offered
        BY <1>1, <2>1
      <4> QED BY <1>4, <4>1
    <3>2. n < exact + 1
      <4>1. n * offered < (exact + 1) * offered
        <5>1. (exact + 1) * offered = offered * exact + offered
          BY <1>2
        <5> QED BY <1>1, <1>2, <2>1, <5>1
      <4>2. n >= exact + 1 => n * offered >= (exact + 1) * offered
        BY <1>2
      <4>3. n * offered \in Nat /\ (exact + 1) * offered \in Nat
        BY <1>2
      <4> QED BY <1>2, <4>1, <4>2, <4>3
    <3> QED BY <1>2, <3>1, <3>2
  <2> QED BY <2>1
<1> HIDE DEF exact
<1>6. /\ share \in Nat /\ share % q = 0 /\ share <= exact /\ exact < share + q
      /\ exact % q = 0 => share = exact
  BY <1>2, RoundedDown
<1> HIDE DEF share
<1>7. share * offered <= product
  <2>1. share * offered <= exact * offered
    BY <1>2, <1>6, ProductMono
  <2>2. exact * offered = offered * exact
    BY <1>2
  <2> QED BY <1>1, <1>2, <1>6, <2>1, <2>2
<1>8. (share + q) * offered > product
  <2>1. exact + 1 \in Nat /\ share + q \in Nat /\ exact + 1 <= share + q
    BY <1>2, <1>6
  <2>2. (exact + 1) * offered <= (share + q) * offered
    BY <2>1, ProductMono
  <2>3. (exact + 1) * offered = offered * exact + offered
    BY <1>2
  <2>4. (share + q) * offered \in Nat /\ offered * exact \in Nat
    BY <1>2, <2>1
  <2> QED BY <1>1, <1>2, <2>2, <2>3, <2>4
<1>9. \A n \in Nat : product <= n * offered => share <= n
  BY <1>2, <1>4, <1>6
<1>10. \A n \in Nat : product = n * offered /\ n % q = 0 => share = n
  BY <1>5, <1>6
<1>11. share <= gas
  BY <1>2, <1>3, <1>6
<1> QED BY <1>6, <1>7, <1>8, <1>9, <1>10, <1>11 DEF product, share, exact, IsShare

\* A proportional bundle is full where its tightest limit is, and every other
\* resource keeps the same share of its offer, down to the quantum.
LEMMA ProportionalRule ==
  ASSUME NEW evaluation \in Demand
  PROVE  LET offered == offered_gas(evaluation)
             over == offered_over(offered)
             taken == Inclusion!ProportionalBundleCaps(offered, limits, quantum)
         IN  /\ Feasible(offered, taken)
             /\ over_limit(evaluation) = {} =>
                  \A r \in Inclusion!DEMAND_RESOURCES : taken.unserved[r] = 0
             /\ over # {} =>
                  \E b \in over :
                    /\ b \in taken.binding /\ taken.included[b] = limits[b]
                    /\ \A r \in Inclusion!DEMAND_RESOURCES :
                         (taken.included[r] + quantum[r]) * offered[b]
                           > offered[r] * limits[b]
             /\ \A b \in over, r \in Inclusion!DEMAND_RESOURCES :
                  taken.included[r] * offered[b] <= offered[r] * limits[b]
<1> DEFINE before == offered_before_quantization(evaluation)
           offered == offered_gas(evaluation)
           over == offered_over(offered)
           ratio == Inclusion!capacity_ratio(offered, limits)
           share(r) == Inclusion!floor_to_quantum(
                         (offered[r] * ratio.limit) \div ratio.offered, quantum[r])
           included == [r \in Inclusion!DEMAND_RESOURCES |->
                          IF limits[r] = None THEN share(r)
                          ELSE Inclusion!Smaller(share(r), limits[r])]
           taken == Inclusion!ProportionalBundleCaps(offered, limits, quantum)
<1>1. /\ before \in [Inclusion!DEMAND_RESOURCES -> Nat]
      /\ offered \in [Inclusion!DEMAND_RESOURCES -> Nat]
      /\ \A r \in Inclusion!DEMAND_RESOURCES : offered[r] % quantum[r] = 0
      /\ \A r \in {"execution", "data"} : before[r] <= limits[r] => offered[r] <= limits[r]
  BY OfferedIs
<1>2. taken = Inclusion!allocation(offered, included, limits)
  BY DEF Inclusion!ProportionalBundleCaps
<1> HIDE DEF taken, before, offered
<1>3. /\ over = {} => ratio = [limit |-> 1, offered |-> 1]
      /\ over # {} =>
           \E b \in over :
             /\ ratio = [limit |-> limits[b], offered |-> offered[b]]
             /\ \A q \in over : limits[b] * offered[q] <= limits[q] * offered[b]
  BY <1>1, TightestLimit
<1> HIDE DEF ratio
<1>4. ASSUME NEW r \in Inclusion!DEMAND_RESOURCES
      PROVE  /\ offered[r] \in Nat /\ quantum[r] \in Nat \ {0}
             /\ \/ limits[r] = None
                \/ r \in {"execution", "data"} /\ limits[r] \in Nat
                   /\ limits[r] % quantum[r] = 0
  BY <1>1, LimitsAre DEF Inclusion!DEMAND_RESOURCES
<1>5. \A r \in {"execution", "data"} :
        /\ r \in Inclusion!DEMAND_RESOURCES /\ limits[r] \in Nat
        /\ limits[r] # None /\ limits[r] % quantum[r] = 0
  BY LimitsAre DEF Inclusion!DEMAND_RESOURCES
<1>6. \A r : r \in over <=> r \in {"execution", "data"} /\ offered[r] > limits[r]
  BY DEF offered_over
<1> HIDE DEF over
<1>7. ratio.limit \in Nat /\ ratio.offered \in Nat \ {0} /\ ratio.limit <= ratio.offered
  <2>1. CASE over = {}
    BY <1>3, <2>1
  <2>2. CASE over # {}
    <3>1. PICK b \in over : ratio = [limit |-> limits[b], offered |-> offered[b]]
      BY <1>3, <2>2
    <3>2. limits[b] \in Nat /\ offered[b] \in Nat /\ offered[b] > limits[b]
      BY <1>4, <1>5, <1>6, <3>1
    <3> QED BY <3>1, <3>2
  <2> QED BY <2>1, <2>2
<1>8. ASSUME NEW r \in Inclusion!DEMAND_RESOURCES
      PROVE  /\ share(r) \in Nat /\ share(r) % quantum[r] = 0 /\ share(r) <= offered[r]
             /\ share(r) * ratio.offered <= offered[r] * ratio.limit
             /\ (share(r) + quantum[r]) * ratio.offered > offered[r] * ratio.limit
             /\ \A n \in Nat : offered[r] * ratio.limit <= n * ratio.offered => share(r) <= n
             /\ \A n \in Nat : offered[r] * ratio.limit = n * ratio.offered
                               /\ n % quantum[r] = 0 => share(r) = n
  <2>1. IsShare(share(r), offered[r], ratio.limit, ratio.offered, quantum[r])
    BY <1>4, <1>7, ShareIs
  <2> QED BY <2>1 DEF IsShare
<1>9. \A r \in Inclusion!DEMAND_RESOURCES :
        included[r] = IF limits[r] = None THEN share(r)
                      ELSE Inclusion!Smaller(share(r), limits[r])
  OBVIOUS
<1>10. DOMAIN included = Inclusion!DEMAND_RESOURCES
       /\ included = [r \in Inclusion!DEMAND_RESOURCES |-> included[r]]
  OBVIOUS
<1> HIDE DEF included, share
\* The tightest limit keeps every share under its own limit.
<1>11. ASSUME NEW r \in {"execution", "data"}
       PROVE  share(r) <= limits[r]
  <2>1. /\ r \in Inclusion!DEMAND_RESOURCES /\ limits[r] \in Nat
        /\ offered[r] \in Nat /\ share(r) \in Nat /\ share(r) <= offered[r]
    BY <1>4, <1>5, <1>8
  <2>2. CASE r \notin over
    <3>1. offered[r] <= limits[r]
      BY <1>6, <2>1, <2>2
    <3> QED BY <2>1, <3>1
  <2>3. CASE r \in over
    <3>1. PICK b \in over :
            /\ ratio = [limit |-> limits[b], offered |-> offered[b]]
            /\ \A q \in over : limits[b] * offered[q] <= limits[q] * offered[b]
      BY <1>3, <2>3
    <3>2. limits[b] * offered[r] <= limits[r] * offered[b]
      BY <2>3, <3>1
    <3>3. limits[b] * offered[r] = offered[r] * limits[b]
      BY <1>5, <1>6, <2>1, <3>1
    <3>4. offered[r] * ratio.limit <= limits[r] * ratio.offered
      BY <3>1, <3>2, <3>3
    <3> QED BY <1>8, <2>1, <3>4
  <2> QED BY <2>2, <2>3
<1>12. ASSUME NEW r \in Inclusion!DEMAND_RESOURCES
       PROVE  included[r] = share(r)
  <2>1. CASE limits[r] = None
    BY <1>9, <2>1
  <2>2. CASE limits[r] # None
    <3>1. r \in {"execution", "data"} /\ limits[r] \in Nat
      BY <1>4, <2>2
    <3>2. share(r) <= limits[r]
      BY <1>11, <3>1
    <3> QED BY <1>9, <2>2, <3>2 DEF Inclusion!Smaller
  <2> QED BY <2>1, <2>2
<1>13. included \in [Inclusion!DEMAND_RESOURCES -> Nat]
  BY <1>8, <1>10, <1>12
<1>14. \A r \in Inclusion!DEMAND_RESOURCES :
         included[r] <= offered[r] /\ included[r] % quantum[r] = 0
  BY <1>8, <1>12
<1>15. \A r \in {"execution", "data"} : included[r] <= limits[r]
  BY <1>5, <1>11, <1>12
<1>16. /\ Feasible(offered, taken) /\ taken.included = included
       /\ \A r \in Inclusion!DEMAND_RESOURCES : taken.unserved[r] = offered[r] - included[r]
       /\ \A r \in {"execution", "data"} : included[r] = limits[r] => r \in taken.binding
  BY <1>1, <1>2, <1>13, <1>14, <1>15, AllocationIs
<1>17. ASSUME over_limit(evaluation) = {}, NEW r \in Inclusion!DEMAND_RESOURCES
       PROVE  taken.unserved[r] = 0
  <2>1. over = {}
    <3>1. ASSUME NEW q \in {"execution", "data"}
          PROVE  ~ (offered[q] > limits[q])
      <4>1. ~ (before[q] > limits[q])
        BY <1>17 DEF over_limit, before
      <4>2. before[q] \in Nat /\ offered[q] \in Nat /\ limits[q] \in Nat
        BY <1>1, <1>5
      <4> QED BY <1>1, <4>1, <4>2
    <3> QED BY <1>6, <3>1
  <2>2. ratio = [limit |-> 1, offered |-> 1]
    BY <1>3, <2>1
  <2>3. offered[r] * ratio.limit = offered[r] * ratio.offered
    BY <2>2
  <2>4. included[r] = offered[r]
    BY <1>1, <1>4, <1>8, <1>12, <2>3
  <2> QED BY <1>4, <1>16, <2>4
<1>18. ASSUME over # {}
       PROVE  \E b \in over :
                /\ b \in taken.binding /\ taken.included[b] = limits[b]
                /\ \A r \in Inclusion!DEMAND_RESOURCES :
                     (taken.included[r] + quantum[r]) * offered[b] > offered[r] * limits[b]
  <2>1. PICK b \in over : ratio = [limit |-> limits[b], offered |-> offered[b]]
    BY <1>3, <1>18
  <2>2. b \in {"execution", "data"} /\ b \in Inclusion!DEMAND_RESOURCES
        /\ limits[b] \in Nat /\ offered[b] \in Nat /\ limits[b] % quantum[b] = 0
    BY <1>4, <1>5, <1>6, <2>1
  <2>3. offered[b] * ratio.limit = limits[b] * ratio.offered
    BY <2>1, <2>2
  <2>4. included[b] = limits[b]
    BY <1>8, <1>12, <2>2, <2>3
  <2>5. b \in taken.binding /\ taken.included[b] = limits[b]
    BY <1>16, <2>2, <2>4
  <2>6. \A r \in Inclusion!DEMAND_RESOURCES :
          (taken.included[r] + quantum[r]) * offered[b] > offered[r] * limits[b]
    <3>1. ratio.limit = limits[b] /\ ratio.offered = offered[b]
      BY <2>1
    <3>2. \A r \in Inclusion!DEMAND_RESOURCES :
            (included[r] + quantum[r]) * ratio.offered > offered[r] * ratio.limit
      BY <1>8, <1>12
    <3> QED BY <1>16, <3>1, <3>2
  <2> QED BY <2>5, <2>6
<1>19. ASSUME NEW b \in over, NEW r \in Inclusion!DEMAND_RESOURCES
       PROVE  taken.included[r] * offered[b] <= offered[r] * limits[b]
  <2>1. PICK c \in over :
          /\ ratio = [limit |-> limits[c], offered |-> offered[c]]
          /\ \A q \in over : limits[c] * offered[q] <= limits[q] * offered[c]
    BY <1>3, <1>19
  <2>2. /\ limits[b] \in Nat /\ offered[b] \in Nat /\ offered[r] \in Nat
        /\ included[r] \in Nat /\ limits[b] * 1 \in Nat
    BY <1>4, <1>5, <1>6, <1>13
  <2> DEFINE limit == ratio.limit
             whole == ratio.offered
             other == limits[b]
             others == offered[b]
             x == offered[r]
             a == included[r]
  <2>3. /\ a \in Nat /\ x \in Nat /\ limit \in Nat /\ whole \in Nat \ {0}
        /\ other \in Nat /\ others \in Nat
    BY <1>7, <2>2
  <2>4. a * whole <= x * limit
    BY <1>8, <1>12
  <2>5. limit * others <= other * whole
    BY <2>1
  <2> HIDE DEF limit, whole, other, others, x, a
  <2>6. a * others <= x * other
    BY <2>3, <2>4, <2>5, LargerShare
  <2> QED BY <1>16, <2>6 DEF other, others, x, a
<1> QED BY <1>16, <1>17, <1>18, <1>19 DEF offered, taken, over

\* The two fractions of the parent rule, and when they are one.
LEMMA ScalesAre ==
  ASSUME NEW evaluation \in Demand
  PROVE  LET offered == offered_gas(evaluation)
             wanted == offered_before_quantization(evaluation)["data"]
             scale == Inclusion!execution_cap_scale(offered, limits)
             data == Inclusion!data_after_execution_cap(evaluation, scale)
             bundle == Inclusion!data_bundle_scale(evaluation, scale, limits)
         IN  /\ scale.limit \in Nat /\ scale.offered \in Nat \ {0}
             /\ scale.limit <= scale.offered
             /\ \/ /\ scale.limit = scale.offered
                   /\ offered["execution"] <= limits["execution"]
                \/ /\ scale.limit = limits["execution"]
                   /\ scale.offered = offered["execution"]
                   /\ limits["execution"] < offered["execution"]
             /\ data \in Nat /\ data <= wanted * scale.offered
             /\ bundle.limit \in Nat /\ bundle.offered \in Nat \ {0}
             /\ bundle.limit <= bundle.offered
             /\ \/ bundle.limit = bundle.offered /\ data <= limits["data"] * scale.offered
                \/ bundle.limit < bundle.offered /\ limits["data"] < wanted
<1> DEFINE offered == offered_gas(evaluation)
           wanted == offered_before_quantization(evaluation)["data"]
           scale == Inclusion!execution_cap_scale(offered, limits)
           data == Inclusion!data_after_execution_cap(evaluation, scale)
           bundle == Inclusion!data_bundle_scale(evaluation, scale, limits)
           still == evaluation.static_data + evaluation.state_bal
           moving == evaluation.execution_bal
<1>1. offered["execution"] \in Nat
  BY OfferedIs DEF Inclusion!DEMAND_RESOURCES
<1>2. still \in Nat /\ moving \in Nat /\ wanted = still + moving
  <2>1. evaluation \in Inclusion!BundleDemandEvaluation
    BY DrivenAssumption
  <2> QED BY <2>1 DEF offered_before_quantization, Inclusion!BundleDemandEvaluation,
                     Inclusion!DEMAND_RESOURCES
<1>3. /\ limits["execution"] \in Nat \ {0} /\ limits["execution"] # None
      /\ limits["data"] \in Nat \ {0} /\ limits["data"] # None
  BY LimitsAre
<1> HIDE DEF offered
<1>4. /\ scale.limit \in Nat /\ scale.offered \in Nat \ {0}
      /\ scale.limit <= scale.offered
      /\ \/ /\ scale.limit = scale.offered
            /\ offered["execution"] <= limits["execution"]
         \/ /\ scale.limit = limits["execution"]
            /\ scale.offered = offered["execution"]
            /\ limits["execution"] < offered["execution"]
  BY <1>1, <1>3 DEF Inclusion!execution_cap_scale
<1>5. data = still * scale.offered + moving * scale.limit
  BY DEF Inclusion!data_after_execution_cap
<1>6. bundle = IF data > limits["data"] * scale.offered
               THEN [limit |-> limits["data"] * scale.offered, offered |-> data]
               ELSE [limit |-> 1, offered |-> 1]
  BY <1>3 DEF Inclusion!data_bundle_scale
<1> HIDE DEF scale, data, bundle, still, moving, wanted
<1>7. data \in Nat /\ data <= wanted * scale.offered
  <2>1. moving * scale.limit <= moving * scale.offered
    BY <1>2, <1>4, ProductMono
  <2>2. wanted * scale.offered = still * scale.offered + moving * scale.offered
    BY <1>2, <1>4
  <2>3. still * scale.offered \in Nat /\ moving * scale.limit \in Nat
        /\ moving * scale.offered \in Nat
    BY <1>2, <1>4
  <2> QED BY <1>5, <2>1, <2>2, <2>3
<1>8. limits["data"] * scale.offered \in Nat /\ limits["data"] \in Nat /\ wanted \in Nat
  BY <1>2, <1>3, <1>4
<1>9. CASE data > limits["data"] * scale.offered
  <2>1. limits["data"] < wanted
    <3>1. wanted <= limits["data"] => wanted * scale.offered <= limits["data"] * scale.offered
      BY <1>4, <1>8, ProductMono
    <3>2. wanted * scale.offered \in Nat
      BY <1>4, <1>8
    <3> QED BY <1>7, <1>8, <1>9, <3>1, <3>2
  <2>2. bundle.limit = limits["data"] * scale.offered /\ bundle.offered = data
    BY <1>6, <1>9
  <2>3. bundle.limit \in Nat /\ bundle.offered \in Nat \ {0} /\ bundle.limit < bundle.offered
    BY <1>7, <1>8, <1>9, <2>2
  <2>4. bundle.limit <= bundle.offered
    BY <2>3
  <2> QED BY <1>4, <1>7, <2>1, <2>3, <2>4 DEF offered, wanted, scale, data, bundle
<1>10. CASE ~ (data > limits["data"] * scale.offered)
  <2>1. bundle.limit = 1 /\ bundle.offered = 1
    BY <1>6, <1>10
  <2>2. data <= limits["data"] * scale.offered
    BY <1>7, <1>8, <1>10
  <2>3. /\ bundle.limit \in Nat /\ bundle.offered \in Nat \ {0}
        /\ bundle.limit <= bundle.offered /\ bundle.limit = bundle.offered
    BY <2>1
  <2> QED BY <1>4, <1>7, <2>2, <2>3 DEF offered, wanted, scale, data, bundle
<1> QED BY <1>9, <1>10

\* Two shares, one after the other, keep the product of the fractions but for
\* what the two floors take.
LEMMA SharedTwice ==
  ASSUME NEW gas \in Nat, NEW l \in Nat, NEW o \in Nat \ {0}, NEW first \in Nat,
         NEW m \in Nat, NEW p \in Nat \ {0}, NEW second \in Nat, m <= p,
         first * o <= gas * l, gas * l <= (first + 1) * o,
         second * p <= first * m, first * m <= (second + 1) * p
  PROVE  /\ second * (o * p) <= gas * l * m
         /\ (second + 2) * (o * p) >= gas * l * m
<1> DEFINE so == first * o
           gl == gas * l
           sp == second * p
           fm == first * m
<1>1. so \in Nat /\ gl \in Nat /\ sp \in Nat /\ fm \in Nat
  OBVIOUS
<1>2. (first + 1) * o = so + o /\ (second + 1) * p = sp + p
  OBVIOUS
<1>3. /\ sp * o = second * (o * p)
      /\ fm * o = so * m
      /\ (second + 2) * (o * p) = sp * o + 2 * (o * p)
      /\ (sp + p) * o = sp * o + o * p
      /\ (so + o) * m = so * m + o * m
      /\ gas * l * m = gl * m
  OBVIOUS
<1>4. so <= gl /\ gl <= so + o /\ sp <= fm /\ fm <= sp + p
  BY <1>2
<1> HIDE DEF so, gl, sp, fm
<1>5. sp * o <= fm * o /\ fm * o <= (sp + p) * o
  BY <1>1, <1>4, ProductMono
<1>6. so * m <= gl * m /\ gl * m <= (so + o) * m
  BY <1>1, <1>4, ProductMono
<1>7. o * m <= o * p
  BY ProductMono
<1>8. /\ sp * o \in Nat /\ fm * o \in Nat /\ so * m \in Nat /\ gl * m \in Nat
      /\ o * m \in Nat /\ o * p \in Nat
  BY <1>1
<1> DEFINE a == sp * o
           b == so * m
           c == gl * m
           d == o * m
           e == o * p
<1>9. a <= b /\ b <= a + e /\ b <= c /\ c <= b + d /\ d <= e
      /\ a \in Nat /\ b \in Nat /\ c \in Nat /\ d \in Nat /\ e \in Nat
  BY <1>3, <1>5, <1>6, <1>7, <1>8
<1>10. a = second * e /\ (second + 2) * e = a + 2 * e /\ gas * l * m = c
  BY <1>3
<1> HIDE DEF a, b, c, d
<1>11. a <= c /\ c <= a + 2 * e
  BY <1>9
<1> QED BY <1>10, <1>11

\* Where execution is not cut, neither is its data.
LEMMA WholeDataKept ==
  ASSUME NEW evaluation \in Demand, NEW scale,
         scale.offered \in Nat, scale.limit = scale.offered
  PROVE  Inclusion!data_after_execution_cap(evaluation, scale)
           = offered_before_quantization(evaluation)["data"] * scale.offered
<1>1. evaluation \in Inclusion!BundleDemandEvaluation
  BY DrivenAssumption
<1> DEFINE a == evaluation.static_data
           b == evaluation.state_bal
           c == evaluation.execution_bal
           o == scale.offered
<1>2. a \in Nat /\ b \in Nat /\ c \in Nat /\ o \in Nat
  BY <1>1 DEF Inclusion!BundleDemandEvaluation
<1>3. offered_before_quantization(evaluation)["data"] = a + c + b
  BY DEF offered_before_quantization, Inclusion!DEMAND_RESOURCES
<1>4. Inclusion!data_after_execution_cap(evaluation, scale) = (a + b) * o + c * o
  BY DEF Inclusion!data_after_execution_cap
<1> HIDE DEF a, b, c, o
<1>5. (a + b) * o + c * o = (a + c + b) * o
  BY <1>2
<1> QED BY <1>3, <1>4, <1>5 DEF o

\* The parent rule: execution is cut to its cap and then, with state, to what
\* its data is left.
LEMMA ParentRule ==
  ASSUME NEW evaluation \in Demand, NEW loses
  PROVE  LET offered == offered_gas(evaluation)
             scale == Inclusion!execution_cap_scale(offered, limits)
             bundle == Inclusion!data_bundle_scale(evaluation, scale, limits)
             whole == scale.offered * bundle.offered
             kept == offered["execution"] * scale.limit * bundle.limit
             taken == Inclusion!ParentBALConsistentCaps(evaluation, offered, limits,
                                                       quantum, loses)
         IN  /\ Feasible(offered, taken)
             /\ over_limit(evaluation) = {} =>
                  \A r \in Inclusion!DEMAND_RESOURCES : taken.unserved[r] = 0
             /\ taken.included["execution"] * whole <= kept
             /\ (taken.included["execution"] + 2) * whole >= kept
             /\ taken.included["state"] * bundle.offered <= offered["state"] * bundle.limit
             /\ (taken.included["state"] + 1) * bundle.offered
                  >= offered["state"] * bundle.limit
<1> DEFINE before == offered_before_quantization(evaluation)
           wanted == before["data"]
           offered == offered_gas(evaluation)
           scale == Inclusion!execution_cap_scale(offered, limits)
           after_cap == Inclusion!data_after_execution_cap(evaluation, scale)
           bundle == Inclusion!data_bundle_scale(evaluation, scale, limits)
           whole == scale.offered * bundle.offered
           kept == offered["execution"] * scale.limit * bundle.limit
           first == Inclusion!scaled_floor(offered["execution"], scale.limit,
                                           scale.offered, loses)
           execution_after_cap == Inclusion!floor_to_quantum(first, quantum["execution"])
           scaled_execution == Inclusion!scaled_floor(execution_after_cap, bundle.limit,
                                                      bundle.offered, loses)
           scaled_state == Inclusion!scaled_floor(offered["state"], bundle.limit,
                                                  bundle.offered, loses)
           data_after_cap == Inclusion!scaled_floor(1, after_cap, scale.offered, loses)
           execution == Inclusion!included_parent(execution_after_cap, bundle,
                                                  quantum["execution"], loses)
           state == Inclusion!included_parent(offered["state"], bundle,
                                              quantum["state"], loses)
           data == IF bundle.limit # bundle.offered THEN limits["data"]
                   ELSE IF scale.limit = scale.offered THEN offered["data"]
                   ELSE Inclusion!floor_to_quantum(data_after_cap, quantum["data"])
           part(r) == CASE r = "execution" -> execution
                        [] r = "state" -> state
                        [] r = "data" -> data
           included == [r \in Inclusion!DEMAND_RESOURCES |-> part(r)]
           taken == Inclusion!ParentBALConsistentCaps(evaluation, offered, limits,
                                                     quantum, loses)
<1>1. taken = Inclusion!allocation(offered, included, limits)
  BY DEF Inclusion!ParentBALConsistentCaps
<1>2. /\ before \in [Inclusion!DEMAND_RESOURCES -> Nat]
      /\ offered \in [Inclusion!DEMAND_RESOURCES -> Nat]
      /\ \A r \in Inclusion!DEMAND_RESOURCES : offered[r] % quantum[r] = 0
      /\ offered["execution"] = before["execution"]
      /\ \A r \in {"execution", "data"} :
           /\ before[r] <= limits[r] => offered[r] <= limits[r]
           /\ limits[r] <= before[r] => limits[r] <= offered[r]
      /\ Inclusion!floor_to_quantum(wanted, quantum["data"]) <= offered["data"]
  BY OfferedIs
<1>3. /\ scale.limit \in Nat /\ scale.offered \in Nat \ {0}
      /\ scale.limit <= scale.offered
      /\ \/ /\ scale.limit = scale.offered
            /\ offered["execution"] <= limits["execution"]
         \/ /\ scale.limit = limits["execution"]
            /\ scale.offered = offered["execution"]
            /\ limits["execution"] < offered["execution"]
      /\ after_cap \in Nat /\ after_cap <= wanted * scale.offered
      /\ bundle.limit \in Nat /\ bundle.offered \in Nat \ {0}
      /\ bundle.limit <= bundle.offered
      /\ \/ bundle.limit = bundle.offered /\ after_cap <= limits["data"] * scale.offered
         \/ bundle.limit < bundle.offered /\ limits["data"] < wanted
  BY ScalesAre
<1>4. included["execution"] = execution /\ included["state"] = state
      /\ included["data"] = data
  BY DEF Inclusion!DEMAND_RESOURCES
<1>5. included = [r \in Inclusion!DEMAND_RESOURCES |-> included[r]]
  <2> HIDE DEF part
  <2> QED OBVIOUS
<1>6. /\ execution = Inclusion!floor_to_quantum(scaled_execution, quantum["execution"])
      /\ state = Inclusion!floor_to_quantum(scaled_state, quantum["state"])
  BY DEF Inclusion!included_parent
<1>7. /\ offered["execution"] \in Nat /\ offered["state"] \in Nat /\ offered["data"] \in Nat
      /\ wanted \in Nat /\ before["execution"] \in Nat
      /\ limits["execution"] \in Nat /\ limits["data"] \in Nat /\ limits["state"] = None
      /\ limits["data"] % quantum["data"] = 0
      /\ quantum["execution"] = 1 /\ quantum["state"] = 1 /\ quantum["data"] \in Nat \ {0}
  BY <1>2, LimitsAre DEF Inclusion!DEMAND_RESOURCES
<1>8. IsScaled(first, offered["execution"], scale.limit, scale.offered)
  BY <1>3, <1>7, ScaledDown
<1>9. IsScaled(data_after_cap, 1, after_cap, scale.offered)
  BY <1>3, ScaledDown
<1>10. IsScaled(scaled_state, offered["state"], bundle.limit, bundle.offered)
  BY <1>3, <1>7, ScaledDown
<1> HIDE DEF first, data_after_cap, scaled_state
<1>11. execution_after_cap = first /\ first \in Nat /\ first % quantum["execution"] = 0
  <2>1. first \in Nat
    BY <1>8 DEF IsScaled
  <2>2. first % 1 = 0
    BY <2>1
  <2> QED BY <1>7, <2>1, <2>2, RoundedDown
<1> HIDE DEF execution_after_cap
<1>12. IsScaled(scaled_execution, first, bundle.limit, bundle.offered)
  BY <1>3, <1>11, ScaledDown
<1> HIDE DEF scaled_execution, execution, state
<1>13. execution = scaled_execution /\ state = scaled_state
       /\ execution \in Nat /\ state \in Nat
       /\ execution % quantum["execution"] = 0 /\ state % quantum["state"] = 0
  <2>1. scaled_execution \in Nat /\ scaled_state \in Nat
    BY <1>10, <1>12 DEF IsScaled
  <2>2. scaled_execution % 1 = 0 /\ scaled_state % 1 = 0
    BY <2>1
  <2>3. execution = scaled_execution
    BY <1>6, <1>7, <2>1, <2>2, RoundedDown
  <2>4. state = scaled_state
    BY <1>6, <1>7, <2>1, <2>2, RoundedDown
  <2> QED BY <1>7, <2>1, <2>2, <2>3, <2>4
<1> HIDE DEF scale, bundle, after_cap, included, taken, data, offered, before
<1>14. /\ first * scale.offered <= offered["execution"] * scale.limit
       /\ offered["execution"] * scale.limit <= (first + 1) * scale.offered
       /\ first <= offered["execution"]
       /\ scale.limit = scale.offered => first = offered["execution"]
       /\ execution * bundle.offered <= first * bundle.limit
       /\ first * bundle.limit <= (execution + 1) * bundle.offered
       /\ execution <= first
       /\ bundle.limit = bundle.offered => execution = first /\ state = offered["state"]
       /\ state * bundle.offered <= offered["state"] * bundle.limit
       /\ offered["state"] * bundle.limit <= (state + 1) * bundle.offered
       /\ state <= offered["state"]
  BY <1>3, <1>8, <1>10, <1>12, <1>13 DEF IsScaled
\* Execution stays under its limit.
<1>15. first <= limits["execution"]
  <2>1. CASE offered["execution"] <= limits["execution"]
    BY <1>7, <1>11, <1>14, <2>1
  <2>2. CASE /\ scale.limit = limits["execution"]
             /\ scale.offered = offered["execution"]
    <3> DEFINE o == scale.offered
               l == limits["execution"]
    <3>1. first * o <= o * l /\ o \in Nat \ {0} /\ l \in Nat
      BY <1>3, <1>7, <1>14, <2>2
    <3> HIDE DEF o, l
    <3>2. o * l = l * o
      BY <3>1
    <3>3. first * o <= l * o
      BY <3>1, <3>2
    <3>4. first <= l
      BY <1>11, <3>1, <3>3, Cancelled
    <3> QED BY <3>4 DEF l
  <2> QED BY <1>3, <2>1, <2>2
\* Data stays under its limit and its offer.
<1>16. /\ data \in Nat /\ data <= limits["data"] /\ data <= offered["data"]
       /\ data % quantum["data"] = 0
  <2>1. CASE bundle.limit # bundle.offered
    <3>1. data = limits["data"]
      BY <2>1 DEF data
    <3>2. limits["data"] < wanted /\ "data" \in {"execution", "data"}
      BY <1>3, <2>1
    <3>3. limits["data"] <= offered["data"]
      BY <1>2, <1>7, <3>2
    <3> QED BY <1>7, <3>1, <3>3
  <2>2. CASE bundle.limit = bundle.offered /\ scale.limit = scale.offered
    <3>1. data = offered["data"]
      BY <2>2 DEF data
    <3>2. after_cap <= limits["data"] * scale.offered
      BY <1>3, <2>2
    <3>3. after_cap = wanted * scale.offered
      BY <2>2, <1>3, WholeDataKept DEF after_cap, scale, wanted, before
    <3>4. wanted <= limits["data"]
      BY <1>3, <1>7, <3>2, <3>3, Cancelled
    <3>5. offered["data"] <= limits["data"]
      BY <1>2, <3>4
    <3>6. offered["data"] % quantum["data"] = 0
      BY <1>2 DEF Inclusion!DEMAND_RESOURCES
    <3> QED BY <1>7, <3>1, <3>5, <3>6
  <2>3. CASE bundle.limit = bundle.offered /\ scale.limit # scale.offered
    <3>1. data = Inclusion!floor_to_quantum(data_after_cap, quantum["data"])
      BY <2>3 DEF data
    <3>2. data_after_cap \in Nat /\ data_after_cap * scale.offered <= 1 * after_cap
      BY <1>9 DEF IsScaled
    <3>3. data \in Nat /\ data % quantum["data"] = 0 /\ data <= data_after_cap
      BY <1>7, <3>1, <3>2, RoundedDown
    <3>4. data_after_cap * scale.offered <= after_cap
      BY <1>3, <3>2
    <3>5. after_cap <= limits["data"] * scale.offered
      BY <1>3, <2>3
    <3>6. data_after_cap <= limits["data"]
      <4>1. data_after_cap * scale.offered <= limits["data"] * scale.offered
        BY <1>3, <1>7, <3>2, <3>4, <3>5
      <4> QED BY <1>3, <1>7, <3>2, <4>1, Cancelled
    <3>7. data_after_cap <= wanted
      <4>1. data_after_cap * scale.offered <= wanted * scale.offered
        BY <1>3, <1>7, <3>2, <3>4
      <4> QED BY <1>3, <1>7, <3>2, <4>1, Cancelled
    <3>8. data <= offered["data"]
      <4> DEFINE q == quantum["data"]
      <4>1. q \in Nat \ {0} /\ data = Inclusion!floor_to_quantum(data_after_cap, q)
            /\ Inclusion!floor_to_quantum(wanted, q) <= offered["data"]
        BY <1>2, <1>7, <3>1
      <4> HIDE DEF q, wanted
      <4>2. Inclusion!floor_to_quantum(data_after_cap, q) <= Inclusion!floor_to_quantum(wanted, q)
        BY <1>7, <3>2, <3>7, <4>1, RoundedMono
      <4>3. Inclusion!floor_to_quantum(wanted, q) \in Nat
        BY <1>7, <4>1, RoundedDown
      <4> QED BY <1>7, <3>3, <4>1, <4>2, <4>3
    <3> QED BY <1>7, <3>2, <3>3, <3>6, <3>8
  <2> QED BY <2>1, <2>2, <2>3
<1>17. \A r \in Inclusion!DEMAND_RESOURCES : r = "execution" \/ r = "data" \/ r = "state"
  BY DEF Inclusion!DEMAND_RESOURCES
<1>18. execution <= offered["execution"] /\ execution <= limits["execution"]
  BY <1>7, <1>11, <1>13, <1>14, <1>15
<1>19. \A r \in Inclusion!DEMAND_RESOURCES :
         /\ included[r] \in Nat /\ included[r] <= offered[r]
         /\ included[r] % quantum[r] = 0
  BY <1>4, <1>13, <1>14, <1>16, <1>17, <1>18
<1>20. included \in [Inclusion!DEMAND_RESOURCES -> Nat]
  BY <1>5, <1>19
<1>21. \A r \in {"execution", "data"} : included[r] <= limits[r]
  BY <1>4, <1>16, <1>18
<1>22. /\ Feasible(offered, taken) /\ taken.included = included
       /\ \A r \in Inclusion!DEMAND_RESOURCES : taken.unserved[r] = offered[r] - included[r]
  BY <1>1, <1>2, <1>19, <1>20, <1>21, AllocationIs
<1>23. ASSUME over_limit(evaluation) = {}, NEW r \in Inclusion!DEMAND_RESOURCES
       PROVE  taken.unserved[r] = 0
  <2>1. ~ (before["execution"] > limits["execution"]) /\ ~ (wanted > limits["data"])
    BY <1>23 DEF over_limit, before
  <2>2. ~ (limits["execution"] < offered["execution"])
    BY <1>2, <1>7, <2>1
  <2>3. scale.limit = scale.offered
    BY <1>3, <2>2
  <2>4. bundle.limit = bundle.offered
    BY <1>3, <1>7, <2>1
  <2>5. execution = offered["execution"] /\ state = offered["state"]
        /\ data = offered["data"]
    BY <1>14, <2>3, <2>4 DEF data
  <2>6. included[r] = offered[r] /\ offered[r] \in Nat
    BY <1>2, <1>4, <1>17, <2>5
  <2> QED BY <1>22, <2>6
<1>24. execution * whole <= kept /\ (execution + 2) * whole >= kept
  <2> DEFINE gas == offered["execution"]
             l == scale.limit
             o == scale.offered
             m == bundle.limit
             p == bundle.offered
  <2>1. /\ gas \in Nat /\ l \in Nat /\ o \in Nat \ {0} /\ first \in Nat
        /\ m \in Nat /\ p \in Nat \ {0} /\ execution \in Nat /\ m <= p
        /\ first * o <= gas * l /\ gas * l <= (first + 1) * o
        /\ execution * p <= first * m /\ first * m <= (execution + 1) * p
    BY <1>3, <1>7, <1>11, <1>13, <1>14
  <2> HIDE DEF gas, l, o, m, p
  <2>2. execution * (o * p) <= gas * l * m /\ (execution + 2) * (o * p) >= gas * l * m
    BY <2>1, SharedTwice
  <2> QED BY <2>2 DEF gas, l, o, m, p
<1>25. /\ taken.included["execution"] = execution
       /\ taken.included["state"] = state
  BY <1>4, <1>22
<1>26. (state + 1) * bundle.offered >= offered["state"] * bundle.limit
  BY <1>3, <1>7, <1>13, <1>14
<1> QED BY <1>14, <1>22, <1>23, <1>24, <1>25, <1>26
        DEF offered, scale, bundle, taken

(***************************************************************************)
(* The driven replay.                                                      *)
(***************************************************************************)
\* What the last row of a driven replay was made from.
IsRow(evaluation, loses) ==
  LET taken == allocated(evaluation, loses)
  IN  /\ driven.evaluation = evaluation
      /\ driven.offered = offered_gas(evaluation)
      /\ driven.included = taken.included
      /\ driven.unserved = taken.unserved
      /\ driven.binding = taken.binding
      /\ result.invalid = exceeded(usage(taken.included))

RowInv ==
  driven = None \/ \E evaluation \in Demand, loses \in BOOLEAN : IsRow(evaluation, loses)

DrivenInv == inclusion_rule \in Rules /\ RowInv

\* Whatever the rule, what it includes can be replayed.
LEMMA AllocatedIsFeasible ==
  ASSUME inclusion_rule \in Rules, NEW evaluation \in Demand, NEW loses
  PROVE  LET taken == allocated(evaluation, loses)
         IN  /\ Feasible(offered_gas(evaluation), taken)
             /\ over_limit(evaluation) = {} =>
                  \A r \in Inclusion!DEMAND_RESOURCES : taken.unserved[r] = 0
             /\ usage(taken.included) \in [Resources -> Nat]
             /\ exceeded(usage(taken.included)) = {}
<1> DEFINE taken == allocated(evaluation, loses)
<1>1. /\ Feasible(offered_gas(evaluation), taken)
      /\ over_limit(evaluation) = {} =>
           \A r \in Inclusion!DEMAND_RESOURCES : taken.unserved[r] = 0
  <2>1. CASE inclusion_rule = "separate_resource_caps"
    BY <2>1, SeparateRule DEF allocated
  <2>2. CASE inclusion_rule = "proportional_bundle_caps"
    BY <2>2, ProportionalRule DEF allocated
  <2>3. CASE inclusion_rule = "parent_bal_consistent_caps"
    BY <2>3, ParentRule DEF allocated
  <2> QED BY <2>1, <2>2, <2>3, DrivenAssumption
<1> HIDE DEF taken
<1>2. /\ taken.included["execution"] \in Nat /\ taken.included["data"] \in Nat
      /\ taken.included["state"] \in Nat
      /\ taken.included["execution"] <= limits["execution"]
      /\ taken.included["data"] <= limits["data"]
  BY <1>1, LimitsAre DEF Feasible, Inclusion!DEMAND_RESOURCES
<1>3. usage(taken.included) \in [Resources -> Nat]
  BY <1>2 DEF usage, Resources
<1>4. exceeded(usage(taken.included)) = {}
  <2>1. /\ usage(taken.included)["execution"] = taken.included["execution"]
        /\ usage(taken.included)["bandwidth"] = taken.included["data"]
    BY DEF usage, Resources
  <2>2. /\ ~ (usage(taken.included)["execution"] > config["execution"].gas_limit)
        /\ ~ (usage(taken.included)["bandwidth"] > config["bandwidth"].gas_limit)
        /\ config["state"].gas_limit = None
    BY <1>2, <2>1, LimitsAre, Configs
  <2> QED BY <2>2 DEF exceeded, Resources
<1> QED BY <1>1, <1>3, <1>4 DEF taken

LEMMA DrivenInvHolds == DrivenSpec => []DrivenInv
<1>1. DrivenInit => DrivenInv
  BY DEF DrivenInit, DrivenInv, RowInv
<1>2. DrivenInv /\ [DrivenNext]_driven_vars => DrivenInv'
  <2>1. ASSUME DrivenInv, NEW evaluation \in Demand, NEW loses \in BOOLEAN,
               NEW blob_base_fee \in BlobBaseFees,
               DrivenStep(evaluation, loses, blob_base_fee)
        PROVE  DrivenInv'
    <3>1. allocated(evaluation, loses)' = allocated(evaluation, loses)
          /\ inclusion_rule' = inclusion_rule
      BY <2>1 DEF DrivenStep, allocated
    <3>2. IsRow(evaluation, loses)'
      <4> DEFINE taken == allocated(evaluation, loses)
      <4>1. result'.invalid = exceeded(usage(taken.included))
        BY <2>1 DEF DrivenStep, Step
      <4>2. /\ driven'.evaluation = evaluation
            /\ driven'.offered = offered_gas(evaluation)
            /\ driven'.included = taken.included
            /\ driven'.unserved = taken.unserved
            /\ driven'.binding = taken.binding
        BY <2>1 DEF DrivenStep
      <4> HIDE DEF taken
      <4> QED BY <3>1, <4>1, <4>2 DEF IsRow, taken
    <3> QED BY <2>1, <3>1, <3>2 DEF DrivenInv, RowInv
  <2>2. DrivenInv /\ UNCHANGED driven_vars => DrivenInv'
    BY DEF DrivenInv, RowInv, IsRow, allocated, driven_vars
  <2> QED BY <2>1, <2>2 DEF DrivenNext
<1> QED BY <1>1, <1>2, PTL DEF DrivenSpec

\* A row a driven replay left, from the demand it came from.
LEMMA RowsAre ==
  ASSUME DrivenInv, driven # None
  PROVE  \E evaluation \in Demand, loses \in BOOLEAN : IsRow(evaluation, loses)
  BY DEF DrivenInv, RowInv

\* Every rule of dynamics/allocation.py includes no more than is offered or a
\* limit admits, on the quantum, and loses nothing.
THEOREM InclusionHolds == DrivenSpec => []InclusionIsFeasible
<1>1. DrivenInv => InclusionIsFeasible
  <2> SUFFICES ASSUME DrivenInv, driven # None PROVE InclusionIsFeasible
    BY DEF InclusionIsFeasible
  <2>1. PICK evaluation \in Demand, loses \in BOOLEAN : IsRow(evaluation, loses)
    BY RowsAre
  <2> DEFINE taken == allocated(evaluation, loses)
  <2>2. Feasible(offered_gas(evaluation), taken) /\ exceeded(usage(taken.included)) = {}
    BY AllocatedIsFeasible DEF DrivenInv
  <2>3. result.invalid = {} /\ driven.included = taken.included
        /\ driven.unserved = taken.unserved /\ driven.offered = offered_gas(evaluation)
    BY <2>1, <2>2 DEF IsRow
  <2> HIDE DEF taken
  <2> QED BY <2>2, <2>3 DEF Feasible, InclusionIsFeasible
<1> QED BY <1>1, DrivenInvHolds, PTL

\* Nothing is rationed under the limits, and what is rationed fills a limit.
THEOREM RationingHolds == DrivenSpec => []RationedBlocksAreFull
<1>1. DrivenInv => RationedBlocksAreFull
  <2> SUFFICES ASSUME DrivenInv, driven # None PROVE RationedBlocksAreFull
    BY DEF RationedBlocksAreFull
  <2>1. PICK evaluation \in Demand, loses \in BOOLEAN : IsRow(evaluation, loses)
    BY RowsAre
  <2> DEFINE taken == allocated(evaluation, loses)
             offered == offered_gas(evaluation)
  <2>2. /\ driven.included = taken.included /\ driven.unserved = taken.unserved
        /\ driven.binding = taken.binding /\ driven.offered = offered
        /\ driven.evaluation = evaluation
    BY <2>1 DEF IsRow
  <2>3. /\ over_limit(evaluation) = {} =>
             \A r \in Inclusion!DEMAND_RESOURCES : taken.unserved[r] = 0
    BY AllocatedIsFeasible DEF DrivenInv
  <2>4. exceeded_limits = over_limit(evaluation)
    BY <2>2, LimitsAre DEF exceeded_limits, over_limit
  <2>5. ASSUME NEW r \in Inclusion!DEMAND_RESOURCES, driven.unserved[r] > 0
        PROVE  exceeded_limits # {}
    <3>1. driven.unserved[r] # 0
      BY <2>5
    <3> HIDE DEF taken
    <3> QED BY <2>2, <2>3, <2>4, <3>1
  <2>6. ASSUME inclusion_rule # "parent_bal_consistent_caps",
               NEW r \in Inclusion!limited(limits), driven.offered[r] > limits[r]
        PROVE  \E b \in driven.binding :
                 /\ driven.included[b] = limits[b]
                 /\ inclusion_rule = "separate_resource_caps" => b = r
    <3>1. r \in {"execution", "data"} /\ r \in offered_over(offered)
      BY <2>2, <2>6, LimitsAre DEF offered_over
    <3>2. CASE inclusion_rule = "separate_resource_caps"
      <4>1. taken = Inclusion!SeparateResourceCaps(offered, limits)
        BY <3>2 DEF allocated
      <4>2. r \in taken.binding /\ taken.included[r] = limits[r]
        BY <2>2, <2>6, <3>1, <4>1, SeparateRule
      <4> QED BY <2>2, <4>2
    <3>3. CASE inclusion_rule = "proportional_bundle_caps"
      <4>1. taken = Inclusion!ProportionalBundleCaps(offered, limits, quantum)
        BY <3>3 DEF allocated
      <4>2. \E b \in offered_over(offered) :
              b \in taken.binding /\ taken.included[b] = limits[b]
        BY <3>1, <4>1, ProportionalRule
      <4> QED BY <2>2, <3>3, <4>2
    <3> QED BY <2>6, <3>2, <3>3, DrivenAssumption DEF DrivenInv
  <2> QED BY <2>5, <2>6 DEF RationedBlocksAreFull
<1> QED BY <1>1, DrivenInvHolds, PTL

\* The bundling rules cut a bundle as a whole, but for the quantum and for the
\* gas two floors take.
THEOREM BundlesHold == DrivenSpec => []BundlesAreCutAsAWhole
<1>1. DrivenInv => BundlesAreCutAsAWhole
  <2> SUFFICES ASSUME DrivenInv, driven # None PROVE BundlesAreCutAsAWhole
    BY DEF BundlesAreCutAsAWhole
  <2>1. PICK evaluation \in Demand, loses \in BOOLEAN : IsRow(evaluation, loses)
    BY RowsAre
  <2> DEFINE taken == allocated(evaluation, loses)
             offered == offered_gas(evaluation)
  <2>2. /\ driven.included = taken.included /\ driven.offered = offered
        /\ driven.evaluation = evaluation
    BY <2>1 DEF IsRow
  <2>3. CASE inclusion_rule = "proportional_bundle_caps"
    <3>1. taken = Inclusion!ProportionalBundleCaps(offered, limits, quantum)
      BY <2>3 DEF allocated
    <3> DEFINE over == offered_over(offered)
    <3>2. {b \in Inclusion!limited(limits) : driven.offered[b] > limits[b]} = over
      BY <2>2, LimitsAre DEF offered_over
    <3>3. /\ over # {} =>
               \E b \in over : \A r \in Inclusion!DEMAND_RESOURCES :
                 (taken.included[r] + quantum[r]) * offered[b] > offered[r] * limits[b]
          /\ \A b \in over, r \in Inclusion!DEMAND_RESOURCES :
               taken.included[r] * offered[b] <= offered[r] * limits[b]
      BY <3>1, ProportionalRule
    <3> HIDE DEF over, taken, offered
    <3> QED BY <2>2, <2>3, <3>2, <3>3 DEF BundlesAreCutAsAWhole
  <2>4. CASE inclusion_rule = "parent_bal_consistent_caps"
    <3>1. taken = Inclusion!ParentBALConsistentCaps(evaluation, offered, limits, quantum,
                                                   loses)
      BY <2>4 DEF allocated
    <3> DEFINE scale == Inclusion!execution_cap_scale(offered, limits)
               bundle == Inclusion!data_bundle_scale(evaluation, scale, limits)
               whole == scale.offered * bundle.offered
               kept == offered["execution"] * scale.limit * bundle.limit
    <3>2. /\ taken.included["execution"] * whole <= kept
          /\ (taken.included["execution"] + 2) * whole >= kept
          /\ taken.included["state"] * bundle.offered <= offered["state"] * bundle.limit
          /\ (taken.included["state"] + 1) * bundle.offered >= offered["state"] * bundle.limit
      BY <3>1, ParentRule
    <3> HIDE DEF taken, offered
    <3> QED BY <2>2, <2>4, <3>2 DEF BundlesAreCutAsAWhole
  <2>5. CASE inclusion_rule \notin {"proportional_bundle_caps", "parent_bal_consistent_caps"}
    BY <2>5 DEF BundlesAreCutAsAWhole
  <2> QED BY <2>3, <2>4, <2>5
<1> QED BY <1>1, DrivenInvHolds, PTL

\* Either replay is one of blocks that the mechanism can be handed.
LEMMA BothReplay == Spec \/ DrivenSpec => Replay
<1>1. [Next]_vars => [AnyBlock]_vars
  <2>1. ASSUME NEW gas_used \in Block, NEW blob_base_fee \in BlobBaseFees,
               Step(gas_used, blob_base_fee)
        PROVE  AnyBlock
    <3>1. gas_used \in [Resources -> Nat] /\ blob_base_fee \in Nat
      BY Inputs
    <3> QED BY <2>1, <3>1 DEF AnyBlock
  <2> QED BY <2>1 DEF Next
<1>2. DrivenInv /\ [DrivenNext]_driven_vars => [AnyBlock]_vars
  <2>1. ASSUME DrivenInv, NEW evaluation \in Demand, NEW loses \in BOOLEAN,
               NEW blob_base_fee \in BlobBaseFees,
               DrivenStep(evaluation, loses, blob_base_fee)
        PROVE  AnyBlock
    <3>1. Step(usage(allocated(evaluation, loses).included), blob_base_fee)
      BY <2>1 DEF DrivenStep
    <3>2. usage(allocated(evaluation, loses).included) \in [Resources -> Nat]
      BY <2>1, AllocatedIsFeasible DEF DrivenInv
    <3>3. blob_base_fee \in Nat
      BY InputAssumption
    <3> QED BY <3>1, <3>2, <3>3 DEF AnyBlock
  <2>2. UNCHANGED driven_vars => UNCHANGED vars
    BY DEF driven_vars, vars
  <2> QED BY <2>1, <2>2 DEF DrivenNext
<1>3. DrivenInit => Init
  BY DEF DrivenInit
<1> QED BY <1>1, <1>2, <1>3, DrivenInvHolds, PTL DEF Spec, DrivenSpec, Replay

(***************************************************************************)
(* The inductive invariant of either replay.                               *)
(***************************************************************************)
\* The state carried between blocks, and the recorded row, keep their types.
THEOREM TypeCorrect == Spec \/ DrivenSpec => []TypeOK
<1>1. Init => TypeOK
  BY WarmStarted DEF Init, TypeOK, FeeState
<1>2. TypeOK /\ [AnyBlock]_vars => TypeOK'
  <2>1. TypeOK /\ UNCHANGED vars => TypeOK'
    BY DEF TypeOK, vars
  <2> QED BY <2>1, TypeStep DEF AnyBlock
<1> QED BY <1>1, <1>2, BothReplay, PTL DEF Replay

(***************************************************************************)
(* The inductive invariant.                                                *)
(***************************************************************************)
LEMMA InvInit == Init => IInv
<1> SUFFICES ASSUME Init
             PROVE  IInv
  OBVIOUS
<1>1. result = None
  BY DEF Init
<1>2. TypeOK
  BY <1>1, WarmStarted DEF Init, TypeOK, FeeState
<1>3. Charged
  BY <1>1, WarmStarted DEF Charged
<1>4. WarmStart
  BY WarmStarted DEF WarmStart
<1>5. ReserveRowAgrees
  BY <1>1 DEF ReserveRowAgrees
<1> QED BY <1>2, <1>3, <1>4, <1>5 DEF IInv

\* A block keeps the inductive invariant.
LEMMA InvStep ==
  ASSUME IInv, NEW gas_used \in [Resources -> Nat], NEW blob_base_fee \in Nat,
         Step(gas_used, blob_base_fee)
  PROVE  IInv'
<1>1. TypeOK
  BY DEF IInv
<1>2. TypeOK'
  BY <1>1, TypeStep
<1>3. result' # None
  BY <1>1, RowIsSomething
<1>4. Charged'
  <2>1. ASSUME NEW r \in Resources
        PROVE  /\ base_fee'[r] \in Nat
               /\ base_fee'[r] = compute_base_fee(excess_gas'[r], config[r])
    BY <1>1, <1>2, StepResource DEF TypeOK, FeeState
  <2> QED BY <2>1 DEF Charged
<1>5. WarmStart'
  BY <1>3 DEF WarmStart
<1>6. ReserveRowAgrees'
  <2> SUFFICES ASSUME has_reserve_price(config["bandwidth"])
               PROVE  result'.reserve_active <=>
                        result'.base_fee["bandwidth"] <
                          reserve_anchor_threshold_base_fee(result'.blob_base_fee,
                                                            config["bandwidth"])
    BY DEF ReserveRowAgrees
  <2> DEFINE c == config["bandwidth"]
             fee == base_fee["bandwidth"]
  <2>1. c.reserve_factor \in Nat \ {0}
    <3>1. c.reserve_factor \in Nat
      BY Configs DEF IsLimited, IsConfig
    <3>2. c.reserve_factor > 0
      BY DEF has_reserve_price
    <3> QED BY <3>1, <3>2
  <2>2. fee \in Nat /\ blob_base_fee \in Nat
    BY <1>1 DEF TypeOK, FeeState, Resources
  <2>3. /\ result'.base_fee["bandwidth"] = fee
        /\ result'.blob_base_fee = blob_base_fee
        /\ result'.reserve_active <=> reserve_price_active(fee, blob_base_fee, c)
    BY StepFields
  <2> HIDE DEF c, fee
  <2>4. reserve_price_active(fee, blob_base_fee, c) <=>
          fee < reserve_anchor_threshold_base_fee(blob_base_fee, c)
    BY <2>1, <2>2, ReserveThreshold
  <2> QED BY <2>3, <2>4 DEF c
<1> QED BY <1>2, <1>4, <1>5, <1>6 DEF IInv

\* Every step, a stuttering one included, keeps the inductive invariant.
LEMMA InvNext == IInv /\ [AnyBlock]_vars => IInv'
<1>1. IInv /\ UNCHANGED vars => IInv'
  BY DEF IInv, TypeOK, Charged, WarmStart, ReserveRowAgrees, vars
<1> QED BY <1>1, InvStep DEF AnyBlock

\* The inductive invariant holds in every state of every replay.
THEOREM Invariance == Spec \/ DrivenSpec => []IInv
BY InvInit, InvNext, BothReplay, PTL DEF Replay

\* The warm start of each resource is the least excess whose fee reaches the
\* initial fee, for every initial fee and configuration.
THEOREM WarmStartHolds == Spec \/ DrivenSpec => []WarmStart
<1>1. IInv => WarmStart
  BY DEF IInv
<1> QED BY <1>1, Invariance, PTL

\* The recorded reserve flag agrees with the recorded fee and threshold.
THEOREM ReserveRowHolds == Spec \/ DrivenSpec => []ReserveRowAgrees
<1>1. IInv => ReserveRowAgrees
  BY DEF IInv
<1> QED BY <1>1, Invariance, PTL

\* From any reachable state, a block of more bandwidth gas leaves at least the
\* excess and the fee a block of less leaves, whatever the blob fee.
THEOREM MoreGasHolds == Spec \/ DrivenSpec => []MoreGasNeverCheapens
<1>1. TypeOK => MoreGasNeverCheapens
  <2> SUFFICES ASSUME TypeOK, NEW blob_base_fee \in BlobBaseFees,
                      NEW x \in BandwidthGas, NEW y \in BandwidthGas, x < y
               PROVE  LET block(gas_used) ==
                            apply_resource_block(
                              excess_gas["bandwidth"], base_fee["bandwidth"],
                              capped(gas_used, config["bandwidth"]),
                              config["bandwidth"], blob_base_fee)
                      IN  /\ block(x).excess_gas <= block(y).excess_gas
                          /\ block(x).base_fee <= block(y).base_fee
    BY DEF MoreGasNeverCheapens
  <2> DEFINE c == config["bandwidth"]
             excess(gas_used) ==
               update_normalized_excess_gas(excess_gas["bandwidth"],
                                            capped(gas_used, c), c,
                                            base_fee["bandwidth"], blob_base_fee)
  <2>1. "bandwidth" \in Resources
    BY DEF Resources
  <2>2. x \in Nat /\ y \in Nat /\ x <= y
    BY InputAssumption
  <2>3. /\ capped(x, c) \in Nat /\ capped(y, c) \in Nat
        /\ capped(x, c) <= capped(y, c)
    BY <2>1, <2>2, CappedUsage, CappedMono
  <2>4. excess_gas["bandwidth"] \in Nat
    BY <2>1 DEF TypeOK, FeeState
  <2>5. IsConfig(c) /\ IsCurve(c)
    BY <2>1, Configs
  <2> HIDE DEF c
  <2>6. excess(x) \in Nat /\ excess(y) \in Nat
    BY <2>3, <2>4, <2>5, UpdateDirection
  <2>7. excess(x) <= excess(y)
    BY <2>3, <2>4, <2>5, UpdateMono
  <2> HIDE DEF excess
  <2>8. compute_base_fee(excess(x), c) <= compute_base_fee(excess(y), c)
    BY <2>5, <2>6, <2>7, FeeMono
  <2> QED BY <2>7, <2>8 DEF excess, c, apply_resource_block
<1> QED BY <1>1, TypeCorrect, PTL

(***************************************************************************)
(* Steps.                                                                  *)
(***************************************************************************)
\* The parent fee a block is charged, against the fee it leaves behind.
LEMMA FeeDirection ==
  ASSUME IInv, NEW gas_used \in [Resources -> Nat], NEW blob_base_fee \in Nat,
         Step(gas_used, blob_base_fee), NEW r \in Resources
  PROVE  /\ excess_gas'[r] >= excess_gas[r] => base_fee'[r] >= base_fee[r]
         /\ result # None /\ excess_gas'[r] <= excess_gas[r]
              => base_fee'[r] <= base_fee[r]
<1> DEFINE c == config[r]
<1>1. TypeOK /\ IsCurve(c)
  BY Configs DEF IInv
<1>2. /\ excess_gas[r] \in Nat /\ excess_gas'[r] \in Nat
      /\ base_fee'[r] = compute_base_fee(excess_gas'[r], c)
  BY <1>1, StepResource
<1>3. /\ base_fee[r] \in Nat
      /\ base_fee[r] <= compute_base_fee(excess_gas[r], c)
      /\ result # None => base_fee[r] = compute_base_fee(excess_gas[r], c)
  BY <1>1 DEF IInv, Charged, TypeOK, FeeState
<1> HIDE DEF c
<1>4. /\ compute_base_fee(excess_gas[r], c) \in Nat
      /\ compute_base_fee(excess_gas'[r], c) \in Nat
  BY <1>1, <1>2, FeeType
<1>5. ASSUME excess_gas'[r] >= excess_gas[r]
      PROVE  base_fee'[r] >= base_fee[r]
  <2>1. compute_base_fee(excess_gas[r], c) <= compute_base_fee(excess_gas'[r], c)
    BY <1>1, <1>2, <1>5, FeeMono
  <2> QED BY <1>2, <1>3, <1>4, <2>1
<1>6. ASSUME result # None, excess_gas'[r] <= excess_gas[r]
      PROVE  base_fee'[r] <= base_fee[r]
  <2>1. compute_base_fee(excess_gas'[r], c) <= compute_base_fee(excess_gas[r], c)
    BY <1>1, <1>2, <1>6, FeeMono
  <2> QED BY <1>2, <1>3, <1>4, <1>6, <2>1
<1> QED BY <1>5, <1>6

\* No block makes bandwidth cheaper while the reserve is on.
THEOREM ReserveHolds == Spec \/ DrivenSpec => ReserveNeverCheapens
<1> DEFINE Never == result'.reserve_active =>
                      /\ excess_gas'["bandwidth"] >= excess_gas["bandwidth"]
                      /\ base_fee'["bandwidth"] >= base_fee["bandwidth"]
<1>1. IInv /\ [AnyBlock]_vars => [Never]_vars
  <2> SUFFICES ASSUME IInv, NEW gas_used \in [Resources -> Nat],
                      NEW blob_base_fee \in Nat,
                      Step(gas_used, blob_base_fee), result'.reserve_active
               PROVE  /\ excess_gas'["bandwidth"] >= excess_gas["bandwidth"]
                      /\ base_fee'["bandwidth"] >= base_fee["bandwidth"]
    BY DEF AnyBlock
  <2>1. "bandwidth" \in Resources /\ TypeOK
    BY DEF Resources, IInv
  <2>2. reserve_price_active(base_fee["bandwidth"],
                             reserve_anchor("bandwidth", blob_base_fee),
                             config["bandwidth"])
    BY StepFields DEF reserve_anchor
  <2>3. excess_gas'["bandwidth"] >= excess_gas["bandwidth"]
    BY <2>1, <2>2, StepResource
  <2> QED BY <2>1, <2>3, FeeDirection
<1> QED BY <1>1, Invariance, BothReplay, PTL DEF Replay, ReserveNeverCheapens

\* Every fee follows its usage, but for the reserve and the first block.
THEOREM FeesFollowUsageHolds == Spec \/ DrivenSpec => FeesFollowUsage
<1> DEFINE Follows ==
      \A r \in Resources :
       LET used == result'.gas_used[r]
       IN  /\ used >= config[r].gas_target => base_fee'[r] >= base_fee[r]
           /\ (/\ used <= config[r].gas_target
               /\ result # None
               /\ ~ (r = "bandwidth" /\ result'.reserve_active))
              => base_fee'[r] <= base_fee[r]
<1>1. IInv /\ [AnyBlock]_vars => [Follows]_vars
  <2> SUFFICES ASSUME IInv, NEW gas_used \in [Resources -> Nat],
                      NEW blob_base_fee \in Nat,
                      Step(gas_used, blob_base_fee), NEW r \in Resources
               PROVE  /\ gas_used[r] >= config[r].gas_target
                           => base_fee'[r] >= base_fee[r]
                      /\ (/\ gas_used[r] <= config[r].gas_target
                          /\ result # None
                          /\ ~ (r = "bandwidth" /\ result'.reserve_active))
                           => base_fee'[r] <= base_fee[r]
    BY StepFields DEF AnyBlock
  <2> DEFINE used == capped(gas_used[r], config[r])
             active == reserve_price_active(base_fee[r],
                                            reserve_anchor(r, blob_base_fee),
                                            config[r])
  <2>1. TypeOK /\ gas_used[r] \in Nat
    BY DEF IInv
  <2>2. /\ gas_used[r] >= config[r].gas_target => used >= config[r].gas_target
        /\ gas_used[r] <= config[r].gas_target => used <= config[r].gas_target
    BY <2>1, CappedUsage
  <2>3. active => r = "bandwidth" /\ result'.reserve_active
    <3>1. active => has_reserve_price(config[r])
      BY DEF reserve_price_active
    <3>2. active => r = "bandwidth"
      BY <3>1, Configs
    <3> QED BY <3>2, StepFields DEF reserve_anchor
  <2>4. /\ active \/ used >= config[r].gas_target
             => excess_gas'[r] >= excess_gas[r]
        /\ ~active /\ used <= config[r].gas_target
             => excess_gas'[r] <= excess_gas[r]
    BY <2>1, StepResource
  <2>5. /\ excess_gas'[r] >= excess_gas[r] => base_fee'[r] >= base_fee[r]
        /\ result # None /\ excess_gas'[r] <= excess_gas[r]
             => base_fee'[r] <= base_fee[r]
    BY FeeDirection
  <2> QED BY <2>2, <2>3, <2>4, <2>5
<1> QED BY <1>1, Invariance, BothReplay, PTL DEF Replay, FeesFollowUsage

(***************************************************************************)
(* Refinement: both limited resources implement PricedResource.            *)
(***************************************************************************)
\* A block moves a limited resource inside the bounds of PricedResource,
\* however far over the limit its raw usage is.
LEMMA StepBounded ==
  ASSUME TypeOK, NEW gas_used \in [Resources -> Nat], NEW blob_base_fee \in Nat,
         Step(gas_used, blob_base_fee), NEW r \in Resources, IsLimited(config[r])
  PROVE  /\ excess_gas'[r] \in Nat
         /\ excess_gas'[r] <= excess_gas[r]
              + normalized(config[r].gas_limit - config[r].gas_target,
                           config[r].gas_limit, config[r])
         /\ excess_gas'[r] >= excess_gas[r]
              - normalized(config[r].gas_target, config[r].gas_limit, config[r])
         /\ base_fee'[r] = compute_base_fee(excess_gas'[r], config[r])
<1>1. /\ excess_gas[r] \in Nat /\ excess_gas'[r] \in Nat
      /\ excess_gas'[r] = after(r, gas_used, blob_base_fee)
      /\ base_fee'[r] = compute_base_fee(excess_gas'[r], config[r])
  BY StepResource
<1>2. /\ capped(gas_used[r], config[r]) \in Nat
      /\ capped(gas_used[r], config[r]) <= config[r].gas_limit
  BY CappedUsage
<1>3. /\ after(r, gas_used, blob_base_fee) <= excess_gas[r]
           + normalized(config[r].gas_limit - config[r].gas_target,
                        config[r].gas_limit, config[r])
      /\ after(r, gas_used, blob_base_fee) >= excess_gas[r]
           - normalized(config[r].gas_target, config[r].gas_limit, config[r])
  BY <1>1, <1>2, UpdateBounded DEF after
<1> QED BY <1>1, <1>3

\* The two instances compute fees with the very operators of this module.
LEMMA MarketMath ==
  ASSUME NEW excess, NEW delta, NEW limit, NEW c
  PROVE  /\ BandwidthMarket!compute_base_fee(excess, c) = compute_base_fee(excess, c)
         /\ ExecutionMarket!compute_base_fee(excess, c) = compute_base_fee(excess, c)
         /\ BandwidthMarket!normalized(delta, limit, c) = normalized(delta, limit, c)
         /\ ExecutionMarket!normalized(delta, limit, c) = normalized(delta, limit, c)
<1>1. BandwidthMarket!compute_base_fee(excess, c) = compute_base_fee(excess, c)
  BY DEF compute_base_fee, fake_exponential, fake_exponential_loop, exit_turn,
         BandwidthMarket!compute_base_fee, BandwidthMarket!fake_exponential,
         BandwidthMarket!fake_exponential_loop, BandwidthMarket!exit_turn
<1>2. ExecutionMarket!compute_base_fee(excess, c) = compute_base_fee(excess, c)
  BY DEF compute_base_fee, fake_exponential, fake_exponential_loop, exit_turn,
         ExecutionMarket!compute_base_fee, ExecutionMarket!fake_exponential,
         ExecutionMarket!fake_exponential_loop, ExecutionMarket!exit_turn
<1>3. /\ BandwidthMarket!normalized(delta, limit, c) = normalized(delta, limit, c)
      /\ ExecutionMarket!normalized(delta, limit, c) = normalized(delta, limit, c)
  BY DEF normalized, BandwidthMarket!normalized, ExecutionMarket!normalized
<1> QED BY <1>1, <1>2, <1>3

\* Bandwidth and execution implement PricedResource: the reserve and raw usage
\* over the limit stay inside the bounds of an ordinary block.
THEOREM LimitedResourcesHold == Spec \/ DrivenSpec => LimitedResourcesArePriced
<1> USE DEF BandwidthMarket!Init, BandwidthMarket!Block, BandwidthMarket!full_rise,
            BandwidthMarket!empty_fall, ExecutionMarket!Init,
            ExecutionMarket!Block, ExecutionMarket!full_rise,
            ExecutionMarket!empty_fall
<1>1. "bandwidth" \in Resources /\ "execution" \in Resources
      /\ IsLimited(config["bandwidth"]) /\ IsLimited(config["execution"])
  BY Configs DEF Resources
<1>2. Init => BandwidthMarket!Init /\ ExecutionMarket!Init
  BY <1>1, WarmStarted, MarketMath
<1>3. IInv /\ [AnyBlock]_vars =>
        /\ [BandwidthMarket!Block]_<<excess_gas["bandwidth"], base_fee["bandwidth"]>>
        /\ [ExecutionMarket!Block]_<<excess_gas["execution"], base_fee["execution"]>>
  <2>1. ASSUME IInv, NEW gas_used \in [Resources -> Nat], NEW blob_base_fee \in Nat,
               Step(gas_used, blob_base_fee)
        PROVE  BandwidthMarket!Block /\ ExecutionMarket!Block
    <3>1. TypeOK
      BY <2>1 DEF IInv
    <3>2. ASSUME NEW r \in {"bandwidth", "execution"}
          PROVE  /\ excess_gas'[r] \in Nat
                 /\ excess_gas'[r] <= excess_gas[r]
                      + normalized(config[r].gas_limit - config[r].gas_target,
                                   config[r].gas_limit, config[r])
                 /\ excess_gas'[r] >= excess_gas[r]
                      - normalized(config[r].gas_target, config[r].gas_limit,
                                   config[r])
                 /\ base_fee'[r] = compute_base_fee(excess_gas'[r], config[r])
      <4>1. r \in Resources /\ IsLimited(config[r])
        BY <1>1
      <4> QED BY <2>1, <3>1, <4>1, StepBounded
    <3>3. BandwidthMarket!Block
      <4> DEFINE c == config["bandwidth"]
      <4>1. /\ excess_gas'["bandwidth"] \in Nat
            /\ excess_gas'["bandwidth"] <= excess_gas["bandwidth"]
                 + normalized(c.gas_limit - c.gas_target, c.gas_limit, c)
            /\ excess_gas'["bandwidth"] >= excess_gas["bandwidth"]
                 - normalized(c.gas_target, c.gas_limit, c)
            /\ base_fee'["bandwidth"] = compute_base_fee(excess_gas'["bandwidth"], c)
        BY <3>2
      <4>2. /\ BandwidthMarket!normalized(c.gas_limit - c.gas_target, c.gas_limit, c)
                 = normalized(c.gas_limit - c.gas_target, c.gas_limit, c)
            /\ BandwidthMarket!normalized(c.gas_target, c.gas_limit, c)
                 = normalized(c.gas_target, c.gas_limit, c)
            /\ BandwidthMarket!compute_base_fee(excess_gas'["bandwidth"], c)
                 = compute_base_fee(excess_gas'["bandwidth"], c)
        BY MarketMath
      <4> QED BY <4>1, <4>2
    <3>4. ExecutionMarket!Block
      <4> DEFINE c == config["execution"]
      <4>1. /\ excess_gas'["execution"] \in Nat
            /\ excess_gas'["execution"] <= excess_gas["execution"]
                 + normalized(c.gas_limit - c.gas_target, c.gas_limit, c)
            /\ excess_gas'["execution"] >= excess_gas["execution"]
                 - normalized(c.gas_target, c.gas_limit, c)
            /\ base_fee'["execution"] = compute_base_fee(excess_gas'["execution"], c)
        BY <3>2
      <4>2. /\ ExecutionMarket!normalized(c.gas_limit - c.gas_target, c.gas_limit, c)
                 = normalized(c.gas_limit - c.gas_target, c.gas_limit, c)
            /\ ExecutionMarket!normalized(c.gas_target, c.gas_limit, c)
                 = normalized(c.gas_target, c.gas_limit, c)
            /\ ExecutionMarket!compute_base_fee(excess_gas'["execution"], c)
                 = compute_base_fee(excess_gas'["execution"], c)
        BY MarketMath
      <4> QED BY <4>1, <4>2
    <3> QED BY <3>3, <3>4
  <2>2. UNCHANGED vars =>
          /\ UNCHANGED <<excess_gas["bandwidth"], base_fee["bandwidth"]>>
          /\ UNCHANGED <<excess_gas["execution"], base_fee["execution"]>>
    BY DEF vars
  <2> QED BY <2>1, <2>2 DEF AnyBlock
<1> HIDE DEF BandwidthMarket!Init, BandwidthMarket!Block,
             ExecutionMarket!Init, ExecutionMarket!Block
<1>4. Spec \/ DrivenSpec => BandwidthMarket!Spec /\ ExecutionMarket!Spec
  BY <1>2, <1>3, Invariance, BothReplay, PTL DEF Replay, BandwidthMarket!Spec, ExecutionMarket!Spec
<1> QED BY <1>4 DEF LimitedResourcesArePriced
=============================================================================
