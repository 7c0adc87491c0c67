------------------------------- MODULE FeeMath -------------------------------
(***************************************************************************)
(* The two fee updaters every mechanism is built from, as operators over   *)
(* integers: the linear EIP-1559 rule (basefee/eip1559.py) and the         *)
(* normalised EIP-7999 rule with its fake exponential and its EIP-7918     *)
(* reserve (basefee/eip7999_normalized.py).                                *)
(*                                                                         *)
(* A ResourceFeeConfig is a record.  Python's None, used for a missing gas *)
(* limit and a missing reserve anchor, is the constant None.  The two      *)
(* fields reserve_mode and reserve_factor are one here: __post_init__      *)
(* admits "none" only with factor 0 and "eip7918" only with a positive     *)
(* one, so the factor alone says which mode is on.                         *)
(*                                                                         *)
(* Here and in the other modules, a definition named <definition>_<fault>  *)
(* and commented "Mutant" is the definition that follows it with one       *)
(* plausible bug; it is there to show that a property notices, and no      *)
(* specification uses it.                                                  *)
(***************************************************************************)
EXTENDS Integers

CONSTANT None

ASSUME NoneAssumption == None \notin Int

Smaller(a, b) == IF a <= b THEN a ELSE b
Larger(a, b) == IF a >= b THEN a ELSE b

BASE_FEE_MAX_CHANGE_DENOMINATOR == 8

-----------------------------------------------------------------------------
(* EIP-1559.                                                               *)

\* Mutant: the early return is taken at or under the target.
update_eip1559_base_fee_flat(parent_base_fee, gas_used, gas_target, min_base_fee) ==
  IF gas_used <= gas_target THEN Larger(parent_base_fee, min_base_fee)
  ELSE LET parent == Larger(parent_base_fee, min_base_fee)
           delta  == ((parent * (gas_used - gas_target)) \div gas_target)
                        \div BASE_FEE_MAX_CHANGE_DENOMINATOR
       IN  parent + Larger(delta, 1)

update_eip1559_base_fee(parent_base_fee, gas_used, gas_target, min_base_fee) ==
  LET parent == Larger(parent_base_fee, min_base_fee)
      gap    == IF gas_used >= gas_target THEN gas_used - gas_target
                                          ELSE gas_target - gas_used
      delta  == ((parent * gap) \div gas_target)
                   \div BASE_FEE_MAX_CHANGE_DENOMINATOR
  IN  IF gas_used = gas_target THEN parent
      ELSE IF gas_used > gas_target THEN parent + Larger(delta, 1)
      ELSE Larger(parent - delta, min_base_fee)

-----------------------------------------------------------------------------
(* EIP-7999.                                                               *)

\* The values __post_init__ lets a configuration have.
ResourceFeeConfig ==
  {c \in [gas_limit: Nat \cup {None}, gas_target: Nat, min_base_fee: Nat,
          update_fraction: Nat \ {0}, gas_normalization_factor: Nat \ {0},
          normalization_denominator: Nat \cup {None}, reserve_factor: Nat] :
     /\ c.gas_limit # 0
     /\ c.normalization_denominator # 0
     /\ c.gas_limit = None => c.gas_target > 0
     /\ c.gas_limit # None => c.gas_target <= c.gas_limit}

normalization_denominator_value(c) ==
  CASE c.normalization_denominator # None -> c.normalization_denominator
    [] c.normalization_denominator = None /\ c.gas_limit # None -> c.gas_limit
    [] OTHER -> c.gas_target

has_reserve_price(c) == c.reserve_factor > 0

\* The turn at which a while loop leaves: the first at which its condition,
\* given for every turn, is false.
exit_turn(goes_on) ==
  LET from[i \in Nat] == IF goes_on[i] THEN from[i + 1] ELSE i
  IN  from[0]

\* The two accumulators of fake_exponential after each turn of its loop.
fake_exponential_loop(factor, numerator, denominator) ==
  LET loop[i \in Nat] ==
        IF i = 0
        THEN [output |-> 0, accum |-> factor * denominator]
        ELSE LET last == loop[i - 1]
             IN  [output |-> last.output + last.accum,
                  accum  |-> (last.accum * numerator) \div (denominator * i)]
  IN  loop

fake_exponential(factor, numerator, denominator) ==
  LET loop  == fake_exponential_loop(factor, numerator, denominator)
      turns == exit_turn([i \in Nat |-> loop[i].accum > 0])
  IN  loop[turns].output \div denominator

compute_base_fee(excess_gas, c) ==
  fake_exponential(c.min_base_fee, excess_gas, c.update_fraction)

\* Mutant: the division rounds down.
reserve_anchor_threshold_base_fee_floor(anchor, c) ==
  IF has_reserve_price(c) THEN anchor \div c.reserve_factor ELSE None

\* The fee below which the reserve is on, reported next to every driven row.
reserve_anchor_threshold_base_fee(anchor, c) ==
  IF has_reserve_price(c)
  THEN (anchor + c.reserve_factor - 1) \div c.reserve_factor
  ELSE None

reserve_price_active(base_fee, anchor, c) ==
  /\ has_reserve_price(c)
  /\ base_fee * c.reserve_factor < anchor

normalized(delta, denominator, c) ==
  (delta * c.gas_normalization_factor) \div denominator

\* Mutant: the reserve is ignored.
update_normalized_excess_gas_unreserved(excess, gas_used, c, base_fee, anchor) ==
  IF gas_used >= c.gas_target
  THEN excess + normalized(gas_used - c.gas_target, normalization_denominator_value(c), c)
  ELSE Larger(0, excess - normalized(c.gas_target - gas_used,
                                     normalization_denominator_value(c), c))

\* Mutant: the reserve's scale is divided out before it is applied.
update_normalized_excess_gas_truncated(excess, gas_used, c, base_fee, anchor) ==
  IF reserve_price_active(base_fee, anchor, c)
  THEN excess + normalized(gas_used * ((c.gas_limit - c.gas_target) \div c.gas_limit),
                           c.gas_limit, c)
  ELSE update_normalized_excess_gas_unreserved(excess, gas_used, c, base_fee, anchor)

update_normalized_excess_gas(excess, gas_used, c, base_fee, anchor) ==
  IF reserve_price_active(base_fee, anchor, c)
  THEN excess + normalized((gas_used * (c.gas_limit - c.gas_target))
                              \div c.gas_limit, c.gas_limit, c)
  ELSE IF gas_used >= c.gas_target
  THEN excess + normalized(gas_used - c.gas_target,
                           normalization_denominator_value(c), c)
  ELSE Larger(0, excess - normalized(c.gas_target - gas_used,
                                     normalization_denominator_value(c), c))

\* excess_gas_for_base_fee first doubles an upper bound until its fee reaches
\* base_fee.  (The code seeds it with a floating-point logarithm instead of
\* 1, which saves turns and cannot change what the bisection returns.)
upper_excess(base_fee, c) ==
  LET high[k \in Nat] == IF k = 0 THEN 1 ELSE 2 * high[k - 1]
  IN  high[exit_turn([k \in Nat |-> compute_base_fee(high[k], c) < base_fee])]

\* The interval of the bisection after each turn; a turn shortens it, so it
\* is a single point after as many turns as it was long.
bisection(base_fee, c) ==
  LET interval[k \in Nat] ==
        IF k = 0
        THEN [low |-> 0, high |-> upper_excess(base_fee, c)]
        ELSE LET last == interval[k - 1]
                 mid  == (last.low + last.high) \div 2
             IN  IF last.low >= last.high THEN last
                 ELSE IF compute_base_fee(mid, c) < base_fee
                 THEN [last EXCEPT !.low = mid + 1]
                 ELSE [last EXCEPT !.high = mid]
  IN  interval

\* Mutant: the bisection stops past its fee, at the first excess that exceeds it.
excess_gas_for_base_fee_past(base_fee, c) ==
  IF base_fee <= c.min_base_fee THEN 0
  ELSE bisection(base_fee + 1, c)[upper_excess(base_fee + 1, c)].low

excess_gas_for_base_fee(base_fee, c) ==
  IF base_fee <= c.min_base_fee THEN 0
  ELSE bisection(base_fee, c)[upper_excess(base_fee, c)].low

\* Mutant: raw usage reaches the update.
capped_never(gas_used, c) == gas_used

\* update_normalized_excess_gas refuses more gas than a limit admits, so a
\* block is applied with an input its caller has already capped.
capped(gas_used, c) ==
  IF c.gas_limit = None THEN gas_used ELSE Smaller(gas_used, c.gas_limit)

\* Mutant: the fee is computed from the excess before the block.
apply_resource_block_late(excess, base_fee, gas_used, c, anchor) ==
  [excess_gas |-> update_normalized_excess_gas(excess, gas_used, c, base_fee, anchor),
   base_fee |-> compute_base_fee(excess, c)]

\* One resource, one block: the new excess and the fee computed from it.
apply_resource_block(excess, base_fee, gas_used, c, anchor) ==
  LET next == update_normalized_excess_gas(excess, gas_used, c, base_fee, anchor)
  IN  [excess_gas |-> next, base_fee |-> compute_base_fee(next, c)]

=============================================================================
