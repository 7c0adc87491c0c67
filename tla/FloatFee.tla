------------------------------- MODULE FloatFee -------------------------------
(***************************************************************************)
(* The EIP-1559 rule over float64, of which dynamics/ and shared_fee/ each *)
(* have a copy.  Both floor base_fee * (distance / (target * 8)), dividing *)
(* first: two operations round, so what is floored is the exact quotient   *)
(* times 1 + error / FLOAT_UNIT for some error of at most FLOAT_ERROR      *)
(* either way, and the floor may be that of a number just under a whole    *)
(* one where the reference, which multiplies first, has the whole one.     *)
(* Which way a block's quotient is rounded is an argument of its update.   *)
(*                                                                         *)
(* Every error a float64 quotient can have is admitted, and more: a        *)
(* quotient of small binary fractions has none.  It is under 2^-51 while   *)
(* the fee and the gas are whole numbers that float64 holds exactly; gas   *)
(* scaled to its limit, rounded once more itself, adds as little.          *)
(***************************************************************************)
EXTENDS FeeMath

CONSTANTS FLOAT_UNIT,     \* errors are counted in units of 1 / FLOAT_UNIT
          FLOAT_ERROR     \* the largest error, in these units

ASSUME FloatAssumption ==
  FLOAT_UNIT \in Nat \ {0} /\ FLOAT_ERROR \in Nat /\ FLOAT_ERROR < FLOAT_UNIT

Roundings == - FLOAT_ERROR .. FLOAT_ERROR

abs_gap(gas_used, target) == Larger(gas_used - target, target - gas_used)

\* floor(base_fee * (|gap| / (target * 8.0))).
rounded_step(base_fee, gas_used, target, error) ==
  (base_fee * abs_gap(gas_used, target) * (FLOAT_UNIT + error))
     \div (target * 8 * FLOAT_UNIT)

\* What is lost of the rounded step by flooring exactly, and what was missing
\* to the next whole wei, are further from a whole number than the rounding is.
IsClearOfRounding(base_fee, gas_used, target) ==
  LET product == base_fee * abs_gap(gas_used, target)
      whole == target * 8
  IN  /\ product * FLOAT_ERROR <= (product % whole) * FLOAT_UNIT
      /\ product * FLOAT_ERROR < (whole - (product % whole)) * FLOAT_UNIT

\* The rounding is under one wei.
IsUnderOneWei(base_fee, gas_used, target) ==
  base_fee * abs_gap(gas_used, target) * FLOAT_ERROR <= target * 8 * FLOAT_UNIT

\* How a fee that is moved with rounding relates to the reference: it is never
\* moved the wrong way nor under one wei, a block over target always raises
\* it, it is a wei off at most while the rounding is under one, and it is the
\* reference where the exact step is clear of a whole number.
FollowsReference(base_fee, next, gas_used, target) ==
  LET reference == update_eip1559_base_fee(base_fee, gas_used, target, 1)
  IN  /\ next >= 1
      /\ gas_used > target => next > base_fee
      /\ gas_used < target => next <= base_fee
      /\ gas_used = target => next = base_fee
      /\ IsUnderOneWei(base_fee, gas_used, target) =>
           next \in reference - 1 .. reference + 1
      /\ IsClearOfRounding(base_fee, gas_used, target) => next = reference

=============================================================================
