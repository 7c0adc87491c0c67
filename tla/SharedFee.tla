------------------------------- MODULE SharedFee -------------------------------
(***************************************************************************)
(* The replays of one fee shared by regular gas and normalised state gas   *)
(* (shared_fee/): a batch of replays, each with its own limits, is handed  *)
(* one block at a time.  Three kernels move the fee:                       *)
(*   integer         run_ratio_batch and run_normalized_batch: EIP-1559    *)
(*                   over int64 counters;                                  *)
(*   excess_matched  run_controller_batch: an excess whose fee is looked   *)
(*                   up in thresholds that all replays of one denominator  *)
(*                   share and that grow as fees do;                       *)
(*   shared          run_shared_fee_batch: EIP-1559 over unrounded gas, in *)
(*                   float64 (FloatFee).                                   *)
(* The continuous controller of run_ratio_batch, whose fee is a float, is  *)
(* left out.                                                               *)
(*                                                                         *)
(* What the block's demand is, is a float computed from the fee; here it   *)
(* is any offer.  Scaling an offer to a limit is a float product: where    *)
(* the exact product is an integer, the float may be just under it, and    *)
(* the floor that follows loses one gas.  Which products lose is the       *)
(* argument loses of a block: all of its products or none.                 *)
(***************************************************************************)
EXTENDS FloatFee, Scaling, Sequences, FiniteSets

CONSTANTS Replays,
          gas_limit, gas_target, state_gas_limit_scale,   \* per replay
          Kernels,                 \* the kernels replayed
          InitialFees,             \* the fees a batch may be started from
          Offers,                  \* the demand of a block
          burn_in, n_blocks,
          MAX_CACHED_FEE, MIN_CACHED_FEE,   \* the cache's bounds: 4096 and 32
          INT_MAX                  \* the largest int64

SCALE_DENOMINATOR == 100

ASSUME ReplayAssumption ==
  /\ IsFiniteSet(Replays) /\ Replays # {}
  /\ gas_limit \in [Replays -> Nat]
  /\ gas_target \in [Replays -> Nat]
  /\ state_gas_limit_scale \in [Replays -> Nat \ {0}]
  /\ \A r \in Replays : 0 < gas_target[r] /\ gas_target[r] < gas_limit[r]

ASSUME WorkloadAssumption ==
  /\ Kernels \subseteq {"integer", "excess_matched", "shared"}
  /\ InitialFees \subseteq Nat \ {0}
  /\ Offers \subseteq [execution : Nat, data : Nat, state : Nat]
  /\ burn_in \in Nat /\ n_blocks \in Nat /\ burn_in < n_blocks

ASSUME CacheAssumption ==
  MAX_CACHED_FEE \in Nat /\ MIN_CACHED_FEE \in Nat /\ MAX_CACHED_FEE >= 2

ASSUME WidthAssumption == INT_MAX \in Nat \ {0}

VARIABLES kernel,
          t,                  \* the block about to be replayed
          fee, excess,        \* per replay; excess stays 0 outside its kernel
          thresholds,         \* ExactExponentialFees.thresholds
          previous_price,     \* the price the next return is measured from
          start,              \* measured_start_excess and the fee then
          sums,               \* what the measured blocks add up to
          block,              \* the counters of the last block, or None
          outcome             \* "running", or the exception that ended it

vars == <<kernel, t, fee, excess, thresholds, previous_price, start, sums, block,
          outcome>>

-----------------------------------------------------------------------------
(* int64.                                                                  *)

\* What is left of a result in a signed register whose largest value is INT_MAX.
wrapped(x) == ((x + INT_MAX + 1) % (2 * (INT_MAX + 1))) - (INT_MAX + 1)

\* The values integers() lets through.
integers(x) == 0 <= x /\ x < INT_MAX

raw_limit(r) == (gas_limit[r] * state_gas_limit_scale[r]) \div SCALE_DENOMINATOR

normalized_state_gas(raw, r) ==
  (raw * SCALE_DENOMINATOR) \div state_gas_limit_scale[r]

distance(used, target) ==
  IF used >= target THEN used - target ELSE target - used

\* The division that guards the product of integer_fee_update.
product_overflows(parent, used, target) ==
  parent > INT_MAX \div Larger(distance(used, target), 1)

integer_fee_update(parent, used, target) ==
  LET delta == ((parent * distance(used, target)) \div target) \div 8
  IN  IF used > target THEN wrapped(parent + Larger(delta, 1))
      ELSE IF used < target THEN parent - delta
      ELSE parent

\* Mutant: a rise is not made at least one wei.
update_base_fee_1559_flat(base_fee, gas_used, target, error) ==
  LET step == rounded_step(base_fee, gas_used, target, error)
  IN  IF gas_used > target THEN base_fee + step
      ELSE IF gas_used < target THEN base_fee - step
      ELSE base_fee

update_base_fee_1559(base_fee, gas_used, target, error) ==
  LET step == rounded_step(base_fee, gas_used, target, error)
  IN  IF gas_used > target THEN base_fee + Larger(step, 1)
      ELSE IF gas_used < target THEN base_fee - step
      ELSE base_fee

-----------------------------------------------------------------------------
(* ExactExponentialFees.                                                   *)

denominator(r) == 8 * gas_target[r]

Denominators == {denominator(r) : r \in Replays}

exact_fee(x, d) == fake_exponential(1, x, d)

\* The bounds of excess_for_fee's search after each turn.  The code's first
\* upper bound is a floating-point logarithm; like it, 1 is doubled until its
\* fee is high enough.
excess_search(target_fee, d) ==
  LET high[k \in Nat] == IF k = 0 THEN 1 ELSE 2 * high[k - 1]
      first == high[exit_turn([k \in Nat |-> exact_fee(high[k], d) < target_fee])]
      bounds[k \in Nat] ==
        IF k = 0 THEN [low |-> 0, high |-> first]
        ELSE LET last == bounds[k - 1]
                 middle == (last.low + last.high) \div 2
             IN  IF exact_fee(middle, d) >= target_fee
                 THEN [last EXCEPT !.high = middle]
                 ELSE [last EXCEPT !.low = middle]
  IN  bounds

excess_for_fee(target_fee, d) ==
  IF target_fee = 1 THEN 0
  ELSE LET bounds == excess_search(target_fee, d)
       IN  bounds[exit_turn([k \in Nat |-> bounds[k].low + 1 < bounds[k].high])].high

initial_thresholds == [d \in Denominators |-> <<0, excess_for_fee(2, d)>>]

extended(cache, d) ==
  LET end == Smaller(MAX_CACHED_FEE, Larger(MIN_CACHED_FEE, 2 * Len(cache)))
  IN  cache \o [i \in 1..(end - Len(cache)) |-> excess_for_fee(Len(cache) + i, d)]

\* The cache after the largest excess of the batch was looked up in it.
grown(cache, maximum, d) ==
  LET caches[k \in Nat] == IF k = 0 THEN cache ELSE extended(caches[k - 1], d)
  IN  caches[exit_turn([k \in Nat |-> /\ maximum >= caches[k][Len(caches[k])]
                                      /\ Len(caches[k]) < MAX_CACHED_FEE])]

\* searchsorted(..., side="right").
entries_up_to(cache, x) == Cardinality({i \in 1..Len(cache) : cache[i] <= x})

\* Mutant: a fee past the cache's end is the last one cached.
cached_fee_saturated(cache, x, d) == entries_up_to(cache, x)

cached_fee(cache, x, d) ==
  IF x < cache[Len(cache)] THEN entries_up_to(cache, x) ELSE exact_fee(x, d)

-----------------------------------------------------------------------------
(* Inclusion.                                                              *)

regular_offered(offer) == offer.execution + offer.data

regular_active(offer, r) ==
  /\ gas_limit[r] <= regular_offered(offer)
  /\ gas_limit[r] * offer.state <= raw_limit(r) * regular_offered(offer)

state_active(offer, r) ==
  /\ raw_limit(r) <= offer.state
  /\ raw_limit(r) * regular_offered(offer) <= gas_limit[r] * offer.state

\* An offer scaled by the inclusion fraction, before the counters are set to
\* the limits they reach.
scaled(gas, offer, r, loses) ==
  IF regular_active(offer, r)
  THEN scaled_floor(gas, gas_limit[r], regular_offered(offer), loses)
  ELSE IF state_active(offer, r)
  THEN scaled_floor(gas, raw_limit(r), Larger(offer.state, 1), loses)
  ELSE gas

\* The integer counters of a block.
included(offer, r, loses) ==
  [regular |-> IF regular_active(offer, r) THEN gas_limit[r]
               ELSE Smaller(gas_limit[r], scaled(regular_offered(offer), offer, r, loses)),
   raw |-> IF state_active(offer, r) THEN raw_limit(r)
           ELSE Smaller(raw_limit(r), scaled(offer.state, offer, r, loses))]

used_shared(counters, r) ==
  Larger(counters.regular, normalized_state_gas(counters.raw, r))

\* run_shared_fee_batch: the larger branch is scaled to the limit.
shared_usage(offer, r) ==
  Smaller(gas_limit[r], Larger(regular_offered(offer), offer.state))

-----------------------------------------------------------------------------
(* One block of a batch.                                                   *)

Zero == [shared |-> 0, below_target |-> 0, zero_decrease |-> 0,
         regular_limit |-> 0, state_limit |-> 0,
         regular_scale |-> 0, state_scale |-> 0,
         reflection |-> 0, price_return |-> 0, minimum_fee |-> INT_MAX]

one(condition) == IF condition THEN 1 ELSE 0

\* The flags the sums count, for one replay and one block.
regular_scale(offer, r) ==
  /\ regular_offered(offer) > gas_limit[r]
  /\ gas_limit[r] * offer.state <= raw_limit(r) * regular_offered(offer)

state_scale(offer, r) ==
  /\ offer.state > raw_limit(r)
  /\ raw_limit(r) * regular_offered(offer) < gas_limit[r] * offer.state

added(s, offer, counters, before, after, r) ==
  LET used == used_shared(counters, r)
      below == used < gas_target[r]
  IN  [s EXCEPT !.shared = @ + used,
                !.below_target = @ + one(below),
                !.zero_decrease = @ + one(below /\ after = before),
                !.regular_limit = @ + one(counters.regular >= gas_limit[r]),
                !.state_limit = @ + one(counters.raw >= raw_limit(r)),
                !.regular_scale = @ + one(regular_scale(offer, r)),
                !.state_scale = @ + one(state_scale(offer, r)),
                !.minimum_fee = Smaller(@, before)]

Begin ==
  /\ outcome = "running"
  /\ t < n_blocks
  /\ UNCHANGED kernel

Counters(offer, loses) == [r \in Replays |-> included(offer[r], r, loses)]

\* What integer_fee_update raises for the batch, if it does.
raised(counters) ==
  IF \E r \in Replays : fee[r] <= 0 THEN "ValueError"
  ELSE IF \E r \in Replays :
            \/ ~ integers(fee[r])
            \/ product_overflows(fee[r], used_shared(counters[r], r), gas_target[r])
  THEN "OverflowError"
  ELSE "running"

IntegerBlock(offer, loses) ==
  LET counters == Counters(offer, loses)
      next == [r \in Replays |->
                 integer_fee_update(fee[r], used_shared(counters[r], r), gas_target[r])]
  IN  /\ Begin
      /\ kernel = "integer"
      /\ outcome' = raised(counters)
      /\ block' = [offer |-> offer, counters |-> counters]
      /\ IF outcome' # "running"
         THEN UNCHANGED <<t, fee, sums>>
         ELSE /\ t' = t + 1
              /\ fee' = next
              /\ sums' = IF t < burn_in THEN sums
                         ELSE [r \in Replays |->
                                 added(sums[r], offer[r], counters[r], fee[r], next[r], r)]
      /\ UNCHANGED <<excess, thresholds, previous_price, start>>

\* Mutant: the start of the window is read after the update.
measured_start_late(candidate) ==
  IF t = burn_in THEN [start EXCEPT !.excess = [r \in Replays |-> Larger(0, candidate[r])]]
  ELSE start

measured_start(candidate) ==
  IF t = burn_in THEN [start EXCEPT !.excess = excess] ELSE start

\* The largest excess of the replays of one denominator.
largest(next, d) ==
  CHOOSE x \in {next[r] : r \in Replays} :
    /\ \E r \in Replays : denominator(r) = d /\ next[r] = x
    /\ \A r \in Replays : denominator(r) = d => next[r] <= x

floored(candidate) == Larger(0, candidate)

ExcessBlock(offer, loses) ==
  LET counters == Counters(offer, loses)
      candidate == [r \in Replays |->
                      excess[r] + used_shared(counters[r], r) - gas_target[r]]
      next == [r \in Replays |-> floored(candidate[r])]
      caches == [d \in Denominators |-> grown(thresholds[d], largest(next, d), d)]
      fees == [r \in Replays |->
                 cached_fee(caches[denominator(r)], next[r], denominator(r))]
  IN  /\ Begin
      /\ kernel = "excess_matched"
      /\ t' = t + 1
      /\ start' = measured_start(candidate)
      /\ excess' = next
      /\ thresholds' = caches
      /\ fee' = fees
      /\ block' = [offer |-> offer, counters |-> counters]
      /\ sums' = IF t < burn_in THEN sums
                 ELSE [r \in Replays |->
                         [added(sums[r], offer[r], counters[r], fee[r], fees[r], r)
                            EXCEPT !.reflection = @ + Larger(0, -candidate[r])]]
      /\ UNCHANGED <<previous_price, outcome>>

\* A price is a fixed multiple of the fee; the multiple and the logarithm of a
\* return are left out, and a return is a difference.
next_previous_price(next) == next

SharedBlock(offer, errors) ==
  LET next == [r \in Replays |->
                 update_base_fee_1559(fee[r], shared_usage(offer[r], r), gas_target[r],
                                      errors[r])]
  IN  /\ Begin
      /\ kernel = "shared"
      /\ t' = t + 1
      /\ fee' = next
      /\ previous_price' = next_previous_price(next)
      /\ start' = IF t = burn_in THEN [start EXCEPT !.price = fee] ELSE start
      /\ sums' = IF t < burn_in THEN sums
                 ELSE [r \in Replays |->
                         [sums[r] EXCEPT
                            !.price_return = @ + (next[r] - previous_price[r])]]
      /\ block' = [offer |-> offer, counters |-> None]
      /\ UNCHANGED <<excess, thresholds, outcome>>

-----------------------------------------------------------------------------
(* The specification.  A batch whose curve skips one of its starting fees  *)
(* is refused by run_controller_batch's assertion and never starts.        *)

Init ==
  /\ kernel \in Kernels
  /\ fee \in [Replays -> InitialFees]
  /\ excess = [r \in Replays |->
                 IF kernel = "excess_matched"
                 THEN excess_for_fee(fee[r], denominator(r)) ELSE 0]
  /\ thresholds = [d \in Denominators |->
                     grown(initial_thresholds[d], largest(excess, d), d)]
  /\ kernel = "excess_matched" =>
       \A r \in Replays :
         cached_fee(thresholds[denominator(r)], excess[r], denominator(r)) = fee[r]
  /\ t = 0
  /\ previous_price = fee
  /\ start = [excess |-> excess, price |-> fee]
  /\ sums = [r \in Replays |-> Zero]
  /\ block = None
  /\ outcome = "running"

\* The loop is over, or an exception has ended it.
Ended == (t = n_blocks \/ outcome # "running") /\ UNCHANGED vars

Next ==
  \/ \E offer \in [Replays -> Offers], loses \in BOOLEAN :
       \/ IntegerBlock(offer, loses)
       \/ ExcessBlock(offer, loses)
  \/ \E offer \in [Replays -> Offers], errors \in [Replays -> Roundings] :
       SharedBlock(offer, errors)
  \/ Ended

Spec == Init /\ [][Next]_vars

-----------------------------------------------------------------------------
(* Properties.                                                             *)

\* ExactExponentialFees is "equivalent to that helper at every integer excess
\* value": whatever the other replays of the batch made the cache grow to, on
\* either side of its end and of the largest cached fee, a replay is charged
\* the exact exponential of its own excess.
CachedFeesAreExact ==
  kernel = "excess_matched" =>
    \A r \in Replays : fee[r] = exact_fee(excess[r], denominator(r))

\* The measured window adds up, wherever the burn-in ends.  For an excess
\* controller this is the identity asserted after the loop: what was used
\* over target is what the excess rose by and what the floor absorbed.  For
\* the shared fee the returns of the prices telescope: the first measured
\* return is taken from the last price of the burn-in.
MeasuredWindowAddsUp ==
  t > burn_in =>
    \A r \in Replays :
      /\ kernel = "excess_matched" =>
           sums[r].shared - (t - burn_in) * gas_target[r]
             = excess[r] - start.excess[r] - sums[r].reflection
      /\ kernel = "shared" => sums[r].price_return = fee[r] - start.price[r]

\* Two more copies of the EIP-1559 rule move these fees.  The one over int64
\* counters moves a fee exactly as the reference does until it wraps.  The one
\* over floats divides before it multiplies, and does not: from a fee of 49, a
\* target of 49,000,000 and 41,000,000 used it steps 0 where the reference
\* steps 1.  Whatever its rounding, it never moves a fee the wrong way or
\* under a wei, never leaves it unmoved over target, and is a wei off at most,
\* and only where the exact step is as near to a whole number as the rounding.
UpdatersAgree ==
  [][t' > t =>
       \A r \in Replays :
         /\ kernel = "integer" =>
              LET next == update_eip1559_base_fee(
                            fee[r], used_shared(block'.counters[r], r), gas_target[r], 1)
              IN  next <= INT_MAX => fee'[r] = next
         /\ kernel = "shared" =>
              FollowsReference(fee[r], fee'[r], shared_usage(block'.offer[r], r),
                               gas_target[r])]_vars

=============================================================================
