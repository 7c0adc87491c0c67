----------------------------- MODULE BatchedReplay -----------------------------
(***************************************************************************)
(* The batched replays of dynamics/: run_batch, which moves three          *)
(* EIP-7999 fees under either of its inclusion rules, and                  *)
(* run_glamsterdam_batch, which moves one EIP-1559 fee.  The trajectories  *)
(* of a batch do not interact; this is one of them.  No block is retained  *)
(* but through its summary: history is the retained path that the summary  *)
(* is compared with.                                                       *)
(*                                                                         *)
(* Gas is a float and is not rounded.  Here it is whole, in a unit in      *)
(* which the scaled offers replayed are whole too (ScalesExactly).  A      *)
(* float excess is launch * e ^ (moved / BASE_FEE_UPDATE_FRACTION), as the *)
(* pair of launch and moved, since the code starts from the logarithm of   *)
(* the launch fee and then adds whole amounts.  The step of the EIP-1559   *)
(* fee is rounded as FloatFee says.  The normalised distance is exact: the *)
(* product is, and over a round limit or target, of whole thousands of     *)
(* gas, the quotient is on a whole number or far from the next.  Limits    *)
(* that are not round, as run_fixed_data_limit_sweep interpolates some,    *)
(* are left out.                                                           *)
(***************************************************************************)
EXTENDS OnlineSummary, FloatFee, Sequences, FiniteSets

CONSTANTS BatchRules,          \* the inclusion rules and mechanisms replayed
          execution_target, execution_limit,
          data_target, data_limit,
          state_target,
          gas_target, gas_limit,                       \* Glamsterdam's
          BASE_FEE_UPDATE_FRACTION, GAS_NORMALIZATION_FACTOR,
          PRECISION,           \* the steps of a wei in which the exponential is kept
          LaunchFees,          \* the fees a replay may be launched with
          RoundTripLoses,      \* those whose exp(log(fee)) is just under them
          m_execution, w_execution, m_data, m_state, w_state,
          reference_execution, \* the execution gas at which execution_ratio is 1
          Intensities,         \* the values of rho_A - 1 replayed
          Bundles,             \* what a block's demand may be
          burn_in, n_blocks

ASSUME BatchAssumption ==
  /\ BatchRules \subseteq {"bundle_consistent", "independent_caps", "glamsterdam"}
  /\ {execution_target, execution_limit, data_target, data_limit, state_target,
      gas_target, gas_limit, reference_execution, BASE_FEE_UPDATE_FRACTION,
      GAS_NORMALIZATION_FACTOR} \subseteq Nat \ {0}
  /\ LaunchFees \subseteq Nat \ {0}
  /\ Intensities \subseteq {0, 1}
  /\ Bundles \subseteq [execution : Nat, static_data : Nat, execution_bal : Nat,
                         state_bal : Nat, state : Nat]
  /\ burn_in \in Nat /\ n_blocks \in Nat /\ burn_in < n_blocks

\* Fine enough that one unit of excess is seen: e ^ (-1 / F) is under one.
ASSUME PrecisionAssumption ==
  PRECISION \in Nat /\ PRECISION >= BASE_FEE_UPDATE_FRACTION

VARIABLES rule,
          rho,                \* rho_A - 1
          t, fees, excess,
          execution_ratio,    \* of the last block, in units of reference_execution
          previous_prices,
          summary,
          binding,            \* run_glamsterdam_batch's own counters
          history             \* the rows of the blocks replayed

vars == <<rule, rho, t, fees, excess, execution_ratio, previous_prices, summary,
          binding, history>>

-----------------------------------------------------------------------------
(* Fees.                                                                   *)

\* floor(launch * e ^ (moved / BASE_FEE_UPDATE_FRACTION)).
exponential(launch, moved) ==
  IF moved >= 0
  THEN fake_exponential(PRECISION * launch, moved, BASE_FEE_UPDATE_FRACTION) \div PRECISION
  ELSE (launch * PRECISION)
         \div fake_exponential(PRECISION, - moved, BASE_FEE_UPDATE_FRACTION)

\* The fee of an excess, which is that of its launch fee where it has not moved,
\* but for the rounding of the logarithm.
compute_batch_fee(x) ==
  Larger(MIN_BASE_FEE_PER_GAS,
         IF x.moved = 0
         THEN x.launch - one(x.launch \in RoundTripLoses)
         ELSE exponential(x.launch, x.moved))

excess_gas_for_fee(base_fee) == [launch |-> base_fee, moved |-> 0]

\* Mutant: the normalised distance is floored after its sign is applied.
magnitude_signed(gas_used, target, denominator) ==
  LET signed == ((gas_used - target) * GAS_NORMALIZATION_FACTOR) \div denominator
  IN  Larger(signed, - signed)

magnitude(gas_used, target, denominator) ==
  (Larger(gas_used - target, target - gas_used) * GAS_NORMALIZATION_FACTOR)
    \div denominator

\* An excess under zero is the excess of one wei.
update_excess_gas(x, gas_used, target, denominator) ==
  LET distance == magnitude(gas_used, target, denominator)
      moved == IF gas_used >= target THEN x.moved + distance ELSE x.moved - distance
  IN  IF moved < 0 /\ exponential(x.launch, moved) < 1
      THEN [launch |-> 1, moved |-> 0]
      ELSE [launch |-> x.launch, moved |-> moved]

update_base_fee_1559(base_fee, gas_used, target, error) ==
  LET step == rounded_step(base_fee, gas_used, target, error)
  IN  IF gas_used > target THEN base_fee + Larger(step, 1)
      ELSE IF gas_used < target THEN base_fee - step
      ELSE base_fee

targets == [r \in RESOURCES |-> CASE r = "execution" -> execution_target
                                  [] r = "data" -> data_target
                                  [] r = "state" -> state_target]

limits == [r \in RESOURCES |-> CASE r = "execution" -> execution_limit
                                 [] r = "data" -> data_limit
                                 [] r = "state" -> None]

denominators == [limits EXCEPT !["state"] = state_target]

\* The price of a unit of activity at the given fees.
parent_prices(f, ratio) ==
  IF rule = "glamsterdam"
  THEN [r \in RESOURCES |-> CASE r = "execution" -> m_execution * f[r]
                              [] r = "data" -> m_data * f[r]
                              [] r = "state" -> m_state * f[r]]
  ELSE [r \in RESOURCES |->
          CASE r = "execution" ->
                 m_execution * f[r] * reference_execution
                   + w_execution * (IF rho = 0 THEN reference_execution ELSE ratio)
                       * f["data"]
            [] r = "data" -> m_data * f[r]
            [] r = "state" -> m_state * f[r] + w_state * f["data"]]

-----------------------------------------------------------------------------
(* What a block offers and what is included of it.                         *)

bal(bundle) == bundle.execution_bal + bundle.state_bal

batch_offered(bundle) ==
  [r \in RESOURCES |-> CASE r = "execution" -> bundle.execution
                         [] r = "data" -> bundle.static_data + bal(bundle)
                         [] r = "state" -> bundle.state]

\* The fraction limit / offered, at most 1.
fraction(limit, offered) ==
  IF offered > limit THEN [of |-> limit, out_of |-> offered]
  ELSE [of |-> 1, out_of |-> 1]

share(gas, f) == (gas * f.of) \div f.out_of

exact(gas, f) == (gas * f.of) % f.out_of = 0

execution_scale(bundle) == fraction(execution_limit, bundle.execution)

data_after_cap(bundle) ==
  bundle.static_data + share(bundle.execution_bal, execution_scale(bundle))
    + bundle.state_bal

data_scale(bundle) == fraction(data_limit, data_after_cap(bundle))

regular_gas(bundle) == bundle.execution + bundle.static_data

bundle_scale(bundle) == fraction(gas_limit, Larger(regular_gas(bundle), bundle.state))

ASSUME ScalesExactly ==
  \A bundle \in Bundles :
    LET after == share(bundle.execution, execution_scale(bundle))
    IN  /\ exact(bundle.execution_bal, execution_scale(bundle))
        /\ \A gas \in {after, bundle.state, bundle.static_data, bundle.state_bal,
                       share(bundle.execution_bal, execution_scale(bundle))} :
             exact(gas, data_scale(bundle))
        /\ \A gas \in {bundle.execution, bundle.static_data, bundle.state} :
             exact(gas, bundle_scale(bundle))

\* Mutant: the data limit does not touch the parents of the data.
included_kept(gas, first, second) == share(gas, first)

included(gas, first, second) == share(share(gas, first), second)

\* What a block of one of the rules hands to its summary, besides the fees.
bundle_consistent(bundle) ==
  LET first == execution_scale(bundle)
      second == data_scale(bundle)
      capped_execution == first.of < first.out_of
      capped_data == second.of < second.out_of
  IN  [used |->
         [r \in RESOURCES |->
            CASE r = "execution" -> included(bundle.execution, first, second)
              [] r = "data" -> Smaller(data_after_cap(bundle), data_limit)
              [] r = "state" -> share(bundle.state, second)],
       components |->
         [static |-> share(bundle.static_data, second),
          execution_bal |-> share(share(bundle.execution_bal, first), second),
          state_bal |-> share(bundle.state_bal, second)],
       cap_active |-> {r \in {"execution", "data"} :
                         IF r = "execution" THEN capped_execution ELSE capped_data},
       scale_determining |-> IF capped_data THEN {"data"}
                             ELSE IF capped_execution THEN {"execution"} ELSE {}]

\* The parts of the data included are left out of this rule.
independent_caps(bundle) ==
  LET offered == batch_offered(bundle)
  IN  [used |-> [r \in RESOURCES |-> IF limits[r] = None THEN offered[r]
                                     ELSE Smaller(offered[r], limits[r])],
       components |-> None,
       cap_active |-> {r \in RESOURCES : limits[r] # None /\ offered[r] >= limits[r]},
       scale_determining |-> determining(offered, limits)]

glamsterdam_limits == [r \in RESOURCES |-> gas_limit]

\* Slot data stands for the branch that controls the fee.
glamsterdam_offered(bundle) ==
  [r \in RESOURCES |->
     CASE r = "execution" -> bundle.execution
       [] r = "data" -> Larger(regular_gas(bundle), bundle.state)
       [] r = "state" -> bundle.state]

-----------------------------------------------------------------------------
(* One block.                                                              *)

charged == parent_prices(fees, execution_ratio)

summarized(row) == IF t < burn_in THEN summary ELSE update(summary, row)

Retain(row) ==
  /\ summary' = summarized(row)
  /\ previous_prices' = row.prices
  /\ history' = Append(history, [row EXCEPT !.charged = charged])
  /\ t' = t + 1
  /\ UNCHANGED <<rule, rho>>

prices_left(next) == parent_prices(next, execution_ratio)

\* run_batch's turn.  Prices are recorded at the new fees and at the intensity
\* of the block before, from which this block's demand was priced.
FullBlock(bundle) ==
  LET inclusion == IF rule = "bundle_consistent" THEN bundle_consistent(bundle)
                   ELSE independent_caps(bundle)
      next_excess == [r \in RESOURCES |->
                        update_excess_gas(excess[r], inclusion.used[r], targets[r],
                                          denominators[r])]
      next == [r \in RESOURCES |-> compute_batch_fee(next_excess[r])]
  IN  /\ t < n_blocks
      /\ rule \in {"bundle_consistent", "independent_caps"}
      /\ excess' = next_excess
      /\ fees' = next
      /\ execution_ratio' = bundle.execution
      /\ Retain([fees |-> next, previous_fees |-> fees,
                 used |-> inclusion.used, offered |-> batch_offered(bundle),
                 limits |-> limits, targets |-> targets,
                 cap_active |-> inclusion.cap_active,
                 scale_determining |-> inclusion.scale_determining,
                 components |-> inclusion.components, bundle |-> bundle,
                 prices |-> prices_left(next),
                 previous_prices |-> previous_prices, charged |-> None])
      /\ UNCHANGED binding

\* run_glamsterdam_batch's turn: the summary derives the caps itself.
GlamsterdamBlock(bundle, error) ==
  LET scale == bundle_scale(bundle)
      offered == glamsterdam_offered(bundle)
      used == [r \in RESOURCES |-> share(offered[r], scale)]
      next == [r \in RESOURCES |->
                 update_base_fee_1559(fees[r], used["data"], gas_target, error)]
  IN  /\ t < n_blocks
      /\ rule = "glamsterdam"
      /\ fees' = next
      /\ Retain([fees |-> next, previous_fees |-> fees,
                 used |-> used, offered |-> offered,
                 limits |-> glamsterdam_limits, targets |-> None,
                 cap_active |-> {r \in RESOURCES : offered[r] >= gas_limit},
                 scale_determining |-> determining(offered, glamsterdam_limits),
                 components |-> None, bundle |-> bundle,
                 prices |-> prices_left(next),
                 previous_prices |-> previous_prices, charged |-> None])
      /\ binding' = IF t < burn_in THEN binding
                    ELSE [regular |-> binding.regular
                                        + one(regular_gas(bundle) >= bundle.state),
                          sub_eight |-> binding.sub_eight + one(next["data"] < 8),
                          data_used |-> binding.data_used
                                          + share(bundle.static_data, scale)]
      /\ UNCHANGED <<excess, execution_ratio>>

Init ==
  /\ rule \in BatchRules
  /\ rho \in IF rule = "glamsterdam" THEN {0} ELSE Intensities
  /\ t = 0
  /\ \E launch \in LaunchFees : fees = per_resource(launch)
  /\ excess = [r \in RESOURCES |-> excess_gas_for_fee(fees[r])]
  /\ execution_ratio = reference_execution
  /\ previous_prices = parent_prices(fees, reference_execution)
  /\ summary = OnlineSummary
  /\ binding = [regular |-> 0, sub_eight |-> 0, data_used |-> 0]
  /\ history = <<>>

Ended == t = n_blocks /\ UNCHANGED vars

Next ==
  \/ \E bundle \in Bundles : FullBlock(bundle)
  \/ \E bundle \in Bundles, error \in Roundings : GlamsterdamBlock(bundle, error)
  \/ Ended

Spec == Init /\ [][Next]_vars

-----------------------------------------------------------------------------
(* Properties.                                                             *)

\* Of the measured blocks up to the last: how many have a flag, ...
Counts(last, flags) == Cardinality({i \in burn_in + 1..last : flags[i]})

\* ... the sum of a value, ...
Total(last, values) ==
  LET upto[i \in 0..last] == IF i <= burn_in THEN 0 ELSE upto[i - 1] + values[i]
  IN  upto[last]

\* ... and the longest run of a flag: one of n blocks exists, and none of n + 1.
\* This is what metrics.py counts for the driven replay.
IsLongestRun(n, last, flags) ==
  LET runs(k) == {i \in burn_in + 1..last - k + 1 :
                    \A j \in i..i + k - 1 : flags[j]}
  IN  (n > 0 => runs(n) # {}) /\ runs(n + 1) = {}

\* The columns of the history.
floors(r) == [i \in DOMAIN history |-> history[i].previous_fees[r] <= 1]
full(r) ==
  [i \in DOMAIN history |->
     history[i].limits[r] # None /\ history[i].used[r] >= history[i].limits[r]]
full_somewhere == [i \in DOMAIN history |-> \E r \in RESOURCES : full(r)[i]]
capped_blocks(r) == [i \in DOMAIN history |-> r \in history[i].cap_active]
used_gas(r) == [i \in DOMAIN history |-> history[i].used[r]]
rationed_gas(r) == [i \in DOMAIN history |-> history[i].offered[r] - history[i].used[r]]
fees_charged(r) == [i \in DOMAIN history |-> history[i].previous_fees[r]]
burns(r) == [i \in DOMAIN history |-> history[i].used[r] * history[i].previous_fees[r]]
charged_sub_eight == [i \in DOMAIN history |-> history[i].previous_fees["data"] < 8]

\* What is kept online says of the measured blocks what keeping them all would
\* say: every count, sum and longest run, and nothing of the burn-in.
StreamIsHistory ==
  /\ summary.blocks = Cardinality(burn_in + 1..t)
  /\ \A r \in RESOURCES :
       /\ summary.at_floor[r] = Counts(t, floors(r))
       /\ summary.included_at_limit[r] = Counts(t, full(r))
       /\ summary.cap_active[r] = Counts(t, capped_blocks(r))
       /\ IsLongestRun(summary.floor_run_max[r], t, floors(r))
       /\ IsLongestRun(summary.limit_run_max[r], t, full(r))
       /\ summary.rationed[r] = Total(t, rationed_gas(r))
       /\ summary.used[r] = Total(t, used_gas(r))
  /\ IsLongestRun(summary.any_limit_run_max, t, full_somewhere)

\* A block pays the fees that were in force when its demand was evaluated.
\* The mean fee is taken over the fees the blocks produced instead, which is
\* the mean of the fees charged, shifted by one block; so is the share of
\* blocks under eight wei, beside a share at the floor that is not.
BlocksPayTheFeesInForce ==
  LET first == history[burn_in + 1].previous_fees
  IN  t > burn_in =>
        /\ \A r \in RESOURCES :
             /\ summary.burn_wei[r] = Total(t, burns(r))
             /\ summary.fee[r] = Total(t, fees_charged(r)) + fees[r] - first[r]
             /\ summary.fee_return[r] = fees[r] - first[r]
             /\ \A i \in burn_in + 2..t :
                  history[i].previous_fees[r] = history[i - 1].fees[r]
        /\ rule = "glamsterdam" =>
             binding.sub_eight
               = Counts(t, charged_sub_eight)
                   + one(fees["data"] < 8) - one(first["data"] < 8)

Inclusion == INSTANCE Allocation

\* The vectorised inclusion is the scalar ParentBALConsistentCaps, and keeps a
\* parent and its BAL together: what is included of the data is the static data
\* and the BAL of what is included of the parents.
IsKeptTogether(row) ==
  LET b == row.bundle
      unit == [r \in RESOURCES |-> 1]
      scalar == Inclusion!ParentBALConsistentCaps(b, row.offered, limits, unit, FALSE)
  IN  /\ row.used = scalar.included
      /\ row.components.static + row.components.execution_bal
           + row.components.state_bal = row.used["data"]
      /\ row.components.execution_bal * b.execution
           = b.execution_bal * row.used["execution"]
      /\ row.components.state_bal * b.state = b.state_bal * row.used["state"]

BundlesAreKeptTogether ==
  rule = "bundle_consistent" => \A i \in DOMAIN history : IsKeptTogether(history[i])

\* The resource as the scalar updater is configured for it.
reference_config(r) ==
  [gas_limit |-> limits[r], gas_target |-> targets[r],
   normalization_denominator |-> None, min_base_fee |-> 1,
   update_fraction |-> BASE_FEE_UPDATE_FRACTION,
   gas_normalization_factor |-> GAS_NORMALIZATION_FACTOR, reserve_factor |-> 0]

reference(x, gas_used, r) ==
  update_normalized_excess_gas(x, gas_used, reference_config(r), 1, 0)

\* An excess that no block brings to zero.
high(r) == GAS_NORMALIZATION_FACTOR * targets[r]

\* The normalised excess moves exactly as the integer reference moves it,
\* floored in either direction.  The fee of the EIP-1559 rule is said to, and
\* does but for the rounding of its quotient: it is never moved the wrong way
\* or under a wei, a block over target always raises it, and it is a wei off
\* at most, where the exact step is as near to a whole number as the rounding.
MovesAsTheReference ==
  [][t' > t =>
       LET used == history'[t'].used
       IN  \A r \in RESOURCES :
             IF rule = "glamsterdam"
             THEN FollowsReference(fees[r], fees'[r], used["data"], gas_target)
             ELSE IF excess[r].launch = 1
             THEN excess'[r] = [launch |-> 1,
                                moved |-> reference(excess[r].moved, used[r], r)]
             ELSE excess'[r].launch # 1 =>
                    excess'[r].moved - excess[r].moved
                      = reference(high(r), used[r], r) - high(r)]_vars

=============================================================================
