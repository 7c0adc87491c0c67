----------------------------- MODULE OnlineSummary -----------------------------
(***************************************************************************)
(* The streaming summaries of dynamics/batched_replay.py: what OnlineSummary *)
(* and EffectivePriceSummary keep of a replay of which no block is         *)
(* retained.  A block is handed over as a row: the fees it produced, the   *)
(* fees it was charged, the gas used and offered per slot, the slots whose *)
(* cap was active and the one that determined its scale.  Sums of squares, *)
(* quantiles and the ratios of to_dict follow from no other state and are  *)
(* left out; a logarithm is left out, so that a return is a difference.    *)
(***************************************************************************)
EXTENDS FeeMath

RESOURCES == {"execution", "data", "state"}

MIN_BASE_FEE_PER_GAS == 1

one(condition) == IF condition THEN 1 ELSE 0

at_floor(row, r) == row.previous_fees[r] <= MIN_BASE_FEE_PER_GAS

floor_downward(row, r) ==
  at_floor(row, r) /\ row.targets # None /\ row.used[r] < row.targets[r]

target_gap(row, r) ==
  IF row.targets = None THEN 0
  ELSE Larger(row.used[r] - row.targets[r], row.targets[r] - row.used[r])

finite_limit(row, r) == row.limits[r] # None

offered_pressure(row, r) == finite_limit(row, r) /\ row.offered[r] >= row.limits[r]

included_at_limit(row, r) == finite_limit(row, r) /\ row.used[r] >= row.limits[r]

included_near_limit(row, r) ==
  finite_limit(row, r) /\ 100 * row.used[r] >= 98 * row.limits[r]

any_limit(row) == \E r \in RESOURCES : included_at_limit(row, r)

any_near_limit(row) == \E r \in RESOURCES : included_near_limit(row, r)

\* The slot numpy's argmin takes among equal ratios is the first.
slot(r) == CASE r = "execution" -> 1 [] r = "data" -> 2 [] r = "state" -> 3

\* The slot of the least limit / offered, if it constrains the block.
determining(offered, limits) ==
  LET full == {r \in RESOURCES : limits[r] # None /\ offered[r] >= limits[r]}
  IN  {r \in full : \A q \in full :
         LET mine == limits[r] * offered[q]
             others == limits[q] * offered[r]
         IN  mine < others \/ (mine = others /\ slot(r) <= slot(q))}

per_resource(value) == [r \in RESOURCES |-> value]

OnlineSummary ==
  [blocks |-> 0,
   at_floor |-> per_resource(0), floor_downward_pressure |-> per_resource(0),
   floor_run |-> per_resource(0), floor_run_max |-> per_resource(0),
   offered_pressure |-> per_resource(0),
   included_at_limit |-> per_resource(0), included_near_limit |-> per_resource(0),
   cap_active |-> per_resource(0), scale_determining |-> per_resource(0),
   limit_run |-> per_resource(0), limit_run_max |-> per_resource(0),
   any_limit |-> 0, any_near_limit |-> 0, any_limit_run |-> 0, any_limit_run_max |-> 0,
   execution_only |-> 0, data_only |-> 0, both |-> 0,
   used |-> per_resource(0), target_gap |-> per_resource(0),
   rationed |-> per_resource(0), fee |-> per_resource(0), burn_wei |-> per_resource(0),
   fee_return |-> per_resource(0), price_return |-> per_resource(0)]

\* Mutant: a run goes on over the blocks that do not continue it.
run_unbroken(length, continues) == length + one(continues)

run(length, continues) == IF continues THEN length + 1 ELSE 0

\* Mutant: the fees the block produced are the ones it is said to have paid.
paid_next(row, r) == row.used[r] * row.fees[r]

paid(row, r) == row.used[r] * row.previous_fees[r]

update(s, row) ==
  LET execution_active == "execution" \in row.cap_active
      data_active == "data" \in row.cap_active
      each(old, added(_)) == [r \in RESOURCES |-> old[r] + added(r)]
      floor_run == [r \in RESOURCES |-> run(s.floor_run[r], at_floor(row, r))]
      limit_run == [r \in RESOURCES |-> run(s.limit_run[r], included_at_limit(row, r))]
      any_limit_run == run(s.any_limit_run, any_limit(row))
  IN  [blocks |-> s.blocks + 1,
       at_floor |-> each(s.at_floor, LAMBDA r : one(at_floor(row, r))),
       floor_downward_pressure |->
         each(s.floor_downward_pressure, LAMBDA r : one(floor_downward(row, r))),
       floor_run |-> floor_run,
       floor_run_max |-> [r \in RESOURCES |-> Larger(s.floor_run_max[r], floor_run[r])],
       offered_pressure |->
         each(s.offered_pressure, LAMBDA r : one(offered_pressure(row, r))),
       included_at_limit |->
         each(s.included_at_limit, LAMBDA r : one(included_at_limit(row, r))),
       included_near_limit |->
         each(s.included_near_limit, LAMBDA r : one(included_near_limit(row, r))),
       cap_active |-> each(s.cap_active, LAMBDA r : one(r \in row.cap_active)),
       scale_determining |->
         each(s.scale_determining, LAMBDA r : one(r \in row.scale_determining)),
       limit_run |-> limit_run,
       limit_run_max |-> [r \in RESOURCES |-> Larger(s.limit_run_max[r], limit_run[r])],
       any_limit |-> s.any_limit + one(any_limit(row)),
       any_near_limit |-> s.any_near_limit + one(any_near_limit(row)),
       any_limit_run |-> any_limit_run,
       any_limit_run_max |-> Larger(s.any_limit_run_max, any_limit_run),
       execution_only |-> s.execution_only + one(execution_active /\ ~ data_active),
       data_only |-> s.data_only + one(data_active /\ ~ execution_active),
       both |-> s.both + one(execution_active /\ data_active),
       used |-> each(s.used, LAMBDA r : row.used[r]),
       target_gap |-> each(s.target_gap, LAMBDA r : target_gap(row, r)),
       rationed |-> each(s.rationed, LAMBDA r : Larger(row.offered[r] - row.used[r], 0)),
       fee |-> each(s.fee, LAMBDA r : row.fees[r]),
       burn_wei |-> each(s.burn_wei, LAMBDA r : paid(row, r)),
       fee_return |-> each(s.fee_return, LAMBDA r : row.fees[r] - row.previous_fees[r]),
       price_return |->
         each(s.price_return, LAMBDA r : row.prices[r] - row.previous_prices[r])]

=============================================================================
