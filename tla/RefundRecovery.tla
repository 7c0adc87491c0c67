---------------------------- MODULE RefundRecovery ----------------------------
(***************************************************************************)
(* How sim/xatu_refunds.py and its full-range query xatu_refund_full.sql   *)
(* recover, from the refund counter of a transaction, how often its        *)
(* storage was brought back to its original value.  Python enumerates the  *)
(* solutions of an equation, SQL has them in closed form.  A row's refund  *)
(* of EIP-8038 is kept as the range of the solutions; the pooled ratio of  *)
(* rows without a solution is left out.                                    *)
(***************************************************************************)
EXTENDS Integers

\* A row of query_xatu_refund_transactions.
RefundRow ==
  [sstore_count: Nat, sstore_gas_current: Nat, sstore_cold_count: Nat,
   refund_counter_current: Nat, changed_slots: Nat, zero_to_nonzero_slots: Nat,
   original_nonzero_changed: Nat, net_cleared_slots: Nat, set_code: BOOLEAN]

-----------------------------------------------------------------------------
(* recover_eip8038_refunds: the enumeration.                               *)

residual(row) == row.refund_counter_current - 4800 * row.net_cleared_slots

auth_candidates(row) ==
  IF row.set_code THEN 0 .. (residual(row) \div 12500) ELSE {0}

sstore_refund(row, auth) == residual(row) - 12500 * auth

\* A slot brought back was stored to twice, one that changed once.
enough_sstores(row, resets) == row.changed_slots + 2 * resets <= row.sstore_count

solves(row, auth, zero, nonzero) ==
  /\ 19900 * zero + 2800 * nonzero = sstore_refund(row, auth)
  /\ enough_sstores(row, zero + nonzero)

solutions(row) ==
  UNION {{[auth |-> auth, zero |-> zero,
           nonzero |-> (sstore_refund(row, auth) - 19900 * zero) \div 2800] :
            zero \in {z \in 0 .. (sstore_refund(row, auth) \div 19900) :
                        solves(row, auth, z,
                               (sstore_refund(row, auth) - 19900 * z) \div 2800)}} :
           auth \in auth_candidates(row)}

distance(x, y) == IF x <= y THEN y - x ELSE x - y

\* How far a solution is from the gas of the stores.
sstore_gas_residual(row, s) ==
  distance(row.sstore_gas_current,
           100 * row.sstore_count + 2100 * row.sstore_cold_count
             + 19900 * (row.zero_to_nonzero_slots + s.zero)
             + 2800 * (row.original_nonzero_changed + s.nonzero))

preferred(row) ==
  {s \in solutions(row) :
     \A other \in solutions(row) :
       sstore_gas_residual(row, s) <= sstore_gas_residual(row, other)}

refund_counter_8038(row, resets) == 11616 * row.net_cleared_slots + 10000 * resets

-----------------------------------------------------------------------------
(* xatu_refund_full.sql: the closed form, per number of authorizations.    *)

refund_units(row, auth) == sstore_refund(row, auth) \div 100

\* 19 is the inverse of 199 modulo 28.
zero_reset_base(units) == (19 * units) % 28

nonzero_reset_base(units) == (units - 199 * zero_reset_base(units)) \div 28

reset_sum_base(units) == zero_reset_base(units) + nonzero_reset_base(units)

reset_budget(row) ==
  (IF row.sstore_count >= row.changed_slots THEN row.sstore_count - row.changed_slots
   ELSE 0) \div 2

\* 199 resets to another value give way to 28 to zero: 171 fewer.
k_max(units) == nonzero_reset_base(units) \div 199

\* Mutant: the division is not rounded up.
k_min_down(units, budget) ==
  IF reset_sum_base(units) > budget THEN (reset_sum_base(units) - budget) \div 171 ELSE 0

k_min(units, budget) ==
  IF reset_sum_base(units) > budget
  THEN (reset_sum_base(units) - budget + 170) \div 171
  ELSE 0

feasible(row, auth) ==
  /\ sstore_refund(row, auth) >= 0
  /\ sstore_refund(row, auth) % 100 = 0
  /\ nonzero_reset_base(refund_units(row, auth)) >= 0
  /\ k_min(refund_units(row, auth), reset_budget(row)) <= k_max(refund_units(row, auth))

\* The numbers of resets of the candidates.
reset_sums(units, budget) ==
  {reset_sum_base(units) - 171 * k : k \in k_min(units, budget) .. k_max(units)}

sql_resets(row, auth) ==
  IF feasible(row, auth) THEN reset_sums(refund_units(row, auth), reset_budget(row)) ELSE {}

\* Each number of authorizations has one error, whichever of its resets.
gas_error(row, auth) ==
  distance(row.sstore_gas_current,
           100 * row.sstore_count + 2100 * row.sstore_cold_count
             + 19900 * row.zero_to_nonzero_slots
             + 2800 * row.original_nonzero_changed + sstore_refund(row, auth))

ranked(row) ==
  {auth \in {x \in auth_candidates(row) : feasible(row, x)} :
     \A other \in {x \in auth_candidates(row) : feasible(row, x)} :
       gas_error(row, auth) <= gas_error(row, other)}

\* The least and the largest refund of EIP-8038 of each.
refund_future(row) ==
  UNION {LET units == refund_units(row, auth)
             resets(k) == reset_sum_base(units) - 171 * k
         IN  {refund_counter_8038(row, resets(k_max(units))),
              refund_counter_8038(row, resets(k_min(units, reset_budget(row))))} :
           auth \in ranked(row)}

-----------------------------------------------------------------------------
(* The gas before the refund, which is a fifth of it at most.              *)

gas_applied(gross, counter) == gross - (IF counter <= gross \div 5 THEN counter ELSE gross \div 5)

uncapped(receipt, counter) == 4 * counter <= receipt

\* The query takes the cap as a fourth of what is left (metrics1, metrics2).
gross_current(receipt, counter) ==
  receipt + (IF counter <= receipt \div 4 THEN counter ELSE receipt \div 4)

center(receipt) == (5 * receipt) \div 4

gross_candidates(receipt, counter) ==
  {gross \in (IF receipt >= center(receipt) - 6 THEN receipt ELSE center(receipt) - 6)
               .. (center(receipt) + 7) :
     gas_applied(gross, counter) = receipt}

cap_bound_current_gas(receipt, counter) ==
  IF gross_candidates(receipt, counter) = {} THEN gross_current(receipt, counter)
  ELSE CHOOSE gross \in gross_candidates(receipt, counter) :
         \A other \in gross_candidates(receipt, counter) : gross <= other

gross_gas_current_proxy(receipt, counter) ==
  IF uncapped(receipt, counter) THEN receipt + counter
  ELSE cap_bound_current_gas(receipt, counter)
=============================================================================
