---------------------------- MODULE GlamsterdamOnly ----------------------------
(***************************************************************************)
(* The Glamsterdam-only baseline (mechanisms/glamsterdam_only.py): one     *)
(* EIP-1559 fee on the larger of execution and state gas.                  *)
(***************************************************************************)
EXTENDS GlamsterdamOnlyConfig

VARIABLES base_fee,      \* fee of execution_state governing the next block
          result         \* the row the last replayed block left, or None

vars == <<base_fee, result>>

Init ==
  /\ base_fee \in InitialBaseFees
  /\ result = None

\* One turn of the loop of replay_glamsterdam_only.
Step(execution_gas_used, state_gas_used) ==
  LET used == Larger(execution_gas_used, state_gas_used)
      next == update_eip1559_base_fee(base_fee,
                 Smaller(used, execution_state_gas_limit), gas_target, min_base_fee)
  IN  /\ next <= MaxBaseFee
      /\ base_fee' = next
      /\ result' = [gas_used |-> used, base_fee |-> base_fee,
                    invalid |-> used > execution_state_gas_limit]

Next == \E execution_gas_used \in ExecutionGas, state_gas_used \in StateGas :
          Step(execution_gas_used, state_gas_used)

Spec == Init /\ [][Next]_vars

-----------------------------------------------------------------------------
(* Properties.                                                             *)

TypeOK ==
  /\ base_fee \in Nat
  /\ base_fee >= min_base_fee
  /\ result = None \/ result \in [gas_used: Nat, base_fee: Nat, invalid: BOOLEAN]

\* The recorded row and the fee it leads to agree: over target, by however
\* little, the fee rises by at least one wei and by no more than a full block
\* raises it, over-limit blocks included; at or under target it does not rise.
FeeFollowsUsage ==
  [][LET full == ((base_fee * (execution_state_gas_limit - gas_target))
                    \div gas_target) \div BASE_FEE_MAX_CHANGE_DENOMINATOR
     IN  IF result'.gas_used > gas_target
             /\ gas_target < execution_state_gas_limit
         THEN /\ base_fee' > base_fee
              /\ base_fee' <= base_fee + Larger(full, 1)
         ELSE base_fee' <= base_fee]_vars

\* An eighth of a fee under 8 wei rounds to nothing: no block, however empty,
\* takes the fee below 7, and a fee that is already lower never falls at all.
\* The minimum of 1 wei is reached by no fee that starts above it.
SubEightFeesDoNotFall == [][base_fee' >= Smaller(base_fee, 7)]_vars

\* From one parent, the larger of two bottlenecks never leaves a smaller fee.
MoreGasNeverCheapens ==
  \A x, y \in ExecutionGas \cup StateGas :
    x < y =>
      LET after(gas_used) ==
            update_eip1559_base_fee(base_fee,
              Smaller(gas_used, execution_state_gas_limit), gas_target, min_base_fee)
      IN  after(x) <= after(y)

\* A replay that from some block on is of empty blocks brings every fee down,
\* to 7 wei and no further.
EmptyBlocksDrain ==
  <>[](result # None /\ result.gas_used = 0) => <>[](base_fee <= Larger(7, min_base_fee))
=============================================================================
