---------------------------- MODULE TransactionGas ----------------------------
(***************************************************************************)
(* The gas accountings of one transaction: its receipt taken apart into    *)
(* data, state and execution (sim/bal_carrier_panel.py), the same receipt  *)
(* under the floors of the shared-fee benchmark (shared_fee/panel.py and   *)
(* floor_accounting.py) and repriced for Glamsterdam                       *)
(* (glamsterdam/calldata_floor.py).  What the panels multiply by a real    *)
(* number (execution multipliers, daily residuals) stays as it is.         *)
(*                                                                         *)
(* A transaction t has: receipt, zero, nonzero (calldata bytes),           *)
(* addresses, keys (of its access list), blobs (versioned hashes), auths   *)
(* (tuples), runtime (EIP-8279 bytes), created (what StateCreation holds), *)
(* recipient, self_transfer and value (of whom it pays).                   *)
(***************************************************************************)
EXTENDS RuntimeMeter

TX_BASE_GAS == 21000
FLOOR_GAS_PER_BYTE == 64

most(x, y) == IF x <= y THEN y ELSE x

calldata_tokens(t) == t.zero + 4 * t.nonzero
calldata_bytes(t) == t.zero + t.nonzero
standard_calldata_gas(t) == 4 * calldata_tokens(t)
current_7623_floor_gas(t) == 10 * calldata_tokens(t)
receipt_body_gas(t) == t.receipt - TX_BASE_GAS

-----------------------------------------------------------------------------
(* bal_carrier_panel.                                                      *)

\* Mutant: a body just at the floor is not bound by it.
current_7623_floor_bound_proxy_strict(t) ==
  calldata_tokens(t) > 0 /\ receipt_body_gas(t) < current_7623_floor_gas(t)

current_7623_floor_bound_proxy(t) ==
  calldata_tokens(t) > 0 /\ receipt_body_gas(t) <= current_7623_floor_gas(t)

current_data_gas_7623_proxy(t) ==
  IF current_7623_floor_bound_proxy(t) THEN current_7623_floor_gas(t)
  ELSE standard_calldata_gas(t)

receipt_remainder(t) == t.receipt - current_data_gas_7623_proxy(t)

\* The state's gas is a proxy, and capped by what is left.
attach_eip7623_receipt_decomposition(t) ==
  LET state == least(historical_state_creation_gas(t.created), receipt_remainder(t))
  IN  [data |-> current_data_gas_7623_proxy(t), state |-> state,
       execution |-> receipt_remainder(t) - state]

decomposition_refused(t) == t.receipt < TX_BASE_GAS \/ receipt_remainder(t) < 0

static_data_bytes_xatu_known(t) == calldata_bytes(t) + 32 * t.blobs

\* The tuples are counted as content and, statically, as an access list.
static_data_bytes_7999(t) ==
  static_data_bytes_xatu_known(t) + 20 * t.addresses + 32 * t.keys
    + 108 * t.auths + 51 * t.auths

is_bal_carrier(t) == t.runtime > 0

-----------------------------------------------------------------------------
(* floor_accounting.                                                       *)

eip2780_floor_base(t) ==
  12000
    + (IF ~t.recipient THEN 12000
       ELSE IF t.self_transfer THEN 0
       ELSE 3000 + (IF t.value THEN 6000 ELSE 0))
    + 7816 * t.auths

eip8131_content_bytes(t) ==
  calldata_bytes(t) + 20 * t.addresses + 32 * t.keys + 108 * t.auths + 32 * t.blobs

eip8131_floor_gas(t) == eip2780_floor_base(t) + FLOOR_GAS_PER_BYTE * eip8131_content_bytes(t)

eip8279_floor_gas(t) ==
  eip8131_floor_gas(t) + FLOOR_GAS_PER_BYTE * (51 * t.auths + t.runtime)

\* The extra charge of EIP-8279 for some gas of the execution.
incremental_eip8279_uplift(t, execution) ==
  most(execution, eip8279_floor_gas(t)) - most(execution, eip8131_floor_gas(t))

-----------------------------------------------------------------------------
(* build_transaction_floor_panel.  Only BAL carriers are in its runtime    *)
(* input; the other transactions have no bytes and no state gas in it.     *)

state_reference_gas_capped(t) ==
  least(IF is_bal_carrier(t) THEN attach_eip7623_receipt_decomposition(t).state ELSE 0,
        receipt_remainder(t))

execution_reference_gas(t) == receipt_remainder(t) - state_reference_gas_capped(t)

static_data_7976_7981_bytes(t) == calldata_bytes(t) + 20 * t.addresses + 32 * t.keys

floor_gas_7976_7981(t) ==
  eip2780_floor_base(t) + FLOOR_GAS_PER_BYTE * static_data_7976_7981_bytes(t)

static_data_8131_bytes(t) ==
  calldata_bytes(t) + 20 * t.addresses + 32 * t.keys + 108 * t.auths + 32 * t.blobs

floor_gas_8131(t) == eip2780_floor_base(t) + FLOOR_GAS_PER_BYTE * static_data_8131_bytes(t)

bal_floor_bytes_8279(t) == t.runtime + 51 * t.auths

floor_gas_8279(t) == floor_gas_8131(t) + FLOOR_GAS_PER_BYTE * bal_floor_bytes_8279(t)

charged_regular_gas(t, execution) ==
  [eip7976 |-> most(execution, floor_gas_7976_7981(t)),
   eip8131 |-> most(execution, floor_gas_8131(t)),
   eip8279 |-> most(execution, floor_gas_8279(t))]

-----------------------------------------------------------------------------
(* calldata_floor.                                                         *)

access_list_cost_2930(t) == 2400 * t.addresses + 1900 * t.keys
access_list_data_cost_7981(t) == 64 * (20 * t.addresses + 32 * t.keys)
glamsterdam_7976_floor_gas(t) == 16 * (4 * calldata_bytes(t))

\* From the parts of the transaction.
glamsterdam_regular_gas_tx(t, execution) ==
  TX_BASE_GAS + access_list_data_cost_7981(t)
    + most(standard_calldata_gas(t) + execution + access_list_cost_2930(t),
           glamsterdam_7976_floor_gas(t))

\* From its receipt.
glamsterdam_regular_gas_from_receipt(t) ==
  LET standard_after_state ==
        most(0, receipt_body_gas(t) - historical_state_creation_gas(t.created))
  IN  TX_BASE_GAS + access_list_data_cost_7981(t)
        + most(standard_after_state, glamsterdam_7976_floor_gas(t))
=============================================================================
