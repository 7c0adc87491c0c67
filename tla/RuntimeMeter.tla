----------------------------- MODULE RuntimeMeter -----------------------------
(***************************************************************************)
(* The arithmetic of sim/xatu_bal_8279.py: from the runtime events counted *)
(* of a transaction to its EIP-8279 bytes, and the attribution of these    *)
(* bytes to the state the transaction created, matched count by count.     *)
(***************************************************************************)
EXTENDS Integers

BAL_BYTES_PER_ADDRESS       == 20
BAL_BYTES_PER_STORAGE_KEY   == 32
BAL_BYTES_PER_STORAGE_VALUE == 32
BAL_BYTES_PER_BALANCE       == 32
BAL_BYTES_PER_NONCE         == 8

\* The runtime events of a transaction or a block.
RuntimeCounts ==
  [cold_account_accesses: Nat, cold_storage_accesses: Nat,
   storage_value_entries_observed: Nat, positive_value_calls: Nat,
   positive_value_selfdestructs: Nat, internal_creates: Nat,
   internal_create_endowments: Nat, internal_deployed_code_bytes: Nat]

\* The state a transaction created.
StateCreation ==
  [new_storage_slots: Nat, new_accounts: Nat, code_bytes: Nat,
   new_delegation_indicators: Nat]

RUNTIME_COMPONENTS ==
  {"storage_key", "storage_value", "account_access", "value_transfer",
   "contract_creation", "deployed_code"}

least(x, y) == IF x <= y THEN x ELSE y

\* The six components of RUNTIME_COMPONENT_SPECS added up.
component_sum(c) ==
  c.storage_key + c.storage_value + c.account_access + c.value_transfer
    + c.contract_creation + c.deployed_code

\* The bytes of each component; a created address is counted with its nonce.
compute_eip8279_runtime_bytes(n) ==
  [storage_key       |-> BAL_BYTES_PER_STORAGE_KEY * n.cold_storage_accesses,
   storage_value     |-> BAL_BYTES_PER_STORAGE_VALUE * n.storage_value_entries_observed,
   account_access    |-> BAL_BYTES_PER_ADDRESS * n.cold_account_accesses,
   value_transfer    |-> BAL_BYTES_PER_BALANCE * n.positive_value_calls
                           + BAL_BYTES_PER_BALANCE * n.positive_value_selfdestructs
                           + BAL_BYTES_PER_BALANCE * n.internal_create_endowments,
   contract_creation |-> BAL_BYTES_PER_ADDRESS * n.internal_creates
                           + BAL_BYTES_PER_NONCE * n.internal_creates,
   deployed_code     |-> n.internal_deployed_code_bytes]

bal_runtime_bytes(n) == component_sum(compute_eip8279_runtime_bytes(n))

\* The gas today's rules charge for the state created.
historical_state_creation_gas(s) ==
  20000 * s.new_storage_slots + 25000 * s.new_accounts + 200 * s.code_bytes
    + 12500 * s.new_delegation_indicators

\* A transaction that creates state is bundled with it.
state_bundle(s) == historical_state_creation_gas(s) > 0

-----------------------------------------------------------------------------
(* Counts that can be state creation, matched against it.                  *)

matched_create_accounts(n, s) == least(s.new_accounts, n.internal_creates)

\* Mutant: an account that a create explains is matched with an access again.
remaining_new_accounts_all(n, s) == s.new_accounts

remaining_new_accounts(n, s) == s.new_accounts - matched_create_accounts(n, s)

matched_account_accesses(n, s) ==
  least(remaining_new_accounts(n, s), n.cold_account_accesses)

matched_new_account_balances(n, s) ==
  least(remaining_new_accounts(n, s),
        n.positive_value_calls + n.positive_value_selfdestructs)

matched_create_endowments(n, s) ==
  least(matched_create_accounts(n, s), n.internal_create_endowments)

\* The bytes of each component that state creation explains.
direct_state(n, s) ==
  [storage_key       |-> BAL_BYTES_PER_STORAGE_KEY
                           * least(s.new_storage_slots, n.cold_storage_accesses),
   storage_value     |-> BAL_BYTES_PER_STORAGE_VALUE
                           * least(s.new_storage_slots, n.storage_value_entries_observed),
   account_access    |-> BAL_BYTES_PER_ADDRESS * matched_account_accesses(n, s),
   value_transfer    |-> BAL_BYTES_PER_BALANCE * matched_new_account_balances(n, s)
                           + BAL_BYTES_PER_BALANCE * matched_create_endowments(n, s),
   contract_creation |-> BAL_BYTES_PER_ADDRESS * matched_create_accounts(n, s)
                           + BAL_BYTES_PER_NONCE * matched_create_accounts(n, s),
   deployed_code     |-> least(s.code_bytes, n.internal_deployed_code_bytes)]

in_bundle(s, bytes) == IF state_bundle(s) THEN bytes ELSE 0

\* Direct, co-produced by a bundle and outside of every bundle.
three_way(total, direct, s) ==
  [direct |-> direct, coproduced |-> in_bundle(s, total) - direct,
   nonstate |-> total - in_bundle(s, total)]

attribute_direct_state_runtime_bytes(n, s) ==
  LET total == bal_runtime_bytes(n)
      direct == component_sum(direct_state(n, s))
  IN  [total |-> total, parts |-> three_way(total, direct, s),
       access_related |-> total - direct]

\* The same split of each component.
component_splits(n, s) ==
  [c \in RUNTIME_COMPONENTS |->
     three_way(compute_eip8279_runtime_bytes(n)[c], direct_state(n, s)[c], s)]

\* The attribution raises an error when more is direct than its bundle has, of
\* all bytes or of those of one component.
refused(n, s) ==
  \/ attribute_direct_state_runtime_bytes(n, s).parts.coproduced < 0
  \/ \E c \in RUNTIME_COMPONENTS : component_splits(n, s)[c].coproduced < 0
=============================================================================
