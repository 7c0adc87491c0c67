----------------------------- MODULE MeteredBlock -----------------------------
(***************************************************************************)
(* One block through the metering paths of the repository: its access list *)
(* (AccessList), the state it creates (StateGrowth), its EIP-8279 runtime  *)
(* bytes with their attribution (RuntimeMeter), its refunds                *)
(* (RefundRecovery) and the gas of its receipts (TransactionGas).  The     *)
(* paths read different sources of the same execution (traces, receipts,   *)
(* diff tables, trace tables) and are compared with each other and with    *)
(* the execution.                                                          *)
(***************************************************************************)
EXTENDS AccessList, StateGrowth, TransactionGas, RefundRecovery

CONSTANT Contents            \* calldata and access lists a transaction may have

ASSUME ContentAssumption ==
  Contents \subseteq [zero: Nat, nonzero: Nat, addresses: Nat, keys: Nat, blobs: Nat]

-----------------------------------------------------------------------------
(* query_xatu_eip8279_runtime_meter: the events of a transaction.          *)

AccountOperations ==
  {"BALANCE", "EXTCODEHASH", "EXTCODESIZE", "EXTCODECOPY", "CALL", "CALLCODE",
   "DELEGATECALL", "STATICCALL", "SELFDESTRUCT"}

events(i, ops) == {k \in DOMAIN txs[i].events : txs[i].events[k].op \in ops}

cold(i, ops) == count({k \in events(i, ops) : txs[i].events[k].cold})

\* A trace row moves value when it has some and does not go back to its sender.
valued(i, op) ==
  count({k \in events(i, {op}) :
           txs[i].events[k].value > 0 /\ txs[i].events[k].to # Contract})

storage_value_entries(i) == {<<d.address, d.slot>> : d \in storage_diffs(txs[i])}

query_xatu_eip8279_runtime_meter(i) ==
  [cold_account_accesses |-> cold(i, AccountOperations),
   cold_storage_accesses |-> cold(i, {"SLOAD", "SSTORE"}),
   storage_value_entries_observed |-> count(storage_value_entries(i)),
   positive_value_calls |-> valued(i, "CALL"),
   positive_value_selfdestructs |-> valued(i, "SELFDESTRUCT"),
   internal_creates |-> count(events(i, {"CREATE"})),
   internal_create_endowments |-> valued(i, "CREATE"),
   internal_deployed_code_bytes |-> ContractBytes * count(events(i, {"CREATE"}))]

\* query_xatu_eip8279_runtime_blocks asks the same of the block at once.
query_xatu_eip8279_runtime_blocks ==
  [cold_account_accesses |-> sum_txs(LAMBDA i : cold(i, AccountOperations)),
   cold_storage_accesses |-> sum_txs(LAMBDA i : cold(i, {"SLOAD", "SSTORE"})),
   storage_value_entries_observed |->
     count(UNION {{<<i, p>> : p \in storage_value_entries(i)} : i \in DOMAIN txs}),
   positive_value_calls |-> sum_txs(LAMBDA i : valued(i, "CALL")),
   positive_value_selfdestructs |-> sum_txs(LAMBDA i : valued(i, "SELFDESTRUCT")),
   internal_creates |-> sum_txs(LAMBDA i : count(events(i, {"CREATE"}))),
   internal_create_endowments |-> sum_txs(LAMBDA i : valued(i, "CREATE")),
   internal_deployed_code_bytes |->
     ContractBytes * sum_txs(LAMBDA i : count(events(i, {"CREATE"})))]

\* attach_state_bundle and the attribution, of one transaction.
attributed(i) ==
  attribute_direct_state_runtime_bytes(query_xatu_eip8279_runtime_meter(i),
                                       query_xatu_tx_state_creation(i))

aggregation_refused ==
  \E i \in DOMAIN txs :
    refused(query_xatu_eip8279_runtime_meter(i), query_xatu_tx_state_creation(i))

aggregate_state_execution_runtime_blocks ==
  [bal_runtime_bytes_8279 |-> sum_txs(LAMBDA i : attributed(i).total),
   state |-> sum_txs(LAMBDA i : attributed(i).parts.direct),
   execution |-> sum_txs(LAMBDA i : attributed(i).access_related),
   coproduced |-> sum_txs(LAMBDA i : attributed(i).parts.coproduced),
   nonstate |-> sum_txs(LAMBDA i : attributed(i).parts.nonstate)]

-----------------------------------------------------------------------------
(* query_xatu_refund_transactions and the panels' rows of a transaction.   *)

\* A loop is how many warm slots, from zero and from another value, a
\* transaction of the scenario also sets and brings back.
query_xatu_refund_transactions(i, loop) ==
  LET diffs == storage_diffs(txs[i])
      stores == events(i, {"SSTORE"})
      had == {d \in diffs : d.from_value # 0}
  IN  [sstore_count |-> count(stores) + 2 * (loop.zero + loop.nonzero),
       sstore_gas_current |->
         add_up(stores, LAMBDA k : txs[i].events[k].gas)
           + (20000 + 100) * loop.zero + (2900 + 100) * loop.nonzero,
       sstore_cold_count |-> cold(i, {"SSTORE"}),
       refund_counter_current |->
         refund_counter(txs[i]) + 19900 * loop.zero + 2800 * loop.nonzero,
       changed_slots |-> count(diffs),
       zero_to_nonzero_slots |-> count(zero_to_nonzero(i)),
       original_nonzero_changed |-> count(had),
       net_cleared_slots |-> count({d \in had : d.to_value = 0}),
       set_code |-> authorizations_of(txs[i]) # {}]

\* align_runtime_meter_to_transactions: the row of a transaction has its
\* runtime bytes, or none.
panel_row(i, c) ==
  [receipt |-> receipt_gas_used(txs[i], c),
   zero |-> c.zero, nonzero |-> c.nonzero, addresses |-> c.addresses, keys |-> c.keys,
   blobs |-> c.blobs, auths |-> count(authorizations_of(txs[i])),
   runtime |-> bal_runtime_bytes(query_xatu_eip8279_runtime_meter(i)),
   created |-> query_xatu_tx_state_creation(i),
   recipient |-> TRUE, self_transfer |-> FALSE, value |-> FALSE]

-----------------------------------------------------------------------------
(* Properties.  What has been executed is a block when no transaction is   *)
(* open.                                                                   *)

Steps == 1 .. (Len(txs) + IF withdrawals = <<>> THEN 0 ELSE 1)

world_after(k) == IF k > Len(txs) THEN world ELSE txs[k].after

\* What an account's entries up to an index leave of a value.
replayed(changes, k, before) ==
  LET seen == {j \in DOMAIN changes : changes[j].index <= k}
  IN  IF seen = {} THEN before ELSE changes[Max(seen)].value

failed_before(k) == \E i \in 1..k : i <= Len(txs) /\ txs[i].failed

\* What the traces do not show, or the list does not ask of them.
code_unseen(a, k) ==
  \E i \in 1..k :
    /\ i <= Len(txs)
    /\ txs[i].before[a].code # txs[i].after[a].code
    /\ txs[i].failed \/ txs[i].after[a].code = ""

balance_unseen(a, k) ==
  \/ a = Sender /\ fee_recipient = Sender /\ failed_before(k)
  \/ k > Len(txs) /\ Cardinality({i \in DOMAIN withdrawals : withdrawals[i] = a}) > 2

\* The list is what a client needs to execute the block in parallel: replaying
\* its entries up to an index over the parent state gives the world after that
\* transaction, failing ones and the withdrawals included.  Four things are
\* known not to be in it: code that a delegation clears or a failing
\* transaction's delegation sets, the fee of a failing transaction whose sender
\* is the fee recipient, and the middle ones of three withdrawals to an account.
AccessListReplays ==
  open = Closed =>
    LET list == build_accounts(TRUE) IN
    \A a \in Addresses, k \in Steps :
      LET old == parent[a]
          new == world_after(k)[a]
      IN  IF a \notin DOMAIN list THEN new = old
          ELSE /\ \A s \in Slots :
                    replayed(get(list[a].storage_writes, s, <<>>), k, old.storage[s])
                      = new.storage[s]
               /\ balance_unseen(a, k)
                    \/ replayed(list[a].balance_changes, k, old.balance) = new.balance
               /\ replayed(list[a].nonce_changes, k, old.nonce) = new.nonce
               /\ code_unseen(a, k)
                    \/ replayed(list[a].code_changes, k, old.code) = new.code

\* Three counts of the state a block creates agree where they should: what the
\* diff trace shows is what the transactions' tables show, and the block's
\* tables count a slot once however often it is created, never fewer than are
\* new at the end.  An account is new for the tables and not for the traces
\* only when a failing transaction's tip is the first thing it has.
GrowthAddsUp ==
  open = Closed =>
    LET rpc == summarize_rpc_state_growth
        block == query_xatu_block_state_growth
        tx == [i \in DOMAIN txs |-> query_xatu_tx_state_creation(i)]
        made_by_failures ==
          UNION {tx_new_accounts(i) : i \in reverted_tx_indices}
        still_new == {p \in Addresses \X Slots :
                        /\ parent[p[1]].storage[p[2]] = 0
                        /\ world[p[1]].storage[p[2]] # 0}
    IN  /\ rpc.new_storage_slots = sum_txs(LAMBDA i : tx[i].new_storage_slots)
        /\ rpc.new_storage_slots = block.zero_to_nonzero_storage_writes
        /\ block.new_storage_slots \in count(still_new) .. rpc.new_storage_slots
        /\ block.new_accounts = sum_txs(LAMBDA i : tx[i].new_accounts)
        /\ block.new_accounts = rpc.new_accounts + count(made_by_failures)
        /\ block.new_accounts <= block.new_account_candidates
        /\ block.code_bytes = rpc.code_bytes

\* Bytes are never attributed to state beyond what was metered or created: the
\* attribution of a transaction is never refused, and an account explained by
\* a create is not explained by an access as well.  Summed up, the blocks' own
\* query and the transactions agree, and the storage values are the writes of
\* the access list, which is built from another source.
RuntimeReconciles ==
  open = Closed =>
    LET metered == aggregate_state_execution_runtime_blocks
        list == build_accounts(TRUE)
    IN  /\ ~aggregation_refused
        /\ metered.bal_runtime_bytes_8279 = bal_runtime_bytes(query_xatu_eip8279_runtime_blocks)
        /\ \A i \in DOMAIN txs :
             LET n == query_xatu_eip8279_runtime_meter(i)
                 s == query_xatu_tx_state_creation(i)
             IN  matched_create_accounts(n, s) + matched_account_accesses(n, s)
                   <= s.new_accounts
        /\ query_xatu_eip8279_runtime_blocks.storage_value_entries_observed
             = summarize_accounts(list).storage_write_changes

extremes(S) == {x \in S : (\A y \in S : x <= y) \/ (\A y \in S : x >= y)}

\* The resets and refunded authorizations of a transaction are among the
\* solutions of its refund counter, failing calls or not; without a failing
\* call no other solution explains the gas of the stores better.  The closed
\* form of the query has the solutions of the enumeration, also when there are
\* several and when the number of stores rules some out, and its range of
\* refunds is that of the solutions the enumeration prefers.
RefundsAreRecovered ==
  open = Closed =>
    \A i \in DOMAIN txs, loop \in scenario.loops :
      LET row == query_xatu_refund_transactions(i, loop)
          done == [auth |-> count(authorizations_of(txs[i])),
                   zero |-> resets_of(txs[i], "zero") + loop.zero,
                   nonzero |-> resets_of(txs[i], "nonzero") + loop.nonzero]
      IN  ~(txs[i].failed /\ loop.zero + loop.nonzero > 0) /\ row.refund_counter_current > 0 =>
            /\ done \in solutions(row)
            /\ ~txs[i].failed /\ ~txs[i].reverts => done \in preferred(row)
            /\ extremes(refund_future(row))
                 = extremes({refund_counter_8038(row, s.zero + s.nonzero) : s \in preferred(row)})
            /\ \A auth \in auth_candidates(row) :
                 {s.zero + s.nonzero : s \in {x \in solutions(row) : x.auth = auth}}
                   = sql_resets(row, auth)

\* The accountings of one transaction's gas agree wherever they describe the
\* same thing, whatever its calldata, refund and state:  the receipt is always
\* taken apart, into parts that add up, and as bound by the floor exactly when
\* the execution charged the floor; otherwise the gas before the refund is
\* recovered to one gas, in Python and in the query.  The floor benchmark takes the state's gas from the
\* carriers, and a transaction without runtime bytes has it as execution.  Its
\* floors are those of floor_accounting, on the bytes of the carrier panel, and
\* Glamsterdam's gas from the receipt is that from the parts.
AccountingsAgree ==
  open = Closed =>
    \A i \in DOMAIN txs, c \in Contents :
      LET t == panel_row(i, c)
          d == attach_eip7623_receipt_decomposition(t)
          counter == refund_counter(txs[i])
          charged == charged_regular_gas(t, d.execution)
          without_state == receipt_body_gas(t) - d.state - standard_calldata_gas(t)
                             - access_list_cost_2930(t)
      IN  /\ ~decomposition_refused(t)
          /\ d.execution >= 0 /\ d.data + d.state + d.execution = t.receipt
          /\ calldata_tokens(t) > 0 =>
               (current_7623_floor_bound_proxy(t)
                  <=> gas_after_refund(txs[i], c) <= floor_gas(c))
          /\ ~current_7623_floor_bound_proxy(t) =>
               /\ gross_gas(txs[i], c) - gross_gas_current_proxy(t.receipt, counter) \in -1 .. 1
               /\ gross_gas(txs[i], c) - gross_current(t.receipt, counter) \in -1 .. 0
          /\ execution_reference_gas(t)
               = d.execution + (IF is_bal_carrier(t) THEN 0 ELSE d.state)
          /\ floor_gas_8279(t) = eip8279_floor_gas(t)
          /\ charged.eip8279 - charged.eip8131 = incremental_eip8279_uplift(t, d.execution)
          /\ static_data_bytes_7999(t) + t.runtime
               = static_data_8131_bytes(t) + bal_floor_bytes_8279(t)
          /\ ~current_7623_floor_bound_proxy(t) /\ without_state >= 0
               /\ d.state = historical_state_creation_gas(t.created)
               => glamsterdam_regular_gas_tx(t, without_state)
                    = glamsterdam_regular_gas_from_receipt(t)
=============================================================================
