------------------------------ MODULE StateGrowth ------------------------------
(***************************************************************************)
(* The state a block creates, counted three times: from the diff trace     *)
(* (sim/rpc_state_growth.py), from the Xatu tables per block               *)
(* (sim/xatu_state_growth.py) and from them per transaction                *)
(* (sim/xatu_glamsterdam.py).  The queries are SQL over tables of many     *)
(* blocks; here they are asked about one block.  The bytes and the gas     *)
(* they are turned into are multiples of these counts.                     *)
(***************************************************************************)
EXTENDS TracedBlock

\* Bytes of a contract's code.
ContractBytes == 3

count(S) == Cardinality(S)
sum_txs(of(_)) == SumFunction([i \in DOMAIN txs |-> of(i)])

is_delegation_code(code) == code = "delegation"

-----------------------------------------------------------------------------
(* From the diff trace.                                                    *)

\* account_exists, of an account in a trace that may lack it or its balance.
account_exists(state, a) ==
  \/ field(state, a, "balance", 0) \notin {0, Missing}
  \/ field(state, a, "nonce", 0) > 0
  \/ field(state, a, "code", "") # ""

\* Mutant: a slot that is only in the post-state is new, whatever it held.
new_slots_all(i) ==
  {p \in Addresses \X Slots :
     p[2] \in DOMAIN field(diff_post(txs[i]), p[1], "storage", <<>>)}

\* A slot of the post-state that the pre-state does not have or has as zero.
new_slots(i) ==
  {p \in Addresses \X Slots :
     /\ p[2] \in DOMAIN field(diff_post(txs[i]), p[1], "storage", <<>>)
     /\ p[2] \notin DOMAIN field(diff_pre(txs[i]), p[1], "storage", <<>>)}

new_accounts(i) ==
  {a \in Addresses :
     ~account_exists(diff_pre(txs[i]), a) /\ account_exists(diff_post(txs[i]), a)}

\* The code an account has now and did not have before.
new_code(i, delegation) ==
  {a \in Addresses :
     LET pre == field(diff_pre(txs[i]), a, "code", "")
         post == field(diff_post(txs[i]), a, "code", "")
     IN  /\ post \notin {"", pre}
         /\ is_delegation_code(post) = delegation
         /\ delegation => ~is_delegation_code(pre)}

\* Transactions that fail create nothing.
summarize_rpc_state_growth ==
  LET succeeded(S, i) == IF txs[i].failed THEN 0 ELSE count(S)
  IN  [new_storage_slots |-> sum_txs(LAMBDA i : succeeded(new_slots(i), i)),
       new_accounts |-> sum_txs(LAMBDA i : succeeded(new_accounts(i), i)),
       code_bytes |-> ContractBytes * sum_txs(LAMBDA i : succeeded(new_code(i, FALSE), i)),
       new_delegation_indicators |-> sum_txs(LAMBDA i : succeeded(new_code(i, TRUE), i))]

-----------------------------------------------------------------------------
(* From the Xatu tables.                                                   *)

zero_to_nonzero(i) == {d \in storage_diffs(txs[i]) : d.from_value = 0 /\ d.to_value # 0}

\* Addresses a transaction may have created.
raw_candidates(i) ==
  contracts(txs[i])
    \cup {d.address : d \in {e \in balance_diffs(txs[i]) \cup nonce_diffs(txs[i]) :
                               e.from_value = 0 /\ e.to_value > 0}}

first_in_block == first_appearances

\* Per transaction: a candidate counts once, for the first transaction.
tx_new_accounts(i) ==
  {a \in raw_candidates(i) \cap first_in_block :
     \A j \in 1..(i - 1) : a \notin raw_candidates(j)}

query_xatu_tx_state_creation(i) ==
  [new_storage_slots |-> count({<<d.address, d.slot>> : d \in zero_to_nonzero(i)}),
   new_accounts |-> count(tx_new_accounts(i)),
   code_bytes |-> ContractBytes * count(contracts(txs[i])),
   new_delegation_indicators |-> 0]

\* Per block.
block_candidates == UNION {raw_candidates(i) : i \in DOMAIN txs}

query_xatu_block_state_growth ==
  [new_storage_slots |->
     count(UNION {{<<d.address, d.slot>> : d \in zero_to_nonzero(i)} : i \in DOMAIN txs}),
   zero_to_nonzero_storage_writes |-> sum_txs(LAMBDA i : count(zero_to_nonzero(i))),
   new_account_candidates |-> count(block_candidates),
   new_accounts |-> count(block_candidates \cap first_in_block),
   code_bytes |-> ContractBytes * sum_txs(LAMBDA i : count(contracts(txs[i])))]
=============================================================================
