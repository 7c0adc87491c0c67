------------------------------ MODULE AccessList ------------------------------
(***************************************************************************)
(* The block access list that sim/rpc_bal.py builds from the two traces of *)
(* a block, its receipts and its withdrawals, in the format of EIP-7928:   *)
(* for every account the values its storage, balance, nonce and code take, *)
(* each with the index of the transaction (from 1; the withdrawals are one *)
(* past the last), and the slots only read.                                *)
(*                                                                         *)
(* Addresses and slots stay as they are (no hexadecimal), the list is not  *)
(* encoded, and the two system contracts, whose writes at index 0 are a    *)
(* function of the header, are left out.                                   *)
(***************************************************************************)
EXTENDS TracedBlock

-----------------------------------------------------------------------------
(* Traces.                                                                 *)

Transactions == DOMAIN txs

reverted_tx_indices == {i \in Transactions : txs[i].failed}

block_access_index_for_tx(i) == i

\* The full trace is fetched only with the reads.
extract_balance_touches(i, include_reads) ==
  IF include_reads
  THEN [a \in DOMAIN full_trace(txs[i]) |-> full_trace(txs[i])[a].balance]
  ELSE <<>>

extract_block_reads(a) ==
  UNION {DOMAIN full_trace(txs[i])[a].storage :
           i \in {j \in Transactions : a \in DOMAIN full_trace(txs[j])}}

collect_touched_addresses ==
  UNION {DOMAIN diff_pre(txs[i]) \cup DOMAIN diff_post(txs[i]) : i \in Transactions}

get(f, x, default) == IF x \in DOMAIN f THEN f[x] ELSE default

\* The entries of one kind of change, in the order they are added.
entries(of) ==
  LET added[i \in 0..Len(txs)] == IF i = 0 THEN <<>> ELSE added[i - 1] \o of[i]
  IN  added[Len(txs)]

-----------------------------------------------------------------------------
(* Changes.                                                                *)

\* A slot of the post-state that differs from the pre-state, or one that only
\* the pre-state has: it was cleared.
storage_changes(a, slot) ==
  LET of[i \in Transactions] ==
        LET pre == get(field(diff_pre(txs[i]), a, "storage", <<>>), slot, Missing)
            post == get(field(diff_post(txs[i]), a, "storage", <<>>), slot, Missing)
            value == IF post = Missing THEN 0 ELSE post
        IN  IF i \in reverted_tx_indices \/ pre = post THEN <<>>
            ELSE <<[index |-> block_access_index_for_tx(i), value |-> value]>>
  IN  entries(of)

storage_writes(a) ==
  [s \in {x \in Slots : storage_changes(a, x) # <<>>} |-> storage_changes(a, s)]

storage_reads(a, include_reads) ==
  IF include_reads THEN extract_block_reads(a) \ DOMAIN storage_writes(a) ELSE {}

\* What a failing transaction leaves is computed, not read: the sender pays the
\* fee, and the fee recipient gets the tip, on top of the balances before.
reverted_balance_changes(i, a, include_reads) ==
  LET touches == extract_balance_touches(i, include_reads)
      entry(balance) == <<[index |-> block_access_index_for_tx(i), value |-> balance]>>
      paid == get(touches, Sender, 0) - effective_gas_price
  IN  (IF a = Sender THEN entry(IF paid > 0 THEN paid ELSE 0) ELSE <<>>)
        \o (IF a = fee_recipient
            THEN entry(get(touches, fee_recipient, 0)
                         + effective_gas_price - base_fee_per_gas)
            ELSE <<>>)

\* A balance of the pre-state is preferred to one of the full trace.
balance_delta(i, a, include_reads) ==
  LET touches == extract_balance_touches(i, include_reads)
      pre == IF a \in DOMAIN touches /\ a \notin DOMAIN diff_pre(txs[i])
             THEN touches[a]
             ELSE field(diff_pre(txs[i]), a, "balance", 0)
      post == field(diff_post(txs[i]), a, "balance", Missing)
  IN  IF post = Missing THEN 0 ELSE post - pre

tx_balance_changes(a, include_reads) ==
  LET of[i \in Transactions] ==
        IF i \in reverted_tx_indices
        THEN reverted_balance_changes(i, a, include_reads)
        ELSE IF balance_delta(i, a, include_reads) = 0 THEN <<>>
        ELSE <<[index |-> block_access_index_for_tx(i),
                value |-> field(diff_post(txs[i]), a, "balance", Missing)]>>
  IN  entries(of)

\* The first of the entries with the largest index, or None.
latest_balance(changes, otherwise) ==
  IF changes = <<>> THEN otherwise
  ELSE LET last == changes[Len(changes)].index
       IN  changes[CHOOSE i \in DOMAIN changes :
                     /\ changes[i].index = last
                     /\ \A j \in 1..(i - 1) : changes[j].index # last].value

\* Mutant: every withdrawal is added to the balance before the block.
withdrawn_parent(changes, a) ==
  LET credited[n \in 0..Len(withdrawals)] ==
        IF n = 0 THEN changes
        ELSE IF withdrawals[n] # a THEN credited[n - 1]
        ELSE Append(credited[n - 1],
                    [index |-> Len(txs) + 1,
                     value |-> latest_balance(changes, parent[a].balance) + 1])
  IN  credited[Len(withdrawals)]

\* The withdrawals of an account nothing has changed start from its balance at
\* the parent block.
withdrawn(changes, a) ==
  LET credited[n \in 0..Len(withdrawals)] ==
        IF n = 0 THEN changes
        ELSE IF withdrawals[n] # a THEN credited[n - 1]
        ELSE Append(credited[n - 1],
                    [index |-> Len(txs) + 1,
                     value |-> latest_balance(credited[n - 1], parent[a].balance) + 1])
  IN  credited[Len(withdrawals)]

balance_changes(a, include_reads) == withdrawn(tx_balance_changes(a, include_reads), a)

code_changes(a) ==
  LET of[i \in Transactions] ==
        LET pre == field(diff_pre(txs[i]), a, "code", "")
            post == field(diff_post(txs[i]), a, "code", "")
        IN  IF i \in reverted_tx_indices \/ post \in {"", pre} THEN <<>>
            ELSE <<[index |-> block_access_index_for_tx(i), value |-> post]>>
  IN  entries(of)

\* Failing transactions too: they use up their nonce.
nonce_changes(a) ==
  LET of[i \in Transactions] ==
        LET pre == field(diff_pre(txs[i]), a, "nonce", 0)
            post == field(diff_post(txs[i]), a, "nonce", 0)
        IN  IF post <= pre THEN <<>>
            ELSE <<[index |-> block_access_index_for_tx(i), value |-> post]>>
  IN  entries(of)

-----------------------------------------------------------------------------
\* With the reads every account any trace names is listed, without them those
\* with a change.
listed(include_reads) ==
  {a \in Addresses :
     \/ include_reads /\ a \in collect_touched_addresses
                               \cup UNION {DOMAIN full_trace(txs[i]) : i \in Transactions}
     \/ storage_writes(a) # <<>>
     \/ \E changes \in {balance_changes(a, include_reads), nonce_changes(a), code_changes(a)} :
          changes # <<>>}

build_accounts(include_reads) ==
  [a \in listed(include_reads) |->
     [storage_writes  |-> storage_writes(a),
      storage_reads   |-> storage_reads(a, include_reads),
      balance_changes |-> balance_changes(a, include_reads),
      nonce_changes   |-> nonce_changes(a),
      code_changes    |-> code_changes(a)]]

\* The counts of the summary.
summarize_accounts(accounts) ==
  LET summed(of(_)) == add_up(DOMAIN accounts, of) IN
  [accounts |-> Cardinality(DOMAIN accounts),
   storage_write_slots |-> summed(LAMBDA a : Cardinality(DOMAIN accounts[a].storage_writes)),
   storage_write_changes |->
     summed(LAMBDA a : add_up(DOMAIN accounts[a].storage_writes,
                              LAMBDA s : Len(accounts[a].storage_writes[s]))),
   storage_reads |-> summed(LAMBDA a : Cardinality(accounts[a].storage_reads)),
   balance_changes |-> summed(LAMBDA a : Len(accounts[a].balance_changes)),
   nonce_changes |-> summed(LAMBDA a : Len(accounts[a].nonce_changes)),
   code_changes |-> summed(LAMBDA a : Len(accounts[a].code_changes))]
=============================================================================
