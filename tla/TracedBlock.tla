----------------------------- MODULE TracedBlock -----------------------------
(***************************************************************************)
(* A block as the metering code receives it: what an Ethereum client traces *)
(* of its execution and what the Xatu tables record of it.  The client is   *)
(* outside the repository; this module is the part of it the code relies    *)
(* on.  Transactions of one sender call one contract, which transfers,      *)
(* loads, stores, creates and destroys; an operation may sit in a call      *)
(* frame that reverts, a whole transaction may fail, and withdrawals end    *)
(* the block.  After every transaction and withdrawal what was executed so  *)
(* far is itself a block.                                                   *)
(***************************************************************************)
EXTENDS Integers, FiniteSets, SequencesExt

CONSTANT Scenarios           \* what a block may do, who is paid, its bounds

VARIABLES scenario,
          parent,            \* the world before the block
          world,             \* the world now
          txs,               \* the transactions executed, each with its worlds
          open,              \* the transaction in execution, or Closed
          withdrawals        \* who was credited after the transactions

vars == <<scenario, parent, world, txs, open, withdrawals>>

-----------------------------------------------------------------------------
fee_recipient == scenario.fee_recipient

Sender    == "sender"
Contract  == "contract"
Addresses == {Sender, "proposer", Contract, "new"}
Slots     == {1, 2}

\* What a contract, or a transaction of a block, can be asked to do.
Operations ==
  [op: {"CALL"}, to: Addresses, value: Nat]
    \cup [op: {"SLOAD"}, slot: Slots]
    \cup [op: {"SSTORE"}, slot: Slots, value: Nat]
    \cup [op: {"CREATE"}, value: Nat]
    \cup [op: {"SELFDESTRUCT"}, to: Addresses]
    \cup [op: {"AUTHORIZE"}, code: {"", "delegation"}]

ASSUME ScenarioAssumption ==
  \A s \in Scenarios :
    /\ s.repertoire \subseteq Operations
    /\ s.fee_recipient \in Addresses
    /\ s.loops \subseteq [zero: Nat, nonzero: Nat]
    /\ s.txs \in Nat /\ s.ops \in Nat /\ s.withdrawals \in Nat

\* Code is a contract, an EIP-7702 delegation or nothing.
Account(balance, nonce, code, storage) ==
  [balance |-> balance, nonce |-> nonce, code |-> code, storage |-> storage]

Empty == Account(0, 0, "", [s \in Slots |-> 0])

Parent ==
  [a \in Addresses |->
     CASE a = Sender     -> Account(20, 1, "", [s \in Slots |-> 0])
       [] a = "proposer" -> Account(0, 1, "", [s \in Slots |-> 0])
       [] a = Contract   -> Account(2, 1, "contract", [s \in Slots |-> IF s = 1 THEN 1 ELSE 0])
       [] OTHER          -> Empty]

exists(account) == account.balance > 0 \/ account.nonce > 0 \/ account.code # ""

\* A transaction pays these for all its gas.
base_fee_per_gas == 1
effective_gas_price == 2

Closed == [closed |-> TRUE]

-----------------------------------------------------------------------------
move(w, from, to, value) ==
  [a \in Addresses |->
     [w[a] EXCEPT !.balance = @ - (IF a = from THEN value ELSE 0)
                                + (IF a = to THEN value ELSE 0)]]

\* The gas of an operation that is not a store.
OtherGas == 3000

event(op, cold, value, to) ==
  [op |-> op, cold |-> cold, value |-> value, to |-> to, gas |-> OtherGas,
   refund |-> 0, resets |-> "none"]

\* A store costs by the value the slot had before the transaction and has now;
\* one that clears a slot, or brings it back, is refunded unless it reverts.
store_event(slot, new, cold, reverts) ==
  LET original == open.before[Contract].storage[slot]
      current == world[Contract].storage[slot]
      one_if(cond) == IF cond THEN 1 ELSE 0
      resets == ~reverts /\ new # current /\ current # original /\ new = original
      clears == IF original = 0 \/ reverts THEN 0 ELSE one_if(new = 0) - one_if(current = 0)
  IN  [event("SSTORE", cold, 0, Contract) EXCEPT
         !.gas = (IF cold THEN 2100 ELSE 0)
                   + (IF new = current \/ current # original THEN 100
                      ELSE IF original = 0 THEN 20000 ELSE 2900),
         !.refund = 4800 * clears
                      + (IF ~resets THEN 0 ELSE IF original = 0 THEN 19900 ELSE 2800),
         !.resets = IF ~resets THEN "none" ELSE IF original = 0 THEN "zero" ELSE "nonzero"]

Executed == FoldSeq(LAMBDA tx, n : n + Len(tx.events), 0, txs)

\* The sender pays its fee; an authorization may set its delegation or clear
\* it, and counts as an operation.
Begin(authorizations) ==
  /\ open = Closed /\ withdrawals = <<>>
  /\ Len(txs) < scenario.txs
  /\ world[Sender].balance >= effective_gas_price
  /\ Len(authorizations) <= scenario.ops - Executed
  /\ LET started ==
           [move(world, Sender, fee_recipient, effective_gas_price - base_fee_per_gas) EXCEPT
              ![Sender].balance = @ - base_fee_per_gas,
              ![Sender].nonce = @ + 1,
              ![Sender].code = IF authorizations = <<>> THEN @ ELSE authorizations[1].code]
     IN  /\ world' = started
         /\ open' = [before |-> world, started |-> started,
                     touched |-> {Sender, Contract, fee_recipient},
                     slots |-> {}, created |-> {}, reverts |-> FALSE,
                     events |-> authorizations]
  /\ UNCHANGED <<scenario, parent, txs, withdrawals>>

\* One operation of the contract, in a frame that reverts or not.  A create in
\* a transaction that destroys its account again is left out.
Operate(o, reverts) ==
  /\ open # Closed
  /\ Executed + Len(open.events) < scenario.ops
  /\ LET done(w, touched, slots, created, e) ==
           /\ world' = IF reverts THEN world ELSE w
           /\ open' = [open EXCEPT !.touched = @ \cup touched,
                                   !.slots = @ \cup slots,
                                   !.created = @ \cup created,
                                   !.reverts = @ \/ reverts,
                                   !.events = Append(@, e)]
     IN  \/ /\ o.op = "CALL" /\ world[Contract].balance >= o.value
            /\ done(move(world, Contract, o.to, o.value), {o.to}, {}, {},
                    event("CALL", o.to \notin open.touched, o.value, o.to))
         \/ /\ o.op = "SLOAD"
            /\ done(world, {}, {o.slot}, {},
                    event("SLOAD", o.slot \notin open.slots, 0, Contract))
         \/ /\ o.op = "SSTORE"
            /\ done([world EXCEPT ![Contract].storage[o.slot] = o.value],
                    {}, {o.slot}, {},
                    store_event(o.slot, o.value, o.slot \notin open.slots, reverts))
         \/ /\ o.op = "CREATE"
            /\ world["new"].nonce = 0 /\ world[Contract].balance >= o.value
            /\ done([move(world, Contract, "new", o.value) EXCEPT
                       ![Contract].nonce = @ + 1,
                       !["new"].nonce = 1, !["new"].code = "contract"],
                    {"new"}, {}, {"new"}, event("CREATE", FALSE, o.value, "new"))
         \/ /\ o.op = "SELFDESTRUCT"
            /\ done(move(world, Contract, o.to, world[Contract].balance), {o.to}, {}, {},
                    event("SELFDESTRUCT", o.to \notin open.touched,
                          world[Contract].balance, o.to))
  /\ UNCHANGED <<scenario, parent, txs, withdrawals>>

\* A failing transaction keeps its fee, its nonce and its delegation.
Close(fails) ==
  /\ open # Closed
  /\ world' = IF fails THEN open.started ELSE world
  /\ txs' = Append(txs, [before |-> open.before, after |-> world',
                         touched |-> open.touched, slots |-> open.slots,
                         created |-> open.created, reverts |-> open.reverts,
                         events |-> open.events, failed |-> fails])
  /\ open' = Closed
  /\ UNCHANGED <<scenario, parent, withdrawals>>

Withdraw(a) ==
  /\ open = Closed /\ txs # <<>>
  /\ Len(withdrawals) < scenario.withdrawals
  /\ world' = [world EXCEPT ![a].balance = @ + 1]
  /\ withdrawals' = Append(withdrawals, a)
  /\ UNCHANGED <<scenario, parent, txs, open>>

Init ==
  /\ scenario \in Scenarios
  /\ parent = Parent /\ world = Parent
  /\ txs = <<>> /\ open = Closed /\ withdrawals = <<>>

Next ==
  \/ Begin(<<>>)
  \/ \E o \in scenario.repertoire : o.op = "AUTHORIZE" /\ Begin(<<o>>)
  \/ \E o \in scenario.repertoire, reverts \in BOOLEAN : Operate(o, reverts)
  \/ \E fails \in BOOLEAN : Close(fails)
  \/ Withdraw("new")

Spec == Init /\ [][Next]_vars

-----------------------------------------------------------------------------
(* What the client answers: prestateTracer, per transaction.               *)

\* Of an account its trace holds the balance and, unless empty, the rest.
traced(account, slots) ==
  [balance |-> account.balance, nonce |-> account.nonce, code |-> account.code,
   storage |-> [s \in slots |-> account.storage[s]]]

changed_slots(tx, a) == {s \in Slots : tx.before[a].storage[s] # tx.after[a].storage[s]}

modified(tx) == {a \in tx.touched : tx.before[a] # tx.after[a]}

\* An account a transaction created, or tried to, is not in its pre-state if it
\* was empty.
blank_created(tx) == {a \in tx.created : ~exists(tx.before[a])}

\* No balance and no value of a slot.
Missing == -1

diff_pre(tx) ==
  [a \in modified(tx) \ blank_created(tx) |->
     traced(tx.before[a], {s \in changed_slots(tx, a) : tx.before[a].storage[s] # 0})]

\* The post-state has what changed and is not empty; a balance may be zero.
diff_post(tx) ==
  [a \in modified(tx) |->
     LET b == tx.before[a] n == tx.after[a] IN
     [balance |-> IF n.balance # b.balance THEN n.balance ELSE Missing,
      nonce   |-> IF n.nonce # b.nonce THEN n.nonce ELSE 0,
      code    |-> IF n.code # b.code THEN n.code ELSE "",
      storage |-> [s \in {x \in changed_slots(tx, a) : n.storage[x] # 0} |-> n.storage[s]]]]

full_trace(tx) ==
  [a \in tx.touched \ blank_created(tx) |->
     traced(tx.before[a], IF a = Contract THEN tx.slots ELSE {})]

\* A field of an account in a trace that may not have the account.
field(state, a, name, default) ==
  IF a \in DOMAIN state THEN state[a][name] ELSE default

-----------------------------------------------------------------------------
(* Gas, of a transaction with some calldata and access list.               *)

authorizations_of(tx) == {k \in DOMAIN tx.events : tx.events[k].op = "AUTHORIZE"}

operations_of(tx) == DOMAIN tx.events \ authorizations_of(tx)

add_up(S, of(_)) == SumFunction([k \in S |-> of(k)])

gross_gas(tx, c) ==
  21000 + 4 * c.zero + 16 * c.nonzero + 2400 * c.addresses + 1900 * c.keys
    + 25000 * Cardinality(authorizations_of(tx))
    + add_up(operations_of(tx), LAMBDA k : tx.events[k].gas)

\* An authorization by an account that exists is refunded in part.
refund_counter(tx) ==
  12500 * Cardinality(authorizations_of(tx))
    + (IF tx.failed THEN 0 ELSE add_up(operations_of(tx), LAMBDA k : tx.events[k].refund))

refunded(gross, counter) == IF counter <= gross \div 5 THEN counter ELSE gross \div 5

gas_after_refund(tx, c) ==
  gross_gas(tx, c) - refunded(gross_gas(tx, c), refund_counter(tx))

floor_gas(c) == 21000 + 10 * (c.zero + 4 * c.nonzero)

receipt_gas_used(tx, c) ==
  IF gas_after_refund(tx, c) >= floor_gas(c) THEN gas_after_refund(tx, c) ELSE floor_gas(c)

resets_of(tx, kind) ==
  IF tx.failed THEN 0
  ELSE Cardinality({k \in operations_of(tx) : tx.events[k].resets = kind})

-----------------------------------------------------------------------------
(* What the Xatu tables hold of a transaction.                             *)

storage_diffs(tx) ==
  {[address |-> p[1], slot |-> p[2], from_value |-> tx.before[p[1]].storage[p[2]],
    to_value |-> tx.after[p[1]].storage[p[2]]] :
     p \in {q \in Addresses \X Slots : q[2] \in changed_slots(tx, q[1])}}

balance_diffs(tx) ==
  {[address |-> a, from_value |-> tx.before[a].balance, to_value |-> tx.after[a].balance] :
     a \in {b \in Addresses : tx.before[b].balance # tx.after[b].balance}}

nonce_diffs(tx) ==
  {[address |-> a, from_value |-> tx.before[a].nonce, to_value |-> tx.after[a].nonce] :
     a \in {b \in Addresses : tx.before[b].nonce # tx.after[b].nonce}}

contracts(tx) == {a \in tx.created : tx.before[a].code = "" /\ tx.after[a].code # ""}

\* Addresses that appear in this block and in no earlier one.
first_appearances == {a \in UNION {txs[i].touched : i \in DOMAIN txs} : ~exists(parent[a])}
=============================================================================
