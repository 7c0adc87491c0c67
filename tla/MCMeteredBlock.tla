---------------------------- MODULE MCMeteredBlock ----------------------------
(***************************************************************************)
(* MeteredBlock with the operations that tell its properties apart: a slot *)
(* that is created, cleared and kept, a new account that is called, funded *)
(* and created, and value that a destroyed contract leaves.                *)
(***************************************************************************)
EXTENDS MeteredBlock

call(to, value) == [op |-> "CALL", to |-> to, value |-> value]
store(slot, value) == [op |-> "SSTORE", slot |-> slot, value |-> value]
authorize(code) == [op |-> "AUTHORIZE", code |-> code]

Storage ==
  {store(1, 0), store(1, 2), store(2, 0), store(2, 1), authorize("delegation")}

Accounts ==
  {call("new", 0), call("new", 1), [op |-> "CREATE", value |-> 0],
   [op |-> "SELFDESTRUCT", to |-> "proposer"], authorize("delegation"), authorize("")}

NoLoop == [zero |-> 0, nonzero |-> 0]

\* 28 slots from zero and 28 others refund what 227 others do, and one and 42
\* others what eleven authorizations do.
MCLoops ==
  {NoLoop, [zero |-> 0, nonzero |-> 227], [zero |-> 28, nonzero |-> 28],
   [zero |-> 1, nonzero |-> 42]}

MCScenarios ==
  {[repertoire |-> Storage, fee_recipient |-> "proposer", loops |-> MCLoops,
    txs |-> 1, ops |-> 2, withdrawals |-> 0],
   [repertoire |-> Storage, fee_recipient |-> "proposer", loops |-> {NoLoop},
    txs |-> 2, ops |-> 3, withdrawals |-> 0],
   [repertoire |-> Accounts, fee_recipient |-> "proposer", loops |-> {NoLoop},
    txs |-> 2, ops |-> 3, withdrawals |-> 1]}
  \cup
  {[repertoire |-> Accounts, fee_recipient |-> a, loops |-> {NoLoop},
    txs |-> 2, ops |-> 2, withdrawals |-> 3] : a \in {"sender", "new"}}

\* No calldata, some, and so much that the floor is charged.
MCContents ==
  {[zero |-> 0, nonzero |-> 0, addresses |-> 0, keys |-> 0, blobs |-> 0],
   [zero |-> 3, nonzero |-> 10, addresses |-> 1, keys |-> 2, blobs |-> 1],
   [zero |-> 0, nonzero |-> 2000, addresses |-> 0, keys |-> 0, blobs |-> 0]}
=============================================================================
