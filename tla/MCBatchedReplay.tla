---------------------------- MODULE MCBatchedReplay ----------------------------
(***************************************************************************)
(* Bundles under the targets, at both limits, over each, over both, and    *)
(* over the data limit only before the execution cap; one whose state is   *)
(* the larger branch.  The step of a fee of 220 over 34 gas, which is 12   *)
(* over the target of 22, is 15 and in float64 14.                         *)
(***************************************************************************)
EXTENDS BatchedReplay

MCBundle(execution, static_data, execution_bal, state_bal, state) ==
  [execution |-> execution, static_data |-> static_data,
   execution_bal |-> execution_bal, state_bal |-> state_bal, state |-> state]

MCBundles ==
  {MCBundle(0, 0, 0, 0, 0),
   MCBundle(20, 14, 10, 16, 30),
   MCBundle(40, 10, 20, 5, 15),
   MCBundle(40, 40, 80, 0, 20),
   MCBundle(10, 30, 40, 10, 20),
   MCBundle(40, 10, 40, 0, 10),
   MCBundle(10, 10, 0, 10, 50)}

=============================================================================
