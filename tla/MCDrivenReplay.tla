---------------------------- MODULE MCDrivenReplay ----------------------------
(***************************************************************************)
(* Bundles under, at and over either limit, with data off the quantum and  *)
(* at half of one.                                                         *)
(***************************************************************************)
EXTENDS DrivenReplay

MCDemand ==
  [execution : {1, 5, 13}, state : {3}, static_data : {1, 5},
   execution_bal : {0, 4}, state_bal : {1, 9}]

=============================================================================
