----------------------------- MODULE MCSharedFee -----------------------------
(***************************************************************************)
(* Two replays of one denominator with different limits.  A full block     *)
(* moves an excess by half of the denominator 40, across several fees; the *)
(* cache ends at six of them.  The shared kernel's error is a thousandth   *)
(* of a step, so that a step is a wei off on either side of a whole one;   *)
(* float64 loses one here too: a fee of 360 and 7 gas over the target give *)
(* 62 where 360 * 7 / 40 is 63.                                            *)
(***************************************************************************)
EXTENDS SharedFee

MCReplays == {"a", "b"}

MCgas_limit == [r \in MCReplays |-> IF r = "a" THEN 25 ELSE 12]

MCgas_target == [r \in MCReplays |-> 5]

MCstate_gas_limit_scale == [r \in MCReplays |-> IF r = "a" THEN 100 ELSE 150]

\* Nothing, a block that no limit scales, and blocks over both limits with
\* either the tighter one.
MCOffers ==
  {[execution |-> 0, data |-> 0, state |-> 0],
   [execution |-> 3, data |-> 2, state |-> 6],
   [execution |-> 20, data |-> 17, state |-> 33],
   [execution |-> 5, data |-> 8, state |-> 53]}

=============================================================================
