-------------------------------- MODULE Scaling --------------------------------
(***************************************************************************)
(* What the code's floating-point scaling does to a whole amount of gas.   *)
(***************************************************************************)
EXTENDS Integers

\* The floor of gas * (limit / offered).  The quotient is rounded, and where
\* the exact product is an integer the float may fall just under it: whether
\* it does is the argument loses.
scaled_floor(gas, limit, offered, loses) ==
  LET exact == (gas * limit) \div offered
  IN  IF loses /\ exact > 0 /\ limit # offered /\ (gas * limit) % offered = 0
      THEN exact - 1
      ELSE exact

=============================================================================
