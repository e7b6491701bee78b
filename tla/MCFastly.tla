------------------------------ MODULE MCFastly ------------------------------
(***************************************************************************)
(* A log of three leaves in tiles of two: a chain may cost more requests   *)
(* than the head and the tiles leave.                                      *)
(***************************************************************************)
EXTENDS Fastly

Chains == [i \in 0 .. MaxSize - 1 |-> IF i = 1 THEN <<2>> ELSE <<1, 2>>]
=============================================================================
