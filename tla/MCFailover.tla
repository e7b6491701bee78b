----------------------------- MODULE MCFailover -----------------------------
(***************************************************************************)
(* Two instances that may submit different certificates for an index, and  *)
(* two puts on their way.                                                  *)
(***************************************************************************)
EXTENDS Failover

CONSTANTS i1, i2, c1, c2, n1, n2
=============================================================================
