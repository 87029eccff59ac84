--------------------------- MODULE MCConnLimiter ----------------------------
(***************************************************************************)
(* Three source addresses and a table for two: buckets are pruned, evicted *)
(* and created again within the run.                                       *)
(***************************************************************************)
EXTENDS ConnLimiter, TLC

CONSTANTS a1, a2, a3

AddressSymmetry == Permutations(IP)
=============================================================================
