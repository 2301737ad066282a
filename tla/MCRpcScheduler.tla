--------------------------- MODULE MCRpcScheduler ---------------------------
(* Small instances of RpcScheduler for TLC. *)
EXTENDS RpcRefinement, TLC

CONSTANTS c1, w1, w2, r1

ServerSymmetry == Permutations(Servers)
=============================================================================
