-------------------------- MODULE MCMcpTokenCache --------------------------
(* Small instance of McpTokenCache: grant g1 has tokens t1 and t2, g2 has t3. *)
EXTENDS McpTokenCache, TLC

CONSTANTS g1, g2, t1, t2, t3, v1, w1, w2

MCOwner == (t1 :> g1) @@ (t2 :> g1) @@ (t3 :> g2)
ThreadSymmetry == Permutations({w1, w2})
=============================================================================
