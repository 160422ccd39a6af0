---------------------------- MODULE MCMcpGrants ----------------------------
(* Small instance of McpGrants. *)
EXTENDS McpGrants, TLC

CONSTANTS h1, h2, r1, r2, g1, g2, t1, t2

\* Threads, requests, grants and tokens are interchangeable.
IdSymmetry == Permutations({h1, h2}) \union Permutations({r1, r2})
                \union Permutations({g1, g2}) \union Permutations({t1, t2})
=============================================================================
