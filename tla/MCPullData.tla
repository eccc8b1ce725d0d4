----------------------------- MODULE MCPullData -----------------------------
EXTENDS PullData, TLC

CONSTANTS r1, r2, r3, r4

Symmetry == Permutations(Requests)
=============================================================================
