----------------------------- MODULE MCLlmQuota -----------------------------
EXTENDS LlmQuota, TLC

CONSTANTS u1, x1, x2, j1, j2, j3

Alike == Permutations({x1, x2}) \cup Permutations({j1, j2, j3})
=============================================================================
