---------------------------- MODULE MCPolicyBulk ----------------------------
\* PolicyBulk for TLC: apps, runners and run ids are interchangeable.
EXTENDS PolicyBulk, TLC

Symmetric == Permutations(Apps) \cup Permutations(Runners) \cup Permutations(RunIds)
=============================================================================
