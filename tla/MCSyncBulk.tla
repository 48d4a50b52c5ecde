----------------------------- MODULE MCSyncBulk -----------------------------
\* SyncBulk for TLC: runners and run ids are interchangeable.
EXTENDS SyncBulk, TLC

Symmetric == Permutations(Runners) \cup Permutations(RunIds)
=============================================================================
