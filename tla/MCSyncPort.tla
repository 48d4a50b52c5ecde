----------------------------- MODULE MCSyncPort -----------------------------
\* SyncPort for TLC: apps, runners and run ids are interchangeable.
EXTENDS SyncPort, TLC

Symmetric == Permutations(Apps) \cup Permutations(Runners) \cup Permutations(RunIds)
=============================================================================
