---------------------------- MODULE MCWaybackBulk ----------------------------
\* WaybackBulk for TLC: runners and run ids are interchangeable.
EXTENDS WaybackBulk, TLC

Symmetric == Permutations(Runners) \cup Permutations(RunIds)
=============================================================================
