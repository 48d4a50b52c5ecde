-------------------------- MODULE MCWholeDatabase --------------------------
\* WholeDatabase for TLC: workers are interchangeable.
EXTENDS WholeDatabase, TLC

Symmetric == Permutations(Workers)
=============================================================================
