------------------------------ MODULE MCHistory ------------------------------
\* History for TLC: two labels, two captures on either side of the first scrapes.
EXTENDS History, TLC

EarlyAndLate == {1, 3}
Symmetric == Permutations(Labels)
=============================================================================
