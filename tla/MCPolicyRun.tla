----------------------------- MODULE MCPolicyRun -----------------------------
\* PolicyRun for TLC: runs and texts are interchangeable.
EXTENDS PolicyRun, TLC

Symmetric == Permutations(Runs) \cup Permutations(Texts)
=============================================================================
