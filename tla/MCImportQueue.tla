---------------------------- MODULE MCImportQueue ----------------------------
\* ImportQueue for TLC: two rows of one import, one for an app (i1) and one
\* without a URL (i3).
EXTENDS ImportQueue, TLC

CONSTANTS i1, i3, m1, a1

OneImport == [i \in Items |-> m1]
AppAndNone == i1 :> a1 @@ i3 :> NoApp
=============================================================================
