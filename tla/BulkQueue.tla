----------------------------- MODULE BulkQueue -----------------------------
(***************************************************************************)
(* What every bulk job of privacytracker promises, whichever process runs  *)
(* it and however often that process dies: a run is a set of items, each   *)
(* item is worked on by one worker at a time, an item that is settled is   *)
(* never worked on again in the same run, and a run is only given up when  *)
(* nobody is working on it.  It is the specification that the sync, policy *)
(* and Wayback runners implement.                                          *)
(***************************************************************************)
CONSTANT Items

VARIABLES
    open,     \* is there a run?
    todo,     \* items of the run not settled yet
    settled,  \* items of the run that are settled
    work      \* items somebody is fetching at this moment

vars == <<open, todo, settled, work>>

TypeOK ==
    /\ open \in BOOLEAN
    /\ todo \subseteq Items
    /\ settled \subseteq Items
    /\ work \subseteq Items

Init ==
    /\ open = FALSE
    /\ todo = {}
    /\ settled = {}
    /\ work = {}

Open(S) ==
    /\ ~open
    /\ open' = TRUE
    /\ todo' = S
    /\ settled' = {}
    /\ UNCHANGED work

Take(i) ==
    /\ open
    /\ i \in todo
    /\ work = {}
    /\ work' = {i}
    /\ UNCHANGED <<open, todo, settled>>

\* The item is done, failed or skipped; only the worker on it may say so.
Settle(i) ==
    /\ open
    /\ i \in todo
    /\ work \subseteq {i}
    /\ todo' = todo \ {i}
    /\ settled' = settled \cup {i}
    /\ work' = {}
    /\ UNCHANGED open

\* The worker dies; its item stays to be done.
Drop ==
    /\ work # {}
    /\ work' = {}
    /\ UNCHANGED <<open, todo, settled>>

\* The run ends, completed or given up, and only while nobody works on it.
Close ==
    /\ open
    /\ work = {}
    /\ open' = FALSE
    /\ todo' = {}
    /\ settled' = {}
    /\ UNCHANGED work

Next ==
    \/ \E S \in SUBSET Items : Open(S)
    \/ \E i \in Items : Take(i) \/ Settle(i)
    \/ Drop
    \/ Close

Spec == Init /\ [][Next]_vars
=============================================================================
