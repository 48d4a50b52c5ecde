---------------------------- MODULE ImportQueue ----------------------------
(***************************************************************************)
(* The import queue of privacytracker: the rows of an onboarding import    *)
(* whose App Store page is still to be scraped.  A tick, from the 60 s     *)
(* timer or the "Retry queue now" button, takes a lock, claims the rows    *)
(* that are due, and scrapes them one by one; a click on a row's own retry *)
(* scrapes it without lock or claim.  Meanwhile the user deletes apps and  *)
(* imports, the archive of locks ages, and the process dies.               *)
(*                                                                         *)
(* A scrape reads whether the app is there, hands its writes to the write  *)
(* worker (another thread, one transaction) and records the outcome on the *)
(* row when the worker has answered.  Main-thread actions are synchronous  *)
(* slices between awaits; the write worker's commit is not bound to them.  *)
(*                                                                         *)
(* Left out: retries of the name search (pending_search rows), "Change     *)
(* match", and the rows' display fields.  Attempt counters only lengthen   *)
(* back-off, which here is any time.  Which due rows a batch takes first   *)
(* is left open.                                                           *)
(*                                                                         *)
(* A definition whose name extends the next one's (PickSkipping, then      *)
(* Pick) is that definition with a plausible mistake in it; no action uses *)
(* it.                                                                     *)
(***************************************************************************)
EXTENDS Integers, FiniteSets

CONSTANTS
    Items,       \* rows of import_items
    Imports,     \* rows of imports
    Apps,        \* App Store ids
    NoApp,       \* app_id, or the URL of a row, is null
    ImportOf,    \* Items -> Imports
    Target,      \* Items -> Apps: the app a row's URL names, if it has one
    Ticks,       \* activations of the queue worker one process may hold
    Clicks,      \* activations of a row's own retry
    Batch,       \* BATCH_SIZE
    MaxPresses,  \* bound: presses of "Retry queue now" and of a row's own retry
    MaxLimits,   \* bound: 429 answers
    MaxCrashes   \* bound: process deaths

Workers == Ticks \cup Clicks

ASSUME FiniteAssumption == IsFiniteSet(Items)
ASSUME RowsAssumption == ImportOf \in [Items -> Imports] /\ Target \in [Items -> Apps \cup {NoApp}]
ASSUME NoAppAssumption == NoApp \notin Apps \cup Items
ASSUME WorkersAssumption == Ticks \cap Clicks = {}
ASSUME BoundsAssumption == {MaxPresses, MaxLimits, MaxCrashes} \subseteq Nat /\ Batch \in Nat \ {0}

VARIABLES
    up,         \* the server process runs
    apps,       \* rows of apps
    rows,       \* import_items: status, app_id, next_attempt_at
    completed,  \* imports whose completed_at is set
    running,    \* import_queue_running = "true"
    overdue,    \* import_queue_running_since is more than 90 s ago
    paused,     \* import_queue_paused_until is ahead
    pc,         \* where each worker is
    todo,       \* claimed rows a tick has not begun
    item,       \* row a worker scrapes
    isNew,      \* what its scrape read of the app's row
    presses, limits, crashes

lock == <<running, overdue>>
work == <<todo, item, isNew>>
bounds == <<presses, limits, crashes>>
vars == <<up, apps, rows, completed, lock, paused, pc, work, bounds>>

Statuses == {"absent", "queued", "imported", "error", "removed"}

\* "claimed" is the ten-minute fence of a claim, "later" a retry's back-off.
Rows == [status : Statuses, app : Apps \cup {NoApp}, next : {"now", "claimed", "later"}]

Awaiting == {"loading", "fetching", "writing", "committed", "refused"}

TypeOK ==
    /\ up \in BOOLEAN
    /\ apps \subseteq Apps
    /\ rows \in [Items -> Rows]
    /\ completed \subseteq Imports
    /\ running \in BOOLEAN
    /\ overdue \in BOOLEAN
    /\ paused \in BOOLEAN
    /\ pc \in [Workers -> {"idle", "next"} \cup Awaiting]
    /\ todo \in [Workers -> SUBSET Items]
    /\ item \in [Workers -> Items \cup {NoApp}]
    /\ isNew \in [Workers -> BOOLEAN]
    /\ bounds \in Nat \X Nat \X Nat

-----------------------------------------------------------------------------
\* No handler is inside a synchronous slice.
Yielded == up /\ \A w \in Workers : pc[w] # "next"

Goto(w, l) == pc' = [pc EXCEPT ![w] = l]

Exists(i) == rows[i].status # "absent"

\* resolveSafeAppId: app_id only ever names an app that is there.
SafeApp(a) == IF a \in apps THEN a ELSE NoApp

CompletesAnyway(i, r) ==
    completed' = IF Exists(i) THEN completed \cup {ImportOf[i]} ELSE completed

CompletesBefore(i, r) ==
    completed' = IF Exists(i) /\ \A j \in Items : ImportOf[j] = ImportOf[i]
                                                    => rows[j].status # "queued"
                 THEN completed \cup {ImportOf[i]} ELSE completed

\* completeImportIfSettled, over the rows as just written.
CompletesWith(i, r) ==
    completed' = IF Exists(i) /\ \A j \in Items : ImportOf[j] = ImportOf[i]
                                                    => r[j].status # "queued"
                 THEN completed \cup {ImportOf[i]} ELSE completed

Write(i, row) ==
    rows' = [rows EXCEPT ![i] = IF Exists(i) THEN row ELSE @]

WriteSuccess(i) ==
    Write(i, [status |-> "imported", app |-> SafeApp(Target[i]), next |-> "now"])

WriteError(i) == Write(i, [rows[i] EXCEPT !.status = "error", !.next = "now"])

RecordSuccess(i) == WriteSuccess(i) /\ CompletesWith(i, rows')

RecordError(i) == WriteError(i) /\ CompletesWith(i, rows')

RecordRetry(i) ==
    /\ Write(i, [rows[i] EXCEPT !.status = "queued", !.next = "later"])
    /\ UNCHANGED completed

-----------------------------------------------------------------------------
(***************************************************************************)
(* A tick: pause fence, lock, claim.                                       *)
(***************************************************************************)
LockIsFree == ~running \/ overdue

Take(w) ==
    /\ running' = TRUE
    /\ overdue' = FALSE
    /\ Goto(w, "loading")

Tick(w) ==
    /\ Yielded
    /\ pc[w] = "idle"
    /\ ~paused
    /\ LockIsFree
    /\ Take(w)
    /\ UNCHANGED <<up, apps, rows, completed, paused, work, bounds>>

\* "Retry queue now": every queued row is due at once, claimed or not, and a
\* tick is tried.
ForceTick(w) ==
    /\ Yielded
    /\ pc[w] = "idle"
    /\ presses < MaxPresses
    /\ presses' = presses + 1
    /\ paused' = FALSE
    /\ rows' = [i \in Items |-> IF rows[i].status = "queued"
                                THEN [rows[i] EXCEPT !.next = "now"] ELSE rows[i]]
    /\ IF LockIsFree THEN Take(w) ELSE UNCHANGED <<lock, pc>>
    /\ UNCHANGED <<up, apps, completed, work, limits, crashes>>

DueThoughClaimed == {i \in Items : rows[i].status = "queued" /\ rows[i].next # "later"}
Due == {i \in Items : rows[i].status = "queued" /\ rows[i].next = "now"}

\* claimQueuedBatch, after the scraper module has loaded.
Claim(w) ==
    /\ pc[w] = "loading"
    /\ Yielded
    /\ \E batch \in SUBSET Due :
          /\ Cardinality(batch) = IF Cardinality(Due) < Batch THEN Cardinality(Due) ELSE Batch
          /\ rows' = [i \in Items |-> IF i \in batch
                                      THEN [rows[i] EXCEPT !.next = "claimed"] ELSE rows[i]]
          /\ todo' = [todo EXCEPT ![w] = batch]
    /\ Goto(w, "next")
    /\ UNCHANGED <<up, apps, completed, lock, paused, item, isNew, bounds>>

PickSkipping(w, i) ==
    /\ pc[w] = "next"
    /\ i \in todo[w]
    /\ todo' = [todo EXCEPT ![w] = @ \ {i}]
    /\ IF Target[i] = NoApp
       THEN UNCHANGED <<pc, item>>
       ELSE /\ item' = [item EXCEPT ![w] = i]
            /\ Goto(w, "fetching")
    /\ UNCHANGED <<up, apps, rows, completed, lock, paused, isNew, bounds>>

\* The next claimed row; one without a URL is an error at once.
Pick(w, i) ==
    /\ pc[w] = "next"
    /\ i \in todo[w]
    /\ todo' = [todo EXCEPT ![w] = @ \ {i}]
    /\ IF Target[i] = NoApp
       THEN /\ RecordError(i)
            /\ UNCHANGED <<pc, item>>
       ELSE /\ item' = [item EXCEPT ![w] = i]
            /\ Goto(w, "fetching")
            /\ UNCHANGED <<rows, completed>>
    /\ UNCHANGED <<up, apps, lock, paused, isNew, bounds>>

\* The finally of the tick drops the lock, whoever holds it by now.
Finish(w) ==
    /\ pc[w] = "next"
    /\ todo[w] = {}
    /\ running' = FALSE
    /\ Goto(w, "idle")
    /\ UNCHANGED <<up, apps, rows, completed, overdue, paused, work, bounds>>

\* The retry button of one row, claimed or not.  The page that shows it may be
\* old: the handler takes a row whatever has become of it, removed or imported.
\* A row without a URL is an error at once.
Click(w, i) ==
    /\ Yielded
    /\ pc[w] = "idle"
    /\ Exists(i)
    /\ presses < MaxPresses
    /\ presses' = presses + 1
    /\ IF Target[i] = NoApp
       THEN /\ RecordError(i)
            /\ UNCHANGED <<pc, item>>
       ELSE /\ item' = [item EXCEPT ![w] = i]
            /\ Goto(w, "fetching")
            /\ UNCHANGED <<rows, completed>>
    /\ UNCHANGED <<up, apps, lock, paused, todo, isNew, limits, crashes>>

-----------------------------------------------------------------------------
(***************************************************************************)
(* The scrape of one row.                                                  *)
(***************************************************************************)

\* After the row's outcome a tick goes on, a click ends.
Onward(w) == IF w \in Ticks THEN "next" ELSE "idle"
Done(w) ==
    /\ Goto(w, Onward(w))
    /\ item' = [item EXCEPT ![w] = NoApp]
    /\ isNew' = [isNew EXCEPT ![w] = FALSE]

\* The page is parsed, and whether the app exists is read.
Parsed(w) ==
    /\ pc[w] = "fetching"
    /\ Yielded
    /\ isNew' = [isNew EXCEPT ![w] = Target[item[w]] \notin apps]
    /\ Goto(w, "writing")
    /\ UNCHANGED <<up, apps, rows, completed, lock, paused, todo, item, bounds>>

FetchFails(w) ==
    /\ pc[w] = "fetching"
    /\ Yielded
    /\ RecordError(item[w])
    /\ Done(w)
    /\ UNCHANGED <<up, apps, lock, paused, todo, bounds>>

\* A 429 ends the tick; the rest of the batch keeps its claim fence.
Limited(w) ==
    /\ pc[w] = "fetching"
    /\ Yielded
    /\ limits < MaxLimits
    /\ limits' = limits + 1
    /\ RecordRetry(item[w])
    /\ item' = [item EXCEPT ![w] = NoApp]
    /\ todo' = [todo EXCEPT ![w] = {}]
    /\ Goto(w, "idle")
    /\ IF w \in Ticks
       THEN paused' = TRUE /\ running' = FALSE
       ELSE UNCHANGED <<paused, running>>
    /\ UNCHANGED <<up, apps, overdue, isNew, presses, crashes>>

\* The worker's transaction: INSERT of a new app fails if it has come, the
\* children of a known one fail if it has gone.
Commit(w) ==
    /\ pc[w] = "writing"
    /\ LET a == Target[item[w]] IN
       IF isNew[w] = (a \notin apps)
       THEN apps' = apps \cup {a} /\ Goto(w, "committed")
       ELSE UNCHANGED apps /\ Goto(w, "refused")
    /\ UNCHANGED <<up, rows, completed, lock, paused, work, bounds>>

Record(w) ==
    /\ Yielded
    /\ \/ pc[w] = "committed" /\ RecordSuccess(item[w])
       \/ pc[w] = "refused" /\ RecordError(item[w])
    /\ Done(w)
    /\ UNCHANGED <<up, apps, lock, paused, todo, bounds>>

-----------------------------------------------------------------------------
(***************************************************************************)
(* The user, the clock, and the process.                                   *)
(***************************************************************************)

\* markImportItemsRemovedForApp, then the delete with its ON DELETE SET NULL.
DeleteApp(a) ==
    /\ Yielded
    /\ a \in apps
    /\ apps' = apps \ {a}
    /\ rows' = [i \in Items |-> IF rows[i].app = a
                                THEN [rows[i] EXCEPT !.status = "removed", !.app = NoApp]
                                ELSE rows[i]]
    /\ UNCHANGED <<up, completed, lock, paused, pc, work, bounds>>

\* deleteImport, keeping or removing the apps it brought in.
DeleteImport(m) ==
    /\ Yielded
    /\ \E gone \in {{}, {rows[i].app : i \in {i \in Items : ImportOf[i] = m}} \ {NoApp}} :
          /\ apps' = apps \ gone
          /\ rows' = [i \in Items |->
                        IF ImportOf[i] = m
                        THEN [status |-> "absent", app |-> NoApp, next |-> "now"]
                        ELSE IF rows[i].app \in gone THEN [rows[i] EXCEPT !.app = NoApp]
                        ELSE rows[i]]
    /\ UNCHANGED <<up, completed, lock, paused, pc, work, bounds>>

\* Ninety seconds pass in one tick: ten rows of up to fifteen seconds each.
LockAges ==
    /\ running
    /\ ~overdue
    /\ overdue' = TRUE
    /\ UNCHANGED <<up, apps, rows, completed, running, paused, pc, work, bounds>>

\* A back-off ends, or the fence of a claim no live tick still holds: a tick is
\* taken to end within ten minutes.
FenceElapses(i) ==
    /\ rows[i].next # "now"
    /\ rows[i].next = "claimed" => \A w \in Ticks : i # item[w] /\ i \notin todo[w]
    /\ rows' = [rows EXCEPT ![i].next = "now"]
    /\ UNCHANGED <<up, apps, completed, lock, paused, pc, work, bounds>>

PauseElapses ==
    /\ paused
    /\ paused' = FALSE
    /\ UNCHANGED <<up, apps, rows, completed, lock, pc, work, bounds>>

\* An outcome is two writes: the row's, and the one that may complete the import.
Torn(w) ==
    \/ Yielded /\ pc[w] = "committed" /\ WriteSuccess(item[w])
    \/ Yielded /\ pc[w] \in {"fetching", "refused"} /\ WriteError(item[w])
    \/ pc[w] = "next" /\ \E i \in todo[w] : Target[i] = NoApp /\ WriteError(i)

\* The process dies, perhaps between the two.
Crash ==
    /\ up
    /\ crashes < MaxCrashes
    /\ crashes' = crashes + 1
    /\ up' = FALSE
    /\ pc' = [w \in Workers |-> "idle"]
    /\ todo' = [w \in Workers |-> {}]
    /\ item' = [w \in Workers |-> NoApp]
    /\ isNew' = [w \in Workers |-> FALSE]
    /\ UNCHANGED rows \/ \E w \in Workers : Torn(w)
    /\ UNCHANGED <<apps, completed, lock, paused, presses, limits>>

\* The boot clears the lock: no tick can be alive.
Boot ==
    /\ ~up
    /\ up' = TRUE
    /\ running' = FALSE
    /\ UNCHANGED <<apps, rows, completed, overdue, paused, pc, work, bounds>>

Fetched(w) == Parsed(w) \/ FetchFails(w) \/ Limited(w)

Runs(w) ==
    \/ Claim(w)
    \/ \E i \in Items : Pick(w, i)
    \/ Finish(w)
    \/ Fetched(w)
    \/ Commit(w)
    \/ Record(w)

Next ==
    \/ \E w \in Ticks : Tick(w) \/ ForceTick(w)
    \/ \E w \in Clicks, i \in Items : Click(w, i)
    \/ \E w \in Workers : Runs(w)
    \/ \E a \in Apps : DeleteApp(a)
    \/ \E m \in Imports : DeleteImport(m)
    \/ LockAges
    \/ \E i \in Items : FenceElapses(i)
    \/ PauseElapses
    \/ Crash
    \/ Boot

Init ==
    /\ up = TRUE
    /\ apps \in SUBSET Apps
    /\ rows = [i \in Items |-> [status |-> "queued", app |-> SafeApp(Target[i]),
                                next |-> "now"]]
    /\ completed = {}
    /\ running = FALSE
    /\ overdue = FALSE
    /\ paused = FALSE
    /\ pc = [w \in Workers |-> "idle"]
    /\ todo = [w \in Workers |-> {}]
    /\ item = [w \in Workers |-> NoApp]
    /\ isNew = [w \in Workers |-> FALSE]
    /\ presses = 0
    /\ limits = 0
    /\ crashes = 0

Spec == Init /\ [][Next]_vars

\* Awaits are answered and their callbacks run in turn: the slices of other
\* workers, which come and go, put one off but never forever (SF).  The 60 s
\* timer fires, time passes, and a dead server is started again.  Nothing the
\* user does is owed.
Fairness ==
    /\ \A w \in Workers : SF_vars(Runs(w))
    /\ WF_vars(\E w \in Ticks : Tick(w))
    /\ \A i \in Items : WF_vars(FenceElapses(i))
    /\ WF_vars(PauseElapses)
    /\ WF_vars(LockAges)
    /\ WF_vars(Boot)

FairSpec == Spec /\ Fairness

-----------------------------------------------------------------------------
\* No retry button has been pressed (primed: nor is, in this step): both lift or
\* pass over the fence of a row that is being worked on.
Unhurried == presses = 0

Holds(w, i) == i = item[w] \/ i \in todo[w]

\* No row is claimed by two ticks at once, although a slow tick loses the lock
\* to the next one after ninety seconds (import-queue.ts: the claim pushes the
\* row out "so a second tick can't double-grab").
NoDoubleGrab ==
    Unhurried =>
    \A v, w \in Ticks, i \in Items : Holds(v, i) /\ Holds(w, i) => v = w

\* A row whose scrape has settled is not turned back by a later scrape.
OutcomeKept ==
    [][ Unhurried' => \A i \in Items :
          /\ rows[i].status = "imported" => rows'[i].status \in {"imported", "removed", "absent"}
          /\ rows[i].status = "error" => rows'[i].status \in {"error", "removed", "absent"} ]_vars

\* An import is completed when no row of it waits, and none waits again after,
\* but for a removed one a scrape in flight brings back.
CompletedStaysSettled ==
    [][ Unhurried' => \A i \in Items :
          ImportOf[i] \in completed' /\ rows'[i].status = "queued"
              => \/ rows[i].status = "removed"
                 \/ ImportOf[i] \in completed /\ rows[i].status = "queued" ]_vars

\* An import of which a row is settled and none waits is completed, whoever
\* scraped the last of them and whatever was throttled or deleted meanwhile, unless
\* a row of it was removed: that way out of the queue does not call
\* completeImportIfSettled (lib/imports.ts:1331).  Nor does a process that dies
\* between the two writes of an outcome.
OpenOnlyByARemoval ==
    crashes = 0 =>
    \A i \in Items :
        rows[i].status \in {"imported", "error"} =>
            \/ ImportOf[i] \in completed
            \/ \E j \in Items : /\ ImportOf[j] = ImportOf[i]
                                /\ rows[j].status \in {"queued", "removed"}

\* Every queued row is settled in the end, through throttling and crashes.
QueueDrains == \A i \in Items : rows[i].status = "queued" ~> rows[i].status # "queued"
=============================================================================
