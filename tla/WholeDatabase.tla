--------------------------- MODULE WholeDatabase ---------------------------
(***************************************************************************)
(* What replaces or empties the whole database of privacytracker, and the  *)
(* work in flight it meets: the restore of a backup, "Delete everything",  *)
(* and the jobs that hold a lock in app_settings (which a backup carries   *)
(* along and a restore puts back) while they await the network.            *)
(*                                                                         *)
(* A job is seen from outside here: one action is all that one handler or  *)
(* runner does between two awaits, its lock is set or not, and its stored  *)
(* queue is a mark.  SyncBulk, PolicyBulk, WaybackBulk and ImportQueue     *)
(* have the jobs in detail.  `late`, `wiped` and `spoiled` are history.    *)
(*                                                                         *)
(* A definition whose name extends the next one's is that definition with  *)
(* a plausible mistake in it; no action uses it.                           *)
(***************************************************************************)
EXTENDS Integers, FiniteSets

CONSTANTS
    Apps,        \* ids of apps rows
    Workers,     \* entries of the registry of live work (database-work.ts)
    Bulk,        \* the bulk jobs: sync, policy and wayback
    MaxBackups,  \* bound: different backups kept
    MaxCrashes,  \* bound: process deaths
    MaxFaults    \* bound: runs thrown out by a failed write

ASSUME AppsAssumption == IsFiniteSet(Apps)
\* The jobs whose treatment differs; a small instance may do without policy.
ASSUME BulkAssumption == {"sync", "wayback"} \subseteq Bulk
ASSUME JobsAssumption == Bulk \cap {"import", "single", "none"} = {}
ASSUME BoundsAssumption == {MaxBackups, MaxCrashes, MaxFaults} \subseteq Nat

VARIABLES
    apps,     \* ids in the apps table
    lock,     \* the *_running settings
    queue,    \* the stored queue of each bulk job
    work,     \* what each worker is doing
    checks,   \* bulk jobs whose resume check has yet to run since the boot
    up,       \* the process runs
    upload,   \* a restore request was let in and its body is arriving
    backups,  \* the backups on file
    late,     \* workers a restore has replaced the database under
    wiped,    \* workers a wipe has emptied the database under
    spoiled,  \* jobs that have, or had beside them, such a worker
    crashes, faults

database == <<apps, lock, queue>>
process == <<work, checks, up, upload, late, wiped, spoiled>>
bounds == <<crashes, faults>>
vars == <<database, process, backups, bounds>>

\* What has a lock, and all registered work; a "single" is the scrape, policy or
\* history request for one app.
Locks == Bulk \cup {"import"}
Works == Locks \cup {"single"}

\* No queue, apps to do, none left to do, or put aside by the user.
Queues == {"none", "todo", "done", "aside"}

Backup == [apps : SUBSET Apps, lock : [Locks -> BOOLEAN], queue : [Bulk -> Queues]]

TypeOK ==
    /\ apps \subseteq Apps
    /\ lock \in [Locks -> BOOLEAN]
    /\ queue \in [Bulk -> Queues]
    /\ work \in [Workers -> Works \cup {"none"}]
    /\ checks \subseteq Bulk
    /\ up \in BOOLEAN
    /\ upload \in BOOLEAN
    /\ backups \subseteq Backup
    /\ late \subseteq Workers
    /\ wiped \subseteq Workers
    /\ spoiled \subseteq Works
    /\ crashes \in Nat
    /\ faults \in Nat

-----------------------------------------------------------------------------
Live == {w \in Workers : work[w] # "none"}
On(j) == {w \in Workers : work[w] = j}
Free(w) == up /\ work[w] = "none"

Take(w, j) ==
    /\ work' = [work EXCEPT ![w] = j]
    /\ UNCHANGED <<up, upload, late, wiped, spoiled>>

\* What the registry and the history forget when workers end.
Leave(S) ==
    LET left == [w \in Workers |-> IF w \in S THEN "none" ELSE work[w]] IN
    /\ work' = left
    /\ late' = late \ S
    /\ wiped' = wiped \ S
    /\ spoiled' = {j \in spoiled : \E w \in Workers : left[w] = j}

-----------------------------------------------------------------------------
\* A bulk job starts fresh, by a button, the scheduler or a timer.
Start(w, j) ==
    /\ Free(w)
    /\ ~lock[j]
    /\ queue[j] = "none"
    /\ apps # {}
    /\ Take(w, j)
    /\ lock' = [lock EXCEPT ![j] = TRUE]
    /\ queue' = [queue EXCEPT ![j] = "todo"]
    /\ UNCHANGED <<apps, checks, backups, bounds>>

\* "Resume queue" of the Wayback import.
ResumeQueue(w) ==
    /\ Free(w)
    /\ ~lock["wayback"]
    /\ queue["wayback"] \in {"todo", "aside"}
    /\ Take(w, "wayback")
    /\ lock' = [lock EXCEPT !["wayback"] = TRUE]
    /\ queue' = [queue EXCEPT !["wayback"] = "todo"]
    /\ UNCHANGED <<apps, checks, backups, bounds>>

\* A pause or cancel asked for while the lock is held, and either of them, or
\* the force restart, when it is not.
PutAside ==
    /\ up
    /\ queue["wayback"] # "none"
    /\ queue' = [queue EXCEPT !["wayback"] = "aside"]
    /\ UNCHANGED <<apps, lock, process, backups, bounds>>

Discard ==
    /\ up
    /\ lock["wayback"] => queue["wayback"] = "none"
    /\ queue' = [queue EXCEPT !["wayback"] = "none"]
    /\ lock' = [lock EXCEPT !["wayback"] = FALSE]
    /\ UNCHANGED <<apps, process, backups, bounds>>

\* An import tick; a lock older than its 90 seconds is passed over.
Tick(w) ==
    /\ Free(w)
    /\ Take(w, "import")
    /\ lock' = [lock EXCEPT !["import"] = TRUE]
    /\ UNCHANGED <<apps, queue, checks, backups, bounds>>

Single(w) ==
    /\ Free(w)
    /\ Take(w, "single")
    /\ UNCHANGED <<database, checks, backups, bounds>>

\* A scrape returned from its awaits: the app is updated, or inserted.
Scraped(w, a) ==
    /\ work[w] \in {"sync", "import", "single"}
    /\ apps' = apps \cup {a}
    /\ UNCHANGED <<lock, queue, process, backups, bounds>>

\* A runner writes the queue it holds in memory.
Persist(w) ==
    /\ work[w] \in Bulk
    /\ queue' = [queue EXCEPT ![work[w]] = "todo"]
    /\ UNCHANGED <<apps, lock, process, backups, bounds>>

\* The work is done, or cancelled; a bulk job clears queue and lock.
Finish(w) ==
    /\ work[w] # "none"
    /\ lock' = [j \in Locks |-> lock[j] /\ j # work[w]]
    /\ queue' = [j \in Bulk |-> IF j = work[w] THEN "none" ELSE queue[j]]
    /\ Leave({w})
    /\ UNCHANGED <<apps, checks, up, upload, backups, bounds>>

\* A Wayback run stops with its queue kept.
Park(w) ==
    /\ work[w] = "wayback"
    /\ lock' = [lock EXCEPT !["wayback"] = FALSE]
    /\ queue' = [queue EXCEPT !["wayback"] = "aside"]
    /\ Leave({w})
    /\ UNCHANGED <<apps, checks, up, upload, backups, bounds>>

\* A write throws out of a bulk run: lock and queue stay.
Throw(w, q) ==
    /\ work[w] \in Bulk
    /\ faults < MaxFaults
    /\ faults' = faults + 1
    /\ queue' = [queue EXCEPT ![work[w]] = q]
    /\ Leave({w})
    /\ UNCHANGED <<apps, lock, checks, up, upload, backups, crashes>>

-----------------------------------------------------------------------------
\* exportBackup, by a download or a snapshot: one read transaction, whatever
\* is running.
Export ==
    /\ up
    /\ Cardinality(backups) < MaxBackups
    /\ backups' = backups \cup {[apps |-> apps, lock |-> lock, queue |-> queue]}
    /\ UNCHANGED <<database, process, bounds>>

\* assertRestoreIdle.
IdleByLocks == \A j \in Locks : ~lock[j]
Idle == (\A j \in Locks : ~lock[j]) /\ Live = {}

AskRestore ==
    /\ up
    /\ ~upload
    /\ Idle
    /\ upload' = TRUE
    /\ UNCHANGED <<database, work, checks, up, late, wiped, spoiled, backups, bounds>>

\* The tables become those of the backup, locks and queues included.
Replace(b) ==
    /\ apps' = b.apps
    /\ lock' = b.lock
    /\ queue' = b.queue
    /\ late' = late \cup Live
    /\ upload' = FALSE
    /\ UNCHANGED <<work, checks, up, wiped, spoiled, backups, bounds>>

RestoreWithoutRecheck(b) == upload /\ Replace(b)

\* The body has arrived; what may have begun meanwhile is looked at again.
Restore(b) == upload /\ Idle /\ Replace(b)

\* It is busy, or the body is no backup, or not one of this install.
RefuseRestore ==
    /\ upload
    /\ upload' = FALSE
    /\ UNCHANGED <<database, work, checks, up, late, wiped, spoiled, backups, bounds>>

\* /api/reset and /api/admin/start-over: only a sync is waited for.
Wipe ==
    /\ up
    /\ ~lock["sync"]
    /\ apps' = {}
    /\ lock' = [j \in Locks |-> FALSE]
    /\ queue' = [j \in Bulk |-> "none"]
    /\ wiped' = wiped \cup Live
    /\ spoiled' = spoiled \cup {work[w] : w \in Live}
    /\ UNCHANGED <<work, checks, up, upload, late, backups, bounds>>

-----------------------------------------------------------------------------
\* The process dies, between two awaits or amid the writes of a handler: then
\* a lock may be left with no queue.
Crash(S) ==
    /\ up
    /\ crashes < MaxCrashes
    /\ crashes' = crashes + 1
    /\ up' = FALSE
    /\ upload' = FALSE
    /\ checks' = {}
    /\ S \subseteq {j \in Bulk : On(j) # {}}
    /\ queue' = [j \in Bulk |-> IF j \in S THEN "none" ELSE queue[j]]
    /\ Leave(Workers)
    /\ UNCHANGED <<apps, lock, backups, faults>>

\* The import lock of the dead process is cleared at once.
Boot ==
    /\ ~up
    /\ up' = TRUE
    /\ checks' = Bulk
    /\ lock' = [lock EXCEPT !["import"] = FALSE]
    /\ UNCHANGED <<apps, queue, work, upload, late, wiped, spoiled, backups, bounds>>

\* The resume check of a job: it is live or there is nothing, its queue is
\* taken over, or what is left of it is freed.
CheckNothing(j) ==
    /\ j \in checks
    /\ On(j) # {} \/ (~lock[j] /\ queue[j] = "none")
    /\ checks' = checks \ {j}
    /\ UNCHANGED <<database, work, up, upload, late, wiped, spoiled, backups, bounds>>

CheckResumes(w, j) ==
    /\ Free(w)
    /\ j \in checks
    /\ On(j) = {}
    /\ queue[j] = "todo"
    /\ checks' = checks \ {j}
    /\ Take(w, j)
    /\ lock' = [lock EXCEPT ![j] = TRUE]
    /\ UNCHANGED <<apps, queue, backups, bounds>>

\* A policy queue is dropped too when scraping has been disabled, and a paused
\* Wayback queue is kept for the user where a cancelled one is not.
CheckFrees(j, q) ==
    /\ j \in checks
    /\ On(j) = {}
    /\ lock[j] \/ queue[j] # "none"
    /\ queue[j] = "todo" => j = "policy"
    /\ q = "none" \/ (j = "wayback" /\ q = "aside" /\ queue[j] = "aside")
    /\ checks' = checks \ {j}
    /\ lock' = [lock EXCEPT ![j] = FALSE]
    /\ queue' = [queue EXCEPT ![j] = q]
    /\ UNCHANGED <<apps, work, up, upload, late, wiped, spoiled, backups, bounds>>

HealthCheckHasty(j) ==
    /\ up
    /\ lock[j]
    /\ queue[j] # "aside"
    /\ lock' = [lock EXCEPT ![j] = FALSE]
    /\ queue' = [queue EXCEPT ![j] = "none"]
    /\ UNCHANGED <<apps, process, backups, bounds>>

\* runHealthCheck: a lock with nothing left to do, or without a write for
\* hours, which no live run goes without.
HealthCheck(j) ==
    /\ up
    /\ lock[j]
    /\ queue[j] # "aside"
    /\ queue[j] = "todo" => On(j) = {}
    /\ lock' = [lock EXCEPT ![j] = FALSE]
    /\ queue' = [queue EXCEPT ![j] = "none"]
    /\ UNCHANGED <<apps, process, backups, bounds>>

-----------------------------------------------------------------------------
Init ==
    /\ apps = {}
    /\ lock = [j \in Locks |-> FALSE]
    /\ queue = [j \in Bulk |-> "none"]
    /\ work = [w \in Workers |-> "none"]
    /\ checks = {}
    /\ up = TRUE
    /\ upload = FALSE
    /\ backups = {}
    /\ late = {}
    /\ wiped = {}
    /\ spoiled = {}
    /\ crashes = 0
    /\ faults = 0

Working(w) ==
    \/ \E j \in Bulk : Start(w, j)
    \/ ResumeQueue(w)
    \/ Tick(w)
    \/ Single(w)
    \/ \E a \in Apps : Scraped(w, a)
    \/ Persist(w)
    \/ Finish(w)
    \/ Park(w)
    \/ \E q \in Queues : Throw(w, q)

Whole ==
    \/ Export
    \/ AskRestore
    \/ \E b \in backups : Restore(b)
    \/ RefuseRestore
    \/ Wipe

Healing ==
    \/ \E S \in SUBSET Bulk : Crash(S)
    \/ Boot
    \/ \E j \in Bulk :
         \/ CheckNothing(j)
         \/ \E w \in Workers : CheckResumes(w, j)
         \/ \E q \in Queues : CheckFrees(j, q)
         \/ HealthCheck(j)

Next ==
    \/ \E w \in Workers : Working(w)
    \/ PutAside
    \/ Discard
    \/ Whole
    \/ Healing

Spec == Init /\ [][Next]_vars

-----------------------------------------------------------------------------
\* No work that began before a restore still runs after it, so nothing of the
\* replaced database is written into the restored one, with or without a lock
\* (lib/backup.ts:460).
NoLateWriter == late = {}

\* However locks and queues are put back, freed or taken over, two runners of
\* one bulk job never work side by side, unless "Delete everything" took the
\* lock from under one of them (lib/backup.ts:462: the locks of a backup
\* replace the live ones).
OneRunPerJob ==
    \A j \in Bulk \ spoiled : \A v, w \in On(j) : v = w

\* A wipe waits for the sync it asks about: no sync runs on over an emptied
\* database (app/api/reset/route.ts:78).
SyncOutlivesNoWipe == "sync" \notin spoiled

\* After "Delete everything" no app comes back but by work begun since.
NothingComesBack ==
    [][\A w \in Workers, a \in Apps : Scraped(w, a) => w \notin wiped]_vars
=============================================================================
