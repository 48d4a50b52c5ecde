------------------------------ MODULE SyncBulk ------------------------------
(***************************************************************************)
(* The bulk App Store label sync of privacytracker: the durable queue in   *)
(* app_settings (sync_bulk_state) and its lock (sync_running), the runner  *)
(* that walks the queue, the manual trigger and the scheduler that start   *)
(* it, the boot-time check that resumes what a dead process left, and the  *)
(* health check that clears a dead lock.                                   *)
(*                                                                         *)
(* One action is one synchronous slice of the Node event loop up to its    *)
(* next SQLite write: SQLite is synchronous and each write is durable, so  *)
(* a process can die between any two of them, but no other handler runs    *)
(* before the slice reaches an await (Yielded).                            *)
(*                                                                         *)
(* A definition whose name extends the next one's (SyncLiveForgotten, then *)
(* SyncLive) is that definition with a plausible mistake in it; no action  *)
(* uses it, it serves to show which property notices the mistake.          *)
(***************************************************************************)
EXTENDS Integers, FiniteSets

CONSTANTS
    Apps,        \* ids of rows of the apps table
    Runners,     \* activations of runBulkSync one process may hold
    RunIds,      \* values of the runId uuid
    NoBlob,      \* sync_bulk_state is absent
    NoApp,       \* currentAppId is null
    MaxCrashes,  \* bound: process deaths
    MaxLimits,   \* bound: 429 answers from Apple
    MaxFaults    \* bound: SQLite writes that throw

\* The apps table is finite.
ASSUME AppsAssumption == IsFiniteSet(Apps)
ASSUME BoundsAssumption == {MaxCrashes, MaxLimits, MaxFaults} \subseteq Nat

VARIABLES
    apps,       \* app rows that exist and have a URL
    mutex,      \* app_settings.sync_running = "true"
    blob,       \* app_settings.sync_bulk_state
    stale,      \* blob.updatedAt is older than the health check's margin
    due,        \* the schedule's interval has passed since last_auto_sync
    boot,       \* the process and its one-shot resume check
    pc,         \* where each runner is
    mem,        \* the run state each runner holds in memory
    policyDue,  \* a post-sync policy fetch is on this process's timer
    crashes, limits, faults

disk == <<mutex, blob, stale>>
bounds == <<crashes, limits, faults>>
vars == <<apps, disk, due, boot, pc, mem, policyDue, bounds>>

Initiators == {"manual", "scheduled", "resume"}

\* An entry's status and, once it is settled, its outcome.
Done == {"succeeded", "changed", "skipped"}
Failed == {"failed", "rate_limited"}
Entries == {"absent", "pending", "in_progress"} \cup Done \cup Failed

Totals == [attempted : Int, succeeded : Int, changes : Int,
           failed : Int, rateLimited : Int, skipped : Int]

Blobs == [run : RunIds, initiator : Initiators, entry : [Apps -> Entries],
          current : Apps \cup {NoApp}, totals : Totals]

ASSUME NoBlobAssumption == NoBlob \notin Blobs
ASSUME NoAppAssumption == NoApp \notin Apps

Awaiting == {"loading", "fetching"}
Steps == {"opening", "next", "missing", "clearing", "releasing"}

TypeOK ==
    /\ apps \subseteq Apps
    /\ mutex \in BOOLEAN
    /\ blob \in Blobs \cup {NoBlob}
    /\ stale \in BOOLEAN
    /\ due \in BOOLEAN
    /\ boot \in {"down", "waiting", "healing", "done"}
    /\ pc \in [Runners -> {"idle"} \cup Awaiting \cup Steps]
    /\ mem \in [Runners -> Blobs \cup {NoBlob}]
    /\ policyDue \in BOOLEAN
    /\ crashes \in Nat
    /\ limits \in Nat
    /\ faults \in Nat

-----------------------------------------------------------------------------
Pending(s) == {a \in Apps : s.entry[a] = "pending"}
InFlight(s) == {a \in Apps : s.entry[a] = "in_progress"}
Unsettled(s) == Pending(s) \cup InFlight(s)

HasPendingOnly == blob # NoBlob /\ Pending(blob) # {}
HasPending == blob # NoBlob /\ Unsettled(blob) # {}

\* The runs of this process (live-bulk-runs.ts); a crash forgets them.
LiveRuns == {r \in Runners : pc[r] # "idle"}
SyncLiveForgotten == FALSE
SyncLive == LiveRuns # {}

\* No synchronous slice is under way, so the event loop may pick any handler.
Yielded ==
    /\ boot # "down"
    /\ boot # "healing"
    /\ \A r \in Runners : pc[r] \in {"idle"} \cup Awaiting

\* r may continue: the rest of its slice, or an await whose answer is in.
Continues(r) == pc[r] \in Awaiting => Yielded

CanStart == ~mutex /\ blob = NoBlob

NewRun(id, who) ==
    [run |-> id,
     initiator |-> who,
     entry |-> [a \in Apps |-> IF a \in apps THEN "pending" ELSE "absent"],
     current |-> NoApp,
     totals |-> [attempted |-> 0, succeeded |-> 0, changes |-> 0,
                 failed |-> 0, rateLimited |-> 0, skipped |-> 0]]

ResumedRecounting(s) ==
    [s EXCEPT !.initiator = "resume",
              !.entry = [a \in Apps |-> IF a \in InFlight(s) THEN "pending" ELSE s.entry[a]]]

ResumedRelabelled(s) ==
    [s EXCEPT !.initiator = "restart",
              !.entry = [a \in Apps |-> IF a \in InFlight(s) THEN "pending" ELSE s.entry[a]]]

ResumedRetrying(s) ==
    [s EXCEPT !.initiator = "resume",
              !.entry = [a \in Apps |-> IF s.entry[a] \in {"in_progress", "failed"}
                                        THEN "pending" ELSE s.entry[a]]]

\* A run taken over from a dead process: what it was fetching goes back to
\* pending and its attempt is un-counted.  currentAppId is left as it was.
Resumed(s) ==
    LET left == s.totals.attempted - Cardinality(InFlight(s)) IN
    [s EXCEPT !.initiator = "resume",
              !.entry = [a \in Apps |-> IF a \in InFlight(s) THEN "pending" ELSE s.entry[a]],
              !.totals.attempted = IF left < 0 THEN 0 ELSE left]

Goto(r, l) == pc' = [pc EXCEPT ![r] = l]

Persist(r, s) ==
    /\ mem' = [mem EXCEPT ![r] = s]
    /\ blob' = s
    /\ stale' = FALSE
    /\ UNCHANGED mutex

-----------------------------------------------------------------------------
\* runBulkSync up to its first write, the lock.
Begin(r, s) ==
    /\ pc[r] = "idle"
    /\ mem' = [mem EXCEPT ![r] = s]
    /\ mutex' = TRUE
    /\ Goto(r, "opening")
    /\ UNCHANGED <<apps, blob, stale, due, policyDue, crashes, limits, faults>>

Start(r, who) ==
    /\ Yielded
    /\ CanStart
    /\ \E id \in RunIds \ {mem[q].run : q \in LiveRuns} : Begin(r, NewRun(id, who))
    /\ UNCHANGED boot

Trigger(r) == Start(r, "manual")

SchedulerTick(r) == due /\ Start(r, "scheduled")

\* The first write of the queue.  An empty queue is recorded and cleared at once.
Open(r) ==
    /\ pc[r] = "opening"
    /\ Persist(r, mem[r])
    /\ Goto(r, IF \A a \in Apps : mem[r].entry[a] = "absent" THEN "clearing" ELSE "loading")
    /\ UNCHANGED <<apps, due, boot, policyDue, bounds>>

\* await import("./scraper")
Loaded(r) ==
    /\ pc[r] = "loading"
    /\ Yielded
    /\ Goto(r, "next")
    /\ UNCHANGED <<apps, disk, due, boot, mem, policyDue, bounds>>

Dequeue(r, a) ==
    /\ pc[r] = "next"
    /\ a \in Pending(mem[r])
    /\ Persist(r, [mem[r] EXCEPT !.entry[a] = "in_progress", !.current = a,
                                 !.totals.attempted = @ + 1])
    /\ Goto(r, IF a \in apps THEN "fetching" ELSE "missing")
    /\ UNCHANGED <<apps, due, boot, policyDue, bounds>>

\* The in-flight entry of r is settled with an outcome and its totals change.
Settled(s, outcome, totals) ==
    [s EXCEPT !.entry[s.current] = outcome, !.current = NoApp, !.totals = totals]

Skip(r) ==
    /\ pc[r] = "missing"
    /\ Persist(r, Settled(mem[r], "skipped",
                     [mem[r].totals EXCEPT !.skipped = @ + 1, !.attempted = @ - 1]))
    /\ Goto(r, "next")
    /\ UNCHANGED <<apps, due, boot, policyDue, bounds>>

Succeeded(t, changed) ==
    [t EXCEPT !.succeeded = @ + 1, !.changes = IF changed THEN @ + 1 ELSE @]

\* fetchAndParseApp commits the scrape, and inserts the app when it finds no
\* row, before the entry is settled.
FetchOk(r, changed) ==
    /\ pc[r] = "fetching"
    /\ Yielded
    /\ apps' = apps \cup {mem[r].current}
    /\ Persist(r, Settled(mem[r], IF changed THEN "changed" ELSE "succeeded",
                          Succeeded(mem[r].totals, changed)))
    /\ Goto(r, "next")
    /\ UNCHANGED <<due, boot, policyDue, bounds>>

FetchFails(r) ==
    /\ pc[r] = "fetching"
    /\ Yielded
    /\ Persist(r, Settled(mem[r], "failed", [mem[r].totals EXCEPT !.failed = @ + 1]))
    /\ Goto(r, "next")
    /\ UNCHANGED <<apps, due, boot, policyDue, bounds>>

\* The write after a good fetch throws inside the same try, so its catch
\* counts the app a second time, as a failure, and its own write succeeds.
SaveFault(r, changed) ==
    /\ pc[r] = "fetching"
    /\ Yielded
    /\ faults < MaxFaults
    /\ faults' = faults + 1
    /\ apps' = apps \cup {mem[r].current}
    /\ Persist(r, Settled(mem[r], "failed",
                     [Succeeded(mem[r].totals, changed) EXCEPT !.failed = @ + 1]))
    /\ Goto(r, "next")
    /\ UNCHANGED <<due, boot, policyDue, crashes, limits>>

FetchLimitedGoingOn(r) ==
    /\ pc[r] = "fetching"
    /\ Yielded
    /\ limits < MaxLimits
    /\ limits' = limits + 1
    /\ Persist(r, Settled(mem[r], "rate_limited",
                  [mem[r].totals EXCEPT !.rateLimited = @ + 1, !.attempted = @ - 1]))
    /\ Goto(r, "next")
    /\ UNCHANGED <<apps, due, boot, policyDue, crashes, faults>>

\* 429: this entry is written as failed; the pending rest is only counted.
FetchLimited(r) ==
    /\ pc[r] = "fetching"
    /\ Yielded
    /\ limits < MaxLimits
    /\ limits' = limits + 1
    /\ LET s == Settled(mem[r], "rate_limited",
                  [mem[r].totals EXCEPT !.rateLimited = @ + 1, !.attempted = @ - 1])
       IN  /\ blob' = s
           /\ mem' = [mem EXCEPT ![r] =
                [s EXCEPT !.totals.rateLimited = @ + Cardinality(Pending(s))]]
    /\ stale' = FALSE
    /\ Goto(r, "clearing")
    /\ UNCHANGED <<apps, mutex, due, boot, policyDue, crashes, faults>>

CompleteUnstamped(r) ==
    /\ pc[r] = "next"
    /\ Pending(mem[r]) = {}
    /\ Goto(r, "clearing")
    /\ UNCHANGED <<apps, disk, due, boot, mem, policyDue, bounds>>

\* The loop ran out of entries: last_auto_sync is stamped.
Complete(r) ==
    /\ pc[r] = "next"
    /\ Pending(mem[r]) = {}
    /\ due' = FALSE
    /\ Goto(r, "clearing")
    /\ UNCHANGED <<apps, disk, boot, mem, policyDue, bounds>>

Clear(r) ==
    /\ pc[r] = "clearing"
    /\ blob' = NoBlob
    /\ stale' = FALSE
    /\ Goto(r, "releasing")
    /\ UNCHANGED <<apps, mutex, due, boot, mem, policyDue, bounds>>

Release(r) ==
    /\ pc[r] = "releasing"
    /\ mutex' = FALSE
    /\ policyDue' = (policyDue \/ mem[r].totals.succeeded > 0)
    /\ mem' = [mem EXCEPT ![r] = NoBlob]
    /\ Goto(r, "idle")
    /\ UNCHANGED <<apps, blob, stale, due, boot, bounds>>

\* A write throws out of the loop: state and lock stay for the next boot.
Abort(r) ==
    /\ pc[r] # "idle"
    /\ Continues(r)
    /\ faults < MaxFaults
    /\ faults' = faults + 1
    /\ mem' = [mem EXCEPT ![r] = NoBlob]
    /\ Goto(r, "idle")
    /\ UNCHANGED <<apps, disk, due, boot, policyDue, crashes, limits>>

-----------------------------------------------------------------------------
Crash ==
    /\ boot # "down"
    /\ crashes < MaxCrashes
    /\ crashes' = crashes + 1
    /\ boot' = "down"
    /\ pc' = [r \in Runners |-> "idle"]
    /\ mem' = [r \in Runners |-> NoBlob]
    /\ policyDue' = FALSE
    /\ UNCHANGED <<apps, disk, due, limits, faults>>

Boot ==
    /\ boot = "down"
    /\ boot' = "waiting"
    /\ UNCHANGED <<apps, disk, due, pc, mem, policyDue, bounds>>

\* The resume check fires once, ten seconds after boot.
ResumeNothing ==
    /\ boot = "waiting"
    /\ Yielded
    /\ SyncLive \/ CanStart
    /\ boot' = "done"
    /\ UNCHANGED <<apps, disk, due, pc, mem, policyDue, bounds>>

Resume(r) ==
    /\ boot = "waiting"
    /\ Yielded
    /\ ~SyncLive
    /\ HasPending
    /\ boot' = "done"
    /\ Begin(r, Resumed(blob))

\* A lock or a finished queue that nothing will ever continue.
HealLock ==
    /\ boot = "waiting"
    /\ Yielded
    /\ ~SyncLive
    /\ ~CanStart
    /\ ~HasPending
    /\ mutex' = FALSE
    /\ boot' = "healing"
    /\ UNCHANGED <<apps, blob, stale, due, pc, mem, policyDue, bounds>>

HealBlob ==
    /\ boot = "healing"
    /\ blob' = NoBlob
    /\ stale' = FALSE
    /\ boot' = "done"
    /\ UNCHANGED <<apps, mutex, due, pc, mem, policyDue, bounds>>

LockIsDeadWhenHeld == mutex
LockIsDead == mutex /\ (~HasPending \/ stale)

\* runHealthCheck clears the lock and the queue in one transaction.
HealthCheck ==
    /\ Yielded
    /\ LockIsDead
    /\ mutex' = FALSE
    /\ blob' = NoBlob
    /\ stale' = FALSE
    /\ UNCHANGED <<apps, due, boot, pc, mem, policyDue, bounds>>

-----------------------------------------------------------------------------
\* The environment: users add and delete apps, time passes, the timer of the
\* post-sync policy fetch fires.  A queue grows stale only when no runner
\* writes it: a fetch is bounded by its timeouts.
AddApp(a) ==
    /\ Yielded
    /\ a \notin apps
    /\ apps' = apps \cup {a}
    /\ UNCHANGED <<disk, due, boot, pc, mem, policyDue, bounds>>

DeleteApp(a) ==
    /\ Yielded
    /\ a \in apps
    /\ apps' = apps \ {a}
    /\ UNCHANGED <<disk, due, boot, pc, mem, policyDue, bounds>>

BecomesDue ==
    /\ ~due
    /\ due' = TRUE
    /\ UNCHANGED <<apps, disk, boot, pc, mem, policyDue, bounds>>

GoesStale ==
    /\ blob # NoBlob
    /\ ~stale
    /\ ~SyncLive
    /\ stale' = TRUE
    /\ UNCHANGED <<apps, mutex, blob, due, boot, pc, mem, policyDue, bounds>>

PolicyTimer ==
    /\ Yielded
    /\ policyDue
    /\ policyDue' = FALSE
    /\ UNCHANGED <<apps, disk, due, boot, pc, mem, bounds>>

Settles(r) ==
    \/ \E changed \in BOOLEAN : FetchOk(r, changed)
    \/ FetchFails(r)
    \/ FetchLimited(r)

Runs(r) ==
    \/ Open(r)
    \/ Loaded(r)
    \/ \E a \in Apps : Dequeue(r, a)
    \/ Skip(r)
    \/ Settles(r)
    \/ Complete(r)
    \/ Clear(r)
    \/ Release(r)

Faults(r) == Abort(r) \/ \E changed \in BOOLEAN : SaveFault(r, changed)

BootCheck == ResumeNothing \/ HealLock \/ HealBlob \/ \E r \in Runners : Resume(r)

Next ==
    \/ \E r \in Runners : Trigger(r) \/ SchedulerTick(r) \/ Runs(r) \/ Faults(r)
    \/ Crash
    \/ Boot
    \/ BootCheck
    \/ HealthCheck
    \/ \E a \in Apps : AddApp(a) \/ DeleteApp(a)
    \/ BecomesDue
    \/ GoesStale
    \/ PolicyTimer

Init ==
    /\ apps \in SUBSET Apps
    /\ mutex = FALSE
    /\ blob = NoBlob
    /\ stale = FALSE
    /\ due = FALSE
    /\ boot = "waiting"
    /\ pc = [r \in Runners |-> "idle"]
    /\ mem = [r \in Runners |-> NoBlob]
    /\ policyDue = FALSE
    /\ crashes = 0
    /\ limits = 0
    /\ faults = 0

Spec == Init /\ [][Next]_vars

\* Timers and promise continuations that are ready are run by the event loop;
\* a server that died is started again; the scheduler ticks every 30 minutes
\* and the health check every day.
Fairness ==
    /\ \A r \in Runners : WF_vars(Runs(r))
    /\ WF_vars(Boot)
    /\ WF_vars(BootCheck)
    /\ WF_vars(GoesStale)
    /\ WF_vars(HealthCheck)
    /\ WF_vars(\E r \in Runners : SchedulerTick(r))

FairSpec == Spec /\ Fairness

-----------------------------------------------------------------------------
(***************************************************************************)
(* Safety.                                                                 *)
(***************************************************************************)

\* Two runners never walk the queue at once, whatever mixes: Sync now, the
\* scheduler, the boot-time resume, the health check clearing a lock
\* (live-bulk-runs.ts: "a second runner walking the same queue").
OneRunner == \A q, r \in LiveRuns : q = r

\* The runner that is alive holds the lock, and past its first write the
\* stored queue is the one it holds in memory, so what TaskCenter reads, and
\* what the next process would resume, is the truth.
QueueIsOwned ==
    \A r \in LiveRuns :
        /\ mutex
        /\ pc[r] \in Awaiting \cup {"next", "missing"} => blob = mem[r]

CountOf(s, outcomes) == Cardinality({a \in Apps : s.entry[a] \in outcomes})

\* The counters the summary row prints agree with the queue in every stored
\* state, through crashes, resumes and limits: an attempt is an app fetched or
\* being fetched, never counted twice ("20/21 synced").  SaveFault counts one
\* app as synced and as failed, so the apps synced agree while no write threw.
CountersMatchQueue ==
    blob # NoBlob =>
        /\ blob.totals.attempted =
              CountOf(blob, {"in_progress", "succeeded", "changed", "failed"})
        /\ blob.totals.failed = CountOf(blob, {"failed"})
        /\ blob.totals.skipped = CountOf(blob, {"skipped"})
        /\ blob.totals.rateLimited = CountOf(blob, {"rate_limited"})
        /\ faults = 0 =>
              /\ blob.totals.succeeded = CountOf(blob, {"succeeded", "changed"})
              /\ blob.totals.changes = CountOf(blob, {"changed"})

(***************************************************************************)
(* What a step may never do.                                               *)
(***************************************************************************)

\* A queue with work left is thrown away only after a 429, or by the health
\* check once it is stale; and never while a runner is fetching from it.
QueueNeverDropped ==
    [][ blob # NoBlob /\ Unsettled(blob) # {} /\ blob' = NoBlob =>
          IF SyncLive
          THEN \E r \in Runners : pc[r] = "clearing" /\ CountOf(blob, {"rate_limited"}) > 0
          ELSE stale ]_vars

\* A run Apple limited does not bump last_auto_sync (sync-bulk-runner.ts: "we
\* haven't actually covered every app"), unless it dies, or a write throws,
\* between its last two writes and the rest of it is resumed.
StampCoversEveryApp ==
    [][ due /\ ~due' /\ crashes = 0 /\ faults = 0
        => \A r \in LiveRuns : CountOf(mem[r], {"rate_limited"}) = 0 ]_vars

(***************************************************************************)
(* What a comment of the code says, which some behaviour contradicts.      *)
(***************************************************************************)

\* app/api/apps/route.ts on deleting an app: a later re-sync "declines to
\* silently re-add the app the user explicitly removed".
DeletedStaysDeleted ==
    [][ \A a \in Apps \ apps : a \in apps' => pc' = pc ]_vars

(***************************************************************************)
(* Liveness.                                                               *)
(***************************************************************************)

\* A sync that is due gets done, unless there is nothing to sync.
DueIsSynced == due ~> ~due \/ apps = {}

-----------------------------------------------------------------------------
\* The promise of every bulk job, with the apps some runner is fetching now.
Queue == INSTANCE BulkQueue WITH
    Items <- Apps,
    open <- blob # NoBlob,
    todo <- IF blob = NoBlob THEN {} ELSE Unsettled(blob),
    settled <- IF blob = NoBlob THEN {}
               ELSE {a \in Apps : blob.entry[a] \in Done \cup Failed},
    work <- {mem[r].current : r \in {q \in Runners : pc[q] = "fetching"}}

QueueSpec == Queue!Spec
=============================================================================
