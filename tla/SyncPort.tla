------------------------------ MODULE SyncPort ------------------------------
(***************************************************************************)
(* The bulk App Store sync as the Rust server runs it                      *)
(* (core/src/server/sync_runner.rs).  It keeps the same queue and lock in  *)
(* app_settings as SyncBulk, and promises the same.  What differs:         *)
(*                                                                         *)
(*   - Handlers run on several threads.  A runner holds the database for   *)
(*     one section (db.with) at a time, and anything may happen between    *)
(*     two of its sections, also where Node has no await.                  *)
(*   - "Sync now" runs inside the request that asked for it.  When the     *)
(*     browser goes away the server drops the request's future at its next *)
(*     await, and the run with it.                                         *)
(*   - A write that throws ends the run, wherever it is.                   *)
(*                                                                         *)
(* One action is one write, or a section of a single write: sections are   *)
(* no transactions, so a process can die between their writes (Held).      *)
(*                                                                         *)
(* A definition whose name extends the next one's is that definition with  *)
(* a plausible mistake in it; no action uses it.                           *)
(***************************************************************************)
EXTENDS Integers, FiniteSets

CONSTANTS
    Apps,         \* ids of rows of the apps table
    Runners,      \* activations of run_bulk_sync one server may hold
    RunIds,       \* values of the run_id uuid
    NoBlob,       \* sync_bulk_state is absent
    NoApp,        \* current_app_id is null
    MaxOverlaps,  \* bound: starts and health checks that come in between the
                  \* sections of another's run.  The code has no such bound:
                  \* with 0 these interleavings are left out
    MaxDrops,     \* bound: requests whose client goes away
    MaxCrashes,   \* bound: process deaths
    MaxLimits,    \* bound: 429 answers from Apple
    MaxFaults     \* bound: SQLite writes that throw

\* The apps table is finite.
ASSUME AppsAssumption == IsFiniteSet(Apps)
ASSUME BoundsAssumption ==
    {MaxOverlaps, MaxDrops, MaxCrashes, MaxLimits, MaxFaults} \subseteq Nat

VARIABLES
    apps,   \* app rows that exist and have a URL
    mutex,  \* app_settings.sync_running = "true"
    blob,   \* app_settings.sync_bulk_state
    stale,  \* blob.updated_at is older than the health check's margin
    due,    \* the schedule's interval has passed since last_auto_sync
    boot,   \* the process and its one-shot resume check
    pc,     \* where each runner is
    mem,    \* the run state each runner holds in memory
    who,    \* who asked for each run
    overlaps, drops, crashes, limits, faults

disk == <<mutex, blob, stale>>
runs == <<pc, mem, who>>
bounds == <<overlaps, drops, crashes, limits, faults>>
vars == <<apps, disk, due, boot, runs, bounds>>

Initiators == {"manual", "scheduled", "resume", "nobody"}

\* An entry's status and, once it is settled, its outcome.
Done == {"succeeded", "changed", "skipped"}
Failed == {"failed", "rate_limited"}
Entries == {"absent", "pending", "in_progress"} \cup Done \cup Failed

Totals == [attempted : Int, succeeded : Int, changes : Int,
           failed : Int, rateLimited : Int, skipped : Int]

Blobs == [run : RunIds, entry : [Apps -> Entries], current : Apps \cup {NoApp},
          totals : Totals]

ASSUME NoBlobAssumption == NoBlob \notin Blobs
ASSUME NoAppAssumption == NoApp \notin Apps

Starting == {"checked", "resuming", "entered"}  \* the lock is not taken yet
Awaiting == {"fetching"}        \* where a future can be dropped
Between == {"next", "stopping"}  \* between two sections, no await
Held == {"opening", "missing", "clearing", "releasing"}  \* amid a section

TypeOK ==
    /\ apps \subseteq Apps
    /\ mutex \in BOOLEAN
    /\ blob \in Blobs \cup {NoBlob}
    /\ stale \in BOOLEAN
    /\ due \in BOOLEAN
    /\ boot \in {"down", "waiting", "healing", "done"}
    /\ pc \in [Runners -> {"idle"} \cup Starting \cup Awaiting \cup Between \cup Held]
    /\ mem \in [Runners -> Blobs \cup {NoBlob}]
    /\ who \in [Runners -> Initiators]
    /\ overlaps \in Nat
    /\ drops \in Nat
    /\ crashes \in Nat
    /\ limits \in Nat
    /\ faults \in Nat

-----------------------------------------------------------------------------
Pending(s) == {a \in Apps : s.entry[a] = "pending"}
InFlight(s) == {a \in Apps : s.entry[a] = "in_progress"}
Unsettled(s) == Pending(s) \cup InFlight(s)
HasPending == blob # NoBlob /\ Unsettled(blob) # {}

StartingRuns == {r \in Runners : pc[r] \in Starting}

\* live_runs.rs: registered by a section of its own before the first write,
\* forgotten when the run returns, fails, is dropped or dies.
LiveRuns == {r \in Runners : pc[r] \notin {"idle", "checked", "resuming"}}
SyncIsLive == LiveRuns # {}

\* Nobody holds the database, so any handler may take it for a section.
Unlocked ==
    /\ boot \notin {"down", "healing"}
    /\ \A r \in Runners : pc[r] \notin Held

Section(r) == pc[r] \in Held \/ Unlocked

CanStart == ~mutex /\ blob = NoBlob

\* Bounds what comes between two sections of another's run.
Overlapping(intrudes) ==
    IF intrudes
    THEN overlaps < MaxOverlaps /\ overlaps' = overlaps + 1
    ELSE UNCHANGED overlaps

NewRun(id) ==
    [run |-> id,
     entry |-> [a \in Apps |-> IF a \in apps THEN "pending" ELSE "absent"],
     current |-> NoApp,
     totals |-> [attempted |-> 0, succeeded |-> 0, changes |-> 0,
                 failed |-> 0, rateLimited |-> 0, skipped |-> 0]]

ResumedRecounting(s) ==
    [s EXCEPT !.entry = [a \in Apps |-> IF a \in InFlight(s) THEN "pending" ELSE s.entry[a]]]

ResumedRetrying(s) ==
    [s EXCEPT !.entry = [a \in Apps |-> IF s.entry[a] \in {"in_progress", "failed"}
                                        THEN "pending" ELSE s.entry[a]]]

\* A run left behind: what it was fetching goes back to pending and its attempt
\* is un-counted.  current_app_id is left as it was.
Resumed(s) ==
    LET left == s.totals.attempted - Cardinality(InFlight(s)) IN
    [s EXCEPT !.entry = [a \in Apps |-> IF a \in InFlight(s) THEN "pending" ELSE s.entry[a]],
              !.totals.attempted = IF left < 0 THEN 0 ELSE left]

Goto(r, l) == pc' = [pc EXCEPT ![r] = l]

Persist(r, s) ==
    /\ mem' = [mem EXCEPT ![r] = s]
    /\ blob' = s
    /\ stale' = FALSE
    /\ UNCHANGED mutex

Ends(S) ==
    /\ pc' = [r \in Runners |-> IF r \in S THEN "idle" ELSE pc[r]]
    /\ mem' = [r \in Runners |-> IF r \in S THEN NoBlob ELSE mem[r]]
    /\ who' = [r \in Runners |-> IF r \in S THEN "nobody" ELSE who[r]]

-----------------------------------------------------------------------------
\* run_scheduled_sync: one section finds queue and lock free, and lets go.
Check(r, asker) ==
    /\ Unlocked
    /\ pc[r] = "idle"
    /\ CanStart
    /\ Overlapping(StartingRuns # {})
    /\ Goto(r, "checked")
    /\ who' = [who EXCEPT ![r] = asker]
    /\ UNCHANGED <<apps, disk, due, boot, mem, drops, crashes, limits, faults>>

Trigger(r) == Check(r, "manual")

SchedulerTick(r) == due /\ Check(r, "scheduled")

\* The run is registered as live.
Enter(r) ==
    /\ Unlocked
    /\ pc[r] \in {"checked", "resuming"}
    /\ Goto(r, "entered")
    /\ UNCHANGED <<apps, disk, due, boot, mem, who, bounds>>

Seeded(r, id) == IF mem[r] = NoBlob THEN NewRun(id) ELSE Resumed(mem[r])

\* The queue is seeded, or taken over, and the lock set whether or not it is
\* free by now; then the queue is written.  An empty one is cleared at once.
Open(r) ==
    /\ Unlocked
    /\ pc[r] = "entered"
    /\ \E id \in RunIds \ {mem[q].run : q \in {q \in LiveRuns : mem[q] # NoBlob}} :
          mem' = [mem EXCEPT ![r] = Seeded(r, id)]
    /\ mutex' = TRUE
    /\ Goto(r, "opening")
    /\ UNCHANGED <<apps, blob, stale, due, boot, who, bounds>>

Opened(r) ==
    /\ pc[r] = "opening"
    /\ Persist(r, mem[r])
    /\ Goto(r, IF \A a \in Apps : mem[r].entry[a] = "absent" THEN "clearing" ELSE "next")
    /\ UNCHANGED <<apps, due, boot, who, bounds>>

Dequeue(r, a) ==
    /\ Unlocked
    /\ pc[r] = "next"
    /\ a \in Pending(mem[r])
    /\ Persist(r, [mem[r] EXCEPT !.entry[a] = "in_progress", !.current = a,
                                 !.totals.attempted = @ + 1])
    /\ Goto(r, IF a \in apps THEN "fetching" ELSE "missing")
    /\ UNCHANGED <<apps, due, boot, who, bounds>>

\* The in-flight entry is settled with an outcome and its totals change.
Settled(s, outcome, totals) ==
    [s EXCEPT !.entry[s.current] = outcome, !.current = NoApp, !.totals = totals]

Skip(r) ==
    /\ pc[r] = "missing"
    /\ Persist(r, Settled(mem[r], "skipped",
                     [mem[r].totals EXCEPT !.skipped = @ + 1, !.attempted = @ - 1]))
    /\ Goto(r, "next")
    /\ UNCHANGED <<apps, due, boot, who, bounds>>

Succeeded(t, changed) ==
    [t EXCEPT !.succeeded = @ + 1, !.changes = IF changed THEN @ + 1 ELSE @]

\* One section commits the scrape, which inserts the app when its row is gone,
\* and settles the entry.  The webhook that may follow is a task of its own.
FetchOk(r, changed) ==
    /\ Unlocked
    /\ pc[r] = "fetching"
    /\ apps' = apps \cup {mem[r].current}
    /\ Persist(r, Settled(mem[r], IF changed THEN "changed" ELSE "succeeded",
                          Succeeded(mem[r].totals, changed)))
    /\ Goto(r, "next")
    /\ UNCHANGED <<due, boot, who, bounds>>

FetchFails(r) ==
    /\ Unlocked
    /\ pc[r] = "fetching"
    /\ Persist(r, Settled(mem[r], "failed", [mem[r].totals EXCEPT !.failed = @ + 1]))
    /\ Goto(r, "next")
    /\ UNCHANGED <<apps, due, boot, who, bounds>>

\* 429: this entry is written as failed; the pending rest is only counted.
FetchLimited(r) ==
    /\ Unlocked
    /\ pc[r] = "fetching"
    /\ limits < MaxLimits
    /\ limits' = limits + 1
    /\ LET s == Settled(mem[r], "rate_limited",
                  [mem[r].totals EXCEPT !.rateLimited = @ + 1, !.attempted = @ - 1])
       IN  /\ blob' = s
           /\ mem' = [mem EXCEPT ![r] =
                [s EXCEPT !.totals.rateLimited = @ + Cardinality(Pending(s))]]
    /\ stale' = FALSE
    /\ Goto(r, "stopping")
    /\ UNCHANGED <<apps, mutex, due, boot, who, overlaps, drops, crashes, faults>>

\* The last section: last_auto_sync, unless Apple limited the run, then the
\* queue, then the lock.
Stamp(r) ==
    /\ Unlocked
    /\ pc[r] = "next"
    /\ Pending(mem[r]) = {}
    /\ due' = FALSE
    /\ Goto(r, "clearing")
    /\ UNCHANGED <<apps, disk, boot, mem, who, bounds>>

Clear(r) ==
    /\ pc[r] \in {"clearing", "stopping"}
    /\ Section(r)
    /\ blob' = NoBlob
    /\ stale' = FALSE
    /\ Goto(r, "releasing")
    /\ UNCHANGED <<apps, mutex, due, boot, mem, who, bounds>>

Release(r) ==
    /\ pc[r] = "releasing"
    /\ mutex' = FALSE
    /\ Ends({r})
    /\ UNCHANGED <<apps, blob, stale, due, boot, bounds>>

\* A write throws out of its section, perhaps after the scrape was committed;
\* lock and queue stay for the next boot.
Abort(r) ==
    /\ pc[r] \notin {"idle", "checked", "resuming"}
    /\ Section(r)
    /\ faults < MaxFaults
    /\ faults' = faults + 1
    /\ \/ UNCHANGED apps
       \/ pc[r] = "fetching" /\ apps' = apps \cup {mem[r].current}
    /\ Ends({r})
    /\ UNCHANGED <<disk, due, boot, overlaps, drops, crashes, limits>>

\* The client of "Sync now" goes away: its request, and the run in it, is
\* dropped where it awaits.
Disconnect(r) ==
    /\ who[r] = "manual"
    /\ pc[r] \in Awaiting
    /\ drops < MaxDrops
    /\ drops' = drops + 1
    /\ Ends({r})
    /\ UNCHANGED <<apps, disk, due, boot, overlaps, crashes, limits, faults>>

-----------------------------------------------------------------------------
\* The process dies, or quits with runs under way: between any two writes.
Crash ==
    /\ boot # "down"
    /\ crashes < MaxCrashes
    /\ crashes' = crashes + 1
    /\ boot' = "down"
    /\ Ends(Runners)
    /\ UNCHANGED <<apps, disk, due, overlaps, drops, limits, faults>>

Boot ==
    /\ boot = "down"
    /\ boot' = "waiting"
    /\ UNCHANGED <<apps, disk, due, runs, bounds>>

\* The resume check fires once, ten seconds after boot.
ResumeNothing ==
    /\ boot = "waiting"
    /\ Unlocked
    /\ SyncIsLive \/ CanStart
    /\ boot' = "done"
    /\ UNCHANGED <<apps, disk, due, runs, bounds>>

\* It reads the queue it will take over, and lets the database go.
Resume(r) ==
    /\ boot = "waiting"
    /\ Unlocked
    /\ pc[r] = "idle"
    /\ ~SyncIsLive
    /\ HasPending
    /\ Overlapping(StartingRuns # {})
    /\ boot' = "done"
    /\ Goto(r, "resuming")
    /\ mem' = [mem EXCEPT ![r] = blob]
    /\ who' = [who EXCEPT ![r] = "resume"]
    /\ UNCHANGED <<apps, disk, due, drops, crashes, limits, faults>>

\* A lock or a finished queue that nothing will ever continue.
HealLock ==
    /\ boot = "waiting"
    /\ Unlocked
    /\ ~SyncIsLive
    /\ ~CanStart
    /\ ~HasPending
    /\ mutex' = FALSE
    /\ boot' = "healing"
    /\ UNCHANGED <<apps, blob, stale, due, runs, bounds>>

HealBlob ==
    /\ boot = "healing"
    /\ blob' = NoBlob
    /\ stale' = FALSE
    /\ boot' = "done"
    /\ UNCHANGED <<apps, mutex, due, runs, bounds>>

LockIsDeadWhenDone == mutex /\ ~HasPending
LockIsDead == mutex /\ (~HasPending \/ stale)

\* run_health_check clears the lock and the queue in one transaction, whether
\* or not a run is live: it only looks at the queue.
HealthCheck ==
    /\ Unlocked
    /\ LockIsDead
    /\ Overlapping(SyncIsLive \/ StartingRuns # {})
    /\ mutex' = FALSE
    /\ blob' = NoBlob
    /\ stale' = FALSE
    /\ UNCHANGED <<apps, due, boot, runs, drops, crashes, limits, faults>>

-----------------------------------------------------------------------------
\* The environment: apps come and go, time passes.  A queue grows stale only
\* when no runner writes it: a fetch is bounded by its timeouts.
AddApp(a) ==
    /\ Unlocked
    /\ a \notin apps
    /\ apps' = apps \cup {a}
    /\ UNCHANGED <<disk, due, boot, runs, bounds>>

DeleteApp(a) ==
    /\ Unlocked
    /\ a \in apps
    /\ apps' = apps \ {a}
    /\ UNCHANGED <<disk, due, boot, runs, bounds>>

BecomesDue ==
    /\ ~due
    /\ due' = TRUE
    /\ UNCHANGED <<apps, disk, boot, runs, bounds>>

GoesStale ==
    /\ blob # NoBlob
    /\ ~stale
    /\ \A r \in Runners : pc[r] = "idle"
    /\ stale' = TRUE
    /\ UNCHANGED <<apps, mutex, blob, due, boot, runs, bounds>>

Settles(r) ==
    \/ \E changed \in BOOLEAN : FetchOk(r, changed)
    \/ FetchFails(r)
    \/ FetchLimited(r)

Runs(r) ==
    \/ Enter(r)
    \/ Open(r)
    \/ Opened(r)
    \/ \E a \in Apps : Dequeue(r, a)
    \/ Skip(r)
    \/ Settles(r)
    \/ Stamp(r)
    \/ Clear(r)
    \/ Release(r)

BootCheck == ResumeNothing \/ HealLock \/ HealBlob \/ \E r \in Runners : Resume(r)

Next ==
    \/ \E r \in Runners : Trigger(r) \/ SchedulerTick(r) \/ Runs(r)
    \/ \E r \in Runners : Abort(r) \/ Disconnect(r)
    \/ Crash
    \/ Boot
    \/ BootCheck
    \/ HealthCheck
    \/ \E a \in Apps : AddApp(a) \/ DeleteApp(a)
    \/ BecomesDue
    \/ GoesStale

Init ==
    /\ apps \in SUBSET Apps
    /\ mutex = FALSE
    /\ blob = NoBlob
    /\ stale = FALSE
    /\ due = FALSE
    /\ boot = "waiting"
    /\ pc = [r \in Runners |-> "idle"]
    /\ mem = [r \in Runners |-> NoBlob]
    /\ who = [r \in Runners |-> "nobody"]
    /\ overlaps = 0
    /\ drops = 0
    /\ crashes = 0
    /\ limits = 0
    /\ faults = 0

Spec == Init /\ [][Next]_vars

\* Tasks that are ready are polled and get the database; a server that died is
\* started again; the scheduler ticks every 30 minutes, the health check daily.
Fairness ==
    /\ \A r \in Runners : WF_vars(Runs(r))
    /\ WF_vars(Boot)
    /\ WF_vars(BootCheck)
    /\ WF_vars(GoesStale)
    /\ WF_vars(HealthCheck)
    /\ WF_vars(\E r \in Runners : SchedulerTick(r))

FairSpec == Spec /\ Fairness

-----------------------------------------------------------------------------
\* Two runs never walk the queue at once.  The lock is looked at in one section
\* (run_scheduled_sync) and taken in another, so this holds only as long as no
\* start and no health check comes in between.
OneRunner == \A q, r \in LiveRuns : q = r

\* A live run that has opened its queue holds the lock, and the stored queue is
\* the one it holds in memory: whoever clears either takes it from a run that
\* is gone (health_check.rs:157, bulkLockIsDead: "held, and provably without a
\* live runner").  The code breaks it: a run whose last app is settled has no
\* pending work and is still live.
QueueIsOwned ==
    \A r \in LiveRuns :
        /\ pc[r] # "entered" => mutex
        /\ pc[r] \in Awaiting \cup {"next", "missing"} => blob = mem[r]

CountOf(s, outcomes) == Cardinality({a \in Apps : s.entry[a] \in outcomes})

\* The counters of the summary row agree with the queue in every stored state,
\* also when writes throw: here a run that cannot save an app ends, where
\* Node's counts the app twice.
CountersMatchQueue ==
    blob # NoBlob =>
        /\ blob.totals.attempted =
              CountOf(blob, {"in_progress", "succeeded", "changed", "failed"})
        /\ blob.totals.succeeded = CountOf(blob, {"succeeded", "changed"})
        /\ blob.totals.changes = CountOf(blob, {"changed"})
        /\ blob.totals.failed = CountOf(blob, {"failed"})
        /\ blob.totals.skipped = CountOf(blob, {"skipped"})
        /\ blob.totals.rateLimited = CountOf(blob, {"rate_limited"})

\* A run ends by finishing or by an error of its own, as long as the server is
\* up (SettingsView.tsx:1140: "The server owns this run ... Aborting the
\* browser request would leave the server running").
RunGoesOn ==
    [][ \A r \in LiveRuns :
          pc'[r] = "idle" => pc[r] = "releasing" \/ boot' = "down" \/ faults' # faults ]_vars

\* A sync that is due gets done, whatever is dropped, dies, fails or is
\* limited on the way, unless there is nothing to sync.
DueIsSynced == due ~> ~due \/ apps = {}

-----------------------------------------------------------------------------
\* The promise of every bulk job, with the apps some runner is fetching now.
Queue == INSTANCE BulkQueue WITH
    Items <- Apps,
    open <- blob # NoBlob,
    todo <- IF blob = NoBlob THEN {} ELSE Unsettled(blob),
    settled <- IF blob = NoBlob THEN {}
               ELSE {a \in Apps : blob.entry[a] \in Done \cup Failed},
    work <- {mem[r].current : r \in {q \in Runners : pc[q] = "fetching"}}

QueueSpec == Queue!Spec
=============================================================================
