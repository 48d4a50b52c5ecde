---------------------------- MODULE WaybackBulk ----------------------------
(***************************************************************************)
(* The bulk Wayback Machine import of privacytracker: the durable queue    *)
(* (wayback_bulk_state) with its control status, its lock                  *)
(* (wayback_import_running), the runner, the buttons of Settings (start,   *)
(* re-import, pause, resume, cancel), the boot-time check that parks,      *)
(* clears or resumes what a dead process left, and the health check.       *)
(*                                                                         *)
(* As in SyncBulk one action is a synchronous slice up to its next write.  *)
(* The runner yields only while it imports an app or waits out a throttled *)
(* archive, so that is where requests of the user land.                    *)
(*                                                                         *)
(* A definition whose name extends the next one's (SyncedNever, then       *)
(* Synced) is that definition with a plausible mistake in it; no action    *)
(* uses it.                                                                *)
(***************************************************************************)
EXTENDS Integers, FiniteSets

CONSTANTS
    Apps,        \* ids of rows of the apps table
    Runners,     \* activations of the import one process may hold
    RunIds,      \* values of the runId uuid
    NoBlob,      \* wayback_bulk_state is absent
    NoApp,       \* currentAppId is null
    MaxCrashes,  \* bound: process deaths
    MaxLimits,   \* bound: throttled answers of the archive
    MaxFaults    \* bound: SQLite writes that throw

ASSUME AppsAssumption == IsFiniteSet(Apps)
ASSUME BoundsAssumption == {MaxCrashes, MaxLimits, MaxFaults} \subseteq Nat

VARIABLES
    apps,     \* app rows that exist and have a URL
    mutex,    \* app_settings.wayback_import_running = "true"
    blob,     \* app_settings.wayback_bulk_state
    stale,    \* blob.updatedAt is older than the health check's margin
    boot,     \* the process and its one-shot resume check
    pc,       \* where each runner is
    mem,      \* the run state each runner holds in memory
    aborted,  \* the runner's AbortController has fired
    strikes,  \* consecutive throttled answers the runner has met
    crashes, limits, faults

runner == <<pc, mem, aborted, strikes>>
bounds == <<crashes, limits, faults>>
vars == <<apps, mutex, blob, stale, boot, runner, bounds>>

Requests == {"pause_requested", "cancel_requested"}
Statuses == {"running", "paused"} \cup Requests
Entries == {"absent", "pending", "in_progress", "done", "failed"}
MaxRetries == 1

Blobs == [run : RunIds, status : Statuses, entry : [Apps -> Entries],
          current : Apps \cup {NoApp}, attempted : Int]

ASSUME NoBlobAssumption == NoBlob \notin Blobs
ASSUME NoAppAssumption == NoApp \notin Apps

Awaiting == {"importing", "sleeping"}
Steps == {"forcing", "forced", "acquiring", "opening", "next", "missing",
          "throttled", "parking", "releasing"}

TypeOK ==
    /\ apps \subseteq Apps
    /\ mutex \in BOOLEAN
    /\ blob \in Blobs \cup {NoBlob}
    /\ stale \in BOOLEAN
    /\ boot \in {"down", "waiting", "healing", "done"}
    /\ pc \in [Runners -> {"idle"} \cup Awaiting \cup Steps]
    /\ mem \in [Runners -> Blobs \cup {NoBlob}]
    /\ aborted \in [Runners -> BOOLEAN]
    /\ strikes \in [Runners -> 0..MaxRetries]
    /\ bounds \in Nat \X Nat \X Nat

-----------------------------------------------------------------------------
WithStatus(s, statuses) == {a \in Apps : s.entry[a] \in statuses}
Unsettled(s) == WithStatus(s, {"pending", "in_progress"})

HasPendingWork == blob # NoBlob /\ Unsettled(blob) # {}
IsPaused == blob # NoBlob /\ blob.status \in {"paused", "pause_requested"}
IsCancelled == blob # NoBlob /\ blob.status = "cancel_requested"

\* The imports of this process (live-bulk-runs.ts); a crash forgets them.
LiveRuns == {r \in Runners : pc[r] # "idle"}
ImportLiveForgotten == FALSE
ImportLive == LiveRuns # {}

\* An abort rejects the pending await at once, so its continuation runs
\* before any other handler does.
Yielded ==
    /\ boot \notin {"down", "healing"}
    /\ \A r \in Runners : pc[r] \in {"idle"} \cup Awaiting /\ ~aborted[r]

\* r may go on: the rest of its slice, or an await whose answer is in.
Continues(r) == pc[r] \in Awaiting => Yielded

CanStart == ~mutex /\ blob = NoBlob

NewRun(id) ==
    [run |-> id,
     status |-> "running",
     entry |-> [a \in Apps |-> IF a \in apps THEN "pending" ELSE "absent"],
     current |-> NoApp,
     attempted |-> 0]

ResumedCountingTwice(s) ==
    [s EXCEPT !.status = "running",
              !.entry = [a \in Apps |-> IF s.entry[a] = "in_progress"
                                        THEN "pending" ELSE s.entry[a]]]

ResumedRetrying(s) ==
    [s EXCEPT !.status = "running",
              !.entry = [a \in Apps |-> IF s.entry[a] \in {"in_progress", "failed"}
                                        THEN "pending" ELSE s.entry[a]]]

\* A run continued: what was in flight goes back to pending, un-counted.
Resumed(s) ==
    LET left == s.attempted - Cardinality(WithStatus(s, {"in_progress"})) IN
    [s EXCEPT !.status = "running",
              !.entry = [a \in Apps |-> IF s.entry[a] = "in_progress"
                                        THEN "pending" ELSE s.entry[a]],
              !.attempted = IF left < 0 THEN 0 ELSE left]

SyncedNever(s) == s

\* syncControlStatusFromDisk: a request the user wrote to the stored queue.
Synced(s) ==
    IF blob # NoBlob /\ blob.run = s.run /\ blob.status \in Requests
    THEN [s EXCEPT !.status = blob.status] ELSE s

Goto(r, l) == pc' = [pc EXCEPT ![r] = l]

Persist(r, s) ==
    /\ mem' = [mem EXCEPT ![r] = s]
    /\ blob' = s
    /\ stale' = FALSE
    /\ UNCHANGED mutex

\* The activation of r ends.
Leave(r) ==
    /\ Goto(r, "idle")
    /\ mem' = [mem EXCEPT ![r] = NoBlob]
    /\ aborted' = [aborted EXCEPT ![r] = FALSE]
    /\ strikes' = [strikes EXCEPT ![r] = 0]

-----------------------------------------------------------------------------
(***************************************************************************)
(* The buttons of Settings.                                                *)
(***************************************************************************)

\* runBulkWaybackImport up to its first write, the lock.
Begin(r, s) ==
    /\ mem' = [mem EXCEPT ![r] = s]
    /\ mutex' = TRUE
    /\ Goto(r, "opening")
    /\ UNCHANGED <<apps, blob, stale, aborted, strikes, bounds>>

BeginFresh(r) ==
    /\ apps # {}
    /\ \E id \in RunIds \ {mem[q].run : q \in {q \in Runners : mem[q] # NoBlob}} :
          Begin(r, NewRun(id))
    /\ UNCHANGED boot

Start(r) ==
    /\ Yielded
    /\ pc[r] = "idle"
    /\ CanStart
    /\ BeginFresh(r)

\* "Re-import from scratch": a queue no runner owns is thrown away first.
ForceClear(r) ==
    /\ Yielded
    /\ pc[r] = "idle"
    /\ mutex => ~HasPendingWork
    /\ blob # NoBlob \/ mutex
    /\ blob' = NoBlob
    /\ stale' = FALSE
    /\ Goto(r, "forcing")
    /\ UNCHANGED <<apps, mutex, boot, mem, aborted, strikes, bounds>>

ForceRelease(r) ==
    /\ pc[r] = "forcing"
    /\ mutex' = FALSE
    /\ Goto(r, IF apps = {} THEN "idle" ELSE "forced")
    /\ UNCHANGED <<apps, blob, stale, boot, mem, aborted, strikes, bounds>>

ForceStart(r) ==
    /\ pc[r] = "forced"
    /\ BeginFresh(r)

\* With the lock held the pause is only asked for.
Pause ==
    /\ Yielded
    /\ blob # NoBlob
    /\ blob.status # "paused"
    /\ blob' = IF mutex THEN [blob EXCEPT !.status = "pause_requested"]
                        ELSE [blob EXCEPT !.status = "paused", !.current = NoApp]
    /\ stale' = FALSE
    /\ UNCHANGED <<apps, mutex, boot, runner, bounds>>

\* A run that looks alive is asked to stop and its request is aborted;
\* anything else is cleared at once.
Cancel ==
    /\ Yielded
    /\ blob # NoBlob \/ mutex
    /\ IF blob # NoBlob /\ mutex
       THEN /\ blob' = [blob EXCEPT !.status = "cancel_requested"]
            /\ aborted' = [r \in Runners |-> pc[r] \in Awaiting /\ mem[r].run = blob.run]
            /\ UNCHANGED mutex
       ELSE /\ blob' = NoBlob
            /\ mutex' = FALSE
            /\ UNCHANGED aborted
    /\ stale' = FALSE
    /\ UNCHANGED <<apps, boot, pc, mem, strikes, bounds>>

ResumeOverLock(r) ==
    /\ Yielded
    /\ pc[r] = "idle"
    /\ HasPendingWork
    /\ ~IsCancelled
    /\ blob' = [blob EXCEPT !.status = "running"]
    /\ stale' = FALSE
    /\ mem' = [mem EXCEPT ![r] = Resumed(blob)]
    /\ Goto(r, "acquiring")
    /\ UNCHANGED <<apps, mutex, boot, aborted, strikes, bounds>>

\* "Resume queue": the queue is marked running, then the runner takes it.
ResumeQueue(r) ==
    /\ Yielded
    /\ pc[r] = "idle"
    /\ HasPendingWork
    /\ ~IsCancelled
    /\ ~mutex
    /\ blob' = [blob EXCEPT !.status = "running"]
    /\ stale' = FALSE
    /\ mem' = [mem EXCEPT ![r] = Resumed(blob)]
    /\ Goto(r, "acquiring")
    /\ UNCHANGED <<apps, mutex, boot, aborted, strikes, bounds>>

Acquire(r) ==
    /\ pc[r] = "acquiring"
    /\ mutex' = TRUE
    /\ Goto(r, "opening")
    /\ UNCHANGED <<apps, blob, stale, boot, mem, aborted, strikes, bounds>>

-----------------------------------------------------------------------------
(***************************************************************************)
(* The runner.                                                             *)
(***************************************************************************)
Open(r) ==
    /\ pc[r] = "opening"
    /\ Persist(r, mem[r])
    /\ Goto(r, "next")
    /\ UNCHANGED <<apps, boot, aborted, strikes, bounds>>

Dequeue(r, a) ==
    /\ pc[r] = "next"
    /\ Synced(mem[r]).status \notin Requests
    /\ mem[r].entry[a] = "pending"
    /\ Persist(r, [mem[r] EXCEPT !.entry[a] = "in_progress", !.current = a,
                                 !.attempted = @ + 1])
    /\ Goto(r, IF a \in apps THEN "importing" ELSE "missing")
    /\ UNCHANGED <<apps, boot, aborted, strikes, bounds>>

\* The in-flight entry gets its final status.
Settled(s, status) ==
    [s EXCEPT !.entry[s.current] = status, !.current = NoApp]

Missing(r) ==
    /\ pc[r] = "missing"
    /\ Persist(r, Settled(mem[r], "failed"))
    /\ Goto(r, "next")
    /\ UNCHANGED <<apps, boot, aborted, strikes, bounds>>

\* The runner's state is written as it is in memory.
Imported(r) ==
    /\ pc[r] = "importing"
    /\ Yielded
    /\ Persist(r, Settled(mem[r], "done"))
    /\ strikes' = [strikes EXCEPT ![r] = 0]
    /\ Goto(r, "next")
    /\ UNCHANGED <<apps, boot, aborted, bounds>>

ImportFails(r) ==
    /\ pc[r] = "importing"
    /\ Yielded
    /\ Persist(r, Settled(mem[r], "failed"))
    /\ Goto(r, "next")
    /\ UNCHANGED <<apps, boot, aborted, strikes, bounds>>

\* The archive refuses: the app goes back to pending and is not counted.
Throttled(r) ==
    /\ pc[r] = "importing"
    /\ Yielded
    /\ limits < MaxLimits
    /\ limits' = limits + 1
    /\ Persist(r, [Settled(mem[r], "pending") EXCEPT !.attempted = @ - 1])
    /\ IF strikes[r] < MaxRetries
       THEN /\ strikes' = [strikes EXCEPT ![r] = @ + 1]
            /\ Goto(r, "sleeping")
       ELSE /\ Goto(r, "throttled")
            /\ UNCHANGED strikes
    /\ UNCHANGED <<apps, boot, aborted, crashes, faults>>

Awake(r) ==
    /\ pc[r] = "sleeping"
    /\ Yielded
    /\ Goto(r, "next")
    /\ UNCHANGED <<apps, mutex, blob, stale, boot, mem, aborted, strikes, bounds>>

\* AbortError out of the import or the wait.  Without a request on disk it is
\* thrown on, out of the run.
Interrupted(r) ==
    /\ pc[r] \in Awaiting
    /\ aborted[r]
    /\ IF Synced(mem[r]).status \in Requests
       THEN /\ mem' = [mem EXCEPT ![r].current = NoApp]
            /\ Goto(r, "next")
            /\ UNCHANGED <<aborted, strikes>>
       ELSE Leave(r)
    /\ UNCHANGED <<apps, mutex, blob, stale, boot, bounds>>

\* pauseRun, for a pause asked by the user or after a second strike.
Park(r) ==
    /\ \/ pc[r] = "next" /\ Synced(mem[r]).status = "pause_requested"
       \/ pc[r] = "throttled"
    /\ Persist(r, [mem[r] EXCEPT !.status = "paused", !.current = NoApp])
    /\ Goto(r, "parking")
    /\ UNCHANGED <<apps, boot, aborted, strikes, bounds>>

Parked(r) ==
    /\ pc[r] = "parking"
    /\ mutex' = FALSE
    /\ Leave(r)
    /\ UNCHANGED <<apps, blob, stale, boot, bounds>>

\* The queue is cleared when it is cancelled or when nothing is left of it.
Finish(r) ==
    /\ pc[r] = "next"
    /\ \/ Synced(mem[r]).status = "cancel_requested"
       \/ /\ Synced(mem[r]).status \notin Requests
          /\ Unsettled(mem[r]) = {}
    /\ blob' = NoBlob
    /\ stale' = FALSE
    /\ Goto(r, "releasing")
    /\ UNCHANGED <<apps, mutex, boot, mem, aborted, strikes, bounds>>

Release(r) ==
    /\ pc[r] = "releasing"
    /\ mutex' = FALSE
    /\ Leave(r)
    /\ UNCHANGED <<apps, blob, stale, boot, bounds>>

\* A write throws out of the run or the route: lock and queue stay.
Throws(r) ==
    /\ pc[r] # "idle"
    /\ Continues(r)
    /\ faults < MaxFaults
    /\ faults' = faults + 1
    /\ Leave(r)
    /\ UNCHANGED <<apps, mutex, blob, stale, boot, crashes, limits>>

-----------------------------------------------------------------------------
(***************************************************************************)
(* Restarts, the health check, and the environment.                        *)
(***************************************************************************)
Crash ==
    /\ boot # "down"
    /\ crashes < MaxCrashes
    /\ crashes' = crashes + 1
    /\ boot' = "down"
    /\ pc' = [r \in Runners |-> "idle"]
    /\ mem' = [r \in Runners |-> NoBlob]
    /\ aborted' = [r \in Runners |-> FALSE]
    /\ strikes' = [r \in Runners |-> 0]
    /\ UNCHANGED <<apps, mutex, blob, stale, limits, faults>>

Boot ==
    /\ boot = "down"
    /\ boot' = "waiting"
    /\ UNCHANGED <<apps, mutex, blob, stale, runner, bounds>>

AutoResumesAnything == HasPendingWork
AutoResumes == HasPendingWork /\ ~IsPaused /\ ~IsCancelled

\* The resume check fires once, eight seconds after boot.
BootNothing ==
    /\ boot = "waiting"
    /\ Yielded
    /\ ImportLive \/ CanStart
    /\ boot' = "done"
    /\ UNCHANGED <<apps, mutex, blob, stale, runner, bounds>>

BootResume(r) ==
    /\ boot = "waiting"
    /\ Yielded
    /\ ~ImportLive
    /\ AutoResumes
    /\ boot' = "done"
    /\ Begin(r, Resumed(blob))

\* Parked, cancelled or finished queues: first the lock, then the queue.
BootUnlock ==
    /\ boot = "waiting"
    /\ Yielded
    /\ ~ImportLive
    /\ ~CanStart
    /\ ~AutoResumes
    /\ mutex' = FALSE
    /\ boot' = "healing"
    /\ UNCHANGED <<apps, blob, stale, runner, bounds>>

BootParkNothing ==
    /\ boot = "healing"
    /\ boot' = "done"
    /\ IF IsPaused THEN UNCHANGED <<blob, stale>> ELSE blob' = NoBlob /\ stale' = FALSE
    /\ UNCHANGED <<apps, mutex, runner, bounds>>

BootPark ==
    /\ boot = "healing"
    /\ boot' = "done"
    /\ IF IsPaused
       THEN IF blob.status = "paused"
            THEN UNCHANGED <<blob, stale>>
            ELSE /\ blob' = [blob EXCEPT !.status = "paused", !.current = NoApp]
                 /\ stale' = FALSE
       ELSE blob' = NoBlob /\ stale' = FALSE
    /\ UNCHANGED <<apps, mutex, runner, bounds>>

LockIsDead == mutex /\ ~IsPaused /\ ~IsCancelled /\ (~HasPendingWork \/ stale)

HealthCheck ==
    /\ Yielded
    /\ LockIsDead
    /\ mutex' = FALSE
    /\ blob' = NoBlob
    /\ stale' = FALSE
    /\ UNCHANGED <<apps, boot, runner, bounds>>

AddApp(a) ==
    /\ Yielded
    /\ a \notin apps
    /\ apps' = apps \cup {a}
    /\ UNCHANGED <<mutex, blob, stale, boot, runner, bounds>>

DeleteApp(a) ==
    /\ Yielded
    /\ a \in apps
    /\ apps' = apps \ {a}
    /\ UNCHANGED <<mutex, blob, stale, boot, runner, bounds>>

\* Hours pass without a write: no runner is at work, since the wait and every
\* request of an import are bounded.
GoesStale ==
    /\ blob # NoBlob
    /\ ~stale
    /\ ~ImportLive
    /\ stale' = TRUE
    /\ UNCHANGED <<apps, mutex, blob, boot, runner, bounds>>

Buttons(r) == Start(r) \/ ForceClear(r) \/ ResumeQueue(r)

Runs(r) ==
    \/ ForceRelease(r)
    \/ ForceStart(r)
    \/ Acquire(r)
    \/ Open(r)
    \/ \E a \in Apps : Dequeue(r, a)
    \/ Missing(r)
    \/ Imported(r) \/ ImportFails(r) \/ Throttled(r)
    \/ Awake(r)
    \/ Interrupted(r)
    \/ Park(r)
    \/ Parked(r)
    \/ Finish(r)
    \/ Release(r)

BootCheck == BootNothing \/ BootUnlock \/ BootPark \/ \E r \in Runners : BootResume(r)

Next ==
    \/ \E r \in Runners : Buttons(r) \/ Runs(r) \/ Throws(r)
    \/ Pause
    \/ Cancel
    \/ Crash
    \/ Boot
    \/ BootCheck
    \/ HealthCheck
    \/ \E a \in Apps : AddApp(a) \/ DeleteApp(a)
    \/ GoesStale

Init ==
    /\ apps \in SUBSET Apps
    /\ mutex = FALSE
    /\ blob = NoBlob
    /\ stale = FALSE
    /\ boot = "waiting"
    /\ pc = [r \in Runners |-> "idle"]
    /\ mem = [r \in Runners |-> NoBlob]
    /\ aborted = [r \in Runners |-> FALSE]
    /\ strikes = [r \in Runners |-> 0]
    /\ crashes = 0
    /\ limits = 0
    /\ faults = 0

Spec == Init /\ [][Next]_vars

\* What the event loop owes: continuations and timers that are ready run, a
\* server that died is started again, the health check runs every day.  No
\* button is ever pressed for sure.
Fairness ==
    /\ \A r \in Runners : WF_vars(Runs(r))
    /\ WF_vars(Boot)
    /\ WF_vars(BootCheck)
    /\ WF_vars(GoesStale)
    /\ WF_vars(HealthCheck)

FairSpec == Spec /\ Fairness

-----------------------------------------------------------------------------
(***************************************************************************)
(* Safety.                                                                 *)
(***************************************************************************)

\* The queue has one owner at most, though it can be started by a button, a
\* re-import, "Resume queue" and the boot check.  While a runner is at work the
\* lock is held and the stored queue is the one in its memory, but for a
\* request the user has written into it; and behind a parked queue there is
\* only a runner that is about to let go of the lock.
QueueIsOwned ==
    /\ \A q, r \in LiveRuns : q = r
    /\ \A r \in Runners :
        pc[r] \in Awaiting \cup {"next", "missing"} =>
            /\ mutex
            /\ blob # NoBlob
            /\ [blob EXCEPT !.status = "running"] = [mem[r] EXCEPT !.status = "running",
                                                       !.current = blob.current]
    /\ blob # NoBlob /\ blob.status = "paused" =>
          \A r \in LiveRuns : pc[r] \in {"parking", "forcing", "forced"}

\* An app is counted as attempted once, while it is imported and after, over
\* every crash, throttled answer, pause and resume.
AttemptsMatchQueue ==
    blob # NoBlob =>
        blob.attempted = Cardinality(WithStatus(blob, {"in_progress", "done", "failed"}))

(***************************************************************************)
(* What a step may never do.                                               *)
(***************************************************************************)

\* No app is begun once a pause or a cancel stands in the stored queue
\* (wayback-bulk-runner.ts on the wait for a throttled archive: "a
\* pause/cancel requested during the wait is honoured").
NoAppAfterRequest ==
    [][ \A r \in Runners : pc[r] = "next" /\ pc'[r] \in {"importing", "missing"}
                              => blob.status \notin Requests ]_vars

\* What the user asked for survives a restart: a paused queue is kept and not
\* continued, a cancelled one is not continued.
RequestSurvivesRestart ==
    [][ boot' # boot /\ (IsPaused \/ IsCancelled)
        => /\ LiveRuns' \subseteq LiveRuns
           /\ IsPaused => blob' # NoBlob /\ blob'.status \in {"paused", blob.status} ]_vars

\* The toast of the pause button: the import "will pause after the current
\* app".  The runner writes its own state over the request.
PauseIsKept ==
    [][ blob # NoBlob /\ blob.status = "pause_requested" /\ LiveRuns # {} /\ blob' # NoBlob
        => blob'.status # "running" ]_vars

(***************************************************************************)
(* Liveness.                                                               *)
(***************************************************************************)

\* A pause that was asked for comes to rest: the queue is parked or gone and
\* the lock let go, unless a write threw the run out (CancelClears says what is
\* left of such a run).
PauseSettles ==
    (blob # NoBlob /\ blob.status = "pause_requested")
        ~> ((blob = NoBlob \/ blob.status = "paused") /\ ~mutex) \/ faults > 0

\* The cancel button: "clear the saved queue".  A run that was thrown out of
\* leaves a lock behind which nothing clears a cancelled queue.
CancelClears == IsCancelled ~> blob = NoBlob

-----------------------------------------------------------------------------
\* The promise of every bulk job, with the apps some runner imports now.
Queue == INSTANCE BulkQueue WITH
    Items <- Apps,
    open <- blob # NoBlob,
    todo <- IF blob = NoBlob THEN {} ELSE Unsettled(blob),
    settled <- IF blob = NoBlob THEN {} ELSE WithStatus(blob, {"done", "failed"}),
    work <- {mem[r].current : r \in {q \in Runners : pc[q] = "importing"}}

QueueSpec == Queue!Spec
=============================================================================
