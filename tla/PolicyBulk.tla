----------------------------- MODULE PolicyBulk -----------------------------
(***************************************************************************)
(* The bulk privacy-policy sync of privacytracker: its durable queue in    *)
(* app_settings (policy_bulk_state) and lock (policy_sync_running), the    *)
(* runner, the two ways a run starts (the button, and the coalescing timer *)
(* that follows an import or an App Store sync and is patient while        *)
(* another run is busy), the switch that disables policy scraping, the     *)
(* boot-time check and the health check.                                   *)
(*                                                                         *)
(* One action is one synchronous slice of the event loop up to its next    *)
(* SQLite write, as in SyncBulk.  The dynamic imports in the boot check    *)
(* and the timer name modules that the boot has loaded, so they resolve    *)
(* before any timer or request is served and end no slice.                 *)
(*                                                                         *)
(* A definition whose name extends the next one's (ResumedRetrying, then   *)
(* Resumed) is that definition with a plausible mistake in it; no action   *)
(* uses it, it serves to show which property notices the mistake.          *)
(***************************************************************************)
EXTENDS Integers, FiniteSets

CONSTANTS
    Apps,            \* ids of rows of the apps table
    Runners,         \* activations of runBulkPolicySync one process may hold
    RunIds,          \* values of the runId uuid
    NoBlob,          \* policy_bulk_state is absent
    NoApp,           \* currentAppId is null
    MaxBusyRetries,  \* MAX_BUSY_RETRIES of the timer
    MaxCrashes,      \* bound: process deaths
    MaxFaults        \* bound: SQLite writes that throw

\* The apps table is finite.
ASSUME AppsAssumption == IsFiniteSet(Apps)
ASSUME RetriesAssumption == MaxBusyRetries \in Nat
ASSUME BoundsAssumption == {MaxCrashes, MaxFaults} \subseteq Nat

VARIABLES
    apps,     \* app rows that have a privacy-policy URL
    off,      \* app_settings.policy_scrape_disabled = "true"
    mutex,    \* app_settings.policy_sync_running = "true"
    blob,     \* app_settings.policy_bulk_state
    stale,    \* blob.updatedAt is older than the health check's margin
    boot,     \* the process and its one-shot resume check
    pc,       \* where each runner is
    mem,      \* the run state each runner holds in memory
    asked,    \* pendingReasons is not empty: the coalescing timer is armed
    retries,  \* busyRetries, a count kept from one ask to the next
    waits,    \* history: times the present ask found another run busy
    crashes, faults

disk == <<mutex, blob, stale>>
timer == <<asked, retries, waits>>
bounds == <<crashes, faults>>
vars == <<apps, off, disk, boot, pc, mem, timer, bounds>>

Initiators == {"manual", "automatic", "resume"}

\* The phase of a run and its force flag, which makes the phases alike here.
Modes == {"fetch", "all", "force"}

Outcomes == {"succeeded", "failed", "throttled", "skipped"}
Entries == {"absent", "pending", "in_progress"} \cup Outcomes

Totals == [Outcomes \cup {"attempted"} -> Int]

Blobs == [run : RunIds, initiator : Initiators, mode : Modes,
          entry : [Apps -> Entries], current : Apps \cup {NoApp}, totals : Totals]

ASSUME NoBlobAssumption == NoBlob \notin Blobs
ASSUME NoAppAssumption == NoApp \notin Apps

Steps == {"opening", "next", "gate", "releasing"}

TypeOK ==
    /\ apps \subseteq Apps
    /\ off \in BOOLEAN
    /\ mutex \in BOOLEAN
    /\ blob \in Blobs \cup {NoBlob}
    /\ stale \in BOOLEAN
    /\ boot \in {"down", "waiting", "healing", "done"}
    /\ pc \in [Runners -> {"idle", "fetching"} \cup Steps]
    /\ mem \in [Runners -> Blobs \cup {NoBlob}]
    /\ asked \in BOOLEAN
    /\ retries \in 0..MaxBusyRetries
    /\ waits \in Nat
    /\ crashes \in Nat
    /\ faults \in Nat

-----------------------------------------------------------------------------
Pending(s) == {a \in Apps : s.entry[a] = "pending"}
InFlight(s) == {a \in Apps : s.entry[a] = "in_progress"}
Unsettled(s) == Pending(s) \cup InFlight(s)
HasPending == blob # NoBlob /\ Unsettled(blob) # {}

\* The runs of this process (live-bulk-runs.ts); a crash forgets them.
LiveRuns == {r \in Runners : pc[r] # "idle"}

\* No synchronous slice is under way, so the event loop may pick any handler.
Yielded ==
    /\ boot \in {"waiting", "done"}
    /\ \A r \in Runners : pc[r] \in {"idle", "fetching"}

Continues(r) == pc[r] = "fetching" => Yielded

CanStart == ~mutex /\ blob = NoBlob

NewRun(id, who, mode) ==
    [run |-> id,
     initiator |-> who,
     mode |-> mode,
     entry |-> [a \in Apps |-> IF a \in apps THEN "pending" ELSE "absent"],
     current |-> NoApp,
     totals |-> [c \in Outcomes \cup {"attempted"} |-> 0]]

ResumedRetrying(s) ==
    [s EXCEPT !.initiator = "resume",
              !.entry = [a \in Apps |-> IF s.entry[a] \in {"in_progress", "failed"}
                                        THEN "pending" ELSE s.entry[a]]]

ResumedRecounting(s) ==
    [s EXCEPT !.initiator = "resume",
              !.entry = [a \in Apps |-> IF a \in InFlight(s) THEN "pending" ELSE s.entry[a]]]

ResumedRelabelled(s) ==
    [s EXCEPT !.initiator = "restart",
              !.entry = [a \in Apps |-> IF a \in InFlight(s) THEN "pending" ELSE s.entry[a]]]

\* A run taken over from a dead process: what it was fetching goes back to
\* pending and its attempt is un-counted.
Resumed(s) ==
    LET left == s.totals["attempted"] - Cardinality(InFlight(s)) IN
    [s EXCEPT !.initiator = "resume",
              !.entry = [a \in Apps |-> IF a \in InFlight(s) THEN "pending" ELSE s.entry[a]],
              !.totals = [s.totals EXCEPT !["attempted"] = IF left < 0 THEN 0 ELSE left]]

Goto(r, l) == pc' = [pc EXCEPT ![r] = l]

Persist(r, s) ==
    /\ mem' = [mem EXCEPT ![r] = s]
    /\ blob' = s
    /\ stale' = FALSE
    /\ UNCHANGED mutex

-----------------------------------------------------------------------------
\* runBulkPolicySync up to its first write, the lock.
Begin(r, s) ==
    /\ pc[r] = "idle"
    /\ mem' = [mem EXCEPT ![r] = s]
    /\ mutex' = TRUE
    /\ Goto(r, "opening")
    /\ UNCHANGED <<apps, off, blob, stale, bounds>>

BeginNew(r, who, mode) ==
    \E id \in RunIds \ {mem[q].run : q \in LiveRuns} : Begin(r, NewRun(id, who, mode))

\* The sync-all route: refused while off or busy, nothing to do without apps.
Trigger(r, mode) ==
    /\ Yielded
    /\ ~off
    /\ CanStart
    /\ apps # {}
    /\ BeginNew(r, "manual", mode)
    /\ UNCHANGED <<boot, timer>>

\* The first write of the queue.
Open(r) ==
    /\ pc[r] = "opening"
    /\ Persist(r, mem[r])
    /\ Goto(r, "next")
    /\ UNCHANGED <<apps, off, boot, timer, bounds>>

Dequeue(r, a) ==
    /\ pc[r] = "next"
    /\ a \in Pending(mem[r])
    /\ Persist(r, [mem[r] EXCEPT !.entry[a] = "in_progress", !.current = a,
                                 !.totals["attempted"] = @ + 1])
    /\ Goto(r, "gate")
    /\ UNCHANGED <<apps, off, boot, timer, bounds>>

\* The page is fetched; scraping that is disabled still lets a summary of the
\* stored text go on, and a forced run ignores the switch.
Request(r) ==
    /\ pc[r] = "gate"
    /\ mem[r].current \in apps
    /\ off => mem[r].mode # "fetch"
    /\ Goto(r, "fetching")
    /\ UNCHANGED <<apps, off, disk, boot, mem, timer, bounds>>

\* How the entry in flight may end: skipped when the app or its policy link is
\* gone or the switch is off, throttled by the per-app cooldown, or fetched.
Answers(r) ==
    IF pc[r] = "fetching"
    THEN {"succeeded", "failed"}
    ELSE {o \in {"skipped", "throttled"} :
            IF mem[r].current \notin apps THEN o = "skipped"
            ELSE mem[r].mode # "force" /\ (o = "skipped" <=> off)}

Counted(t, outcome) == [t EXCEPT ![outcome] = @ + 1]

\* The in-flight entry is settled with an outcome and its totals change.
Settled(s, outcome, totals) ==
    [s EXCEPT !.entry[s.current] = outcome, !.current = NoApp, !.totals = totals]

Settle(r, outcome) ==
    /\ pc[r] \in {"gate", "fetching"}
    /\ Continues(r)
    /\ outcome \in Answers(r)
    /\ Persist(r, Settled(mem[r], outcome, Counted(mem[r].totals, outcome)))
    /\ Goto(r, "next")
    /\ UNCHANGED <<apps, off, boot, timer, bounds>>

\* The write after an app throws inside the same try, so its catch counts the
\* app a second time, as a failure, and its own write succeeds.
SaveFault(r, outcome) ==
    /\ pc[r] \in {"gate", "fetching"}
    /\ Continues(r)
    /\ pc[r] = "gate" => mem[r].current \in apps
    /\ outcome \in Answers(r)
    /\ faults < MaxFaults
    /\ faults' = faults + 1
    /\ Persist(r, Settled(mem[r], "failed",
                     Counted(Counted(mem[r].totals, outcome), "failed")))
    /\ Goto(r, "next")
    /\ UNCHANGED <<apps, off, boot, timer, crashes>>

\* The loop ran out of entries; the queue goes first, then the lock.
Clear(r) ==
    /\ pc[r] = "next"
    /\ Pending(mem[r]) = {}
    /\ blob' = NoBlob
    /\ stale' = FALSE
    /\ Goto(r, "releasing")
    /\ UNCHANGED <<apps, off, mutex, boot, mem, timer, bounds>>

Release(r) ==
    /\ pc[r] = "releasing"
    /\ mutex' = FALSE
    /\ mem' = [mem EXCEPT ![r] = NoBlob]
    /\ Goto(r, "idle")
    /\ UNCHANGED <<apps, off, blob, stale, boot, timer, bounds>>

\* A write throws out of the loop: state and lock stay for the next boot.
Abort(r) ==
    /\ pc[r] # "idle"
    /\ Continues(r)
    /\ faults < MaxFaults
    /\ faults' = faults + 1
    /\ mem' = [mem EXCEPT ![r] = NoBlob]
    /\ Goto(r, "idle")
    /\ UNCHANGED <<apps, off, disk, boot, timer, crashes>>

-----------------------------------------------------------------------------
\* An import or a sync finished: a fetch of all policies is asked for.
Schedule ==
    /\ Yielded
    /\ ~asked
    /\ asked' = TRUE
    /\ waits' = 0
    /\ UNCHANGED <<apps, off, disk, boot, pc, mem, retries, bounds>>

\* The timer fires while scraping is disabled: the ask is dropped.
DrainOffKeepingCount ==
    /\ Yielded
    /\ asked
    /\ off
    /\ asked' = FALSE
    /\ UNCHANGED <<apps, off, disk, boot, pc, mem, retries, waits, bounds>>

DrainOff ==
    /\ Yielded
    /\ asked
    /\ off
    /\ asked' = FALSE
    /\ retries' = 0
    /\ UNCHANGED <<apps, off, disk, boot, pc, mem, waits, bounds>>

\* Another run is busy: the ask waits five minutes more, or is given up.
DrainBusy ==
    /\ Yielded
    /\ asked
    /\ ~off
    /\ ~CanStart
    /\ IF retries < MaxBusyRetries
       THEN /\ retries' = retries + 1
            /\ UNCHANGED asked
       ELSE /\ retries' = 0
            /\ asked' = FALSE
    /\ waits' = waits + 1
    /\ UNCHANGED <<apps, off, disk, boot, pc, mem, bounds>>

DrainStartsWhileOff(r) ==
    /\ Yielded
    /\ asked
    /\ CanStart
    /\ asked' = FALSE
    /\ retries' = 0
    /\ BeginNew(r, "automatic", "fetch")
    /\ UNCHANGED <<boot, waits>>

DrainStarts(r) ==
    /\ Yielded
    /\ asked
    /\ ~off
    /\ CanStart
    /\ asked' = FALSE
    /\ retries' = 0
    /\ BeginNew(r, "automatic", "fetch")
    /\ UNCHANGED <<boot, waits>>

-----------------------------------------------------------------------------
Crash ==
    /\ boot # "down"
    /\ crashes < MaxCrashes
    /\ crashes' = crashes + 1
    /\ boot' = "down"
    /\ pc' = [r \in Runners |-> "idle"]
    /\ mem' = [r \in Runners |-> NoBlob]
    /\ asked' = FALSE
    /\ retries' = 0
    /\ waits' = 0
    /\ UNCHANGED <<apps, off, disk, faults>>

Boot ==
    /\ boot = "down"
    /\ boot' = "waiting"
    /\ UNCHANGED <<apps, off, disk, pc, mem, timer, bounds>>

\* The resume check fires once, twelve seconds after boot.
ResumeNothing ==
    /\ boot = "waiting"
    /\ Yielded
    /\ LiveRuns # {} \/ CanStart
    /\ boot' = "done"
    /\ UNCHANGED <<apps, off, disk, pc, mem, timer, bounds>>

ResumeOverLive(r) ==
    /\ boot = "waiting"
    /\ Yielded
    /\ HasPending
    /\ ~off
    /\ boot' = "done"
    /\ Begin(r, Resumed(blob))
    /\ UNCHANGED timer

Resume(r) ==
    /\ boot = "waiting"
    /\ Yielded
    /\ LiveRuns = {}
    /\ HasPending
    /\ ~off
    /\ boot' = "done"
    /\ Begin(r, Resumed(blob))
    /\ UNCHANGED timer

\* What nothing will ever continue, or scraping was disabled meanwhile.
HealLock ==
    /\ boot = "waiting"
    /\ Yielded
    /\ LiveRuns = {}
    /\ ~CanStart
    /\ off \/ ~HasPending
    /\ mutex' = FALSE
    /\ boot' = "healing"
    /\ UNCHANGED <<apps, off, blob, stale, pc, mem, timer, bounds>>

HealBlob ==
    /\ boot = "healing"
    /\ blob' = NoBlob
    /\ stale' = FALSE
    /\ boot' = "done"
    /\ UNCHANGED <<apps, off, mutex, pc, mem, timer, bounds>>

\* runHealthCheck clears the lock and the queue in one transaction.
HealthCheck ==
    /\ Yielded
    /\ mutex
    /\ ~HasPending \/ stale
    /\ mutex' = FALSE
    /\ blob' = NoBlob
    /\ stale' = FALSE
    /\ UNCHANGED <<apps, off, boot, pc, mem, timer, bounds>>

-----------------------------------------------------------------------------
\* The environment.  A queue grows stale only when no runner writes it: a
\* fetch and a summary are bounded by their timeouts.
LinkApp(a) ==
    /\ Yielded
    /\ a \notin apps
    /\ apps' = apps \cup {a}
    /\ UNCHANGED <<off, disk, boot, pc, mem, timer, bounds>>

UnlinkApp(a) ==
    /\ Yielded
    /\ a \in apps
    /\ apps' = apps \ {a}
    /\ UNCHANGED <<off, disk, boot, pc, mem, timer, bounds>>

\* The user flips "Disable policy scraping".
Switch ==
    /\ Yielded
    /\ off' = ~off
    /\ UNCHANGED <<apps, disk, boot, pc, mem, timer, bounds>>

GoesStale ==
    /\ blob # NoBlob
    /\ ~stale
    /\ LiveRuns = {}
    /\ stale' = TRUE
    /\ UNCHANGED <<apps, off, mutex, blob, boot, pc, mem, timer, bounds>>

Starts(r) == DrainStarts(r) \/ \E mode \in Modes : Trigger(r, mode)

Runs(r) ==
    \/ Open(r)
    \/ \E a \in Apps : Dequeue(r, a)
    \/ Request(r)
    \/ \E outcome \in Outcomes : Settle(r, outcome)
    \/ Clear(r)
    \/ Release(r)

Faults(r) == Abort(r) \/ \E outcome \in Outcomes : SaveFault(r, outcome)

Drains == DrainOff \/ DrainBusy

BootCheck == ResumeNothing \/ HealLock \/ HealBlob \/ \E r \in Runners : Resume(r)

Next ==
    \/ \E r \in Runners : Starts(r) \/ Runs(r) \/ Faults(r)
    \/ Schedule
    \/ Drains
    \/ Crash
    \/ Boot
    \/ BootCheck
    \/ HealthCheck
    \/ \E a \in Apps : LinkApp(a) \/ UnlinkApp(a)
    \/ Switch
    \/ GoesStale

Init ==
    /\ apps \in SUBSET Apps
    /\ off \in BOOLEAN
    /\ mutex = FALSE
    /\ blob = NoBlob
    /\ stale = FALSE
    /\ boot = "waiting"
    /\ pc = [r \in Runners |-> "idle"]
    /\ mem = [r \in Runners |-> NoBlob]
    /\ asked = FALSE
    /\ retries = 0
    /\ waits = 0
    /\ crashes = 0
    /\ faults = 0

Spec == Init /\ [][Next]_vars

-----------------------------------------------------------------------------
(***************************************************************************)
(* Safety.                                                                 *)
(***************************************************************************)

\* Two runners never walk the policy queue at once, whatever mixes: the
\* button, the coalescing timer, the boot-time resume of a dead process's
\* run, the health check clearing a lock.
OneRunner == \A q, r \in LiveRuns : q = r

CountOf(s, outcomes) == Cardinality({a \in Apps : s.entry[a] \in outcomes})

\* The counters of the summary and audit rows agree with the stored queue,
\* through crashes, resumes and failed writes, while no write has thrown
\* inside an app: an attempt is an app that was begun, once, however often a
\* process died on it, and each settled app is in one bucket.
CountersMatchQueue ==
    blob # NoBlob /\ faults = 0 =>
        /\ blob.totals["attempted"] = CountOf(blob, Outcomes \cup {"in_progress"})
        /\ \A o \in Outcomes : blob.totals[o] = CountOf(blob, {o})

(***************************************************************************)
(* What a step may never do.                                               *)
(***************************************************************************)

\* A policy fetch that an import or a sync asked for is dropped only when it
\* starts, when scraping is disabled, when the process dies, or when it has
\* itself found another run busy once and three times again: waits made for
\* an earlier ask are not held against it.
WaitsItsTurn ==
    [][ asked /\ ~asked' /\ boot' # "down" =>
          \/ off
          \/ waits = MaxBusyRetries
          \/ LiveRuns' # LiveRuns ]_vars

\* From the moment policy scraping is disabled no run starts or is resumed,
\* whoever asks, and the run that is under way requests no further page
\* unless the user forced it (an "all" run may still summarise stored text).
OffIsObeyed ==
    [][ off => \A r \in Runners :
          /\ pc[r] = "idle" => pc'[r] = "idle"
          /\ pc[r] # "fetching" /\ pc'[r] = "fetching" => mem[r].mode \in {"all", "force"} ]_vars

-----------------------------------------------------------------------------
\* The promise of every bulk job, read off the stored queue and off the apps
\* some runner is fetching now.
Todo == IF blob = NoBlob THEN {} ELSE Unsettled(blob)
SettledApps == IF blob = NoBlob THEN {} ELSE {a \in Apps : blob.entry[a] \in Outcomes}
Working == {mem[r].current : r \in {q \in Runners : pc[q] = "fetching"}}

Queue == INSTANCE BulkQueue WITH
    Items <- Apps,
    open <- blob # NoBlob,
    todo <- Todo,
    settled <- SettledApps,
    work <- Working

\* Over every interleaving the stored queue and the runner keep the promise of
\* BulkQueue: an app that is settled is not worked on again in its run, one
\* app is worked on at a time, and a run is given up only while nobody works.
QueueSpec == Queue!Spec
=============================================================================
