-------------------------- MODULE PolicyBulkProofs --------------------------
(***************************************************************************)
(* Proofs about the bulk privacy-policy sync, for any number of apps,      *)
(* runners, busy retries, crashes and failing writes.                      *)
(***************************************************************************)
EXTENDS PolicyBulk, FiniteSetTheorems, TLAPS

(***************************************************************************)
(* What makes one runner at a time inductive.                              *)
(***************************************************************************)

\* A runner that is alive belongs to a process that is up, holds the lock and
\* a run state.
LiveInv ==
    \A r \in LiveRuns :
        /\ boot \in {"waiting", "done"}
        /\ mutex
        /\ mem[r] \in Blobs

\* Inside the loop the stored queue is the runner's own and is fresh.
LoopInv ==
    \A r \in Runners : pc[r] \in {"next", "gate", "fetching"} =>
        blob = mem[r] /\ ~stale

\* While an app is worked on its entry is in progress, so work is left in the
\* queue: this is what keeps the health check from taking the lock for dead.
FlightInv ==
    \A r \in Runners : pc[r] \in {"gate", "fetching"} =>
        mem[r].current \in Apps /\ mem[r].entry[mem[r].current] = "in_progress"

Inv ==
    /\ TypeOK
    /\ OneRunner
    /\ LiveInv
    /\ LoopInv
    /\ FlightInv

-----------------------------------------------------------------------------
(***************************************************************************)
(* Lemmas about the operators the model is built from.                     *)
(***************************************************************************)

\* A fresh run is a well-formed run state.
LEMMA NewRunType ==
    ASSUME NEW id \in RunIds, NEW who \in Initiators, NEW mode \in Modes
    PROVE  NewRun(id, who, mode) \in Blobs
<1>1. [a \in Apps |-> IF a \in apps THEN "pending" ELSE "absent"] \in [Apps -> Entries]
  BY DEF Entries
<1>2. [c \in Outcomes \cup {"attempted"} |-> 0] \in Totals
  BY DEF Totals
<1> QED BY <1>1, <1>2 DEF NewRun, Blobs

\* A set of apps has a number of members.
LEMMA CountType ==
    ASSUME NEW S \in SUBSET Apps
    PROVE  Cardinality(S) \in Nat
  BY AppsAssumption, FS_Subset, FS_CardinalityType

\* A run taken over is a well-formed run state.
LEMMA ResumedType ==
    ASSUME NEW s \in Blobs
    PROVE  Resumed(s) \in Blobs
<1> DEFINE left == s.totals["attempted"] - Cardinality(InFlight(s))
           n == IF left < 0 THEN 0 ELSE left
           e == [a \in Apps |-> IF a \in InFlight(s) THEN "pending" ELSE s.entry[a]]
           t == [s.totals EXCEPT !["attempted"] = n]
<1>1. Cardinality(InFlight(s)) \in Nat
  BY CountType DEF InFlight
<1>2. s.totals \in Totals
  BY DEF Blobs
<1>3. n \in Int
  BY <1>1, <1>2 DEF Totals
<1>4. e \in [Apps -> Entries]
  BY DEF Blobs, Entries
<1>5. t \in Totals
  <2> HIDE DEF n
  <2> QED BY <1>2, <1>3 DEF Totals
<1>6. Resumed(s) = [s EXCEPT !.initiator = "resume", !.entry = e, !.totals = t]
  BY DEF Resumed
<1> HIDE DEF e, t
<1> QED BY <1>4, <1>5, <1>6 DEF Blobs, Initiators

\* The count of busy tries starts over, and grows, within its limit.
LEMMA RetriesType ==
    /\ 0 \in 0..MaxBusyRetries
    /\ \A n \in 0..MaxBusyRetries : n < MaxBusyRetries => n + 1 \in 0..MaxBusyRetries
  BY RetriesAssumption

\* Counting an outcome keeps the totals well formed.
LEMMA CountedType ==
    ASSUME NEW t \in Totals, NEW c \in Outcomes
    PROVE  Counted(t, c) \in Totals
  BY DEF Counted, Totals

\* Marking an app in flight keeps the run state well formed.
Dequeued(s, a) ==
    [s EXCEPT !.entry[a] = "in_progress", !.current = a, !.totals["attempted"] = @ + 1]

LEMMA DequeuedType ==
    ASSUME NEW s \in Blobs, NEW a \in Apps
    PROVE  /\ Dequeued(s, a) \in Blobs
           /\ Dequeued(s, a).current = a
           /\ Dequeued(s, a).entry = [s.entry EXCEPT ![a] = "in_progress"]
           /\ Dequeued(s, a).entry[a] = "in_progress"
<1> DEFINE e == [s.entry EXCEPT ![a] = "in_progress"]
           t == [s.totals EXCEPT !["attempted"] = @ + 1]
<1>1. e \in [Apps -> Entries] /\ e[a] = "in_progress"
  BY DEF Blobs, Entries
<1>2. t \in Totals
  BY DEF Blobs, Totals
<1>3. Dequeued(s, a) = [s EXCEPT !.entry = e, !.current = a, !.totals = t]
  BY DEF Dequeued
<1> HIDE DEF e, t
<1>4. Dequeued(s, a) \in Blobs /\ Dequeued(s, a).current = a /\ Dequeued(s, a).entry = e
  BY <1>1, <1>2, <1>3 DEF Blobs
<1> QED BY <1>1, <1>4 DEF e

\* So does settling the one in flight.
LEMMA SettledType ==
    ASSUME NEW s \in Blobs, s.current \in Apps,
           NEW outcome \in Outcomes, NEW totals \in Totals
    PROVE  Settled(s, outcome, totals) \in Blobs
<1> DEFINE e == [s.entry EXCEPT ![s.current] = outcome]
<1>1. e \in [Apps -> Entries]
  BY DEF Blobs, Entries
<1>2. Settled(s, outcome, totals)
        = [s EXCEPT !.entry = e, !.current = NoApp, !.totals = totals]
  BY DEF Settled
<1> HIDE DEF e
<1> QED BY <1>1, <1>2 DEF Blobs

-----------------------------------------------------------------------------
LEMMA InitInv == Init => Inv
<1> SUFFICES ASSUME Init PROVE Inv
  OBVIOUS
<1>1. TypeOK
  BY RetriesType DEF Init, TypeOK
<1>2. LiveRuns = {}
  BY DEF Init, LiveRuns
<1>3. OneRunner /\ LiveInv
  BY <1>2 DEF OneRunner, LiveInv
<1>4. LoopInv /\ FlightInv
  BY DEF Init, LoopInv, FlightInv
<1> QED BY <1>1, <1>3, <1>4 DEF Inv

\* Starting a runner where none is alive, on a well-formed run.
LEMMA BeginInv ==
    ASSUME Inv, NEW r \in Runners, NEW s \in Blobs, Begin(r, s),
           boot' \in {"waiting", "done"}, LiveRuns = {},
           asked' \in BOOLEAN, retries' \in 0..MaxBusyRetries, waits' \in Nat
    PROVE  Inv'
<1>1. TypeOK'
  BY DEF Inv, TypeOK, Begin, Goto, Steps, bounds
<1>2. pc' = [pc EXCEPT ![r] = "opening"] /\ mem' = [mem EXCEPT ![r] = s] /\ mutex'
  BY DEF Begin, Goto
<1>3. LiveRuns' = {r}
  BY <1>2 DEF LiveRuns, Inv, TypeOK
<1>4. OneRunner'
  BY <1>3 DEF OneRunner
<1>5. LiveInv'
  BY <1>2, <1>3 DEF LiveInv, Inv, TypeOK
<1>6. \A q \in Runners : pc'[q] = (IF q = r THEN "opening" ELSE "idle")
  BY <1>2 DEF LiveRuns, Inv, TypeOK
<1>7. LoopInv' /\ FlightInv'
  BY <1>6 DEF LoopInv, FlightInv
<1> QED BY <1>1, <1>4, <1>5, <1>7 DEF Inv

\* Nobody runs when the lock is free.
LEMMA FreeMeansIdle == Inv /\ CanStart => LiveRuns = {}
  BY DEF Inv, LiveInv, CanStart

\* A runner that is alive is the only one.
LEMMA Alone ==
    ASSUME Inv, NEW r \in Runners, pc[r] # "idle"
    PROVE  /\ \A q \in Runners : q # r => pc[q] = "idle"
           /\ mutex
           /\ mem[r] \in Blobs
           /\ boot \in {"waiting", "done"}
  BY DEF Inv, OneRunner, LiveInv, LiveRuns

\* A step of the runner that is alive which writes its state to the queue.
LEMMA PersistInv ==
    ASSUME Inv, NEW r \in Runners, pc[r] # "idle",
           NEW s \in Blobs, Persist(r, s),
           NEW l \in {"next", "gate"}, Goto(r, l),
           l = "gate" => s.current \in Apps /\ s.entry[s.current] = "in_progress",
           faults' \in Nat,
           UNCHANGED <<apps, off, boot, timer, crashes>>
    PROVE  Inv'
<1>1. TypeOK'
  BY DEF Inv, TypeOK, Persist, Goto, Steps, timer
<1>2. /\ \A q \in Runners : pc'[q] = (IF q = r THEN l ELSE "idle")
      /\ mem'[r] = s
      /\ blob' = s
      /\ ~stale'
      /\ mutex'
      /\ boot' \in {"waiting", "done"}
  BY Alone DEF Persist, Goto, Inv, TypeOK
<1>3. OneRunner' /\ LiveInv'
  BY <1>2 DEF OneRunner, LiveInv, LiveRuns
<1>4. LoopInv' /\ FlightInv'
  BY <1>2 DEF LoopInv, FlightInv
<1> QED BY <1>1, <1>3, <1>4 DEF Inv

\* A step of the runner that is alive towards its end.
LEMMA LeaveInv ==
    ASSUME Inv, NEW r \in Runners, pc[r] # "idle",
           NEW l \in {"idle", "releasing"}, Goto(r, l),
           TypeOK', boot' = boot,
           l # "idle" => mutex' /\ mem'[r] \in Blobs
    PROVE  Inv'
<1>1. /\ \A q \in Runners : pc'[q] = (IF q = r THEN l ELSE "idle")
      /\ boot' \in {"waiting", "done"}
  BY Alone DEF Goto, Inv, TypeOK
<1>2. OneRunner' /\ LiveInv'
  BY <1>1 DEF OneRunner, LiveInv, LiveRuns
<1>3. LoopInv' /\ FlightInv'
  BY <1>1 DEF LoopInv, FlightInv
<1> QED BY <1>2, <1>3 DEF Inv

\* A step that leaves every runner, lock and queue alone.
LEMMA AsideInv ==
    ASSUME Inv, TypeOK', UNCHANGED <<mutex, blob, pc, mem>>,
           boot' = boot \/ boot' \in {"waiting", "done"} \/ LiveRuns = {},
           stale' = stale \/ LiveRuns = {}
    PROVE  Inv'
<1>1. OneRunner' /\ FlightInv'
  BY DEF Inv, OneRunner, FlightInv, LiveRuns
<1>2. LiveInv'
  BY DEF Inv, LiveInv, LiveRuns
<1>3. LoopInv'
  BY DEF Inv, LoopInv, LiveRuns
<1> QED BY <1>1, <1>2, <1>3 DEF Inv

\* A step of a process that has no runner and starts none.
LEMMA IdleInv ==
    ASSUME Inv, LiveRuns' = {}, TypeOK'
    PROVE  Inv'
<1>1. OneRunner' /\ LiveInv'
  BY DEF OneRunner, LiveInv
<1>2. \A r \in Runners : pc'[r] = "idle"
  BY DEF LiveRuns
<1>3. LoopInv' /\ FlightInv'
  BY <1>2 DEF LoopInv, FlightInv
<1> QED BY <1>1, <1>3 DEF Inv

-----------------------------------------------------------------------------
(***************************************************************************)
(* Every action keeps the invariant.                                       *)
(***************************************************************************)

\* Every way a run begins: the button, the timer, the boot-time resume.
LEMMA StartInv ==
    ASSUME Inv, NEW r \in Runners, Starts(r) \/ Resume(r)
    PROVE  Inv'
<1>1. CASE \E mode \in Modes : Trigger(r, mode)
  <2>1. PICK mode \in Modes : Trigger(r, mode)
    BY <1>1
  <2>2. PICK id \in RunIds : Begin(r, NewRun(id, "manual", mode))
    BY <2>1 DEF Trigger, BeginNew
  <2>3. NewRun(id, "manual", mode) \in Blobs
    BY NewRunType DEF Initiators
  <2>4. LiveRuns = {} /\ boot' \in {"waiting", "done"}
    BY <2>1, FreeMeansIdle DEF Trigger, Yielded
  <2>5. asked' \in BOOLEAN /\ retries' \in 0..MaxBusyRetries /\ waits' \in Nat
    BY <2>1 DEF Trigger, timer, Inv, TypeOK
  <2> QED BY <2>2, <2>3, <2>4, <2>5, BeginInv
<1>2. CASE DrainStarts(r)
  <2>1. PICK id \in RunIds : Begin(r, NewRun(id, "automatic", "fetch"))
    BY <1>2 DEF DrainStarts, BeginNew
  <2>2. NewRun(id, "automatic", "fetch") \in Blobs
    BY NewRunType DEF Initiators, Modes
  <2>3. LiveRuns = {} /\ boot' \in {"waiting", "done"}
    BY <1>2, FreeMeansIdle DEF DrainStarts, Yielded
  <2>4. asked' \in BOOLEAN /\ retries' \in 0..MaxBusyRetries /\ waits' \in Nat
    BY <1>2, RetriesType DEF DrainStarts, Inv, TypeOK
  <2> QED BY <2>1, <2>2, <2>3, <2>4, BeginInv
<1>3. CASE Resume(r)
  <2>1. Resumed(blob) \in Blobs
    BY <1>3, ResumedType DEF Resume, HasPending, Inv, TypeOK
  <2>2. asked' \in BOOLEAN /\ retries' \in 0..MaxBusyRetries /\ waits' \in Nat
    BY <1>3 DEF Resume, timer, Inv, TypeOK
  <2> QED BY <1>3, <2>1, <2>2, BeginInv DEF Resume
<1> QED BY <1>1, <1>2, <1>3 DEF Starts

LEMMA OpenInv ==
    ASSUME Inv, NEW r \in Runners, Open(r)
    PROVE  Inv'
<1>1. pc[r] # "idle" /\ Persist(r, mem[r]) /\ Goto(r, "next") /\ mem[r] \in Blobs
  BY Alone DEF Open
<1>2. faults' \in Nat /\ UNCHANGED <<apps, off, boot, timer, crashes>>
  BY DEF Open, bounds, Inv, TypeOK
<1> QED BY <1>1, <1>2, PersistInv

LEMMA DequeueInv ==
    ASSUME Inv, NEW r \in Runners, NEW a \in Apps, Dequeue(r, a)
    PROVE  Inv'
<1> DEFINE s == Dequeued(mem[r], a)
<1>1. pc[r] # "idle" /\ Persist(r, s) /\ Goto(r, "gate")
  BY DEF Dequeue, Dequeued
<1>2. s \in Blobs /\ s.current = a /\ s.entry[a] = "in_progress"
  BY <1>1, Alone, DequeuedType
<1>3. faults' \in Nat /\ UNCHANGED <<apps, off, boot, timer, crashes>>
  BY DEF Dequeue, bounds, Inv, TypeOK
<1> HIDE DEF s
<1> QED BY <1>1, <1>2, <1>3, PersistInv

\* The fetch begins: everything stored stays.
LEMMA RequestInv ==
    ASSUME Inv, NEW r \in Runners, Request(r)
    PROVE  Inv'
<1>1. /\ pc[r] = "gate" /\ Goto(r, "fetching")
      /\ UNCHANGED <<apps, off, mutex, blob, stale, boot, mem, asked, retries, waits,
                     crashes, faults>>
  BY DEF Request, disk, timer, bounds
<1>2. /\ \A q \in Runners : pc'[q] = (IF q = r THEN "fetching" ELSE "idle")
      /\ mutex /\ mem[r] \in Blobs /\ boot \in {"waiting", "done"}
      /\ blob = mem[r] /\ ~stale
      /\ mem[r].current \in Apps /\ mem[r].entry[mem[r].current] = "in_progress"
  BY <1>1, Alone DEF Goto, Inv, TypeOK, LoopInv, FlightInv
<1>3. TypeOK'
  BY <1>1 DEF Inv, TypeOK, Goto
<1>4. OneRunner' /\ LiveInv'
  BY <1>1, <1>2 DEF OneRunner, LiveInv, LiveRuns
<1>5. LoopInv' /\ FlightInv'
  BY <1>1, <1>2 DEF LoopInv, FlightInv
<1> QED BY <1>3, <1>4, <1>5 DEF Inv

\* The runner settles the app in flight and goes back to its loop.
LEMMA SettlesInv ==
    ASSUME Inv, NEW r \in Runners, pc[r] \in {"gate", "fetching"},
           NEW outcome \in Outcomes, NEW totals \in Totals,
           Persist(r, Settled(mem[r], outcome, totals)), Goto(r, "next"),
           faults' \in Nat,
           UNCHANGED <<apps, off, boot, timer, crashes>>
    PROVE  Inv'
<1>1. pc[r] # "idle" /\ mem[r].current \in Apps
  BY DEF Inv, FlightInv
<1>2. Settled(mem[r], outcome, totals) \in Blobs
  BY <1>1, Alone, SettledType
<1> QED BY <1>1, <1>2, PersistInv

LEMMA SettleInv ==
    ASSUME Inv, NEW r \in Runners, NEW outcome \in Outcomes, Settle(r, outcome)
    PROVE  Inv'
<1> DEFINE t == Counted(mem[r].totals, outcome)
<1>1. t \in Totals
  <2>1. mem[r].totals \in Totals
    BY Alone DEF Settle, Blobs
  <2> QED BY <2>1, CountedType
<1>2. /\ pc[r] \in {"gate", "fetching"}
      /\ Persist(r, Settled(mem[r], outcome, t)) /\ Goto(r, "next")
  BY DEF Settle
<1>3. faults' \in Nat /\ UNCHANGED <<apps, off, boot, timer, crashes>>
  BY DEF Settle, bounds, Inv, TypeOK
<1> HIDE DEF t
<1> QED BY <1>1, <1>2, <1>3, SettlesInv

LEMMA SaveFaultInv ==
    ASSUME Inv, NEW r \in Runners, NEW outcome \in Outcomes, SaveFault(r, outcome)
    PROVE  Inv'
<1> DEFINE t == Counted(Counted(mem[r].totals, outcome), "failed")
<1>1. t \in Totals
  <2>1. mem[r].totals \in Totals
    BY Alone DEF SaveFault, Blobs
  <2>2. Counted(mem[r].totals, outcome) \in Totals
    BY <2>1, CountedType
  <2> QED BY <2>2, CountedType DEF Outcomes
<1>2. /\ pc[r] \in {"gate", "fetching"}
      /\ Persist(r, Settled(mem[r], "failed", t)) /\ Goto(r, "next")
  BY DEF SaveFault
<1>3. faults' \in Nat /\ UNCHANGED <<apps, off, boot, timer, crashes>>
  BY DEF SaveFault, Inv, TypeOK
<1> HIDE DEF t
<1> QED BY <1>1, <1>2, <1>3, SettlesInv DEF Outcomes

LEMMA ClearInv ==
    ASSUME Inv, NEW r \in Runners, Clear(r)
    PROVE  Inv'
<1>1. pc[r] # "idle" /\ Goto(r, "releasing") /\ boot' = boot
  BY DEF Clear
<1>2. mutex' /\ mem'[r] \in Blobs
  BY <1>1, Alone DEF Clear
<1>3. TypeOK'
  BY DEF Clear, timer, bounds, Inv, TypeOK, Goto, Steps
<1> QED BY <1>1, <1>2, <1>3, LeaveInv

LEMMA ReleaseInv ==
    ASSUME Inv, NEW r \in Runners, Release(r)
    PROVE  Inv'
<1>1. pc[r] # "idle" /\ Goto(r, "idle") /\ boot' = boot
  BY DEF Release
<1>2. TypeOK'
  BY DEF Release, timer, bounds, Inv, TypeOK, Goto
<1> QED BY <1>1, <1>2, LeaveInv

LEMMA AbortInv ==
    ASSUME Inv, NEW r \in Runners, Abort(r)
    PROVE  Inv'
<1>1. pc[r] # "idle" /\ Goto(r, "idle") /\ boot' = boot
  BY DEF Abort
<1>2. TypeOK'
  BY DEF Abort, disk, timer, Inv, TypeOK, Goto
<1> QED BY <1>1, <1>2, LeaveInv

\* One lemma for the steps of a runner, as Next has them.
LEMMA RunnerInv ==
    ASSUME Inv, NEW r \in Runners, Starts(r) \/ Runs(r) \/ Faults(r)
    PROVE  Inv'
<1>1. CASE Starts(r)
  BY <1>1, StartInv
<1>2. CASE Runs(r)
  BY <1>2, OpenInv, DequeueInv, RequestInv, SettleInv, ClearInv, ReleaseInv DEF Runs
<1>3. CASE Faults(r)
  BY <1>3, AbortInv, SaveFaultInv DEF Faults
<1> QED BY <1>1, <1>2, <1>3

\* The coalescing timer, when it starts nothing.
LEMMA TimerInv == Inv /\ (Schedule \/ Drains) => Inv'
<1> SUFFICES ASSUME Inv, Schedule \/ Drains PROVE Inv'
  OBVIOUS
<1>1. UNCHANGED <<apps, off, mutex, blob, stale, boot, pc, mem, crashes, faults>>
  BY DEF Schedule, Drains, DrainOff, DrainBusy, disk, bounds
<1>2. asked' \in BOOLEAN /\ retries' \in 0..MaxBusyRetries /\ waits' \in Nat
  <2>1. CASE Schedule
    BY <2>1 DEF Schedule, Inv, TypeOK
  <2>2. CASE DrainOff
    BY <2>2, RetriesType DEF DrainOff, Inv, TypeOK
  <2>3. CASE DrainBusy
    <3>1. retries \in 0..MaxBusyRetries /\ asked \in BOOLEAN /\ waits' \in Nat
      BY <2>3 DEF DrainBusy, Inv, TypeOK
    <3>2. CASE retries < MaxBusyRetries
      BY <2>3, <3>1, <3>2, RetriesType DEF DrainBusy
    <3>3. CASE ~(retries < MaxBusyRetries)
      BY <2>3, <3>1, <3>3, RetriesType DEF DrainBusy
    <3> QED BY <3>2, <3>3
  <2> QED BY <2>1, <2>2, <2>3 DEF Drains
<1>3. TypeOK'
  BY <1>1, <1>2 DEF Inv, TypeOK
<1> QED BY <1>1, <1>3, AsideInv

LEMMA CrashInv == Inv /\ Crash => Inv'
<1> SUFFICES ASSUME Inv, Crash PROVE Inv'
  OBVIOUS
<1>1. LiveRuns' = {}
  BY DEF Crash, LiveRuns
<1>2. pc' \in [Runners -> {"idle"}] /\ mem' \in [Runners -> {NoBlob}]
  BY DEF Crash
<1>3. pc' \in [Runners -> {"idle", "fetching"} \cup Steps]
  BY <1>2
<1>4. mem' \in [Runners -> Blobs \cup {NoBlob}]
  BY <1>2
<1>5. crashes' \in Nat /\ retries' \in 0..MaxBusyRetries
  BY RetriesType DEF Crash, Inv, TypeOK
<1>6. TypeOK'
  BY <1>3, <1>4, <1>5 DEF Crash, disk, Inv, TypeOK
<1> QED BY <1>1, <1>6, IdleInv

LEMMA BootInv == Inv /\ Boot => Inv'
<1> SUFFICES ASSUME Inv, Boot PROVE Inv'
  OBVIOUS
<1>1. TypeOK'
  BY DEF Boot, disk, timer, bounds, Inv, TypeOK
<1> QED BY <1>1, AsideInv DEF Boot, disk

\* The boot-time check: it takes a run over, heals what is dead or disabled,
\* or leaves a runner of this process alone.
LEMMA BootCheckInv == Inv /\ BootCheck => Inv'
<1> SUFFICES ASSUME Inv, BootCheck PROVE Inv'
  OBVIOUS
<1>1. CASE ResumeNothing
  <2>1. TypeOK'
    BY <1>1 DEF ResumeNothing, disk, timer, bounds, Inv, TypeOK
  <2> QED BY <1>1, <2>1, AsideInv DEF ResumeNothing, disk
<1>2. CASE HealLock
  <2>1. LiveRuns' = {}
    BY <1>2 DEF HealLock, LiveRuns
  <2>2. TypeOK'
    BY <1>2 DEF HealLock, timer, bounds, Inv, TypeOK
  <2> QED BY <2>1, <2>2, IdleInv
<1>3. CASE HealBlob
  <2>1. LiveRuns = {}
    BY <1>3 DEF HealBlob, Inv, LiveInv
  <2>2. LiveRuns' = {}
    BY <1>3, <2>1 DEF HealBlob, LiveRuns
  <2>3. TypeOK'
    BY <1>3 DEF HealBlob, timer, bounds, Inv, TypeOK
  <2> QED BY <2>2, <2>3, IdleInv
<1>4. CASE \E r \in Runners : Resume(r)
  BY <1>4, StartInv
<1> QED BY <1>1, <1>2, <1>3, <1>4 DEF BootCheck

\* The health check finds no lock to clear while a runner is alive.
LEMMA HealthCheckIdle ==
    ASSUME Inv, HealthCheck
    PROVE  LiveRuns = {}
<1>1. ASSUME NEW r \in Runners, pc[r] # "idle" PROVE FALSE
  <2>1. pc[r] = "fetching"
    BY <1>1 DEF HealthCheck, Yielded
  <2>2. blob = mem[r] /\ ~stale /\ mem[r] \in Blobs
    BY <1>1, <2>1, Alone DEF Inv, LoopInv
  <2>3. Unsettled(mem[r]) # {}
    BY <2>1 DEF Inv, FlightInv, Unsettled, Pending, InFlight
  <2>4. HasPending
    BY <2>2, <2>3, NoBlobAssumption DEF HasPending
  <2> QED BY <2>2, <2>4 DEF HealthCheck
<1> QED BY <1>1 DEF LiveRuns

LEMMA HealthCheckInv == Inv /\ HealthCheck => Inv'
<1> SUFFICES ASSUME Inv, HealthCheck PROVE Inv'
  OBVIOUS
<1>1. LiveRuns' = {}
  BY HealthCheckIdle DEF HealthCheck, LiveRuns
<1>2. TypeOK'
  BY DEF HealthCheck, timer, bounds, Inv, TypeOK
<1> QED BY <1>1, <1>2, IdleInv

LEMMA EnvironmentInv ==
    ASSUME Inv,
           \/ \E a \in Apps : LinkApp(a) \/ UnlinkApp(a)
           \/ Switch
           \/ GoesStale
           \/ UNCHANGED vars
    PROVE  Inv'
<1>1. CASE \E a \in Apps : LinkApp(a) \/ UnlinkApp(a)
  <2>1. TypeOK' /\ UNCHANGED <<mutex, blob, stale, boot, pc, mem>>
    BY <1>1 DEF LinkApp, UnlinkApp, disk, timer, bounds, Inv, TypeOK
  <2> QED BY <2>1, AsideInv
<1>2. CASE Switch
  <2>1. TypeOK' /\ UNCHANGED <<mutex, blob, stale, boot, pc, mem>>
    BY <1>2 DEF Switch, disk, timer, bounds, Inv, TypeOK
  <2> QED BY <2>1, AsideInv
<1>3. CASE GoesStale
  <2>1. TypeOK' /\ UNCHANGED <<mutex, blob, boot, pc, mem>> /\ LiveRuns = {}
    BY <1>3 DEF GoesStale, timer, bounds, Inv, TypeOK
  <2> QED BY <2>1, AsideInv
<1>4. CASE UNCHANGED vars
  <2>1. TypeOK' /\ UNCHANGED <<mutex, blob, stale, boot, pc, mem>>
    BY <1>4 DEF vars, disk, timer, bounds, Inv, TypeOK
  <2> QED BY <2>1, AsideInv
<1> QED BY <1>1, <1>2, <1>3, <1>4

LEMMA NextInv == Inv /\ [Next]_vars => Inv'
  BY RunnerInv, TimerInv, CrashInv, BootInv, BootCheckInv, HealthCheckInv, EnvironmentInv
     DEF Next

LEMMA SpecInv == Spec => []Inv
  BY InitInv, NextInv, PTL DEF Spec

-----------------------------------------------------------------------------
(***************************************************************************)
(* The theorems.                                                           *)
(***************************************************************************)

\* Every stored queue, lock, timer and in-memory run state is well formed; the
\* count of busy tries never passes its limit.
THEOREM PolicyTypeCorrect == Spec => []TypeOK
<1>1. Inv => TypeOK
  BY DEF Inv
<1> QED BY <1>1, SpecInv, PTL

\* Two runners never walk the policy queue at once, whatever order the button,
\* the timer, resumes, crashes, failing writes and health checks come in.
THEOREM PolicyOneRunner == Spec => []OneRunner
<1>1. Inv => OneRunner
  BY DEF Inv
<1> QED BY <1>1, SpecInv, PTL

-----------------------------------------------------------------------------
(***************************************************************************)
(* The patience of the timer and the switch.                               *)
(***************************************************************************)

\* The count of busy tries is that of the present ask, and starts from zero.
WaitInv == IF asked THEN waits = retries ELSE retries = 0

\* Only the timer's own actions and a crash touch what the timer keeps.
LEMMA TimerSteps ==
    ASSUME [Next]_vars
    PROVE  \/ UNCHANGED timer
           \/ Schedule \/ DrainOff \/ DrainBusy \/ Crash
           \/ \E r \in Runners : DrainStarts(r)
<1>1. ASSUME NEW r \in Runners, Starts(r) \/ Runs(r) \/ Faults(r)
      PROVE  UNCHANGED timer \/ DrainStarts(r)
  <2>1. CASE Starts(r)
    BY <2>1 DEF Starts, Trigger
  <2>2. CASE Runs(r)
    BY <2>2 DEF Runs, Open, Dequeue, Request, Settle, Clear, Release
  <2>3. CASE Faults(r)
    BY <2>3 DEF Faults, Abort, SaveFault
  <2> QED BY <1>1, <2>1, <2>2, <2>3
<1>2. CASE BootCheck
  BY <1>2 DEF BootCheck, ResumeNothing, HealLock, HealBlob, Resume
<1>3. CASE \E a \in Apps : LinkApp(a) \/ UnlinkApp(a)
  BY <1>3 DEF LinkApp, UnlinkApp
<1>4. CASE Boot \/ HealthCheck \/ Switch \/ GoesStale
  BY <1>4 DEF Boot, HealthCheck, Switch, GoesStale
<1>5. CASE UNCHANGED vars
  BY <1>5 DEF vars
<1> QED BY <1>1, <1>2, <1>3, <1>4, <1>5 DEF Next, Drains

LEMMA WaitNext == TypeOK /\ WaitInv /\ [Next]_vars => WaitInv'
<1> SUFFICES ASSUME TypeOK, WaitInv, [Next]_vars PROVE WaitInv'
  OBVIOUS
<1>1. CASE UNCHANGED timer
  BY <1>1 DEF WaitInv, timer
<1>2. CASE Schedule
  BY <1>2 DEF Schedule, WaitInv
<1>3. CASE DrainOff \/ Crash \/ \E r \in Runners : DrainStarts(r)
  BY <1>3 DEF DrainOff, Crash, DrainStarts, WaitInv
<1>4. CASE DrainBusy
  <2>1. CASE retries < MaxBusyRetries
    BY <1>4, <2>1 DEF DrainBusy, WaitInv
  <2>2. CASE ~(retries < MaxBusyRetries)
    BY <1>4, <2>2 DEF DrainBusy, WaitInv
  <2> QED BY <2>1, <2>2
<1> QED BY <1>1, <1>2, <1>3, <1>4, TimerSteps

LEMMA WaitSpecInv == Spec => []WaitInv
<1>1. Init => WaitInv
  BY DEF Init, WaitInv
<1>2. Inv => TypeOK
  BY DEF Inv
<1> QED BY <1>1, <1>2, WaitNext, SpecInv, PTL DEF Spec

\* A starting step leaves a runner alive that was not.
LEMMA BeginLives ==
    ASSUME TypeOK, NEW r \in Runners, NEW s, Begin(r, s)
    PROVE  LiveRuns' # LiveRuns
<1>1. pc[r] = "idle" /\ pc'[r] = "opening"
  BY DEF Begin, Goto, TypeOK
<1> QED BY <1>1 DEF LiveRuns

-----------------------------------------------------------------------------
(***************************************************************************)
(* What a step may never do, as theorems.                                  *)
(***************************************************************************)

\* An ask for policies is dropped only when it starts, is disabled, dies with
\* the process, or has itself met a busy run as often as the limit allows, for
\* whatever limit.
THEOREM PolicyWaitsItsTurn == Spec => WaitsItsTurn
<1> DEFINE Dropped == asked /\ ~asked' /\ boot' # "down"
           Reason == off \/ waits = MaxBusyRetries \/ LiveRuns' # LiveRuns
<1>1. TypeOK /\ WaitInv /\ [Next]_vars => [Dropped => Reason]_vars
  <2> SUFFICES ASSUME TypeOK, WaitInv, [Next]_vars, Dropped PROVE Reason
    OBVIOUS
  <2>1. CASE UNCHANGED timer \/ Schedule \/ Crash
    BY <2>1 DEF timer, Schedule, Crash
  <2>2. CASE DrainOff
    BY <2>2 DEF DrainOff
  <2>3. CASE DrainBusy
    <3>1. waits = retries /\ ~(retries < MaxBusyRetries)
      BY <2>3 DEF DrainBusy, WaitInv
    <3> QED BY <3>1, RetriesAssumption DEF TypeOK
  <2>4. CASE \E r \in Runners : DrainStarts(r)
    <3>1. PICK r \in Runners : DrainStarts(r)
      BY <2>4
    <3>2. PICK id \in RunIds : Begin(r, NewRun(id, "automatic", "fetch"))
      BY <3>1 DEF DrainStarts, BeginNew
    <3> QED BY <3>2, BeginLives
  <2> QED BY <2>1, <2>2, <2>3, <2>4, TimerSteps
<1>2. Inv => TypeOK
  BY DEF Inv
<1> QED BY <1>1, <1>2, SpecInv, WaitSpecInv, PTL DEF Spec, WaitsItsTurn

\* While scraping is disabled nothing starts, and a runner goes on to ask for a
\* page only in a run that was forced, or that may summarise stored text.
THEOREM PolicyOffIsObeyed == Spec => OffIsObeyed
<1> DEFINE Obeyed(r) ==
        /\ pc[r] = "idle" => pc'[r] = "idle"
        /\ pc[r] # "fetching" /\ pc'[r] = "fetching" => mem[r].mode \in {"all", "force"}
<1>1. Inv /\ [Next]_vars => [off => \A r \in Runners : Obeyed(r)]_vars
  <2> SUFFICES ASSUME Inv, [Next]_vars, off, NEW r \in Runners PROVE Obeyed(r)
    OBVIOUS
  <2>1. pc \in [Runners -> {"idle", "fetching"} \cup Steps]
    BY DEF Inv, TypeOK
  <2>2. ASSUME NEW q \in Runners, Starts(q) \/ Runs(q) \/ Faults(q) PROVE Obeyed(r)
    <3>1. CASE Starts(q)
      BY <3>1 DEF Starts, Trigger, DrainStarts
    <3>2. CASE Request(q)
      <4>1. mem[q].mode \in Modes /\ mem[q].mode # "fetch"
        BY <3>2, Alone DEF Request, Blobs
      <4> QED BY <2>1, <3>2, <4>1 DEF Request, Goto, Modes
    <3>3. CASE Open(q) \/ \E a \in Apps : Dequeue(q, a)
      BY <2>1, <3>3 DEF Open, Dequeue, Goto
    <3>4. CASE \E outcome \in Outcomes : Settle(q, outcome) \/ SaveFault(q, outcome)
      BY <2>1, <3>4 DEF Settle, SaveFault, Goto
    <3>5. CASE Clear(q) \/ Release(q) \/ Abort(q)
      BY <2>1, <3>5 DEF Clear, Release, Abort, Goto
    <3> QED BY <2>2, <3>1, <3>2, <3>3, <3>4, <3>5 DEF Runs, Faults
  <2>3. CASE Crash
    BY <2>3 DEF Crash
  <2>4. CASE BootCheck
    BY <2>4 DEF BootCheck, ResumeNothing, HealLock, HealBlob, Resume
  <2>5. CASE Schedule \/ Drains \/ Boot \/ HealthCheck
    BY <2>5 DEF Schedule, Drains, DrainOff, DrainBusy, Boot, HealthCheck
  <2>6. CASE (\E a \in Apps : LinkApp(a) \/ UnlinkApp(a)) \/ Switch \/ GoesStale
    BY <2>6 DEF LinkApp, UnlinkApp, Switch, GoesStale
  <2>7. CASE UNCHANGED vars
    BY <2>7 DEF vars
  <2> QED BY <2>2, <2>3, <2>4, <2>5, <2>6, <2>7 DEF Next
<1> QED BY <1>1, SpecInv, PTL DEF Spec, OffIsObeyed

-----------------------------------------------------------------------------
(***************************************************************************)
(* The runner keeps the promise of BulkQueue.                              *)
(***************************************************************************)

\* Before its first write a run is a new one with nothing stored, or the stored
\* one taken over with the same apps left to do and the same ones settled.
OpeningInv ==
    \A r \in Runners : pc[r] = "opening" =>
        \/ blob = NoBlob /\ \A a \in Apps : mem[r].entry[a] \in {"absent", "pending"}
        \/ /\ blob # NoBlob
           /\ Unsettled(mem[r]) = Unsettled(blob)
           /\ \A a \in Apps : mem[r].entry[a] \in Outcomes <=> blob.entry[a] \in Outcomes

\* Taking a run over settles and loses nothing.
LEMMA ResumedKeeps ==
    ASSUME NEW s \in Blobs
    PROVE  /\ Unsettled(Resumed(s)) = Unsettled(s)
           /\ \A a \in Apps : Resumed(s).entry[a] \in Outcomes <=> s.entry[a] \in Outcomes
<1> DEFINE e == [a \in Apps |-> IF a \in InFlight(s) THEN "pending" ELSE s.entry[a]]
<1>1. Resumed(s).entry = e
  BY DEF Resumed, Blobs
<1>2. \A a \in Apps : s.entry[a] = "in_progress" => s.entry[a] \notin Outcomes
  BY DEF Outcomes
<1>3. "pending" \notin Outcomes
  BY DEF Outcomes
<1> QED BY <1>1, <1>2, <1>3 DEF Unsettled, Pending, InFlight

\* A runner that begins is opening what it should.
LEMMA BeginOpening ==
    ASSUME Inv, LiveRuns = {}, NEW r \in Runners, NEW s \in Blobs, Begin(r, s),
           \/ blob = NoBlob /\ \A a \in Apps : s.entry[a] \in {"absent", "pending"}
           \/ blob \in Blobs /\ s = Resumed(blob)
    PROVE  OpeningInv'
<1>1. \A q \in Runners : pc'[q] = (IF q = r THEN "opening" ELSE "idle")
  BY DEF Begin, Goto, LiveRuns, Inv, TypeOK
<1>2. mem'[r] = s /\ blob' = blob
  BY DEF Begin, Inv, TypeOK
<1>3. CASE blob = NoBlob /\ \A a \in Apps : s.entry[a] \in {"absent", "pending"}
  BY <1>1, <1>2, <1>3 DEF OpeningInv
<1>4. CASE blob \in Blobs /\ s = Resumed(blob)
  <2>1. /\ Unsettled(s) = Unsettled(blob)
        /\ \A a \in Apps : s.entry[a] \in Outcomes <=> blob.entry[a] \in Outcomes
    BY <1>4, ResumedKeeps
  <2> QED BY <1>1, <1>2, <1>4, <2>1, NoBlobAssumption DEF OpeningInv, Unsettled, Pending, InFlight
<1> QED BY <1>3, <1>4

\* How a run begins, in every case.
LEMMA Beginnings ==
    ASSUME Inv, NEW r \in Runners, Starts(r) \/ Resume(r)
    PROVE  /\ LiveRuns = {}
           /\ \E s \in Blobs :
                /\ Begin(r, s)
                /\ \/ blob = NoBlob /\ \A a \in Apps : s.entry[a] \in {"absent", "pending"}
                   \/ blob \in Blobs /\ s = Resumed(blob)
<1>1. ASSUME NEW id \in RunIds, NEW who \in Initiators, NEW mode \in Modes
      PROVE  \A a \in Apps : NewRun(id, who, mode).entry[a] \in {"absent", "pending"}
  BY DEF NewRun
<1>2. CASE \E mode \in Modes : Trigger(r, mode)
  <2>1. PICK mode \in Modes : Trigger(r, mode)
    BY <1>2
  <2>2. PICK id \in RunIds : Begin(r, NewRun(id, "manual", mode))
    BY <2>1 DEF Trigger, BeginNew
  <2>3. NewRun(id, "manual", mode) \in Blobs /\ "manual" \in Initiators
    BY NewRunType DEF Initiators
  <2>4. LiveRuns = {} /\ blob = NoBlob
    BY <2>1, FreeMeansIdle DEF Trigger, CanStart
  <2> QED BY <1>1, <2>2, <2>3, <2>4
<1>3. CASE DrainStarts(r)
  <2>1. PICK id \in RunIds : Begin(r, NewRun(id, "automatic", "fetch"))
    BY <1>3 DEF DrainStarts, BeginNew
  <2>2. "automatic" \in Initiators /\ "fetch" \in Modes
    BY DEF Initiators, Modes
  <2>3. NewRun(id, "automatic", "fetch") \in Blobs
    BY <2>2, NewRunType
  <2>4. LiveRuns = {} /\ blob = NoBlob
    BY <1>3, FreeMeansIdle DEF DrainStarts, CanStart
  <2> QED BY <1>1, <2>1, <2>2, <2>3, <2>4
<1>4. CASE Resume(r)
  <2>1. LiveRuns = {} /\ Begin(r, Resumed(blob)) /\ blob \in Blobs
    BY <1>4 DEF Resume, HasPending, Inv, TypeOK
  <2> QED BY <2>1, ResumedType
<1> QED BY <1>2, <1>3, <1>4 DEF Starts

LEMMA OpeningNext == Inv /\ OpeningInv /\ [Next]_vars => OpeningInv'
<1> SUFFICES ASSUME Inv, OpeningInv, [Next]_vars PROVE OpeningInv'
  OBVIOUS
<1>0. pc \in [Runners -> {"idle", "fetching"} \cup Steps]
  BY DEF Inv, TypeOK
<1>1. ASSUME NEW r \in Runners, Starts(r) \/ Resume(r) PROVE OpeningInv'
  BY <1>1, Beginnings, BeginOpening
<1>2. ASSUME \A q \in Runners : pc'[q] # "opening" PROVE OpeningInv'
  BY <1>2 DEF OpeningInv
<1>3. ASSUME NEW r \in Runners, Runs(r) \/ Faults(r) PROVE OpeningInv'
  <2>1. pc[r] # "idle"
    BY <1>3 DEF Runs, Faults, Open, Dequeue, Request, Settle, SaveFault, Clear, Release, Abort
  <2>2. PICK l \in {"idle", "next", "gate", "fetching", "releasing"} : Goto(r, l)
    BY <1>3 DEF Runs, Faults, Open, Dequeue, Request, Settle, SaveFault, Clear, Release, Abort
  <2>3. \A q \in Runners : pc'[q] # "opening"
    BY <1>0, <2>1, <2>2, Alone DEF Goto
  <2> QED BY <1>2, <2>3
<1>4. CASE Crash
  BY <1>2, <1>4 DEF Crash
<1>5. ASSUME Yielded \/ LiveRuns = {}, pc' = pc PROVE OpeningInv'
  BY <1>2, <1>5 DEF Yielded, LiveRuns
<1>6. CASE ResumeNothing \/ HealLock \/ HealthCheck \/ Schedule \/ Drains
  BY <1>5, <1>6 DEF ResumeNothing, HealLock, HealthCheck, Schedule, Drains, DrainOff, DrainBusy
<1>7. CASE Boot \/ HealBlob
  <2>1. LiveRuns = {}
    BY <1>7 DEF Boot, HealBlob, Inv, LiveInv
  <2> QED BY <1>5, <1>7, <2>1 DEF Boot, HealBlob
<1>8. CASE (\E a \in Apps : LinkApp(a) \/ UnlinkApp(a)) \/ Switch \/ GoesStale
  BY <1>5, <1>8 DEF LinkApp, UnlinkApp, Switch, GoesStale
<1>9. CASE UNCHANGED vars
  BY <1>9 DEF vars, disk, OpeningInv, Unsettled, Pending, InFlight
<1> QED BY <1>1, <1>3, <1>4, <1>6, <1>7, <1>8, <1>9 DEF Next, BootCheck

\* What the only runner that is alive works on.
LEMMA WorkingOne ==
    ASSUME Inv, NEW r \in Runners, pc[r] # "idle"
    PROVE  Working = IF pc[r] = "fetching" THEN {mem[r].current} ELSE {}
  BY Alone DEF Working

\* A step that leaves the stored queue and the app worked on alone.
LEMMA QueueStutters ==
    ASSUME UNCHANGED blob, Working' = Working
    PROVE  UNCHANGED Queue!vars
  BY DEF Queue!vars, Todo, SettledApps, Unsettled, Pending, InFlight

\* The stored queue of a runner in its loop, before and after settling.
LEMMA SettleRefines ==
    ASSUME Inv, NEW r \in Runners, pc[r] \in {"gate", "fetching"},
           NEW outcome \in Outcomes, NEW totals \in Totals,
           Persist(r, Settled(mem[r], outcome, totals)), Goto(r, "next")
    PROVE  Queue!Settle(mem[r].current)
<1> DEFINE i == mem[r].current
           s == Settled(mem[r], outcome, totals)
<1>1. /\ blob = mem[r] /\ mem[r] \in Blobs /\ i \in Apps
      /\ mem[r].entry[i] = "in_progress" /\ blob # NoBlob
  BY Alone, NoBlobAssumption DEF Inv, LoopInv, FlightInv
<1>2. blob' = s /\ s \in Blobs /\ blob' # NoBlob
  BY <1>1, SettledType, NoBlobAssumption DEF Persist
<1>3. \A a \in Apps : s.entry[a] = (IF a = i THEN outcome ELSE mem[r].entry[a])
  BY <1>1 DEF Settled, Blobs
<1>4. Working \subseteq {i}
  BY WorkingOne
<1>5. \A q \in Runners : pc'[q] # "fetching"
  BY Alone DEF Goto, Inv, TypeOK
<1>6. Working' = {}
  BY <1>5 DEF Working
<1>7. outcome # "pending" /\ outcome # "in_progress" /\ "in_progress" \notin Outcomes
  BY DEF Outcomes
<1>8. Todo = Unsettled(mem[r]) /\ i \in Todo
  BY <1>1 DEF Todo, Unsettled, InFlight
<1>9. Todo' = Todo \ {i}
  <2>1. Todo' = Unsettled(s)
    BY <1>2 DEF Todo, Unsettled, Pending, InFlight
  <2> HIDE DEF s, i
  <2> QED BY <1>3, <1>7, <1>8, <2>1 DEF Unsettled, Pending, InFlight
<1>10. SettledApps' = SettledApps \cup {i}
  <2>1. SettledApps' = {a \in Apps : s.entry[a] \in Outcomes}
    BY <1>2 DEF SettledApps
  <2>2. SettledApps = {a \in Apps : mem[r].entry[a] \in Outcomes}
    BY <1>1 DEF SettledApps
  <2> HIDE DEF s, i
  <2> QED BY <1>1, <1>3, <2>1, <2>2
<1> QED BY <1>1, <1>2, <1>4, <1>6, <1>8, <1>9, <1>10 DEF Queue!Settle

LEMMA OpenRefines ==
    ASSUME Inv, OpeningInv, NEW r \in Runners, Open(r)
    PROVE  UNCHANGED Queue!vars \/ \E S \in SUBSET Apps : Queue!Open(S)
<1>1. mem[r] \in Blobs /\ blob' = mem[r] /\ blob' # NoBlob
  BY Alone, NoBlobAssumption DEF Open, Persist
<1>2. \A q \in Runners : pc[q] # "fetching" /\ pc'[q] # "fetching"
  BY Alone DEF Open, Goto, Inv, TypeOK
<1>3. Working = {} /\ Working' = {}
  BY <1>2 DEF Working
<1>4. CASE blob = NoBlob /\ \A a \in Apps : mem[r].entry[a] \in {"absent", "pending"}
  <2>1. SettledApps' = {}
    BY <1>1, <1>4 DEF SettledApps, Outcomes
  <2>2. Todo' \in SUBSET Apps
    BY DEF Todo, Unsettled, Pending, InFlight
  <2>3. Queue!Open(Todo')
    BY <1>1, <1>3, <1>4, <2>1 DEF Queue!Open
  <2> QED BY <2>2, <2>3
<1>5. CASE /\ blob # NoBlob
           /\ Unsettled(mem[r]) = Unsettled(blob)
           /\ \A a \in Apps : mem[r].entry[a] \in Outcomes <=> blob.entry[a] \in Outcomes
  <2>1. Todo' = Todo
    BY <1>1, <1>5 DEF Todo, Unsettled, Pending, InFlight
  <2>2. SettledApps' = SettledApps
    BY <1>1, <1>5 DEF SettledApps
  <2> QED BY <1>1, <1>3, <1>5, <2>1, <2>2 DEF Queue!vars
<1> QED BY <1>4, <1>5 DEF Open, OpeningInv

LEMMA DequeueRefines ==
    ASSUME Inv, NEW r \in Runners, NEW a \in Apps, Dequeue(r, a)
    PROVE  UNCHANGED Queue!vars
<1> DEFINE s == Dequeued(mem[r], a)
<1>1. /\ blob = mem[r] /\ mem[r] \in Blobs /\ blob # NoBlob
      /\ a \in Pending(mem[r])
  BY Alone, NoBlobAssumption DEF Dequeue, Inv, LoopInv
<1>2. blob' = s /\ s \in Blobs /\ blob' # NoBlob
  <2>1. blob' = s
    BY DEF Dequeue, Persist, Dequeued
  <2>2. s \in Blobs
    BY <1>1, DequeuedType
  <2> QED BY <2>1, <2>2, NoBlobAssumption
<1>3. \A b \in Apps : s.entry[b] = (IF b = a THEN "in_progress" ELSE mem[r].entry[b])
  <2>1. s.entry = [mem[r].entry EXCEPT ![a] = "in_progress"]
    BY <1>1, DequeuedType
  <2> HIDE DEF s
  <2> QED BY <1>1, <2>1 DEF Blobs
<1>4. \A q \in Runners : pc[q] # "fetching" /\ pc'[q] # "fetching"
  BY Alone DEF Dequeue, Goto, Inv, TypeOK
<1>5. Working = {} /\ Working' = {}
  BY <1>4 DEF Working
<1>6. Todo' = Unsettled(s) /\ Todo = Unsettled(mem[r])
  BY <1>1, <1>2 DEF Todo, Unsettled, Pending, InFlight
<1>7. /\ SettledApps' = {b \in Apps : s.entry[b] \in Outcomes}
      /\ SettledApps = {b \in Apps : mem[r].entry[b] \in Outcomes}
  BY <1>1, <1>2 DEF SettledApps
<1> HIDE DEF s
<1>8. Todo' = Todo
  BY <1>1, <1>3, <1>6 DEF Unsettled, Pending, InFlight
<1>9. SettledApps' = SettledApps
  BY <1>1, <1>3, <1>7 DEF Pending, Outcomes
<1> QED BY <1>1, <1>2, <1>5, <1>8, <1>9 DEF Queue!vars

LEMMA RequestRefines ==
    ASSUME Inv, NEW r \in Runners, Request(r)
    PROVE  Queue!Take(mem[r].current)
<1>1. /\ blob = mem[r] /\ mem[r] \in Blobs /\ blob # NoBlob
      /\ mem[r].current \in Apps /\ mem[r].entry[mem[r].current] = "in_progress"
  BY Alone, NoBlobAssumption DEF Request, Inv, LoopInv, FlightInv
<1>2. Working = {} /\ mem' = mem /\ blob' = blob
  BY WorkingOne DEF Request, disk
<1>3. \A q \in Runners : pc'[q] = "fetching" <=> q = r
  BY Alone DEF Request, Goto, Inv, TypeOK
<1>4. Working' = {mem[r].current}
  BY <1>2, <1>3 DEF Working
<1>5. mem[r].current \in Todo
  BY <1>1 DEF Todo, Unsettled, InFlight
<1>6. Todo' = Todo /\ SettledApps' = SettledApps
  BY <1>2 DEF Todo, SettledApps, Unsettled, Pending, InFlight
<1> QED BY <1>1, <1>2, <1>4, <1>5, <1>6 DEF Queue!Take

\* A step after which nobody works and nothing is stored gives the run up.
LEMMA CloseRefines ==
    ASSUME Working = {}, Working' = {}, blob' = NoBlob
    PROVE  UNCHANGED Queue!vars \/ Queue!Close
<1>1. Todo' = {} /\ SettledApps' = {}
  BY DEF Todo, SettledApps
<1>2. CASE blob = NoBlob
  BY <1>2, QueueStutters
<1>3. CASE blob # NoBlob
  BY <1>1, <1>3 DEF Queue!Close
<1> QED BY <1>2, <1>3

\* A step after which nobody works, with the same queue stored.
LEMMA DropRefines ==
    ASSUME Working' = {}, blob' = blob
    PROVE  UNCHANGED Queue!vars \/ Queue!Drop
<1>1. Todo' = Todo /\ SettledApps' = SettledApps
  BY DEF Todo, SettledApps, Unsettled, Pending, InFlight
<1>2. CASE Working = {}
  BY <1>2, QueueStutters
<1>3. CASE Working # {}
  BY <1>1, <1>3 DEF Queue!Drop
<1> QED BY <1>2, <1>3

LEMMA RunnerRefines ==
    ASSUME Inv, OpeningInv, NEW r \in Runners, Starts(r) \/ Resume(r) \/ Runs(r) \/ Faults(r)
    PROVE  UNCHANGED Queue!vars \/ Queue!Next
<1>0. pc \in [Runners -> {"idle", "fetching"} \cup Steps]
  BY DEF Inv, TypeOK
<1>1. CASE Starts(r) \/ Resume(r)
  <2>1. LiveRuns = {}
    BY <1>1, Beginnings
  <2>2. PICK s \in Blobs : Begin(r, s)
    BY <1>1, Beginnings
  <2>3. \A q \in Runners : pc[q] # "fetching" /\ pc'[q] # "fetching"
    BY <1>0, <2>1, <2>2 DEF Begin, Goto, LiveRuns
  <2>4. Working = {} /\ Working' = {}
    BY <2>3 DEF Working
  <2> QED BY <2>2, <2>4, QueueStutters DEF Begin
<1>2. CASE Open(r)
  BY <1>2, OpenRefines DEF Queue!Next
<1>3. CASE \E a \in Apps : Dequeue(r, a)
  BY <1>3, DequeueRefines
<1>4. CASE Request(r)
  <2>1. mem[r].current \in Apps
    BY <1>4 DEF Request, Inv, FlightInv
  <2> QED BY <1>4, <2>1, RequestRefines DEF Queue!Next
<1>5. ASSUME NEW outcome \in Outcomes, Settle(r, outcome) \/ SaveFault(r, outcome)
      PROVE  Queue!Next
  <2>1. pc[r] \in {"gate", "fetching"} /\ Goto(r, "next") /\ mem[r].current \in Apps
    BY <1>5 DEF Settle, SaveFault, Inv, FlightInv
  <2>2. mem[r].totals \in Totals
    BY <2>1, Alone DEF Blobs
  <2>3. "failed" \in Outcomes
    BY DEF Outcomes
  <2>4. Counted(mem[r].totals, outcome) \in Totals
    BY <2>2, CountedType
  <2>5. Counted(Counted(mem[r].totals, outcome), "failed") \in Totals
    BY <2>3, <2>4, CountedType
  <2>6. Queue!Settle(mem[r].current)
    <3>1. CASE Settle(r, outcome)
      BY <2>1, <2>4, <3>1, SettleRefines DEF Settle
    <3>2. CASE SaveFault(r, outcome)
      BY <2>1, <2>3, <2>5, <3>2, SettleRefines DEF SaveFault
    <3> QED BY <1>5, <3>1, <3>2
  <2> QED BY <2>1, <2>6 DEF Queue!Next
<1>6. CASE Clear(r) \/ Release(r) \/ Abort(r)
  <2>1. \A q \in Runners : pc'[q] # "fetching"
    BY <1>0, <1>6, Alone DEF Clear, Release, Abort, Goto
  <2>2. Working' = {}
    BY <2>1 DEF Working
  <2>3. CASE Clear(r)
    BY <2>2, <2>3, WorkingOne, CloseRefines DEF Clear, Queue!Next
  <2>4. CASE Release(r) \/ Abort(r)
    BY <2>2, <2>4, DropRefines DEF Release, Abort, disk, Queue!Next
  <2> QED BY <1>6, <2>3, <2>4
<1> QED BY <1>1, <1>2, <1>3, <1>4, <1>5, <1>6 DEF Runs, Faults

LEMMA QueueStep ==
    ASSUME Inv, OpeningInv, [Next]_vars
    PROVE  [Queue!Next]_(Queue!vars)
<1>1. CASE \E r \in Runners : Starts(r) \/ Resume(r) \/ Runs(r) \/ Faults(r)
  BY <1>1, RunnerRefines
<1>2. CASE Crash
  <2>1. Working' = {}
    BY <1>2 DEF Crash, Working
  <2> QED BY <1>2, <2>1, DropRefines DEF Crash, disk, Queue!Next
<1>3. ASSUME LiveRuns = {}, pc' = pc, blob' = NoBlob PROVE UNCHANGED Queue!vars \/ Queue!Next
  <2>1. Working = {} /\ Working' = {}
    BY <1>3 DEF Working, LiveRuns
  <2> QED BY <1>3, <2>1, CloseRefines DEF Queue!Next
<1>4. CASE HealBlob
  <2>1. LiveRuns = {}
    BY <1>4 DEF HealBlob, Inv, LiveInv
  <2> QED BY <1>3, <1>4, <2>1 DEF HealBlob
<1>5. CASE HealthCheck
  <2>1. LiveRuns = {}
    BY <1>5, HealthCheckIdle
  <2> QED BY <1>3, <1>5, <2>1 DEF HealthCheck
<1>6. ASSUME blob' = blob, pc' = pc, mem' = mem PROVE UNCHANGED Queue!vars
  <2>1. Working' = Working
    BY <1>6 DEF Working
  <2> QED BY <1>6, <2>1, QueueStutters
<1>7. CASE Schedule \/ Drains \/ Boot \/ ResumeNothing \/ HealLock
  BY <1>6, <1>7 DEF Schedule, Drains, DrainOff, DrainBusy, Boot, ResumeNothing, HealLock, disk
<1>8. CASE (\E a \in Apps : LinkApp(a) \/ UnlinkApp(a)) \/ Switch \/ GoesStale
  BY <1>6, <1>8 DEF LinkApp, UnlinkApp, Switch, GoesStale, disk
<1>9. CASE UNCHANGED vars
  BY <1>6, <1>9 DEF vars, disk
<1> QED BY <1>1, <1>2, <1>4, <1>5, <1>7, <1>8, <1>9 DEF Next, BootCheck

\* The policy sync implements the promise of every bulk job: over all the
\* interleavings, crashes and failing writes, an app is worked on by one runner
\* at a time, what is settled stays settled in its run, and a run is given up
\* only while nobody works on it.
THEOREM PolicyImplementsQueue == Spec => QueueSpec
<1>1. Init => Queue!Init
  BY DEF Init, Queue!Init, Todo, SettledApps, Working
<1>2. Init => OpeningInv
  BY DEF Init, OpeningInv
<1>3. Spec => []OpeningInv
  BY <1>2, SpecInv, OpeningNext, PTL DEF Spec
<1>4. Inv /\ OpeningInv /\ [Next]_vars => [Queue!Next]_(Queue!vars)
  BY QueueStep
<1> QED BY <1>1, <1>3, <1>4, SpecInv, PTL DEF Spec, QueueSpec, Queue!Spec

-----------------------------------------------------------------------------
(***************************************************************************)
(* The counters agree with the queue.                                      *)
(***************************************************************************)
Attempts == Outcomes \cup {"in_progress"}

\* The totals of a run are the counts of its entries.
Agrees(s) ==
    /\ s.totals["attempted"] = CountOf(s, Attempts)
    /\ \A o \in Outcomes : s.totals[o] = CountOf(s, {o})

\* The stored run agrees, and so does the one a runner is about to store.
CountInv ==
    faults = 0 =>
        /\ blob # NoBlob => Agrees(blob)
        /\ \A r \in Runners : pc[r] = "opening" => Agrees(mem[r])

\* Counts depend on the entries only.
LEMMA CountSame ==
    ASSUME NEW s, NEW u, NEW S, \A a \in Apps : u.entry[a] \in S <=> s.entry[a] \in S
    PROVE  CountOf(u, S) = CountOf(s, S)
<1>1. {a \in Apps : u.entry[a] \in S} = {a \in Apps : s.entry[a] \in S}
  OBVIOUS
<1> QED BY <1>1 DEF CountOf

\* One entry moves from one status to another.
LEMMA CountMoves ==
    ASSUME NEW s, NEW u, NEW a \in Apps,
           \A b \in Apps : b # a => u.entry[b] = s.entry[b],
           NEW S
    PROVE  /\ (s.entry[a] \in S <=> u.entry[a] \in S) => CountOf(u, S) = CountOf(s, S)
           /\ s.entry[a] \in S /\ u.entry[a] \notin S => CountOf(u, S) = CountOf(s, S) - 1
           /\ s.entry[a] \notin S /\ u.entry[a] \in S => CountOf(u, S) = CountOf(s, S) + 1
<1> DEFINE X == {b \in Apps : s.entry[b] \in S}
           Y == {b \in Apps : u.entry[b] \in S}
<1>1. (s.entry[a] \in S <=> u.entry[a] \in S) => CountOf(u, S) = CountOf(s, S)
  <2>1. (s.entry[a] \in S <=> u.entry[a] \in S)
           => \A b \in Apps : u.entry[b] \in S <=> s.entry[b] \in S
    OBVIOUS
  <2> QED BY <2>1, CountSame
<1>2. IsFiniteSet(X)
  BY AppsAssumption, FS_Subset
<1>3. CountOf(u, S) = Cardinality(Y) /\ CountOf(s, S) = Cardinality(X)
  BY DEF CountOf
<1>4. ASSUME s.entry[a] \in S, u.entry[a] \notin S PROVE CountOf(u, S) = CountOf(s, S) - 1
  <2>1. Y = X \ {a} /\ a \in X
    BY <1>4
  <2> HIDE DEF X, Y
  <2> QED BY <1>2, <1>3, <2>1, FS_RemoveElement
<1>5. ASSUME s.entry[a] \notin S, u.entry[a] \in S PROVE CountOf(u, S) = CountOf(s, S) + 1
  <2>1. Y = X \cup {a} /\ a \notin X
    BY <1>5
  <2> HIDE DEF X, Y
  <2> QED BY <1>2, <1>3, <2>1, FS_AddElement
<1> QED BY <1>1, <1>4, <1>5

\* A new run counts nothing.
LEMMA NewRunAgrees ==
    ASSUME NEW id \in RunIds, NEW who \in Initiators, NEW mode \in Modes
    PROVE  Agrees(NewRun(id, who, mode))
<1> DEFINE s == NewRun(id, who, mode)
<1>1. \A a \in Apps : s.entry[a] \in {"absent", "pending"}
  BY DEF NewRun
<1>2. \A c \in Outcomes \cup {"attempted"} : s.totals[c] = 0
  BY DEF NewRun
<1>3. "absent" \notin Attempts /\ "pending" \notin Attempts
  BY DEF Attempts, Outcomes
<1> HIDE DEF s
<1>4. ASSUME NEW S \in SUBSET Attempts PROVE CountOf(s, S) = 0
  <2>1. {a \in Apps : s.entry[a] \in S} = {}
    BY <1>1, <1>3
  <2> QED BY <2>1, FS_EmptySet DEF CountOf
<1>5. CountOf(s, Attempts) = 0
  BY <1>4
<1>6. \A o \in Outcomes : CountOf(s, {o}) = 0
  BY <1>4 DEF Attempts
<1> QED BY <1>2, <1>5, <1>6 DEF Agrees, s

\* Un-counting what a dead process was fetching keeps a run in agreement.
LEMMA ResumedAgrees ==
    ASSUME NEW s \in Blobs, Agrees(s)
    PROVE  Agrees(Resumed(s))
<1> DEFINE left == s.totals["attempted"] - Cardinality(InFlight(s))
           n == IF left < 0 THEN 0 ELSE left
           e == [a \in Apps |-> IF a \in InFlight(s) THEN "pending" ELSE s.entry[a]]
           t == [s.totals EXCEPT !["attempted"] = n]
           u == Resumed(s)
           K == {a \in Apps : s.entry[a] \in Outcomes}
<1>1. u.entry = e /\ u.totals = t
  <2>1. u = [s EXCEPT !.initiator = "resume", !.entry = e, !.totals = t]
    BY DEF Resumed
  <2> HIDE DEF e, t, u
  <2> QED BY <2>1 DEF Blobs
<1>2. "pending" \notin Attempts /\ "in_progress" \notin Outcomes /\ "attempted" \notin Outcomes
  BY DEF Attempts, Outcomes
<1>3. ASSUME NEW o \in Outcomes PROVE CountOf(u, {o}) = CountOf(s, {o})
  <2>1. \A a \in Apps : u.entry[a] \in {o} <=> s.entry[a] \in {o}
    BY <1>1, <1>2 DEF InFlight, Attempts
  <2> HIDE DEF u
  <2> QED BY <2>1, CountSame
<1>4. n = CountOf(u, Attempts)
  <2>1. IsFiniteSet(InFlight(s)) /\ IsFiniteSet(K)
    BY AppsAssumption, FS_Subset DEF InFlight
  <2>2. {a \in Apps : s.entry[a] \in Attempts} = InFlight(s) \cup K /\ InFlight(s) \cap K = {}
    BY <1>2 DEF InFlight, Attempts
  <2>3. CountOf(s, Attempts) = Cardinality(InFlight(s) \cup K)
    BY <2>2 DEF CountOf
  <2>4. \A a \in Apps : u.entry[a] \in Attempts <=> s.entry[a] \in Outcomes
    BY <1>1, <1>2 DEF InFlight, Attempts
  <2>5. {a \in Apps : u.entry[a] \in Attempts} = K
    BY <2>4
  <2>6. CountOf(u, Attempts) = Cardinality(K)
    BY <2>5 DEF CountOf
  <2>7. Cardinality(InFlight(s)) \in Nat /\ Cardinality(K) \in Nat
    BY <2>1, FS_CardinalityType
  <2>8. s.totals["attempted"] = CountOf(s, Attempts)
    BY DEF Agrees
  <2> HIDE DEF K
  <2>9. Cardinality(InFlight(s) \cap K) = 0
    BY <2>2, FS_EmptySet
  <2>10. Cardinality(InFlight(s) \cup K)
           = Cardinality(InFlight(s)) + Cardinality(K) - Cardinality(InFlight(s) \cap K)
    BY <2>1, FS_Union
  <2>11. left = Cardinality(K)
    BY <2>3, <2>7, <2>8, <2>9, <2>10
  <2> HIDE DEF left, u
  <2> QED BY <2>6, <2>7, <2>11
<1>5. u.totals["attempted"] = n /\ \A o \in Outcomes : u.totals[o] = s.totals[o]
  <2> HIDE DEF n, u
  <2> QED BY <1>1, <1>2 DEF Blobs, Totals
<1> HIDE DEF u, n
<1> QED BY <1>3, <1>4, <1>5 DEF Agrees, u

\* Taking a pending app counts one attempt.
LEMMA DequeuedAgrees ==
    ASSUME NEW s \in Blobs, NEW a \in Pending(s), Agrees(s)
    PROVE  Agrees(Dequeued(s, a))
<1> DEFINE u == Dequeued(s, a)
           t == [s.totals EXCEPT !["attempted"] = @ + 1]
<1>1. a \in Apps /\ s.entry[a] = "pending"
  BY DEF Pending
<1>2. u.entry = [s.entry EXCEPT ![a] = "in_progress"]
  BY <1>1, DequeuedType
<1>3. u.totals = t
  <2> DEFINE e == [s.entry EXCEPT ![a] = "in_progress"]
  <2>1. u = [s EXCEPT !.entry = e, !.current = a, !.totals = t]
    BY DEF Dequeued
  <2> HIDE DEF u, e, t
  <2> QED BY <2>1 DEF Blobs
<1>4. /\ "pending" \notin Attempts /\ "in_progress" \in Attempts
      /\ "in_progress" \notin Outcomes /\ "pending" \notin Outcomes /\ "attempted" \notin Outcomes
  BY DEF Attempts, Outcomes
<1> HIDE DEF u, t
<1>5. u.entry[a] = "in_progress" /\ \A b \in Apps : b # a => u.entry[b] = s.entry[b]
  BY <1>1, <1>2 DEF Blobs
<1>6. ASSUME NEW S
      PROVE  /\ "pending" \notin S /\ "in_progress" \in S => CountOf(u, S) = CountOf(s, S) + 1
             /\ "pending" \notin S /\ "in_progress" \notin S => CountOf(u, S) = CountOf(s, S)
  <2>1. /\ (s.entry[a] \in S <=> u.entry[a] \in S) => CountOf(u, S) = CountOf(s, S)
        /\ s.entry[a] \notin S /\ u.entry[a] \in S => CountOf(u, S) = CountOf(s, S) + 1
    BY ONLY <1>1, <1>5, CountMoves
  <2> QED BY <1>1, <1>5, <2>1
<1>7. CountOf(u, Attempts) = CountOf(s, Attempts) + 1
  BY <1>4, <1>6
<1>8. \A o \in Outcomes : CountOf(u, {o}) = CountOf(s, {o})
  BY <1>4, <1>6
<1>9. /\ u.totals["attempted"] = s.totals["attempted"] + 1
      /\ \A o \in Outcomes : u.totals[o] = s.totals[o]
  <2>1. s.totals \in [Outcomes \cup {"attempted"} -> Int]
    BY DEF Blobs, Totals
  <2> QED BY <1>3, <1>4, <2>1 DEF t
<1> QED BY <1>7, <1>8, <1>9 DEF Agrees, u

\* Settling the app in flight counts its outcome.
LEMMA SettledAgrees ==
    ASSUME NEW s \in Blobs, s.current \in Apps, s.entry[s.current] = "in_progress",
           NEW outcome \in Outcomes, Agrees(s)
    PROVE  Agrees(Settled(s, outcome, Counted(s.totals, outcome)))
<1> DEFINE t == Counted(s.totals, outcome)
           u == Settled(s, outcome, t)
           i == s.current
<1>1. u.totals = t /\ \A b \in Apps : u.entry[b] = IF b = i THEN outcome ELSE s.entry[b]
  BY DEF Settled, Blobs
<1>2. /\ outcome \in Attempts /\ "in_progress" \in Attempts
      /\ "in_progress" \notin Outcomes /\ "attempted" \notin Outcomes
  BY DEF Attempts, Outcomes
<1>3. /\ t["attempted"] = s.totals["attempted"]
      /\ \A o \in Outcomes : t[o] = IF o = outcome THEN s.totals[o] + 1 ELSE s.totals[o]
  BY <1>2 DEF Counted, Blobs, Totals
<1> HIDE DEF u, t
<1>4. i \in Apps /\ s.entry[i] = "in_progress" /\ u.entry[i] = outcome
  BY <1>1
<1> HIDE DEF i
<1>5. ASSUME NEW S
      PROVE  /\ "in_progress" \in S /\ outcome \in S => CountOf(u, S) = CountOf(s, S)
             /\ "in_progress" \notin S /\ outcome \in S => CountOf(u, S) = CountOf(s, S) + 1
             /\ "in_progress" \notin S /\ outcome \notin S => CountOf(u, S) = CountOf(s, S)
  BY <1>1, <1>4, CountMoves
<1>6. CountOf(u, Attempts) = CountOf(s, Attempts)
  BY <1>2, <1>5
<1>7. \A o \in Outcomes :
        CountOf(u, {o}) = IF o = outcome THEN CountOf(s, {o}) + 1 ELSE CountOf(s, {o})
  BY <1>2, <1>5
<1> QED BY <1>1, <1>3, <1>6, <1>7 DEF Agrees, u, t

LEMMA RunnerCounts ==
    ASSUME Inv, CountInv, faults' = 0,
           NEW r \in Runners, Starts(r) \/ Resume(r) \/ Runs(r) \/ Faults(r)
    PROVE  CountInv'
<1> DEFINE s == mem[r]
<1>1. faults = 0 /\ ~Faults(r)
  <2>1. Faults(r) => faults' = faults + 1
    BY DEF Faults, Abort, SaveFault
  <2>2. ~Faults(r)
    BY <2>1 DEF Inv, TypeOK
  <2>3. faults' = faults
    BY <2>2 DEF Starts, Trigger, DrainStarts, BeginNew, Resume, Begin, Runs, Open, Dequeue,
                Request, Settle, Clear, Release, bounds
  <2> QED BY <2>2, <2>3
<1>2. CASE Starts(r) \/ Resume(r)
  <2>1. PICK u \in Blobs : Begin(r, u) /\ Agrees(u)
    <3>1. CASE \E mode \in Modes : Trigger(r, mode)
      <4>1. PICK mode \in Modes, id \in RunIds : Begin(r, NewRun(id, "manual", mode))
        BY <3>1 DEF Trigger, BeginNew
      <4> QED BY <4>1, NewRunType, NewRunAgrees DEF Initiators
    <3>2. CASE DrainStarts(r)
      <4>1. PICK id \in RunIds : Begin(r, NewRun(id, "automatic", "fetch"))
        BY <3>2 DEF DrainStarts, BeginNew
      <4> QED BY <4>1, NewRunType, NewRunAgrees DEF Initiators, Modes
    <3>3. CASE Resume(r)
      <4>1. Begin(r, Resumed(blob)) /\ blob \in Blobs /\ blob # NoBlob
        BY <3>3, NoBlobAssumption DEF Resume, HasPending, Inv, TypeOK
      <4> QED BY <1>1, <4>1, ResumedType, ResumedAgrees DEF CountInv
    <3> QED BY <1>2, <3>1, <3>2, <3>3 DEF Starts
  <2>2. \A q \in Runners : pc'[q] = (IF q = r THEN "opening" ELSE "idle")
    BY <1>2, <2>1, Beginnings DEF Begin, Goto, LiveRuns, Inv, TypeOK
  <2>3. mem'[r] = u /\ blob' = blob
    BY <2>1 DEF Begin, Inv, TypeOK
  <2>4. blob' # NoBlob => Agrees(blob')
    BY <1>1, <2>3 DEF CountInv
  <2>5. \A q \in Runners : pc'[q] = "opening" => Agrees(mem'[q])
    BY <2>1, <2>2, <2>3
  <2> QED BY <2>4, <2>5 DEF CountInv, Agrees, CountOf
<1>3. ASSUME Runs(r), NEW u, blob' = u, u # NoBlob => Agrees(u) PROVE CountInv'
  <2>1. pc[r] # "idle"
    BY <1>3 DEF Runs, Open, Dequeue, Request, Settle, Clear, Release
  <2>2. PICK l \in {"idle", "next", "gate", "fetching", "releasing"} : Goto(r, l)
    BY <1>3 DEF Runs, Open, Dequeue, Request, Settle, Clear, Release
  <2>3. \A q \in Runners : pc'[q] # "opening"
    BY <2>1, <2>2, Alone DEF Goto, Inv, TypeOK
  <2>4. blob' # NoBlob => Agrees(blob')
    BY <1>3
  <2> QED BY <2>3, <2>4 DEF CountInv, Agrees, CountOf
<1>4. ASSUME pc[r] \in {"next", "gate", "fetching"} PROVE s \in Blobs /\ Agrees(s)
  <2>1. blob = s /\ blob # NoBlob /\ s \in Blobs
    BY <1>4, Alone, NoBlobAssumption DEF Inv, LoopInv
  <2> QED BY <1>1, <2>1 DEF CountInv
<1>5. CASE Open(r)
  <2>1. Agrees(s) /\ blob' = s /\ Runs(r)
    BY <1>1, <1>5 DEF Open, Persist, CountInv, Runs
  <2> QED BY <1>3, <2>1
<1>6. ASSUME NEW a \in Apps, Dequeue(r, a) PROVE CountInv'
  <2>1. blob' = Dequeued(s, a) /\ Runs(r) /\ a \in Pending(s)
    BY <1>6 DEF Dequeue, Dequeued, Persist, Runs
  <2>2. Agrees(Dequeued(s, a))
    BY <1>4, <1>6, <2>1, DequeuedAgrees DEF Dequeue
  <2> QED BY <1>3, <2>1, <2>2
<1>7. ASSUME NEW outcome \in Outcomes, Settle(r, outcome) PROVE CountInv'
  <2> DEFINE u == Settled(s, outcome, Counted(s.totals, outcome))
  <2>1. blob' = u /\ Runs(r)
    BY <1>7 DEF Settle, Persist, Runs
  <2>2. s.current \in Apps /\ s.entry[s.current] = "in_progress"
    BY <1>7 DEF Settle, Inv, FlightInv
  <2>3. s \in Blobs /\ Agrees(s)
    BY <1>4, <1>7 DEF Settle
  <2> HIDE DEF s
  <2>4. Agrees(u)
    BY <2>2, <2>3, SettledAgrees
  <2> HIDE DEF u
  <2> QED BY <1>3, <2>1, <2>4
<1>8. CASE Request(r) \/ Clear(r) \/ Release(r)
  <2>1. (blob' = blob \/ blob' = NoBlob) /\ Runs(r)
    BY <1>8 DEF Request, Clear, Release, disk, Runs
  <2>2. blob' # NoBlob => Agrees(blob')
    BY <1>1, <2>1 DEF CountInv
  <2> QED BY <1>3, <2>1, <2>2
<1> QED BY <1>1, <1>2, <1>5, <1>6, <1>7, <1>8 DEF Runs

LEMMA CountNext == Inv /\ CountInv /\ [Next]_vars => CountInv'
<1> SUFFICES ASSUME Inv, CountInv, [Next]_vars, faults' = 0 PROVE CountInv'
  BY DEF CountInv
<1>1. ASSUME NEW r \in Runners, Starts(r) \/ Resume(r) \/ Runs(r) \/ Faults(r) PROVE CountInv'
  BY <1>1, RunnerCounts
<1>2. ASSUME \A r \in Runners : pc'[r] = "idle" \/ (pc'[r] = pc[r] /\ mem'[r] = mem[r]),
             blob' = blob \/ blob' = NoBlob, faults' = faults
      PROVE  CountInv'
  <2>1. blob' # NoBlob => Agrees(blob')
    BY <1>2 DEF CountInv
  <2>2. \A r \in Runners : pc'[r] = "opening" => Agrees(mem'[r])
    BY <1>2 DEF CountInv
  <2> QED BY <2>1, <2>2 DEF CountInv, Agrees, CountOf
<1>3. CASE Crash
  <2>1. /\ \A r \in Runners : pc'[r] = "idle"
        /\ blob' = blob /\ faults' = faults
    BY <1>3 DEF Crash, disk
  <2> QED BY <1>2, <2>1
<1>4. CASE HealLock \/ HealBlob \/ HealthCheck
  BY <1>2, <1>4 DEF HealLock, HealBlob, HealthCheck, bounds
<1>5. CASE Schedule \/ Drains \/ Boot \/ ResumeNothing
  BY <1>2, <1>5 DEF Schedule, Drains, DrainOff, DrainBusy, Boot, ResumeNothing, disk, bounds
<1>6. CASE (\E a \in Apps : LinkApp(a) \/ UnlinkApp(a)) \/ Switch \/ GoesStale
  BY <1>2, <1>6 DEF LinkApp, UnlinkApp, Switch, GoesStale, disk, bounds
<1>7. CASE UNCHANGED vars
  BY <1>2, <1>7 DEF vars, disk, bounds
<1> QED BY <1>1, <1>3, <1>4, <1>5, <1>6, <1>7 DEF Next, BootCheck

\* While no write threw inside an app, the counters of every stored policy run
\* are the counts of its entries, through crashes and resumes: an attempt is an
\* app that was begun, once, however often a process died on it.
THEOREM PolicyCountersMatch == Spec => []CountersMatchQueue
<1>1. Init => CountInv
  BY DEF Init, CountInv
<1>2. CountInv => CountersMatchQueue
  BY DEF CountInv, CountersMatchQueue, Agrees, Attempts
<1> QED BY <1>1, <1>2, SpecInv, CountNext, PTL DEF Spec
=============================================================================
