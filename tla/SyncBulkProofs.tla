--------------------------- MODULE SyncBulkProofs ---------------------------
(***************************************************************************)
(* Proofs about the bulk App Store sync, for any number of apps, runners,  *)
(* crashes, 429s and failing writes: there is one runner and the stored    *)
(* queue is its own; every step of SyncBulk is a step of the abstract      *)
(* queue or leaves it alone; a queue with work left is never dropped; and  *)
(* the summary counters agree with the queue.                              *)
(***************************************************************************)
EXTENDS SyncBulk, FiniteSetTheorems, TLAPS

(***************************************************************************)
(* What makes one runner at a time, and a truthful queue, inductive.       *)
(***************************************************************************)

\* A runner that is alive belongs to a process that is up, holds the lock and
\* a run state, and keeps the stored queue fresh.
LiveInv ==
    \A r \in LiveRuns :
        /\ boot \in {"waiting", "done"}
        /\ mutex
        /\ mem[r] \in Blobs

\* Before its first write the run holds work, or nothing at all.
OpeningInv ==
    \A r \in Runners : pc[r] = "opening" =>
        (\A a \in Apps : mem[r].entry[a] = "absent") \/ Pending(mem[r]) # {}

\* Inside the loop the stored queue is the runner's own and is fresh.
LoopInv ==
    \A r \in Runners : pc[r] \in Awaiting \cup {"next", "missing"} =>
        blob = mem[r] /\ ~stale

\* At an await, where other handlers run, work is left in the queue: this is
\* what keeps the health check from taking the lock for dead.
AwaitInv ==
    \A r \in Runners :
        /\ pc[r] = "loading" => Pending(mem[r]) # {}
        /\ pc[r] \in {"fetching", "missing"} =>
             mem[r].current \in Apps /\ mem[r].entry[mem[r].current] = "in_progress"

Inv ==
    /\ TypeOK
    /\ OneRunner
    /\ LiveInv
    /\ OpeningInv
    /\ LoopInv
    /\ AwaitInv

-----------------------------------------------------------------------------
(***************************************************************************)
(* Lemmas about the operators the model is built from.                     *)
(***************************************************************************)

\* A fresh run is a well-formed run state.
LEMMA NewRunType ==
    ASSUME NEW id \in RunIds, NEW who \in Initiators
    PROVE  NewRun(id, who) \in Blobs
  BY DEF NewRun, Blobs, Entries, Totals, Done, Failed

\* A set of apps has a number of members.
LEMMA CountType ==
    ASSUME NEW S \in SUBSET Apps
    PROVE  Cardinality(S) \in Nat
  BY AppsAssumption, FS_Subset, FS_CardinalityType

\* A run taken over is a well-formed run state, with nothing in flight and
\* everything that was not settled pending.
LEMMA ResumedType ==
    ASSUME NEW s \in Blobs
    PROVE  /\ Resumed(s) \in Blobs
           /\ Pending(Resumed(s)) = Unsettled(s)
<1> DEFINE left == s.totals.attempted - Cardinality(InFlight(s))
           n == IF left < 0 THEN 0 ELSE left
           e == [a \in Apps |-> IF a \in InFlight(s) THEN "pending" ELSE s.entry[a]]
<1>1. Cardinality(InFlight(s)) \in Nat
  BY CountType DEF InFlight
<1>2. n \in Int
  BY <1>1 DEF Blobs, Totals
<1>3. e \in [Apps -> Entries]
  BY DEF Blobs, Entries
<1>4. [s.totals EXCEPT !.attempted = n] \in Totals
  BY <1>2 DEF Blobs, Totals
<1>5. Resumed(s) = [s EXCEPT !.initiator = "resume", !.entry = e, !.totals.attempted = n]
  BY DEF Resumed
<1>6. Resumed(s) \in Blobs /\ Resumed(s).entry = e
  <2> HIDE DEF e, n
  <2> QED BY <1>3, <1>4, <1>5 DEF Blobs, Initiators
<1>7. Pending(Resumed(s)) = Unsettled(s)
  BY <1>6 DEF Pending, Unsettled, InFlight
<1> QED BY <1>6, <1>7

\* Counting up or down keeps the totals well formed.
LEMMA TotalsType ==
    ASSUME NEW t \in Totals, NEW n \in Int
    PROVE  /\ [t EXCEPT !.attempted = n] \in Totals
           /\ [t EXCEPT !.changes = n] \in Totals
           /\ [t EXCEPT !.failed = n] \in Totals
           /\ [t EXCEPT !.rateLimited = n] \in Totals
<1>1. [t EXCEPT !.attempted = n] \in Totals /\ [t EXCEPT !.changes = n] \in Totals
  BY DEF Totals
<1>2. [t EXCEPT !.failed = n] \in Totals /\ [t EXCEPT !.rateLimited = n] \in Totals
  BY DEF Totals
<1> QED BY <1>1, <1>2

\* A good fetch keeps the totals well formed.
LEMMA SucceededType ==
    ASSUME NEW t \in Totals, NEW changed \in BOOLEAN
    PROVE  Succeeded(t, changed) \in Totals
<1> DEFINE u == [t EXCEPT !.succeeded = @ + 1]
           n == IF changed THEN t.changes + 1 ELSE t.changes
<1>1. u \in Totals
  BY DEF Totals
<1>2. n \in Int
  BY DEF Totals
<1>3. Succeeded(t, changed) = [u EXCEPT !.changes = n]
  BY DEF Succeeded, Totals
<1> HIDE DEF u, n
<1> QED BY <1>1, <1>2, <1>3, TotalsType

\* Marking an app in flight keeps the run state well formed.
Dequeued(s, a) ==
    [s EXCEPT !.entry[a] = "in_progress", !.current = a, !.totals.attempted = @ + 1]

LEMMA DequeuedType ==
    ASSUME NEW s \in Blobs, NEW a \in Apps
    PROVE  /\ Dequeued(s, a) \in Blobs
           /\ Dequeued(s, a).current = a
           /\ Dequeued(s, a).entry[a] = "in_progress"
<1> DEFINE e == [s.entry EXCEPT ![a] = "in_progress"]
           t == [s.totals EXCEPT !.attempted = @ + 1]
<1>1. e \in [Apps -> Entries] /\ e[a] = "in_progress"
  BY DEF Blobs, Entries
<1>2. t \in Totals
  BY DEF Blobs, Totals
<1>3. Dequeued(s, a) = [s EXCEPT !.entry = e, !.current = a, !.totals = t]
  BY DEF Dequeued
<1> HIDE DEF e, t
<1> QED BY <1>1, <1>2, <1>3 DEF Blobs

\* So does settling the one in flight.
LEMMA SettledType ==
    ASSUME NEW s \in Blobs, s.current \in Apps,
           NEW outcome \in Done \cup Failed, NEW totals \in Totals
    PROVE  Settled(s, outcome, totals) \in Blobs
<1> DEFINE e == [s.entry EXCEPT ![s.current] = outcome]
<1>1. e \in [Apps -> Entries]
  BY DEF Blobs, Entries
<1>2. Settled(s, outcome, totals)
        = [s EXCEPT !.entry = e, !.current = NoApp, !.totals = totals]
  BY DEF Settled
<1> HIDE DEF e
<1> QED BY <1>1, <1>2 DEF Blobs

-----------------------------------------------------------------------------
LEMMA InitInv == Init => Inv
<1> SUFFICES ASSUME Init PROVE Inv
  OBVIOUS
<1>1. TypeOK
  BY DEF Init, TypeOK
<1>2. LiveRuns = {}
  BY DEF Init, LiveRuns
<1>3. OneRunner /\ LiveInv
  BY <1>2 DEF OneRunner, LiveInv
<1>4. OpeningInv /\ LoopInv /\ AwaitInv
  BY DEF Init, OpeningInv, LoopInv, AwaitInv, Awaiting
<1> QED BY <1>1, <1>3, <1>4 DEF Inv

\* Starting a runner where none is alive, on a well-formed run.
LEMMA BeginInv ==
    ASSUME Inv, NEW r \in Runners, NEW s \in Blobs, Begin(r, s),
           boot \in {"waiting", "done"}, boot' \in {"waiting", "done"},
           LiveRuns = {},
           (\A a \in Apps : s.entry[a] = "absent") \/ Pending(s) # {}
    PROVE  Inv'
<1>1. TypeOK'
  BY DEF Inv, TypeOK, Begin, Goto, Steps
<1>2. pc' = [pc EXCEPT ![r] = "opening"] /\ mem' = [mem EXCEPT ![r] = s] /\ mutex'
  BY DEF Begin, Goto
<1>3. LiveRuns' = {r}
  BY <1>2 DEF LiveRuns, Inv, TypeOK
<1>4. OneRunner'
  BY <1>3 DEF OneRunner
<1>5. LiveInv'
  BY <1>2, <1>3 DEF LiveInv, Inv, TypeOK
<1>6. \A q \in Runners : pc'[q] = (IF q = r THEN "opening" ELSE "idle")
  BY <1>2 DEF LiveRuns, Inv, TypeOK
<1>7. OpeningInv'
  BY <1>2, <1>6 DEF OpeningInv, Inv, TypeOK, Pending
<1>8. LoopInv' /\ AwaitInv'
  BY <1>6 DEF LoopInv, AwaitInv, Awaiting
<1> QED BY <1>1, <1>4, <1>5, <1>7, <1>8 DEF Inv

\* Nobody runs when the lock is free.
LEMMA FreeMeansIdle == Inv /\ CanStart => LiveRuns = {}
  BY DEF Inv, LiveInv, CanStart

\* A runner that is alive is the only one.
LEMMA Alone ==
    ASSUME Inv, NEW r \in Runners, pc[r] # "idle"
    PROVE  /\ \A q \in Runners : q # r => pc[q] = "idle"
           /\ mutex
           /\ mem[r] \in Blobs
           /\ boot \in {"waiting", "done"}
  BY DEF Inv, OneRunner, LiveInv, LiveRuns

\* A step of the runner that is alive which writes its state to the queue.
LEMMA PersistInv ==
    ASSUME Inv, NEW r \in Runners, pc[r] # "idle",
           NEW s \in Blobs, Persist(r, s),
           NEW l \in {"loading", "next", "fetching", "missing", "clearing"}, Goto(r, l),
           l = "loading" => Pending(s) # {},
           l \in {"fetching", "missing"} =>
               s.current \in Apps /\ s.entry[s.current] = "in_progress",
           apps' \subseteq Apps,
           limits' \in Nat, faults' \in Nat,
           UNCHANGED <<due, boot, policyDue, crashes>>
    PROVE  Inv'
<1>1. TypeOK'
  BY DEF Inv, TypeOK, Persist, Goto, Awaiting, Steps
<1>2. /\ \A q \in Runners : pc'[q] = (IF q = r THEN l ELSE "idle")
      /\ mem'[r] = s
      /\ blob' = s
      /\ ~stale'
      /\ mutex'
      /\ boot' \in {"waiting", "done"}
  BY Alone DEF Persist, Goto, Inv, TypeOK
<1>3. OneRunner' /\ LiveInv'
  BY <1>2 DEF OneRunner, LiveInv, LiveRuns
<1>4. OpeningInv' /\ LoopInv'
  BY <1>2 DEF OpeningInv, LoopInv, Awaiting
<1>5. AwaitInv'
  BY <1>2 DEF AwaitInv, Pending
<1> QED BY <1>1, <1>3, <1>4, <1>5 DEF Inv

\* A step of the runner that is alive towards its end.
LEMMA LeaveInv ==
    ASSUME Inv, NEW r \in Runners, pc[r] # "idle",
           NEW l \in {"idle", "clearing", "releasing"}, Goto(r, l),
           TypeOK', boot' = boot,
           l # "idle" => mutex' /\ mem'[r] \in Blobs
    PROVE  Inv'
<1>1. /\ \A q \in Runners : pc'[q] = (IF q = r THEN l ELSE "idle")
      /\ boot' \in {"waiting", "done"}
  BY Alone DEF Goto, Inv, TypeOK
<1>2. OneRunner' /\ LiveInv'
  BY <1>1 DEF OneRunner, LiveInv, LiveRuns
<1>3. OpeningInv' /\ LoopInv' /\ AwaitInv'
  BY <1>1 DEF OpeningInv, LoopInv, AwaitInv, Awaiting
<1> QED BY <1>2, <1>3 DEF Inv

\* A step that leaves every runner, lock and queue alone.
LEMMA AsideInv ==
    ASSUME Inv, TypeOK', UNCHANGED <<mutex, blob, pc, mem>>,
           boot' = boot \/ boot' \in {"waiting", "done"} \/ LiveRuns = {},
           stale' = stale \/ LiveRuns = {}
    PROVE  Inv'
<1>1. OneRunner' /\ OpeningInv'
  BY DEF Inv, OneRunner, OpeningInv, LiveRuns, Pending
<1>2. LiveInv'
  BY DEF Inv, LiveInv, LiveRuns
<1>3. LoopInv'
  BY DEF Inv, LoopInv, LiveRuns, Awaiting
<1>4. AwaitInv'
  BY DEF Inv, AwaitInv, Pending
<1> QED BY <1>1, <1>2, <1>3, <1>4 DEF Inv

\* A step of a process that has no runner and starts none.
LEMMA IdleInv ==
    ASSUME Inv, LiveRuns' = {}, TypeOK'
    PROVE  Inv'
<1>1. OneRunner' /\ LiveInv'
  BY DEF OneRunner, LiveInv
<1>2. \A r \in Runners : pc'[r] = "idle"
  BY DEF LiveRuns
<1>3. OpeningInv' /\ LoopInv' /\ AwaitInv'
  BY <1>2 DEF OpeningInv, LoopInv, AwaitInv, Awaiting
<1> QED BY <1>1, <1>3 DEF Inv

-----------------------------------------------------------------------------
(***************************************************************************)
(* Every action keeps the invariant.                                       *)
(***************************************************************************)
LEMMA StartInv ==
    ASSUME Inv, NEW r \in Runners, NEW who \in Initiators, Start(r, who)
    PROVE  Inv'
<1>1. PICK id \in RunIds : Begin(r, NewRun(id, who))
  BY DEF Start
<1>2. NewRun(id, who) \in Blobs
  BY NewRunType
<1>3. (\A a \in Apps : NewRun(id, who).entry[a] = "absent") \/ Pending(NewRun(id, who)) # {}
  BY DEF NewRun, Pending
<1>4. boot \in {"waiting", "done"} /\ boot' = boot
  BY DEF Start, Yielded, Inv, TypeOK
<1>5. LiveRuns = {}
  BY FreeMeansIdle DEF Start
<1> QED BY <1>1, <1>2, <1>3, <1>4, <1>5, BeginInv

LEMMA ResumeInv ==
    ASSUME Inv, NEW r \in Runners, Resume(r)
    PROVE  Inv'
<1>1. blob \in Blobs
  BY DEF Resume, HasPending, Inv, TypeOK
<1>2. Resumed(blob) \in Blobs /\ Pending(Resumed(blob)) # {}
  BY <1>1, ResumedType DEF Resume, HasPending
<1>3. boot \in {"waiting", "done"} /\ boot' \in {"waiting", "done"} /\ LiveRuns = {}
  BY DEF Resume, SyncLive
<1> QED BY <1>2, <1>3, BeginInv DEF Resume

LEMMA OpenInv ==
    ASSUME Inv, NEW r \in Runners, Open(r)
    PROVE  Inv'
<1> DEFINE l == IF \A a \in Apps : mem[r].entry[a] = "absent" THEN "clearing" ELSE "loading"
<1>1. pc[r] # "idle" /\ Persist(r, mem[r]) /\ Goto(r, l) /\ mem[r] \in Blobs
  BY Alone DEF Open
<1>2. l = "loading" => Pending(mem[r]) # {}
  BY DEF Open, Inv, OpeningInv
<1>3. /\ apps' \subseteq Apps /\ limits' \in Nat /\ faults' \in Nat
      /\ UNCHANGED <<due, boot, policyDue, crashes>>
  BY DEF Open, bounds, Inv, TypeOK
<1>4. l \in {"loading", "clearing"}
  OBVIOUS
<1> HIDE DEF l
<1> QED BY <1>1, <1>2, <1>3, <1>4, PersistInv

LEMMA DequeueInv ==
    ASSUME Inv, NEW r \in Runners, NEW a \in Apps, Dequeue(r, a)
    PROVE  Inv'
<1> DEFINE s == Dequeued(mem[r], a)
           l == IF a \in apps THEN "fetching" ELSE "missing"
<1>1. pc[r] # "idle" /\ Persist(r, s) /\ Goto(r, l)
  BY DEF Dequeue, Dequeued
<1>2. s \in Blobs /\ s.current = a /\ s.entry[a] = "in_progress"
  BY <1>1, Alone, DequeuedType
<1>3. /\ apps' \subseteq Apps /\ limits' \in Nat /\ faults' \in Nat
      /\ UNCHANGED <<due, boot, policyDue, crashes>>
  BY DEF Dequeue, bounds, Inv, TypeOK
<1>4. l \in {"fetching", "missing"}
  OBVIOUS
<1> HIDE DEF l, s
<1> QED BY <1>1, <1>2, <1>3, <1>4, PersistInv

\* The runner settles the app in flight and goes back to its loop.
LEMMA SettleInv ==
    ASSUME Inv, NEW r \in Runners, pc[r] \in {"fetching", "missing"},
           NEW outcome \in Done \cup Failed, NEW totals \in Totals,
           Persist(r, Settled(mem[r], outcome, totals)), Goto(r, "next"),
           apps' \subseteq apps \cup {mem[r].current},
           limits' \in Nat, faults' \in Nat,
           UNCHANGED <<due, boot, policyDue, crashes>>
    PROVE  Inv'
<1>1. pc[r] # "idle" /\ mem[r].current \in Apps
  BY DEF Inv, AwaitInv
<1>2. Settled(mem[r], outcome, totals) \in Blobs
  BY <1>1, Alone, SettledType
<1>3. apps' \subseteq Apps
  BY <1>1 DEF Inv, TypeOK
<1> QED BY <1>1, <1>2, <1>3, PersistInv

LEMMA SkipInv ==
    ASSUME Inv, NEW r \in Runners, Skip(r)
    PROVE  Inv'
<1> DEFINE t == [mem[r].totals EXCEPT !.skipped = @ + 1, !.attempted = @ - 1]
<1> DEFINE u == [mem[r].totals EXCEPT !.skipped = @ + 1]
<1>0. mem[r].totals \in Totals
  BY Alone DEF Skip, Blobs
<1>4. u \in Totals /\ u.attempted - 1 \in Int
  BY <1>0 DEF Totals
<1>5. t = [u EXCEPT !.attempted = u.attempted - 1]
  BY <1>0 DEF Totals
<1>1. t \in Totals
  <2> HIDE DEF u, t
  <2> QED BY <1>4, <1>5, TotalsType
<1>2. /\ pc[r] \in {"fetching", "missing"}
      /\ Persist(r, Settled(mem[r], "skipped", t)) /\ Goto(r, "next")
  BY DEF Skip
<1>3. /\ apps' = apps /\ limits' \in Nat /\ faults' \in Nat
      /\ UNCHANGED <<due, boot, policyDue, crashes>>
  BY DEF Skip, bounds, Inv, TypeOK
<1> HIDE DEF t
<1> QED BY <1>1, <1>2, <1>3, SettleInv DEF Done

LEMMA FetchOkInv ==
    ASSUME Inv, NEW r \in Runners, NEW changed \in BOOLEAN, FetchOk(r, changed)
    PROVE  Inv'
<1> DEFINE t == Succeeded(mem[r].totals, changed)
           o == IF changed THEN "changed" ELSE "succeeded"
<1>0. mem[r].totals \in Totals
  BY Alone DEF FetchOk, Blobs
<1>1. t \in Totals
  BY <1>0, SucceededType
<1>2. /\ pc[r] \in {"fetching", "missing"}
      /\ Persist(r, Settled(mem[r], o, t)) /\ Goto(r, "next")
  BY DEF FetchOk
<1>3. /\ apps' = apps \cup {mem[r].current} /\ limits' \in Nat /\ faults' \in Nat
      /\ UNCHANGED <<due, boot, policyDue, crashes>>
  BY DEF FetchOk, bounds, Inv, TypeOK
<1>4. o \in Done \cup Failed
  BY DEF Done
<1> HIDE DEF t, o
<1> QED BY <1>1, <1>2, <1>3, <1>4, SettleInv

LEMMA FetchFailsInv ==
    ASSUME Inv, NEW r \in Runners, FetchFails(r)
    PROVE  Inv'
<1> DEFINE t == [mem[r].totals EXCEPT !.failed = @ + 1]
<1>1. t \in Totals
  BY Alone DEF FetchFails, Blobs, Totals
<1>2. /\ pc[r] \in {"fetching", "missing"}
      /\ Persist(r, Settled(mem[r], "failed", t)) /\ Goto(r, "next")
  BY DEF FetchFails
<1>3. /\ apps' = apps /\ limits' \in Nat /\ faults' \in Nat
      /\ UNCHANGED <<due, boot, policyDue, crashes>>
  BY DEF FetchFails, bounds, Inv, TypeOK
<1> HIDE DEF t
<1> QED BY <1>1, <1>2, <1>3, SettleInv DEF Failed

LEMMA SaveFaultInv ==
    ASSUME Inv, NEW r \in Runners, NEW changed \in BOOLEAN, SaveFault(r, changed)
    PROVE  Inv'
<1> DEFINE t == [Succeeded(mem[r].totals, changed) EXCEPT !.failed = @ + 1]
<1>0. mem[r].totals \in Totals
  BY Alone DEF SaveFault, Blobs
<1> DEFINE u == Succeeded(mem[r].totals, changed)
<1>4. u \in Totals /\ u.failed + 1 \in Int
  BY <1>0, SucceededType DEF Totals
<1>1. t \in Totals
  <2>1. t = [u EXCEPT !.failed = u.failed + 1]
    OBVIOUS
  <2> HIDE DEF u, t
  <2> QED BY <1>4, <2>1, TotalsType
<1>2. /\ pc[r] \in {"fetching", "missing"}
      /\ Persist(r, Settled(mem[r], "failed", t)) /\ Goto(r, "next")
  BY DEF SaveFault
<1>3. /\ apps' = apps \cup {mem[r].current} /\ limits' \in Nat /\ faults' \in Nat
      /\ UNCHANGED <<due, boot, policyDue, crashes>>
  BY DEF SaveFault, bounds, Inv, TypeOK
<1> HIDE DEF t
<1> QED BY <1>1, <1>2, <1>3, SettleInv DEF Failed

LEMMA FetchLimitedInv ==
    ASSUME Inv, NEW r \in Runners, FetchLimited(r)
    PROVE  Inv'
<1> DEFINE u == [mem[r].totals EXCEPT !.rateLimited = @ + 1]
           t == [mem[r].totals EXCEPT !.rateLimited = @ + 1, !.attempted = @ - 1]
           s == Settled(mem[r], "rate_limited", t)
           v == [s.totals EXCEPT !.rateLimited = @ + Cardinality(Pending(s))]
           m == [s EXCEPT !.totals.rateLimited = @ + Cardinality(Pending(s))]
<1>1. /\ pc[r] # "idle" /\ mem[r] \in Blobs /\ mem[r].totals \in Totals /\ mutex
      /\ mem[r].current \in Apps
  BY Alone DEF FetchLimited, Blobs, Inv, AwaitInv
<1>2. t \in Totals
  <2>1. u \in Totals /\ u.attempted - 1 \in Int
    BY <1>1 DEF Totals
  <2>2. t = [u EXCEPT !.attempted = u.attempted - 1]
    BY <1>1 DEF Totals
  <2> HIDE DEF u, t
  <2> QED BY <2>1, <2>2, TotalsType
<1>3. s \in Blobs
  <2> HIDE DEF t
  <2> QED BY <1>1, <1>2, SettledType DEF Failed
<1>4. m \in Blobs
  <2> HIDE DEF s
  <2>1. Cardinality(Pending(s)) \in Nat
    BY CountType DEF Pending
  <2>2. s.totals \in Totals
    BY <1>3 DEF Blobs
  <2>3. s.totals.rateLimited + Cardinality(Pending(s)) \in Int
    BY <2>1, <2>2 DEF Totals
  <2>4. v \in Totals
    BY <2>2, <2>3, TotalsType
  <2>5. m = [s EXCEPT !.totals = v]
    BY <1>3 DEF Blobs
  <2> HIDE DEF v, m
  <2> QED BY <1>3, <2>4, <2>5 DEF Blobs
<1>5. /\ blob' = s /\ mem' = [mem EXCEPT ![r] = m] /\ stale' = FALSE
      /\ Goto(r, "clearing") /\ limits' = limits + 1
      /\ UNCHANGED <<apps, mutex, due, boot, policyDue, crashes, faults>>
  BY DEF FetchLimited
<1>6. TypeOK'
  <2> HIDE DEF s, m
  <2>1. pc' \in [Runners -> {"idle"} \cup Awaiting \cup Steps]
    BY <1>5 DEF Inv, TypeOK, Goto, Steps
  <2>2. mem' \in [Runners -> Blobs \cup {NoBlob}]
    BY <1>4, <1>5 DEF Inv, TypeOK
  <2>3. limits' \in Nat
    BY <1>5 DEF Inv, TypeOK
  <2> QED BY <1>3, <1>5, <2>1, <2>2, <2>3 DEF Inv, TypeOK
<1>7. mem'[r] = m /\ mutex'
  <2> HIDE DEF m
  <2> QED BY <1>1, <1>5 DEF Inv, TypeOK
<1> HIDE DEF m, s
<1> QED BY <1>1, <1>4, <1>5, <1>6, <1>7, LeaveInv

LEMMA LoadedInv ==
    ASSUME Inv, NEW r \in Runners, Loaded(r)
    PROVE  Inv'
<1>1. /\ pc[r] = "loading" /\ Goto(r, "next")
      /\ UNCHANGED <<apps, mutex, blob, stale, due, boot, mem, policyDue,
                     crashes, limits, faults>>
  BY DEF Loaded, disk, bounds
<1>2. /\ \A q \in Runners : pc'[q] = (IF q = r THEN "next" ELSE "idle")
      /\ mutex /\ mem[r] \in Blobs /\ boot \in {"waiting", "done"}
      /\ blob = mem[r] /\ ~stale
  BY <1>1, Alone DEF Goto, Inv, TypeOK, LoopInv, Awaiting
<1>3. TypeOK'
  BY <1>1 DEF Inv, TypeOK, Goto, Steps
<1>4. OneRunner' /\ LiveInv'
  BY <1>1, <1>2 DEF OneRunner, LiveInv, LiveRuns
<1>5. OpeningInv' /\ LoopInv' /\ AwaitInv'
  BY <1>1, <1>2 DEF OpeningInv, LoopInv, AwaitInv, Awaiting
<1> QED BY <1>3, <1>4, <1>5 DEF Inv

LEMMA CompleteInv ==
    ASSUME Inv, NEW r \in Runners, Complete(r)
    PROVE  Inv'
<1>1. pc[r] # "idle" /\ Goto(r, "clearing") /\ boot' = boot
  BY DEF Complete
<1>2. mutex' /\ mem'[r] \in Blobs
  BY <1>1, Alone DEF Complete, disk
<1>3. TypeOK'
  BY DEF Complete, disk, bounds, Inv, TypeOK, Goto, Steps
<1> QED BY <1>1, <1>2, <1>3, LeaveInv

LEMMA ClearInv ==
    ASSUME Inv, NEW r \in Runners, Clear(r)
    PROVE  Inv'
<1>1. pc[r] # "idle" /\ Goto(r, "releasing") /\ boot' = boot
  BY DEF Clear
<1>2. mutex' /\ mem'[r] \in Blobs
  BY <1>1, Alone DEF Clear
<1>3. TypeOK'
  BY DEF Clear, bounds, Inv, TypeOK, Goto, Steps
<1> QED BY <1>1, <1>2, <1>3, LeaveInv

LEMMA ReleaseInv ==
    ASSUME Inv, NEW r \in Runners, Release(r)
    PROVE  Inv'
<1>1. pc[r] # "idle" /\ Goto(r, "idle") /\ boot' = boot
  BY DEF Release
<1>2. policyDue' \in BOOLEAN
  BY DEF Release
<1>3. TypeOK'
  BY <1>2 DEF Release, bounds, Inv, TypeOK, Goto
<1> QED BY <1>1, <1>3, LeaveInv

LEMMA AbortInv ==
    ASSUME Inv, NEW r \in Runners, Abort(r)
    PROVE  Inv'
<1>1. pc[r] # "idle" /\ Goto(r, "idle") /\ boot' = boot
  BY DEF Abort
<1>2. TypeOK'
  BY DEF Abort, disk, Inv, TypeOK, Goto
<1> QED BY <1>1, <1>2, LeaveInv

\* One lemma for the steps of a runner, as Next has them.
LEMMA RunnerInv ==
    ASSUME Inv, NEW r \in Runners,
           Trigger(r) \/ SchedulerTick(r) \/ Runs(r) \/ Faults(r)
    PROVE  Inv'
<1>1. CASE Trigger(r)
  BY <1>1, StartInv DEF Trigger, Initiators
<1>2. CASE SchedulerTick(r)
  BY <1>2, StartInv DEF SchedulerTick, Initiators
<1>3. CASE Runs(r)
  <2>1. CASE Open(r)
    BY <2>1, OpenInv
  <2>2. CASE Loaded(r)
    BY <2>2, LoadedInv
  <2>3. CASE \E a \in Apps : Dequeue(r, a)
    BY <2>3, DequeueInv
  <2>4. CASE Skip(r)
    BY <2>4, SkipInv
  <2>5. CASE Settles(r)
    BY <2>5, FetchOkInv, FetchFailsInv, FetchLimitedInv DEF Settles
  <2>6. CASE Complete(r)
    BY <2>6, CompleteInv
  <2>7. CASE Clear(r)
    BY <2>7, ClearInv
  <2>8. CASE Release(r)
    BY <2>8, ReleaseInv
  <2> QED BY <1>3, <2>1, <2>2, <2>3, <2>4, <2>5, <2>6, <2>7, <2>8 DEF Runs
<1>4. CASE Faults(r)
  BY <1>4, AbortInv, SaveFaultInv DEF Faults
<1> QED BY <1>1, <1>2, <1>3, <1>4

LEMMA CrashInv == Inv /\ Crash => Inv'
<1> SUFFICES ASSUME Inv, Crash PROVE Inv'
  OBVIOUS
<1>1. LiveRuns' = {}
  BY DEF Crash, LiveRuns
<1>2. pc' \in [Runners -> {"idle"}] /\ mem' \in [Runners -> {NoBlob}]
  BY DEF Crash
<1>3. pc' \in [Runners -> {"idle"} \cup Awaiting \cup Steps]
  BY <1>2
<1>4. mem' \in [Runners -> Blobs \cup {NoBlob}]
  BY <1>2
<1>5. TypeOK'
  <2>1. crashes' \in Nat
    BY DEF Crash, Inv, TypeOK
  <2> QED BY <1>3, <1>4, <2>1 DEF Crash, disk, Inv, TypeOK
<1> QED BY <1>1, <1>5, IdleInv

LEMMA BootInv == Inv /\ Boot => Inv'
<1> SUFFICES ASSUME Inv, Boot PROVE Inv'
  OBVIOUS
<1>1. TypeOK'
  BY DEF Boot, disk, bounds, Inv, TypeOK
<1> QED BY <1>1, AsideInv DEF Boot, disk

\* The boot-time check: it takes a run over, heals what is dead, or leaves a
\* runner of this process alone.
LEMMA BootCheckInv == Inv /\ BootCheck => Inv'
<1> SUFFICES ASSUME Inv, BootCheck PROVE Inv'
  OBVIOUS
<1>1. CASE ResumeNothing
  <2>1. TypeOK'
    BY <1>1 DEF ResumeNothing, disk, bounds, Inv, TypeOK
  <2> QED BY <1>1, <2>1, AsideInv DEF ResumeNothing, disk
<1>2. CASE HealLock
  <2>1. LiveRuns' = {}
    BY <1>2 DEF HealLock, SyncLive, LiveRuns
  <2>2. TypeOK'
    BY <1>2 DEF HealLock, bounds, Inv, TypeOK
  <2> QED BY <2>1, <2>2, IdleInv
<1>3. CASE HealBlob
  <2>1. LiveRuns = {}
    BY <1>3 DEF HealBlob, Inv, LiveInv
  <2>2. LiveRuns' = {}
    BY <1>3, <2>1 DEF HealBlob, LiveRuns
  <2>3. TypeOK'
    BY <1>3 DEF HealBlob, bounds, Inv, TypeOK
  <2> QED BY <2>2, <2>3, IdleInv
<1>4. CASE \E r \in Runners : Resume(r)
  BY <1>4, ResumeInv
<1> QED BY <1>1, <1>2, <1>3, <1>4 DEF BootCheck

\* The health check finds no lock to clear while a runner is alive.
LEMMA HealthCheckInv == Inv /\ HealthCheck => Inv'
<1> SUFFICES ASSUME Inv, HealthCheck PROVE Inv'
  OBVIOUS
<1>1. ASSUME NEW r \in Runners, pc[r] # "idle" PROVE FALSE
  <2>1. pc[r] \in Awaiting
    BY <1>1 DEF HealthCheck, Yielded
  <2>2. blob = mem[r] /\ ~stale /\ mem[r] \in Blobs
    BY <1>1, <2>1, Alone DEF Inv, LoopInv
  <2>3. Unsettled(mem[r]) # {}
    BY <2>1 DEF Inv, AwaitInv, Awaiting, Unsettled, Pending, InFlight
  <2>4. HasPending
    BY <2>2, <2>3, NoBlobAssumption DEF HasPending
  <2> QED BY <2>2, <2>4 DEF HealthCheck, LockIsDead
<1>2. LiveRuns' = {}
  BY <1>1 DEF HealthCheck, LiveRuns
<1>3. TypeOK'
  BY DEF HealthCheck, bounds, Inv, TypeOK
<1> QED BY <1>2, <1>3, IdleInv

LEMMA EnvironmentInv ==
    ASSUME Inv,
           \/ \E a \in Apps : AddApp(a) \/ DeleteApp(a)
           \/ BecomesDue
           \/ GoesStale
           \/ PolicyTimer
           \/ UNCHANGED vars
    PROVE  Inv'
<1>1. CASE \E a \in Apps : AddApp(a) \/ DeleteApp(a)
  <2>1. TypeOK' /\ UNCHANGED <<mutex, blob, stale, boot, pc, mem>>
    BY <1>1 DEF AddApp, DeleteApp, disk, bounds, Inv, TypeOK
  <2> QED BY <2>1, AsideInv
<1>2. CASE BecomesDue
  <2>1. TypeOK' /\ UNCHANGED <<mutex, blob, stale, boot, pc, mem>>
    BY <1>2 DEF BecomesDue, disk, bounds, Inv, TypeOK
  <2> QED BY <2>1, AsideInv
<1>3. CASE GoesStale
  <2>1. TypeOK' /\ UNCHANGED <<mutex, blob, boot, pc, mem>> /\ LiveRuns = {}
    BY <1>3 DEF GoesStale, SyncLive, bounds, Inv, TypeOK
  <2> QED BY <2>1, AsideInv
<1>4. CASE PolicyTimer
  <2>1. TypeOK' /\ UNCHANGED <<mutex, blob, stale, boot, pc, mem>>
    BY <1>4 DEF PolicyTimer, disk, bounds, Inv, TypeOK
  <2> QED BY <2>1, AsideInv
<1>5. CASE UNCHANGED vars
  <2>1. TypeOK' /\ UNCHANGED <<mutex, blob, stale, boot, pc, mem>>
    BY <1>5 DEF vars, disk, bounds, Inv, TypeOK
  <2> QED BY <2>1, AsideInv
<1> QED BY <1>1, <1>2, <1>3, <1>4, <1>5

LEMMA NextInv == Inv /\ [Next]_vars => Inv'
  BY RunnerInv, CrashInv, BootInv, BootCheckInv, HealthCheckInv, EnvironmentInv DEF Next

LEMMA SpecInv == Spec => []Inv
  BY InitInv, NextInv, PTL DEF Spec

-----------------------------------------------------------------------------
(***************************************************************************)
(* The theorems.                                                           *)
(***************************************************************************)

\* Every stored queue, lock and in-memory run state is well formed.
THEOREM TypeCorrect == Spec => []TypeOK
<1>1. Inv => TypeOK
  BY DEF Inv
<1> QED BY <1>1, SpecInv, PTL

\* Two runners never walk the sync queue at once, whatever order manual
\* triggers, scheduler ticks, resumes, crashes, failing writes and health
\* checks come in.
THEOREM OneRunnerAlways == Spec => []OneRunner
<1>1. Inv => OneRunner
  BY DEF Inv
<1> QED BY <1>1, SpecInv, PTL

\* While a runner is alive the lock is held and the stored queue is the one it
\* is walking.
THEOREM QueueIsOwnedAlways == Spec => []QueueIsOwned
<1>1. Inv => QueueIsOwned
  BY DEF Inv, LiveInv, LoopInv, QueueIsOwned, LiveRuns
<1> QED BY <1>1, SpecInv, PTL

-----------------------------------------------------------------------------
(***************************************************************************)
(* The promise of BulkQueue.                                               *)
(***************************************************************************)
Outcomes == Done \cup Failed

(***************************************************************************)
(* What the refinement makes of the state: the apps of the stored run left *)
(* to do, those settled, and those being fetched.                          *)
(***************************************************************************)
Todo == IF blob = NoBlob THEN {} ELSE Unsettled(blob)

SettledApps == IF blob = NoBlob THEN {} ELSE {a \in Apps : blob.entry[a] \in Done \cup Failed}

Working == {mem[r].current : r \in {q \in Runners : pc[q] = "fetching"}}

\* Before its first write a run is a new one with nothing stored, or the stored
\* one taken over with the same apps left to do and the same ones settled.
TakeoverInv ==
    \A r \in Runners : pc[r] = "opening" =>
        \/ blob = NoBlob /\ \A a \in Apps : mem[r].entry[a] \in {"absent", "pending"}
        \/ /\ blob # NoBlob
           /\ Unsettled(mem[r]) = Unsettled(blob)
           /\ \A a \in Apps : mem[r].entry[a] \in Outcomes <=> blob.entry[a] \in Outcomes

-----------------------------------------------------------------------------
(***************************************************************************)
(* A run is taken over whole.                                              *)
(***************************************************************************)

\* Taking a run over settles and loses nothing.
LEMMA ResumedKeeps ==
    ASSUME NEW s \in Blobs
    PROVE  /\ Unsettled(Resumed(s)) = Unsettled(s)
           /\ \A a \in Apps : Resumed(s).entry[a] \in Outcomes <=> s.entry[a] \in Outcomes
<1> DEFINE left == s.totals.attempted - Cardinality(InFlight(s))
           n == IF left < 0 THEN 0 ELSE left
           e == [a \in Apps |-> IF a \in InFlight(s) THEN "pending" ELSE s.entry[a]]
<1>1. Resumed(s).entry = e
  <2>1. Resumed(s) = [s EXCEPT !.initiator = "resume", !.entry = e, !.totals.attempted = n]
    BY DEF Resumed
  <2> HIDE DEF e, n
  <2> QED BY <2>1 DEF Blobs
<1>2. \A a \in Apps : s.entry[a] = "in_progress" => s.entry[a] \notin Outcomes
  BY DEF Outcomes, Done, Failed
<1>3. "pending" \notin Outcomes
  BY DEF Outcomes, Done, Failed
<1> QED BY <1>1, <1>2, <1>3 DEF Unsettled, Pending, InFlight

\* How a run begins, in every case.
LEMMA Beginnings ==
    ASSUME Inv, NEW r \in Runners, Trigger(r) \/ SchedulerTick(r) \/ Resume(r)
    PROVE  /\ LiveRuns = {}
           /\ \E s \in Blobs :
                /\ Begin(r, s)
                /\ \/ blob = NoBlob /\ \A a \in Apps : s.entry[a] \in {"absent", "pending"}
                   \/ blob \in Blobs /\ s = Resumed(blob)
<1>1. ASSUME NEW who \in Initiators, Start(r, who)
      PROVE  /\ LiveRuns = {}
             /\ \E s \in Blobs :
                  /\ Begin(r, s)
                  /\ blob = NoBlob /\ \A a \in Apps : s.entry[a] \in {"absent", "pending"}
  <2>1. PICK id \in RunIds : Begin(r, NewRun(id, who))
    BY <1>1 DEF Start
  <2>2. NewRun(id, who) \in Blobs
    BY NewRunType
  <2>3. \A a \in Apps : NewRun(id, who).entry[a] \in {"absent", "pending"}
    BY DEF NewRun
  <2>4. LiveRuns = {} /\ blob = NoBlob
    BY <1>1, FreeMeansIdle DEF Start, CanStart
  <2> QED BY <2>1, <2>2, <2>3, <2>4
<1>2. CASE Trigger(r) \/ SchedulerTick(r)
  <2>1. \E who \in Initiators : Start(r, who)
    BY <1>2 DEF Trigger, SchedulerTick, Initiators
  <2> QED BY <1>1, <2>1
<1>3. CASE Resume(r)
  <2>1. LiveRuns = {} /\ Begin(r, Resumed(blob)) /\ blob \in Blobs
    BY <1>3 DEF Resume, SyncLive, HasPending, Inv, TypeOK
  <2> QED BY <2>1, ResumedType
<1> QED BY <1>2, <1>3

LEMMA BeginTakeover ==
    ASSUME Inv, NEW r \in Runners, Trigger(r) \/ SchedulerTick(r) \/ Resume(r)
    PROVE  TakeoverInv'
<1>1. PICK s \in Blobs :
        /\ Begin(r, s)
        /\ \/ blob = NoBlob /\ \A a \in Apps : s.entry[a] \in {"absent", "pending"}
           \/ blob \in Blobs /\ s = Resumed(blob)
  BY Beginnings
<1>2. \A q \in Runners : pc'[q] = (IF q = r THEN "opening" ELSE "idle")
  BY <1>1, Beginnings DEF Begin, Goto, LiveRuns, Inv, TypeOK
<1>3. mem'[r] = s /\ blob' = blob
  BY <1>1 DEF Begin, Inv, TypeOK
<1>4. CASE blob = NoBlob /\ \A a \in Apps : s.entry[a] \in {"absent", "pending"}
  BY <1>2, <1>3, <1>4 DEF TakeoverInv
<1>5. CASE blob \in Blobs /\ s = Resumed(blob)
  <2>1. /\ Unsettled(s) = Unsettled(blob)
        /\ \A a \in Apps : s.entry[a] \in Outcomes <=> blob.entry[a] \in Outcomes
    BY <1>5, ResumedKeeps
  <2> QED BY <1>2, <1>3, <1>5, <2>1, NoBlobAssumption DEF TakeoverInv, Unsettled, Pending, InFlight
<1> QED BY <1>1, <1>4, <1>5

LEMMA TakeoverNext == Inv /\ TakeoverInv /\ [Next]_vars => TakeoverInv'
<1> SUFFICES ASSUME Inv, TakeoverInv, [Next]_vars PROVE TakeoverInv'
  OBVIOUS
<1>1. pc \in [Runners -> {"idle"} \cup Awaiting \cup Steps]
  BY DEF Inv, TypeOK
<1>2. ASSUME \A q \in Runners : pc'[q] # "opening" PROVE TakeoverInv'
  BY <1>2 DEF TakeoverInv
<1>3. ASSUME NEW r \in Runners, Runs(r) \/ Faults(r) PROVE TakeoverInv'
  <2>1. pc[r] # "idle"
    BY <1>3 DEF Runs, Faults, Open, Loaded, Dequeue, Skip, Settles, FetchOk, FetchFails,
                FetchLimited, Complete, Clear, Release, Abort, SaveFault
  <2>2. PICK l \in {"idle", "clearing", "loading", "next", "fetching", "missing", "releasing"} :
          Goto(r, l)
    BY <1>3 DEF Runs, Faults, Open, Loaded, Dequeue, Skip, Settles, FetchOk, FetchFails,
                FetchLimited, Complete, Clear, Release, Abort, SaveFault
  <2>3. \A q \in Runners : pc'[q] # "opening"
    BY <1>1, <2>1, <2>2, Alone DEF Goto
  <2> QED BY <1>2, <2>3
<1>4. ASSUME NEW r \in Runners, Trigger(r) \/ SchedulerTick(r) \/ Resume(r) PROVE TakeoverInv'
  BY <1>4, BeginTakeover
<1>5. CASE Crash
  BY <1>2, <1>5 DEF Crash
<1>6. ASSUME Yielded \/ LiveRuns = {}, pc' = pc PROVE TakeoverInv'
  BY <1>2, <1>6 DEF Yielded, LiveRuns, Awaiting
<1>7. CASE ResumeNothing \/ HealLock \/ HealthCheck \/ PolicyTimer \/ GoesStale
  BY <1>6, <1>7 DEF ResumeNothing, HealLock, HealthCheck, PolicyTimer, GoesStale, SyncLive
<1>8. CASE Boot \/ HealBlob
  <2>1. LiveRuns = {}
    BY <1>8 DEF Boot, HealBlob, Inv, LiveInv
  <2> QED BY <1>6, <1>8, <2>1 DEF Boot, HealBlob
<1>9. CASE \E a \in Apps : AddApp(a) \/ DeleteApp(a)
  BY <1>6, <1>9 DEF AddApp, DeleteApp
<1>10. CASE BecomesDue \/ UNCHANGED vars
  BY <1>10 DEF BecomesDue, vars, disk, TakeoverInv, Unsettled, Pending, InFlight
<1> QED BY <1>3, <1>4, <1>5, <1>7, <1>8, <1>9, <1>10 DEF Next, BootCheck

-----------------------------------------------------------------------------
(***************************************************************************)
(* What the steps of the abstract queue are here.                          *)
(***************************************************************************)
LEMMA QueueStutters ==
    ASSUME (blob' = NoBlob) <=> (blob = NoBlob),
           Todo' = Todo, SettledApps' = SettledApps, Working' = Working
    PROVE  UNCHANGED Queue!vars
  BY DEF Queue!vars, Todo, SettledApps, Working

LEMMA QueueTakes ==
    ASSUME NEW a \in Todo, blob # NoBlob, blob' # NoBlob, Working = {}, Working' = {a},
           Todo' = Todo, SettledApps' = SettledApps
    PROVE  Queue!Take(a)
  BY DEF Queue!Take, Todo, SettledApps, Working

LEMMA QueueSettles ==
    ASSUME NEW a \in Todo, blob # NoBlob, blob' # NoBlob,
           Working \subseteq {a}, Working' = {},
           Todo' = Todo \ {a}, SettledApps' = SettledApps \cup {a}
    PROVE  Queue!Settle(a)
  BY DEF Queue!Settle, Todo, SettledApps, Working

\* A step that changes neither the stored queue nor the app worked on.
LEMMA StutterRefines ==
    ASSUME blob' = blob, Working' = Working
    PROVE  UNCHANGED Queue!vars
<1>1. Todo' = Todo /\ SettledApps' = SettledApps
  BY DEF Todo, SettledApps, Unsettled, Pending, InFlight
<1> QED BY <1>1, QueueStutters

\* A step after which nobody works and nothing is stored gives the run up.
LEMMA CloseRefines ==
    ASSUME Working = {}, Working' = {}, blob' = NoBlob
    PROVE  UNCHANGED Queue!vars \/ Queue!Close
<1>1. Todo' = {} /\ SettledApps' = {}
  BY DEF Todo, SettledApps
<1>2. CASE blob = NoBlob
  BY <1>2, StutterRefines
<1>3. CASE blob # NoBlob
  BY <1>1, <1>3 DEF Queue!Close, Todo, SettledApps, Working
<1> QED BY <1>2, <1>3

\* A step after which nobody works, with the same queue stored.
LEMMA DropRefines ==
    ASSUME Working' = {}, blob' = blob
    PROVE  UNCHANGED Queue!vars \/ Queue!Drop
<1>1. Todo' = Todo /\ SettledApps' = SettledApps
  BY DEF Todo, SettledApps, Unsettled, Pending, InFlight
<1>2. CASE Working = {}
  BY <1>2, StutterRefines
<1>3. CASE Working # {}
  BY <1>1, <1>3 DEF Queue!Drop, Todo, SettledApps, Working
<1> QED BY <1>2, <1>3

\* What the only runner that is alive works on.
LEMMA WorkingOne ==
    ASSUME Inv, NEW r \in Runners, pc[r] # "idle"
    PROVE  Working = IF pc[r] = "fetching" THEN {mem[r].current} ELSE {}
  BY Alone DEF Working

\* Where the runner goes to, and what that makes it work on.
LEMMA WorkingNext ==
    ASSUME Inv, NEW r \in Runners, pc[r] # "idle", NEW l, Goto(r, l)
    PROVE  Working' = IF l = "fetching" THEN {mem'[r].current} ELSE {}
<1>1. \A q \in Runners : pc'[q] = (IF q = r THEN l ELSE "idle")
  BY Alone DEF Goto, Inv, TypeOK
<1> QED BY <1>1 DEF Working

-----------------------------------------------------------------------------
(***************************************************************************)
(* The steps of a runner.                                                  *)
(***************************************************************************)
LEMMA OpenRefines ==
    ASSUME Inv, TakeoverInv, NEW r \in Runners, Open(r)
    PROVE  UNCHANGED Queue!vars \/ \E S \in SUBSET Apps : Queue!Open(S)
<1>1. mem[r] \in Blobs /\ blob' = mem[r] /\ blob' # NoBlob
  BY Alone, NoBlobAssumption DEF Open, Persist
<1>2. Working = {}
  BY WorkingOne DEF Open
<1>3. PICK l \in {"clearing", "loading"} : Goto(r, l)
  BY DEF Open
<1>4. Working' = {}
  BY <1>3, WorkingNext DEF Open
<1>5. CASE blob = NoBlob /\ \A a \in Apps : mem[r].entry[a] \in {"absent", "pending"}
  <2>1. SettledApps' = {}
    BY <1>1, <1>5 DEF SettledApps, Done, Failed
  <2>2. PICK S \in SUBSET Apps : Todo' = S
    BY DEF Todo, Unsettled, Pending, InFlight
  <2>3. Queue!Open(S)
    BY <1>1, <1>2, <1>4, <1>5, <2>1, <2>2 DEF Queue!Open, Todo, SettledApps, Working
  <2> QED BY <2>3
<1>6. CASE /\ blob # NoBlob
           /\ Unsettled(mem[r]) = Unsettled(blob)
           /\ \A a \in Apps : mem[r].entry[a] \in Outcomes <=> blob.entry[a] \in Outcomes
  <2>1. Todo' = Todo
    BY <1>1, <1>6 DEF Todo, Unsettled, Pending, InFlight
  <2>2. SettledApps' = SettledApps
    BY <1>1, <1>6 DEF SettledApps, Outcomes
  <2> QED BY <1>1, <1>2, <1>4, <1>6, <2>1, <2>2, QueueStutters
<1> QED BY <1>5, <1>6 DEF Open, TakeoverInv

\* What the dequeued run state holds.
LEMMA DequeuedEntry ==
    ASSUME NEW s \in Blobs, NEW a \in Apps
    PROVE  Dequeued(s, a).entry = [s.entry EXCEPT ![a] = "in_progress"]
<1> DEFINE e == [s.entry EXCEPT ![a] = "in_progress"]
           t == [s.totals EXCEPT !.attempted = @ + 1]
<1>1. Dequeued(s, a) = [s EXCEPT !.entry = e, !.current = a, !.totals = t]
  BY DEF Dequeued
<1> HIDE DEF e, t
<1>2. Dequeued(s, a).entry = e
  BY <1>1 DEF Blobs
<1> QED BY <1>2 DEF e

\* Taking the next app: it is fetched, unless its row is gone.
LEMMA DequeueRefines ==
    ASSUME Inv, NEW r \in Runners, NEW a \in Apps, Dequeue(r, a)
    PROVE  UNCHANGED Queue!vars \/ Queue!Take(a)
<1> DEFINE s == Dequeued(mem[r], a)
           l == IF a \in apps THEN "fetching" ELSE "missing"
<1>1. /\ blob = mem[r] /\ mem[r] \in Blobs /\ blob # NoBlob
      /\ a \in Pending(mem[r])
  BY Alone, NoBlobAssumption DEF Dequeue, Inv, LoopInv
<1>2. s \in Blobs /\ s.current = a
  BY <1>1, DequeuedType
<1>3. Persist(r, s) /\ Goto(r, l)
  BY DEF Dequeue, Dequeued
<1>4. \A b \in Apps : s.entry[b] = (IF b = a THEN "in_progress" ELSE mem[r].entry[b])
  <2>1. s.entry = [mem[r].entry EXCEPT ![a] = "in_progress"]
    BY <1>1, DequeuedEntry
  <2> HIDE DEF s
  <2> QED BY <1>1, <2>1 DEF Blobs
<1> HIDE DEF s, l
<1>5. blob' = s /\ blob' # NoBlob /\ mem'[r] = s
  BY <1>2, <1>3, NoBlobAssumption DEF Persist, Inv, TypeOK
<1>6. Todo' = Todo /\ a \in Todo
  <2>1. Todo' = Unsettled(s) /\ Todo = Unsettled(mem[r])
    BY <1>1, <1>5 DEF Todo, Unsettled, Pending, InFlight
  <2> QED BY <1>1, <1>4, <2>1 DEF Unsettled, Pending, InFlight
<1>7. SettledApps' = SettledApps
  <2>1. /\ SettledApps' = {b \in Apps : s.entry[b] \in Outcomes}
        /\ SettledApps = {b \in Apps : mem[r].entry[b] \in Outcomes}
    BY <1>1, <1>5 DEF SettledApps, Outcomes
  <2>2. mem[r].entry[a] \notin Outcomes /\ "in_progress" \notin Outcomes
    BY <1>1 DEF Pending, Outcomes, Done, Failed
  <2> QED BY <1>4, <2>1, <2>2
<1>8. Working = {}
  BY WorkingOne DEF Dequeue
<1>9. Working' = IF l = "fetching" THEN {a} ELSE {}
  BY <1>2, <1>3, <1>5, WorkingNext DEF Dequeue
<1>10. CASE l = "fetching"
  BY <1>1, <1>5, <1>6, <1>7, <1>8, <1>9, <1>10, QueueTakes
<1>11. CASE l # "fetching"
  BY <1>1, <1>5, <1>6, <1>7, <1>8, <1>9, <1>11, QueueStutters
<1> QED BY <1>10, <1>11

\* What settling leaves in the queue.
LEMMA SettledEntry ==
    ASSUME NEW s \in Blobs, s.current \in Apps, NEW outcome, NEW totals
    PROVE  \A a \in Apps : Settled(s, outcome, totals).entry[a]
                             = IF a = s.current THEN outcome ELSE s.entry[a]
  BY DEF Settled, Blobs

\* Settling the app in flight, in a write that leaves a queue.
LEMMA SettleRefines ==
    ASSUME Inv, NEW r \in Runners, pc[r] \in {"fetching", "missing"},
           NEW outcome \in Outcomes, NEW totals \in Totals,
           blob' = Settled(mem[r], outcome, totals),
           NEW l \in {"next", "clearing"}, Goto(r, l)
    PROVE  \E a \in Apps : Queue!Settle(a)
<1> DEFINE i == mem[r].current
           s == Settled(mem[r], outcome, totals)
<1>1. /\ blob = mem[r] /\ mem[r] \in Blobs /\ i \in Apps
      /\ mem[r].entry[i] = "in_progress" /\ blob # NoBlob
  BY Alone, NoBlobAssumption DEF Inv, LoopInv, AwaitInv, Awaiting
<1>2. s \in Blobs
  BY <1>1, SettledType DEF Outcomes
<1>3. \A a \in Apps : s.entry[a] = (IF a = i THEN outcome ELSE mem[r].entry[a])
  BY <1>1, SettledEntry
<1>4. Working \subseteq {i} /\ Working' = {}
  BY WorkingOne, WorkingNext
<1>5. /\ outcome # "pending" /\ outcome # "in_progress"
      /\ "in_progress" \notin Outcomes
  BY DEF Outcomes, Done, Failed
<1> HIDE DEF s, i
<1>6. blob' = s /\ blob' # NoBlob
  BY <1>2, NoBlobAssumption DEF s
<1>7. Todo' = Todo \ {i} /\ i \in Todo
  <2>1. Todo' = Unsettled(s) /\ Todo = Unsettled(mem[r])
    BY <1>1, <1>6 DEF Todo, Unsettled, Pending, InFlight
  <2> QED BY <1>1, <1>3, <1>5, <2>1 DEF Unsettled, Pending, InFlight
<1>8. SettledApps' = SettledApps \cup {i}
  <2>1. /\ SettledApps' = {a \in Apps : s.entry[a] \in Outcomes}
        /\ SettledApps = {a \in Apps : mem[r].entry[a] \in Outcomes}
    BY <1>1, <1>6 DEF SettledApps, Outcomes
  <2> QED BY <1>1, <1>3, <2>1
<1> QED BY <1>1, <1>4, <1>6, <1>7, <1>8, QueueSettles

\* The totals a runner writes when it settles an app are numbers.
LEMMA CountsType ==
    ASSUME NEW t \in Totals
    PROVE  /\ [t EXCEPT !.skipped = @ + 1, !.attempted = @ - 1] \in Totals
           /\ [t EXCEPT !.failed = @ + 1] \in Totals
           /\ [t EXCEPT !.rateLimited = @ + 1, !.attempted = @ - 1] \in Totals
<1> DEFINE u == [t EXCEPT !.skipped = @ + 1]
           v == [t EXCEPT !.rateLimited = @ + 1]
<1>1. u \in Totals /\ v \in Totals /\ [t EXCEPT !.failed = @ + 1] \in Totals
  BY DEF Totals
<1>2. /\ [t EXCEPT !.skipped = @ + 1, !.attempted = @ - 1] = [u EXCEPT !.attempted = u.attempted - 1]
      /\ [t EXCEPT !.rateLimited = @ + 1, !.attempted = @ - 1]
            = [v EXCEPT !.attempted = v.attempted - 1]
  BY DEF Totals
<1>3. u.attempted - 1 \in Int /\ v.attempted - 1 \in Int
  BY DEF Totals
<1> HIDE DEF u, v
<1> QED BY <1>1, <1>2, <1>3, TotalsType

\* However a fetch ends, its app is settled.
LEMMA OutcomeRefines ==
    ASSUME Inv, NEW r \in Runners,
           Skip(r) \/ Settles(r) \/ \E changed \in BOOLEAN : SaveFault(r, changed)
    PROVE  \E a \in Apps : Queue!Settle(a)
<1> DEFINE t == mem[r].totals
<1>1. t \in Totals
  BY Alone DEF Skip, Settles, FetchOk, FetchFails, FetchLimited, SaveFault, Blobs
<1>2. {"skipped", "succeeded", "changed", "failed", "rate_limited"} \subseteq Outcomes
  BY DEF Outcomes, Done, Failed
<1>3. CASE Skip(r)
  BY <1>1, <1>2, <1>3, CountsType, SettleRefines DEF Skip, Persist
<1>4. ASSUME NEW changed \in BOOLEAN, FetchOk(r, changed) PROVE \E a \in Apps : Queue!Settle(a)
  <2> DEFINE o == IF changed THEN "changed" ELSE "succeeded"
  <2>1. Succeeded(t, changed) \in Totals
    BY <1>1, SucceededType
  <2>2. o \in Outcomes
    BY <1>2
  <2>3. blob' = Settled(mem[r], o, Succeeded(t, changed))
    BY <1>4 DEF FetchOk, Persist
  <2> HIDE DEF o
  <2> QED BY <1>4, <2>1, <2>2, <2>3, SettleRefines DEF FetchOk
<1>5. CASE FetchFails(r)
  BY <1>1, <1>2, <1>5, CountsType, SettleRefines DEF FetchFails, Persist
<1>6. CASE FetchLimited(r)
  BY <1>1, <1>2, <1>6, CountsType, SettleRefines DEF FetchLimited
<1>7. ASSUME NEW changed \in BOOLEAN, SaveFault(r, changed) PROVE \E a \in Apps : Queue!Settle(a)
  <2>1. Succeeded(t, changed) \in Totals
    BY <1>1, SucceededType
  <2>2. [Succeeded(t, changed) EXCEPT !.failed = @ + 1] \in Totals
    BY <2>1, CountsType
  <2> QED BY <1>2, <1>7, <2>2, SettleRefines DEF SaveFault, Persist
<1> QED BY <1>3, <1>4, <1>5, <1>6, <1>7 DEF Settles

LEMMA RunnerRefines ==
    ASSUME Inv, TakeoverInv, NEW r \in Runners,
           Trigger(r) \/ SchedulerTick(r) \/ Resume(r) \/ Runs(r) \/ Faults(r)
    PROVE  UNCHANGED Queue!vars \/ Queue!Next
<1>1. CASE Trigger(r) \/ SchedulerTick(r) \/ Resume(r)
  <2>1. LiveRuns = {} /\ \E s \in Blobs : Begin(r, s)
    BY <1>1, Beginnings
  <2>2. \A q \in Runners : pc[q] # "fetching" /\ pc'[q] # "fetching"
    BY <2>1 DEF Begin, Goto, LiveRuns, Inv, TypeOK
  <2>3. Working = {} /\ Working' = {}
    BY <2>2 DEF Working
  <2> QED BY <2>1, <2>3, StutterRefines DEF Begin
<1>2. CASE Open(r)
  BY <1>2, OpenRefines DEF Queue!Next
<1>3. CASE \E a \in Apps : Dequeue(r, a)
  BY <1>3, DequeueRefines DEF Queue!Next
<1>4. CASE Skip(r) \/ Settles(r) \/ \E changed \in BOOLEAN : SaveFault(r, changed)
  BY <1>4, OutcomeRefines DEF Queue!Next
<1>5. CASE Loaded(r) \/ Complete(r) \/ Release(r) \/ Abort(r)
  <2>1. pc[r] # "idle" /\ blob' = blob
    BY <1>5 DEF Loaded, Complete, Release, Abort, disk
  <2>2. PICK l \in {"next", "clearing", "idle"} : Goto(r, l)
    BY <1>5 DEF Loaded, Complete, Release, Abort
  <2>3. Working' = {}
    BY <2>1, <2>2, WorkingNext
  <2> QED BY <2>1, <2>3, DropRefines DEF Queue!Next
<1>6. CASE Clear(r)
  <2>1. Working = {}
    BY <1>6, WorkingOne DEF Clear
  <2>2. Working' = {}
    BY <1>6, WorkingNext DEF Clear
  <2> QED BY <1>6, <2>1, <2>2, CloseRefines DEF Clear, Queue!Next
<1> QED BY <1>1, <1>2, <1>3, <1>4, <1>5, <1>6 DEF Runs, Faults

-----------------------------------------------------------------------------
(***************************************************************************)
(* The refinement.                                                         *)
(***************************************************************************)

\* The health check clears the queue only where nobody runs.
LEMMA HealthCheckIdle == Inv /\ HealthCheck => LiveRuns = {}
<1> SUFFICES ASSUME Inv, HealthCheck, NEW r \in Runners, pc[r] # "idle" PROVE FALSE
  BY DEF LiveRuns
<1>1. pc[r] \in Awaiting
  BY DEF HealthCheck, Yielded
<1>2. blob = mem[r] /\ ~stale /\ mem[r] \in Blobs
  BY <1>1, Alone DEF Inv, LoopInv
<1>3. Unsettled(mem[r]) # {}
  BY <1>1 DEF Inv, AwaitInv, Awaiting, Unsettled, Pending, InFlight
<1>4. HasPending
  BY <1>2, <1>3, NoBlobAssumption DEF HasPending
<1> QED BY <1>2, <1>4 DEF HealthCheck, LockIsDead

LEMMA QueueStep ==
    ASSUME Inv, TakeoverInv, [Next]_vars
    PROVE  [Queue!Next]_(Queue!vars)
<1>1. CASE \E r \in Runners :
             Trigger(r) \/ SchedulerTick(r) \/ Resume(r) \/ Runs(r) \/ Faults(r)
  BY <1>1, RunnerRefines
<1>2. CASE Crash
  <2>1. Working' = {}
    BY <1>2 DEF Crash, Working
  <2> QED BY <1>2, <2>1, DropRefines DEF Crash, disk, Queue!Next
<1>3. CASE HealBlob \/ HealthCheck
  <2>1. LiveRuns = {}
    BY <1>3, HealthCheckIdle DEF HealBlob, Inv, LiveInv
  <2>2. pc' = pc /\ blob' = NoBlob
    BY <1>3 DEF HealBlob, HealthCheck
  <2>3. Working = {} /\ Working' = {}
    BY <2>1, <2>2 DEF Working, LiveRuns
  <2> QED BY <2>2, <2>3, CloseRefines DEF Queue!Next
<1>4. ASSUME blob' = blob, pc' = pc, mem' = mem PROVE UNCHANGED Queue!vars
  <2>1. Working' = Working
    BY <1>4 DEF Working
  <2> QED BY <1>4, <2>1, StutterRefines
<1>5. CASE Boot \/ ResumeNothing \/ HealLock \/ BecomesDue \/ GoesStale \/ PolicyTimer
  BY <1>4, <1>5 DEF Boot, ResumeNothing, HealLock, BecomesDue, GoesStale, PolicyTimer, disk
<1>6. CASE \E a \in Apps : AddApp(a) \/ DeleteApp(a)
  BY <1>4, <1>6 DEF AddApp, DeleteApp, disk
<1>7. CASE UNCHANGED vars
  BY <1>4, <1>7 DEF vars, disk
<1> QED BY <1>1, <1>2, <1>3, <1>5, <1>6, <1>7 DEF Next, BootCheck

\* The App Store sync implements the promise of every bulk job: over all the
\* interleavings, crashes, 429s and failing writes, an app is fetched by one
\* runner at a time, what is settled stays settled in its run, and a run is
\* given up only while nobody fetches.
THEOREM SyncImplementsQueue == Spec => QueueSpec
<1>1. Init => Queue!Init
  BY DEF Init, Queue!Init
<1>2. Init => TakeoverInv
  BY DEF Init, TakeoverInv
<1>3. Spec => []TakeoverInv
  BY <1>2, SpecInv, TakeoverNext, PTL DEF Spec
<1>4. Inv /\ TakeoverInv /\ [Next]_vars => [Queue!Next]_(Queue!vars)
  BY QueueStep
<1> QED BY <1>1, <1>3, <1>4, SpecInv, PTL DEF Spec, QueueSpec, Queue!Spec

\* What the refinement comes to for the apps of a run: while its queue is stored,
\* through crashes and resumes, none is added, lost or settled a second time, and
\* one at most is being fetched.
THEOREM SyncOutcomesAreFinal ==
    Spec => /\ [][ blob # NoBlob /\ blob' # NoBlob =>
                     /\ SettledApps \subseteq SettledApps'
                     /\ Todo' \cup SettledApps' = Todo \cup SettledApps ]_vars
            /\ [](Working = {} \/ \E a \in Todo : Working = {a})
<1> DEFINE Only == Working = {} \/ \E a \in Todo : Working = {a}
<1>1. Queue!Init => Only
  BY DEF Queue!Init, Working
<1>2. Only /\ [Queue!Next]_(Queue!vars) => Only'
  <2> SUFFICES ASSUME Only, [Queue!Next]_(Queue!vars) PROVE Only'
    OBVIOUS
  <2> QED BY DEF Queue!Next, Queue!Open, Queue!Take, Queue!Settle, Queue!Drop, Queue!Close, Queue!vars,
                 Working, Todo
<1>3. [Queue!Next]_(Queue!vars) =>
        (blob # NoBlob /\ blob' # NoBlob =>
           /\ SettledApps \subseteq SettledApps'
           /\ Todo' \cup SettledApps' = Todo \cup SettledApps)
  BY DEF Queue!Next, Queue!Open, Queue!Take, Queue!Settle, Queue!Drop, Queue!Close, Queue!vars,
         SettledApps, Todo
<1> QED BY <1>1, <1>2, <1>3, SyncImplementsQueue, PTL DEF QueueSpec, Queue!Spec

-----------------------------------------------------------------------------
(***************************************************************************)
(* A queue with work left is thrown away only where the code means to.     *)
(***************************************************************************)

\* Between two steps of its loop a runner has nothing in flight; in a step it
\* has one app; and it goes to clear only a queue that is done or was limited.
FlightInv ==
    \A r \in Runners :
        /\ pc[r] \in {"opening", "loading", "next"} => InFlight(mem[r]) = {}
        /\ pc[r] \in {"fetching", "missing"} => InFlight(mem[r]) = {mem[r].current}
        /\ pc[r] = "clearing" =>
             /\ blob \in Blobs
             /\ Unsettled(blob) = {} \/ \E a \in Apps : blob.entry[a] = "rate_limited"

\* The queue the boot-time check is about to delete has nothing left to do.
HealingInv == boot = "healing" => blob = NoBlob \/ Unsettled(blob) = {}

DropInv == FlightInv /\ HealingInv

\* A runner that begins has nothing in flight.
LEMMA BeginFlight ==
    ASSUME Inv, NEW r \in Runners, Trigger(r) \/ SchedulerTick(r) \/ Resume(r)
    PROVE  DropInv'
<1>1. PICK s \in Blobs :
        /\ Begin(r, s)
        /\ \/ blob = NoBlob /\ \A a \in Apps : s.entry[a] \in {"absent", "pending"}
           \/ blob \in Blobs /\ s = Resumed(blob)
  BY Beginnings
<1>2. \A q \in Runners : pc'[q] = (IF q = r THEN "opening" ELSE "idle")
  BY <1>1, Beginnings DEF Begin, Goto, LiveRuns, Inv, TypeOK
<1>3. mem'[r] = s
  BY <1>1 DEF Begin, Inv, TypeOK
<1>4. InFlight(s) = {}
  <2>1. CASE \A a \in Apps : s.entry[a] \in {"absent", "pending"}
    BY <2>1 DEF InFlight
  <2>2. CASE blob \in Blobs /\ s = Resumed(blob)
    <3>1. Unsettled(s) = Unsettled(blob) /\ Pending(s) = Unsettled(blob)
      BY <2>2, ResumedKeeps, ResumedType
    <3> QED BY <3>1 DEF Unsettled, Pending, InFlight
  <2> QED BY <1>1, <2>1, <2>2
<1>5. boot' # "healing"
  BY DEF Trigger, SchedulerTick, Start, Yielded, Resume
<1>6. FlightInv'
  BY <1>2, <1>3, <1>4 DEF FlightInv, InFlight
<1> QED BY <1>5, <1>6 DEF DropInv, HealingInv

\* Whatever a runner does next, it leaves in flight what its place says.
LEMMA RunnerFlight ==
    ASSUME Inv, FlightInv, NEW r \in Runners, Runs(r) \/ Faults(r)
    PROVE  DropInv'
<1>1. /\ pc[r] # "idle" /\ mem[r] \in Blobs /\ boot' = boot /\ boot # "healing"
  <2>1. pc[r] # "idle" /\ boot' = boot
    BY DEF Runs, Faults, Open, Loaded, Dequeue, Skip, Settles, FetchOk, FetchFails,
           FetchLimited, Complete, Clear, Release, Abort, SaveFault
  <2> QED BY <2>1, Alone
<1>2. ASSUME NEW l, Goto(r, l)
      PROVE  \A q \in Runners : pc'[q] = (IF q = r THEN l ELSE "idle")
  BY <1>1, <1>2, Alone DEF Goto, Inv, TypeOK
<1>3. HealingInv'
  BY <1>1 DEF HealingInv
<1>4. CASE Clear(r) \/ Release(r) \/ Abort(r)
  <2>1. PICK l \in {"releasing", "idle"} : Goto(r, l)
    BY <1>4 DEF Clear, Release, Abort
  <2>2. FlightInv'
    BY <1>2, <2>1 DEF FlightInv
  <2> QED BY <1>3, <2>2 DEF DropInv
<1>5. CASE Open(r) \/ Loaded(r)
  <2>1. PICK l \in {"clearing", "loading", "next"} :
          /\ Goto(r, l)
          /\ l = "clearing" => blob' = mem[r] /\ Unsettled(mem[r]) = {}
    BY <1>5 DEF Open, Loaded, Persist, Unsettled, Pending, InFlight
  <2>2. mem'[r] = mem[r] /\ InFlight(mem[r]) = {}
    BY <1>1, <1>5 DEF Open, Loaded, Persist, FlightInv, Inv, TypeOK
  <2>3. FlightInv'
    BY <1>1, <1>2, <2>1, <2>2 DEF FlightInv, InFlight, Unsettled, Pending
  <2> QED BY <1>3, <2>3 DEF DropInv
<1>6. ASSUME NEW a \in Apps, Dequeue(r, a) PROVE DropInv'
  <2> DEFINE s == Dequeued(mem[r], a)
  <2>1. PICK l \in {"fetching", "missing"} : Goto(r, l)
    BY <1>6 DEF Dequeue
  <2>2. mem'[r] = s
    BY <1>6 DEF Dequeue, Dequeued, Persist, Inv, TypeOK
  <2>3. s.current = a /\ s.entry = [mem[r].entry EXCEPT ![a] = "in_progress"]
    BY <1>1, DequeuedType, DequeuedEntry
  <2>4. InFlight(mem[r]) = {}
    BY <1>6 DEF Dequeue, FlightInv
  <2> HIDE DEF s
  <2>5. InFlight(s) = {a}
    BY <1>1, <2>3, <2>4 DEF InFlight, Blobs
  <2>6. InFlight(mem'[r]) = {mem'[r].current}
    BY <2>2, <2>3, <2>5
  <2>7. FlightInv'
    BY <1>2, <2>1, <2>6 DEF FlightInv, InFlight
  <2> QED BY <1>3, <2>7 DEF DropInv
<1>7. ASSUME pc[r] \in {"fetching", "missing"},
             NEW outcome \in Outcomes, NEW totals,
             Persist(r, Settled(mem[r], outcome, totals)), Goto(r, "next")
      PROVE  DropInv'
  <2> DEFINE s == Settled(mem[r], outcome, totals)
  <2>1. mem'[r] = s
    BY <1>7 DEF Persist, Inv, TypeOK
  <2>2. InFlight(mem[r]) = {mem[r].current} /\ mem[r].current \in Apps
    BY <1>7 DEF FlightInv, Inv, AwaitInv
  <2>3. \A a \in Apps : s.entry[a] = IF a = mem[r].current THEN outcome ELSE mem[r].entry[a]
    BY <1>1, <2>2, SettledEntry
  <2>4. outcome # "in_progress"
    BY DEF Outcomes, Done, Failed
  <2> HIDE DEF s
  <2>5. InFlight(s) = {}
    BY <2>2, <2>3, <2>4 DEF InFlight
  <2>6. FlightInv'
    BY <1>2, <1>7, <2>1, <2>5 DEF FlightInv, InFlight
  <2> QED BY <1>3, <2>6 DEF DropInv
<1>8. CASE Skip(r) \/ FetchFails(r)
  BY <1>7, <1>8 DEF Skip, FetchFails, Outcomes, Done, Failed
<1>9. ASSUME NEW changed \in BOOLEAN, FetchOk(r, changed) \/ SaveFault(r, changed)
      PROVE  DropInv'
  <2>1. (IF changed THEN "changed" ELSE "succeeded") \in Outcomes /\ "failed" \in Outcomes
    BY DEF Outcomes, Done, Failed
  <2> QED BY <1>7, <1>9, <2>1 DEF FetchOk, SaveFault
<1>10. CASE FetchLimited(r)
  <2> DEFINE t == [mem[r].totals EXCEPT !.rateLimited = @ + 1, !.attempted = @ - 1]
             s == Settled(mem[r], "rate_limited", t)
  <2>1. mem[r].current \in Apps
    BY <1>10 DEF FetchLimited, Inv, AwaitInv
  <2>2. t \in Totals /\ "rate_limited" \in Outcomes
    BY <1>1, CountsType DEF Blobs, Outcomes, Failed
  <2>3. blob' = s /\ Goto(r, "clearing")
    BY <1>10 DEF FetchLimited
  <2> HIDE DEF t
  <2>4. s \in Blobs /\ s.entry[mem[r].current] = "rate_limited"
    BY <1>1, <2>1, <2>2, SettledType, SettledEntry DEF Outcomes
  <2> HIDE DEF s
  <2>5. FlightInv'
    BY <1>2, <2>1, <2>3, <2>4 DEF FlightInv
  <2> QED BY <1>3, <2>5 DEF DropInv
<1>11. CASE Complete(r)
  <2>1. blob' = mem[r] /\ Goto(r, "clearing")
    BY <1>11 DEF Complete, disk, Inv, LoopInv
  <2>2. Unsettled(mem[r]) = {}
    BY <1>11 DEF Complete, FlightInv, Unsettled
  <2>3. FlightInv'
    BY <1>1, <1>2, <2>1, <2>2 DEF FlightInv, Unsettled, Pending, InFlight
  <2> QED BY <1>3, <2>3 DEF DropInv
<1> QED BY <1>4, <1>5, <1>6, <1>8, <1>9, <1>10, <1>11 DEF Runs, Settles, Faults

LEMMA DropNext == Inv /\ DropInv /\ [Next]_vars => DropInv'
<1> SUFFICES ASSUME Inv, DropInv, [Next]_vars PROVE DropInv'
  OBVIOUS
<1>1. ASSUME NEW r \in Runners, Trigger(r) \/ SchedulerTick(r) \/ Resume(r) PROVE DropInv'
  BY <1>1, BeginFlight
<1>2. ASSUME NEW r \in Runners, Runs(r) \/ Faults(r) PROVE DropInv'
  BY <1>2, RunnerFlight DEF DropInv
<1>3. ASSUME \A r \in Runners : pc'[r] = "idle", HealingInv' PROVE DropInv'
  BY <1>3 DEF DropInv, FlightInv
<1>4. CASE Crash
  BY <1>3, <1>4 DEF Crash, HealingInv
<1>5. CASE HealLock \/ HealBlob \/ HealthCheck
  <2>1. LiveRuns = {} /\ pc' = pc
    BY <1>5, HealthCheckIdle DEF HealLock, HealBlob, HealthCheck, SyncLive, Inv, LiveInv
  <2>2. HealingInv'
    BY <1>5 DEF HealLock, HealBlob, HealthCheck, HealingInv, HasPending,
                Unsettled, Pending, InFlight
  <2> QED BY <1>3, <2>1, <2>2 DEF LiveRuns
<1>6. ASSUME blob' = blob, pc' = pc, mem' = mem, boot' = boot \/ boot' # "healing"
      PROVE  DropInv'
  BY <1>6 DEF DropInv, FlightInv, HealingInv, Unsettled, Pending, InFlight
<1>7. CASE Boot \/ ResumeNothing \/ BecomesDue \/ GoesStale \/ PolicyTimer
  BY <1>6, <1>7 DEF Boot, ResumeNothing, BecomesDue, GoesStale, PolicyTimer, disk
<1>8. CASE \E a \in Apps : AddApp(a) \/ DeleteApp(a)
  BY <1>6, <1>8 DEF AddApp, DeleteApp, disk
<1>9. CASE UNCHANGED vars
  BY <1>6, <1>9 DEF vars, disk
<1> QED BY <1>1, <1>2, <1>4, <1>5, <1>7, <1>8, <1>9 DEF Next, BootCheck

\* Work is thrown away only after a 429, or by the health check once the queue
\* is stale, and never under a runner that is fetching.
THEOREM QueueIsNeverDropped == Spec => QueueNeverDropped
<1> DEFINE Dropped ==
      blob # NoBlob /\ Unsettled(blob) # {} /\ blob' = NoBlob =>
        IF SyncLive
        THEN \E r \in Runners : pc[r] = "clearing" /\ CountOf(blob, {"rate_limited"}) > 0
        ELSE stale
<1>1. Init => DropInv
  BY DEF Init, DropInv, FlightInv, HealingInv
<1>2. Inv /\ DropInv /\ [Next]_vars => [Dropped]_vars
  <2> SUFFICES ASSUME Inv, DropInv, Next,
                      blob # NoBlob, Unsettled(blob) # {}, blob' = NoBlob
               PROVE  IF SyncLive
                      THEN \E r \in Runners :
                             pc[r] = "clearing" /\ CountOf(blob, {"rate_limited"}) > 0
                      ELSE stale
    OBVIOUS
  <2>1. CASE HealthCheck
    BY <2>1, HealthCheckIdle DEF HealthCheck, LockIsDead, HasPending, SyncLive
  <2>2. CASE \E r \in Runners : Clear(r)
    <3>1. PICK r \in Runners : Clear(r)
      BY <2>2
    <3>2. PICK a \in Apps : blob.entry[a] = "rate_limited"
      BY <3>1 DEF Clear, DropInv, FlightInv
    <3> DEFINE L == {b \in Apps : blob.entry[b] \in {"rate_limited"}}
    <3>3. IsFiniteSet(L) /\ L # {}
      BY <3>2, AppsAssumption, FS_Subset
    <3>4. Cardinality(L) > 0
      BY <3>3, FS_EmptySet, FS_CardinalityType
    <3>5. pc[r] = "clearing" /\ SyncLive
      BY <3>1 DEF Clear, SyncLive, LiveRuns
    <3> QED BY <3>4, <3>5 DEF CountOf
  <2>3. ASSUME NEW r \in Runners, Runs(r) \/ Faults(r), ~Clear(r) PROVE FALSE
    <3>1. Inv' /\ FlightInv'
      BY <2>3, NextInv, RunnerFlight DEF DropInv
    <3>2. PICK l \in {"clearing", "loading", "next", "fetching", "missing", "idle"} :
            Goto(r, l) /\ (l = "idle" => blob' = blob)
      BY <2>3 DEF Runs, Faults, Open, Loaded, Dequeue, Skip, Settles, FetchOk, FetchFails,
                  FetchLimited, Complete, Release, Abort, SaveFault, disk
    <3>3. pc'[r] = l
      BY <3>2 DEF Goto, Inv, TypeOK
    <3>4. l = "clearing" => blob' \in Blobs
      BY <3>1, <3>3 DEF FlightInv
    <3>5. l \in {"loading", "next", "fetching", "missing"} => blob' \in Blobs
      BY <3>1, <3>3 DEF Inv, LoopInv, LiveInv, LiveRuns, Awaiting
    <3> QED BY <3>2, <3>4, <3>5, NoBlobAssumption
  <2>4. CASE HealBlob
    BY <2>4 DEF HealBlob, DropInv, HealingInv
  <2>5. ASSUME blob' = blob PROVE FALSE
    BY <2>5
  <2>6. CASE \E r \in Runners : Trigger(r) \/ SchedulerTick(r) \/ Resume(r)
    BY <2>5, <2>6 DEF Trigger, SchedulerTick, Start, Resume, Begin
  <2>7. CASE Crash \/ Boot \/ ResumeNothing \/ HealLock \/ BecomesDue \/ GoesStale \/ PolicyTimer
    BY <2>5, <2>7 DEF Crash, Boot, ResumeNothing, HealLock, BecomesDue, GoesStale, PolicyTimer,
                      disk
  <2>8. CASE \E a \in Apps : AddApp(a) \/ DeleteApp(a)
    BY <2>5, <2>8 DEF AddApp, DeleteApp, disk
  <2> QED BY <2>1, <2>2, <2>3, <2>4, <2>6, <2>7, <2>8 DEF Next, BootCheck
<1> QED BY <1>1, <1>2, SpecInv, DropNext, PTL DEF Spec, QueueNeverDropped

-----------------------------------------------------------------------------
(***************************************************************************)
(* last_auto_sync is stamped only by a run that Apple did not limit.       *)
(***************************************************************************)
Limited(s) == {a \in Apps : s.entry[a] = "rate_limited"}

\* While no process died and no write threw, a run ends by clearing its queue,
\* so the next one is new, and a run that was limited never gets back to its loop.
CleanInv ==
    crashes = 0 /\ faults = 0 =>
        /\ LiveRuns = {} => blob = NoBlob
        /\ \A r \in Runners :
             /\ pc[r] = "releasing" => blob = NoBlob
             /\ pc[r] \in {"opening", "loading", "next", "fetching", "missing"} =>
                  Limited(mem[r]) = {}

LEMMA RunClean ==
    ASSUME Inv, CleanInv, crashes = 0, faults = 0, NEW r \in Runners, Runs(r)
    PROVE  CleanInv'
<1>1. pc[r] # "idle" /\ mem[r] \in Blobs
  <2>1. pc[r] # "idle"
    BY DEF Runs, Open, Loaded, Dequeue, Skip, Settles, FetchOk, FetchFails,
           FetchLimited, Complete, Clear, Release
  <2> QED BY <2>1, Alone
<1>2. ASSUME NEW l, Goto(r, l)
      PROVE  \A q \in Runners : pc'[q] = (IF q = r THEN l ELSE "idle")
  BY <1>1, <1>2, Alone DEF Goto, Inv, TypeOK
<1>3. ASSUME NEW l, l # "idle", l # "releasing", Goto(r, l),
             l \in {"opening", "loading", "next", "fetching", "missing"} =>
                 Limited(mem'[r]) = {}
      PROVE  CleanInv'
  <2>1. LiveRuns' # {}
    BY <1>2, <1>3 DEF LiveRuns
  <2> QED BY <1>2, <1>3, <2>1 DEF CleanInv, Limited
<1>4. CASE Open(r) \/ Loaded(r)
  <2>1. mem'[r] = mem[r] /\ Limited(mem[r]) = {}
    BY <1>1, <1>4 DEF Open, Loaded, Persist, CleanInv, Inv, TypeOK
  <2>2. PICK l \in {"clearing", "loading", "next"} : Goto(r, l)
    BY <1>4 DEF Open, Loaded
  <2> QED BY <1>3, <2>1, <2>2
<1>5. ASSUME NEW a \in Apps, Dequeue(r, a) PROVE CleanInv'
  <2> DEFINE s == Dequeued(mem[r], a)
  <2>1. PICK l \in {"fetching", "missing"} : Goto(r, l)
    BY <1>5 DEF Dequeue
  <2>2. mem'[r] = s
    BY <1>5 DEF Dequeue, Dequeued, Persist, Inv, TypeOK
  <2>3. s.entry = [mem[r].entry EXCEPT ![a] = "in_progress"]
    BY <1>1, DequeuedEntry
  <2>4. Limited(mem[r]) = {}
    BY <1>5 DEF Dequeue, CleanInv
  <2> HIDE DEF s
  <2>5. Limited(s) = {}
    BY <1>1, <2>3, <2>4 DEF Limited, Blobs
  <2> QED BY <1>3, <2>1, <2>2, <2>5
<1>6. ASSUME pc[r] \in {"fetching", "missing"},
             NEW outcome, outcome # "rate_limited", NEW totals,
             Persist(r, Settled(mem[r], outcome, totals)), Goto(r, "next")
      PROVE  CleanInv'
  <2> DEFINE s == Settled(mem[r], outcome, totals)
  <2>1. mem'[r] = s
    BY <1>6 DEF Persist, Inv, TypeOK
  <2>2. Limited(mem[r]) = {} /\ mem[r].current \in Apps
    BY <1>6 DEF CleanInv, Inv, AwaitInv
  <2>3. \A a \in Apps : s.entry[a] = IF a = mem[r].current THEN outcome ELSE mem[r].entry[a]
    BY <1>1, <2>2, SettledEntry
  <2> HIDE DEF s
  <2>4. Limited(s) = {}
    BY <1>6, <2>2, <2>3 DEF Limited
  <2> QED BY <1>3, <1>6, <2>1, <2>4
<1>7. CASE Skip(r) \/ FetchFails(r) \/ \E changed \in BOOLEAN : FetchOk(r, changed)
  <2>1. CASE Skip(r) \/ FetchFails(r)
    BY <1>6, <2>1 DEF Skip, FetchFails
  <2>2. ASSUME NEW changed \in BOOLEAN, FetchOk(r, changed) PROVE CleanInv'
    <3>1. (IF changed THEN "changed" ELSE "succeeded") # "rate_limited"
      OBVIOUS
    <3> QED BY <1>6, <2>2, <3>1 DEF FetchOk
  <2> QED BY <1>7, <2>1, <2>2
<1>8. CASE FetchLimited(r) \/ Complete(r)
  <2>1. Goto(r, "clearing")
    BY <1>8 DEF FetchLimited, Complete
  <2> QED BY <1>3, <2>1
<1>9. CASE Clear(r) \/ Release(r)
  <2>1. PICK l \in {"releasing", "idle"} : Goto(r, l)
    BY <1>9 DEF Clear, Release
  <2>2. blob' = NoBlob
    BY <1>9 DEF Clear, Release, CleanInv
  <2> QED BY <1>2, <2>1, <2>2 DEF CleanInv
<1> QED BY <1>4, <1>5, <1>7, <1>8, <1>9 DEF Runs, Settles

LEMMA CleanNext == Inv /\ CleanInv /\ [Next]_vars => CleanInv'
<1> SUFFICES ASSUME Inv, CleanInv, [Next]_vars, crashes' = 0, faults' = 0 PROVE CleanInv'
  BY DEF CleanInv
<1>1. ASSUME NEW r \in Runners, Trigger(r) \/ SchedulerTick(r) \/ Resume(r) PROVE CleanInv'
  <2>1. PICK s \in Blobs :
          /\ LiveRuns = {}
          /\ Begin(r, s)
          /\ \/ blob = NoBlob /\ \A a \in Apps : s.entry[a] \in {"absent", "pending"}
             \/ blob \in Blobs /\ s = Resumed(blob)
    BY <1>1, Beginnings
  <2>2. \A q \in Runners : pc'[q] = (IF q = r THEN "opening" ELSE "idle")
    BY <2>1 DEF Begin, Goto, LiveRuns, Inv, TypeOK
  <2>3. mem'[r] = s /\ crashes = 0 /\ faults = 0
    BY <2>1 DEF Begin, Inv, TypeOK
  <2>4. Limited(s) = {}
    BY <2>1, <2>3, NoBlobAssumption DEF CleanInv, Limited
  <2>5. LiveRuns' # {}
    BY <2>2 DEF LiveRuns
  <2> QED BY <2>2, <2>3, <2>4, <2>5 DEF CleanInv, Limited
<1>2. ASSUME NEW r \in Runners, Runs(r) PROVE CleanInv'
  <2>1. crashes = 0 /\ faults = 0
    <3>1. crashes' = crashes /\ faults' = faults
      BY <1>2 DEF Runs, Open, Loaded, Dequeue, Skip, Settles, FetchOk, FetchFails,
                  FetchLimited, Complete, Clear, Release, bounds
    <3> QED BY <3>1
  <2> QED BY <1>2, <2>1, RunClean
<1>3. ASSUME NEW r \in Runners, Faults(r) PROVE CleanInv'
  <2>1. faults' = faults + 1
    BY <1>3 DEF Faults, Abort, SaveFault
  <2> QED BY <2>1 DEF Inv, TypeOK
<1>4. CASE Crash
  <2>1. crashes' = crashes + 1
    BY <1>4 DEF Crash
  <2> QED BY <2>1 DEF Inv, TypeOK
<1>5. ASSUME blob' = blob \/ blob' = NoBlob, pc' = pc, mem' = mem,
             crashes' = crashes, faults' = faults
      PROVE  CleanInv'
  BY <1>5 DEF CleanInv, LiveRuns, Limited
<1>6. CASE HealLock \/ HealBlob \/ HealthCheck
  BY <1>5, <1>6 DEF HealLock, HealBlob, HealthCheck, bounds
<1>7. CASE Boot \/ ResumeNothing \/ BecomesDue \/ GoesStale \/ PolicyTimer
  BY <1>5, <1>7 DEF Boot, ResumeNothing, BecomesDue, GoesStale, PolicyTimer, disk, bounds
<1>8. CASE \E a \in Apps : AddApp(a) \/ DeleteApp(a)
  BY <1>5, <1>8 DEF AddApp, DeleteApp, disk, bounds
<1>9. CASE UNCHANGED vars
  BY <1>5, <1>9 DEF vars, disk, bounds
<1> QED BY <1>1, <1>2, <1>3, <1>4, <1>6, <1>7, <1>8, <1>9 DEF Next, BootCheck

\* While nothing died and no write threw, the stamp that postpones the next
\* scheduled sync says that every app of the run was asked for.
THEOREM StampAlwaysCovers == Spec => StampCoversEveryApp
<1> DEFINE Covers ==
      due /\ ~due' /\ crashes = 0 /\ faults = 0
        => \A r \in LiveRuns : CountOf(mem[r], {"rate_limited"}) = 0
<1>1. Init => CleanInv
  BY DEF Init, CleanInv, LiveRuns
<1>2. Inv /\ CleanInv /\ [Next]_vars => [Covers]_vars
  <2> SUFFICES ASSUME Inv, CleanInv, Next, due, ~due', crashes = 0, faults = 0,
                      NEW q \in LiveRuns
               PROVE  CountOf(mem[q], {"rate_limited"}) = 0
    OBVIOUS
  <2>1. PICK r \in Runners : Complete(r)
    BY DEF Next, Trigger, SchedulerTick, Start, Resume, Begin, Runs, Faults, BootCheck,
           Open, Loaded, Dequeue, Skip, Settles, FetchOk, FetchFails, FetchLimited, Clear,
           Release, Abort, SaveFault, Crash, Boot, ResumeNothing, HealLock, HealBlob,
           HealthCheck, AddApp, DeleteApp, BecomesDue, GoesStale, PolicyTimer
  <2>2. pc[r] = "next" /\ q = r
    BY <2>1 DEF Complete, Inv, OneRunner, LiveRuns
  <2>3. Limited(mem[q]) = {}
    BY <2>2 DEF CleanInv
  <2>4. {a \in Apps : mem[q].entry[a] \in {"rate_limited"}} = {}
    BY <2>3 DEF Limited
  <2> QED BY <2>4, FS_EmptySet DEF CountOf
<1> QED BY <1>1, <1>2, SpecInv, CleanNext, PTL DEF Spec, StampCoversEveryApp

-----------------------------------------------------------------------------
(***************************************************************************)
(* The summary counters.                                                   *)
(***************************************************************************)
Attempts == {"in_progress", "succeeded", "changed", "failed"}
Synced == {"succeeded", "changed"}

\* The totals of a run are the counts of its entries; those of the apps synced
\* are claimed only where `exact' holds.
Agrees(s, exact) ==
    /\ s.totals.attempted = CountOf(s, Attempts)
    /\ s.totals.failed = CountOf(s, {"failed"})
    /\ s.totals.skipped = CountOf(s, {"skipped"})
    /\ s.totals.rateLimited = CountOf(s, {"rate_limited"})
    /\ exact =>
         /\ s.totals.succeeded = CountOf(s, Synced)
         /\ s.totals.changes = CountOf(s, {"changed"})

\* The stored run agrees, and so does the one a runner is about to store.
CountInv ==
    /\ blob # NoBlob => Agrees(blob, faults = 0)
    /\ \A r \in Runners : pc[r] = "opening" => Agrees(mem[r], faults = 0)

-----------------------------------------------------------------------------
(***************************************************************************)
(* Counting entries.                                                       *)
(***************************************************************************)

LEMMA CountOfType ==
    ASSUME NEW s, NEW S
    PROVE  CountOf(s, S) \in Nat
<1>1. {a \in Apps : s.entry[a] \in S} \in SUBSET Apps
  OBVIOUS
<1> QED BY <1>1, CountType DEF CountOf

\* Counts depend on the entries only.
LEMMA CountSame ==
    ASSUME NEW s, NEW u, NEW S, \A a \in Apps : u.entry[a] \in S <=> s.entry[a] \in S
    PROVE  CountOf(u, S) = CountOf(s, S)
<1>1. {a \in Apps : u.entry[a] \in S} = {a \in Apps : s.entry[a] \in S}
  OBVIOUS
<1> QED BY <1>1 DEF CountOf

\* One entry moves from one status to another.
LEMMA CountMoves ==
    ASSUME NEW s, NEW u, NEW a \in Apps,
           \A b \in Apps : b # a => u.entry[b] = s.entry[b],
           NEW S
    PROVE  /\ (s.entry[a] \in S <=> u.entry[a] \in S) => CountOf(u, S) = CountOf(s, S)
           /\ s.entry[a] \in S /\ u.entry[a] \notin S => CountOf(u, S) = CountOf(s, S) - 1
           /\ s.entry[a] \notin S /\ u.entry[a] \in S => CountOf(u, S) = CountOf(s, S) + 1
<1> DEFINE X == {b \in Apps : s.entry[b] \in S}
           Y == {b \in Apps : u.entry[b] \in S}
<1>1. (s.entry[a] \in S <=> u.entry[a] \in S) => CountOf(u, S) = CountOf(s, S)
  <2>1. (s.entry[a] \in S <=> u.entry[a] \in S)
           => \A b \in Apps : u.entry[b] \in S <=> s.entry[b] \in S
    OBVIOUS
  <2> QED BY <2>1, CountSame
<1>2. IsFiniteSet(X)
  BY AppsAssumption, FS_Subset
<1>3. CountOf(u, S) = Cardinality(Y) /\ CountOf(s, S) = Cardinality(X)
  BY DEF CountOf
<1>4. ASSUME s.entry[a] \in S, u.entry[a] \notin S PROVE CountOf(u, S) = CountOf(s, S) - 1
  <2>1. Y = X \ {a} /\ a \in X
    BY <1>4
  <2> HIDE DEF X, Y
  <2> QED BY <1>2, <1>3, <2>1, FS_RemoveElement
<1>5. ASSUME s.entry[a] \notin S, u.entry[a] \in S PROVE CountOf(u, S) = CountOf(s, S) + 1
  <2>1. Y = X \cup {a} /\ a \notin X
    BY <1>5
  <2> HIDE DEF X, Y
  <2> QED BY <1>2, <1>3, <2>1, FS_AddElement
<1> QED BY <1>1, <1>4, <1>5

\* A new run counts nothing.
LEMMA NewRunAgrees ==
    ASSUME NEW id \in RunIds, NEW who \in Initiators
    PROVE  Agrees(NewRun(id, who), TRUE)
<1> DEFINE s == NewRun(id, who)
<1>1. \A a \in Apps : s.entry[a] \in {"absent", "pending"}
  BY DEF NewRun
<1>2. /\ s.totals.attempted = 0 /\ s.totals.failed = 0 /\ s.totals.skipped = 0
      /\ s.totals.rateLimited = 0 /\ s.totals.succeeded = 0 /\ s.totals.changes = 0
  BY DEF NewRun
<1> HIDE DEF s
<1>3. ASSUME NEW S, "absent" \notin S, "pending" \notin S PROVE CountOf(s, S) = 0
  <2>1. {a \in Apps : s.entry[a] \in S} = {}
    BY <1>1, <1>3
  <2> QED BY <2>1, FS_EmptySet DEF CountOf
<1>4. CountOf(s, Attempts) = 0 /\ CountOf(s, Synced) = 0
  BY <1>3 DEF Attempts, Synced
<1>5. /\ CountOf(s, {"failed"}) = 0 /\ CountOf(s, {"skipped"}) = 0
      /\ CountOf(s, {"rate_limited"}) = 0 /\ CountOf(s, {"changed"}) = 0
  BY <1>3
<1> QED BY <1>2, <1>4, <1>5 DEF Agrees, s

\* Un-counting what a dead process was fetching keeps a run in agreement.
LEMMA ResumedAgrees ==
    ASSUME NEW s \in Blobs, NEW exact \in BOOLEAN, Agrees(s, exact)
    PROVE  Agrees(Resumed(s), exact)
<1> DEFINE left == s.totals.attempted - Cardinality(InFlight(s))
           n == IF left < 0 THEN 0 ELSE left
           e == [a \in Apps |-> IF a \in InFlight(s) THEN "pending" ELSE s.entry[a]]
           t == [s.totals EXCEPT !.attempted = n]
           u == Resumed(s)
           Kept == {"succeeded", "changed", "failed"}
           K == {a \in Apps : s.entry[a] \in Kept}
<1>1. u.entry = e /\ u.totals = t
  <2>1. u = [s EXCEPT !.initiator = "resume", !.entry = e, !.totals.attempted = n]
    BY DEF Resumed
  <2> HIDE DEF e, n, u
  <2> QED BY <2>1 DEF Blobs, Totals
<1>2. ASSUME NEW S, "pending" \notin S, "in_progress" \notin S PROVE CountOf(u, S) = CountOf(s, S)
  <2>1. \A a \in Apps : u.entry[a] \in S <=> s.entry[a] \in S
    BY <1>1, <1>2 DEF InFlight
  <2> HIDE DEF u
  <2> QED BY <2>1, CountSame
<1>3. n = CountOf(u, Attempts)
  <2>1. IsFiniteSet(InFlight(s)) /\ IsFiniteSet(K)
    BY AppsAssumption, FS_Subset DEF InFlight
  <2>2. {a \in Apps : s.entry[a] \in Attempts} = InFlight(s) \cup K /\ InFlight(s) \cap K = {}
    BY DEF InFlight, Attempts
  <2>3. CountOf(s, Attempts) = Cardinality(InFlight(s) \cup K)
    BY <2>2 DEF CountOf
  <2>4. \A a \in Apps : u.entry[a] \in Attempts <=> s.entry[a] \in Kept
    BY <1>1 DEF InFlight, Attempts
  <2>5. {a \in Apps : u.entry[a] \in Attempts} = K
    BY <2>4
  <2>6. CountOf(u, Attempts) = Cardinality(K)
    BY <2>5 DEF CountOf
  <2>7. Cardinality(InFlight(s)) \in Nat /\ Cardinality(K) \in Nat
    BY <2>1, FS_CardinalityType
  <2>8. s.totals.attempted = CountOf(s, Attempts)
    BY DEF Agrees
  <2> HIDE DEF K
  <2>9. Cardinality(InFlight(s) \cap K) = 0
    BY <2>2, FS_EmptySet
  <2>10. Cardinality(InFlight(s) \cup K)
           = Cardinality(InFlight(s)) + Cardinality(K) - Cardinality(InFlight(s) \cap K)
    BY <2>1, FS_Union
  <2>11. left = Cardinality(K)
    BY <2>3, <2>7, <2>8, <2>9, <2>10
  <2> HIDE DEF left, u
  <2> QED BY <2>6, <2>7, <2>11
<1>4. /\ u.totals.attempted = n
      /\ u.totals.failed = s.totals.failed /\ u.totals.skipped = s.totals.skipped
      /\ u.totals.rateLimited = s.totals.rateLimited
      /\ u.totals.succeeded = s.totals.succeeded /\ u.totals.changes = s.totals.changes
  <2> HIDE DEF n, u
  <2> QED BY <1>1 DEF Blobs, Totals
<1>5. CountOf(u, Synced) = CountOf(s, Synced)
  BY <1>2 DEF Synced
<1>6. /\ CountOf(u, {"failed"}) = CountOf(s, {"failed"})
      /\ CountOf(u, {"skipped"}) = CountOf(s, {"skipped"})
      /\ CountOf(u, {"rate_limited"}) = CountOf(s, {"rate_limited"})
      /\ CountOf(u, {"changed"}) = CountOf(s, {"changed"})
  BY <1>2
<1> HIDE DEF u, n
<1> QED BY <1>3, <1>4, <1>5, <1>6 DEF Agrees, u

\* Taking a pending app counts one attempt.
LEMMA DequeuedAgrees ==
    ASSUME NEW s \in Blobs, NEW a \in Pending(s), NEW exact \in BOOLEAN, Agrees(s, exact)
    PROVE  Agrees(Dequeued(s, a), exact)
<1> DEFINE u == Dequeued(s, a)
           e == [s.entry EXCEPT ![a] = "in_progress"]
           t == [s.totals EXCEPT !.attempted = @ + 1]
<1>1. a \in Apps /\ s.entry[a] = "pending"
  BY DEF Pending
<1>2. u.entry = e /\ u.totals = t
  <2>1. u = [s EXCEPT !.entry = e, !.current = a, !.totals = t]
    BY DEF Dequeued
  <2> HIDE DEF u, e, t
  <2> QED BY <2>1 DEF Blobs
<1>3. \A b \in Apps : u.entry[b] = IF b = a THEN "in_progress" ELSE s.entry[b]
  <2> HIDE DEF u
  <2> QED BY <1>1, <1>2 DEF Blobs
<1>4. /\ u.totals.attempted = s.totals.attempted + 1
      /\ u.totals.failed = s.totals.failed /\ u.totals.skipped = s.totals.skipped
      /\ u.totals.rateLimited = s.totals.rateLimited
      /\ u.totals.succeeded = s.totals.succeeded /\ u.totals.changes = s.totals.changes
  <2> HIDE DEF u
  <2> QED BY <1>2 DEF Blobs, Totals
<1> HIDE DEF u
<1>5. ASSUME NEW S
      PROVE  /\ "pending" \notin S /\ "in_progress" \in S => CountOf(u, S) = CountOf(s, S) + 1
             /\ "pending" \notin S /\ "in_progress" \notin S => CountOf(u, S) = CountOf(s, S)
  BY <1>1, <1>3, CountMoves
<1>6. CountOf(u, Attempts) = CountOf(s, Attempts) + 1
  BY <1>5 DEF Attempts
<1>7. CountOf(u, Synced) = CountOf(s, Synced)
  BY <1>5 DEF Synced
<1>8. /\ CountOf(u, {"failed"}) = CountOf(s, {"failed"})
      /\ CountOf(u, {"skipped"}) = CountOf(s, {"skipped"})
      /\ CountOf(u, {"rate_limited"}) = CountOf(s, {"rate_limited"})
      /\ CountOf(u, {"changed"}) = CountOf(s, {"changed"})
  BY <1>5
<1> QED BY <1>4, <1>6, <1>7, <1>8 DEF Agrees, u

\* What settling the app in flight does to the counts.
LEMMA SettledCounts ==
    ASSUME NEW s \in Blobs, s.current \in Apps, s.entry[s.current] = "in_progress",
           NEW outcome \in Outcomes, NEW totals
    PROVE  LET u == Settled(s, outcome, totals) IN
           /\ u.totals = totals
           /\ CountOf(u, Attempts) =
                IF outcome \in Attempts THEN CountOf(s, Attempts) ELSE CountOf(s, Attempts) - 1
           /\ CountOf(u, Synced) =
                IF outcome \in Synced THEN CountOf(s, Synced) + 1 ELSE CountOf(s, Synced)
           /\ \A o \in Outcomes :
                CountOf(u, {o}) = IF outcome = o THEN CountOf(s, {o}) + 1 ELSE CountOf(s, {o})
<1> DEFINE u == Settled(s, outcome, totals)
           i == s.current
<1>1. u.totals = totals
  BY DEF Settled, Blobs
<1>2. \A b \in Apps : u.entry[b] = IF b = i THEN outcome ELSE s.entry[b]
  BY SettledEntry
<1> HIDE DEF u
<1>3. i \in Apps /\ s.entry[i] = "in_progress" /\ u.entry[i] = outcome
  BY <1>2
<1> HIDE DEF i
<1>4. ASSUME NEW S
      PROVE  /\ "in_progress" \in S /\ outcome \in S => CountOf(u, S) = CountOf(s, S)
             /\ "in_progress" \in S /\ outcome \notin S => CountOf(u, S) = CountOf(s, S) - 1
             /\ "in_progress" \notin S /\ outcome \in S => CountOf(u, S) = CountOf(s, S) + 1
             /\ "in_progress" \notin S /\ outcome \notin S => CountOf(u, S) = CountOf(s, S)
  BY <1>2, <1>3, CountMoves
<1>5. CountOf(u, Attempts) =
        IF outcome \in Attempts THEN CountOf(s, Attempts) ELSE CountOf(s, Attempts) - 1
  BY <1>4 DEF Attempts
<1>6. CountOf(u, Synced) =
        IF outcome \in Synced THEN CountOf(s, Synced) + 1 ELSE CountOf(s, Synced)
  BY <1>4 DEF Synced
<1>7. ASSUME NEW o \in Outcomes
      PROVE  CountOf(u, {o}) = IF outcome = o THEN CountOf(s, {o}) + 1 ELSE CountOf(s, {o})
  <2>1. "in_progress" \notin {o}
    BY DEF Outcomes, Done, Failed
  <2> QED BY <1>4, <2>1
<1> QED BY <1>1, <1>5, <1>6, <1>7 DEF u

-----------------------------------------------------------------------------
(***************************************************************************)
(* Every step keeps the agreement.                                         *)
(***************************************************************************)

\* Settling keeps it when the new totals count the outcome once.
LEMMA SettledAgrees ==
    ASSUME NEW s \in Blobs, s.current \in Apps, s.entry[s.current] = "in_progress",
           NEW outcome \in Outcomes, NEW t \in Totals,
           NEW exact \in BOOLEAN, NEW exactNext \in BOOLEAN,
           Agrees(s, exact), exactNext => exact,
           t.attempted = IF outcome \in Attempts THEN s.totals.attempted
                                                 ELSE s.totals.attempted - 1,
           t.failed = IF outcome = "failed" THEN s.totals.failed + 1 ELSE s.totals.failed,
           t.skipped = IF outcome = "skipped" THEN s.totals.skipped + 1 ELSE s.totals.skipped,
           t.rateLimited = IF outcome = "rate_limited" THEN s.totals.rateLimited + 1
                                                       ELSE s.totals.rateLimited,
           exactNext => t.succeeded = IF outcome \in Synced THEN s.totals.succeeded + 1
                                                            ELSE s.totals.succeeded,
           exactNext => t.changes = IF outcome = "changed" THEN s.totals.changes + 1
                                                           ELSE s.totals.changes
    PROVE  Agrees(Settled(s, outcome, t), exactNext)
<1> DEFINE u == Settled(s, outcome, t)
<1>1. /\ u.totals = t
      /\ CountOf(u, Attempts) =
           IF outcome \in Attempts THEN CountOf(s, Attempts) ELSE CountOf(s, Attempts) - 1
      /\ CountOf(u, Synced) =
           IF outcome \in Synced THEN CountOf(s, Synced) + 1 ELSE CountOf(s, Synced)
      /\ \A o \in Outcomes :
           CountOf(u, {o}) = IF outcome = o THEN CountOf(s, {o}) + 1 ELSE CountOf(s, {o})
  BY SettledCounts
<1> HIDE DEF u
<1>2. {"failed", "skipped", "rate_limited", "changed"} \subseteq Outcomes
  BY DEF Outcomes, Done, Failed
<1>3. t.failed = CountOf(u, {"failed"}) /\ t.skipped = CountOf(u, {"skipped"})
  BY <1>1, <1>2 DEF Agrees
<1>4. t.rateLimited = CountOf(u, {"rate_limited"}) /\ t.attempted = CountOf(u, Attempts)
  BY <1>1, <1>2 DEF Agrees
<1>5. exactNext => t.succeeded = CountOf(u, Synced) /\ t.changes = CountOf(u, {"changed"})
  BY <1>1, <1>2 DEF Agrees
<1> QED BY <1>1, <1>3, <1>4, <1>5 DEF Agrees, u

\* A runner that begins holds a run in agreement.
LEMMA BeginCounts ==
    ASSUME Inv, CountInv, NEW r \in Runners, Trigger(r) \/ SchedulerTick(r) \/ Resume(r)
    PROVE  CountInv'
<1>1. ASSUME LiveRuns = {}, NEW s, Begin(r, s), Agrees(s, faults = 0) PROVE CountInv'
  <2>1. \A q \in Runners : pc'[q] = (IF q = r THEN "opening" ELSE "idle")
    BY <1>1 DEF Begin, Goto, LiveRuns, Inv, TypeOK
  <2>2. mem'[r] = s /\ blob' = blob /\ faults' = faults
    BY <1>1 DEF Begin, Inv, TypeOK
  <2>3. blob' # NoBlob => Agrees(blob', faults' = 0)
    BY <2>2 DEF CountInv
  <2>4. \A q \in Runners : pc'[q] = "opening" => Agrees(mem'[q], faults' = 0)
    BY <1>1, <2>1, <2>2
  <2> QED BY <2>3, <2>4 DEF CountInv, Agrees, CountOf
<1>2. ASSUME NEW who \in Initiators, Start(r, who) PROVE CountInv'
  <2>1. LiveRuns = {}
    BY <1>2, FreeMeansIdle DEF Start
  <2>2. PICK id \in RunIds : Begin(r, NewRun(id, who))
    BY <1>2 DEF Start
  <2>3. Agrees(NewRun(id, who), faults = 0)
    BY NewRunAgrees DEF Agrees
  <2> QED BY <1>1, <2>1, <2>2, <2>3
<1>3. CASE Trigger(r) \/ SchedulerTick(r)
  BY <1>2, <1>3 DEF Trigger, SchedulerTick, Initiators
<1>4. CASE Resume(r)
  <2>1. LiveRuns = {} /\ Begin(r, Resumed(blob)) /\ blob \in Blobs /\ blob # NoBlob
    BY <1>4, NoBlobAssumption DEF Resume, SyncLive, HasPending, Inv, TypeOK
  <2>2. Agrees(blob, faults = 0) /\ (faults = 0) \in BOOLEAN
    BY <2>1 DEF CountInv
  <2>3. Agrees(Resumed(blob), faults = 0)
    BY <2>1, <2>2, ResumedAgrees
  <2> QED BY <1>1, <2>1, <2>3
<1> QED BY <1>3, <1>4

LEMMA RunnerCounts ==
    ASSUME Inv, CountInv, NEW r \in Runners, Runs(r) \/ Faults(r)
    PROVE  CountInv'
<1> DEFINE s == mem[r]
           t == s.totals
<1>1. pc[r] # "idle" /\ s \in Blobs /\ t \in Totals
  <2>1. pc[r] # "idle"
    BY DEF Runs, Faults, Open, Loaded, Dequeue, Skip, Settles, FetchOk, FetchFails,
           FetchLimited, Complete, Clear, Release, Abort, SaveFault
  <2> QED BY <2>1, Alone DEF Blobs
<1>2. ASSUME NEW u, blob' = u, u # NoBlob => Agrees(u, faults' = 0) PROVE CountInv'
  <2>1. PICK l \in {"clearing", "loading", "next", "fetching", "missing", "releasing", "idle"} :
          Goto(r, l)
    BY DEF Runs, Faults, Open, Loaded, Dequeue, Skip, Settles, FetchOk, FetchFails,
           FetchLimited, Complete, Clear, Release, Abort, SaveFault
  <2>2. \A q \in Runners : pc'[q] # "opening"
    BY <1>1, <2>1, Alone DEF Goto, Inv, TypeOK
  <2>3. blob' # NoBlob => Agrees(blob', faults' = 0)
    BY <1>2
  <2> QED BY <2>2, <2>3 DEF CountInv, Agrees, CountOf
<1>3. ASSUME pc[r] \in {"next", "fetching", "missing"} PROVE Agrees(s, faults = 0)
  <2>1. blob = s /\ blob # NoBlob
    BY <1>1, <1>3, NoBlobAssumption DEF Inv, LoopInv, Awaiting
  <2> QED BY <2>1 DEF CountInv
<1>4. CASE Open(r)
  <2>1. Agrees(s, faults' = 0) /\ blob' = s
    BY <1>4 DEF Open, Persist, CountInv, bounds
  <2> QED BY <1>2, <2>1
<1>5. ASSUME blob' = blob \/ blob' = NoBlob, faults' = 0 => faults = 0 PROVE CountInv'
  <2>1. blob' # NoBlob => Agrees(blob', faults' = 0)
    BY <1>5 DEF CountInv, Agrees
  <2> QED BY <1>2, <2>1
<1>6. CASE Loaded(r) \/ Complete(r) \/ Clear(r) \/ Release(r) \/ Abort(r)
  <2>1. faults' = faults \/ faults' = faults + 1
    BY <1>6 DEF Loaded, Complete, Clear, Release, Abort, bounds
  <2>2. faults' = 0 => faults = 0
    BY <2>1 DEF Inv, TypeOK
  <2>3. blob' = blob \/ blob' = NoBlob
    BY <1>6 DEF Loaded, Complete, Clear, Release, Abort, disk
  <2> QED BY <1>5, <2>2, <2>3
<1>7. ASSUME NEW a \in Apps, Dequeue(r, a) PROVE CountInv'
  <2>1. a \in Pending(s) /\ faults' = faults
    BY <1>7 DEF Dequeue, bounds
  <2>2. blob' = Dequeued(s, a)
    BY <1>7 DEF Dequeue, Dequeued, Persist
  <2>3. Agrees(s, faults = 0) /\ (faults = 0) \in BOOLEAN
    BY <1>3, <1>7 DEF Dequeue
  <2>4. Agrees(Dequeued(s, a), faults = 0)
    BY <1>1, <2>1, <2>3, DequeuedAgrees
  <2>5. Agrees(blob', faults' = 0)
    BY <2>1, <2>2, <2>4
  <2> QED BY <1>2, <2>5
<1>8. ASSUME pc[r] \in {"fetching", "missing"},
             NEW outcome \in Outcomes, NEW totals \in Totals,
             blob' = Settled(s, outcome, totals),
             faults' = 0 => faults = 0,
             totals.attempted = IF outcome \in Attempts THEN t.attempted ELSE t.attempted - 1,
             totals.failed = IF outcome = "failed" THEN t.failed + 1 ELSE t.failed,
             totals.skipped = IF outcome = "skipped" THEN t.skipped + 1 ELSE t.skipped,
             totals.rateLimited = IF outcome = "rate_limited" THEN t.rateLimited + 1
                                                              ELSE t.rateLimited,
             faults' = 0 => totals.succeeded = IF outcome \in Synced THEN t.succeeded + 1
                                                                     ELSE t.succeeded,
             faults' = 0 => totals.changes = IF outcome = "changed" THEN t.changes + 1
                                                                    ELSE t.changes
      PROVE  CountInv'
  <2>1. s.current \in Apps /\ s.entry[s.current] = "in_progress"
    BY <1>8 DEF Inv, AwaitInv
  <2>2. Agrees(s, faults = 0) /\ (faults = 0) \in BOOLEAN /\ (faults' = 0) \in BOOLEAN
    BY <1>3, <1>8
  <2> HIDE DEF s
  <2>3. Agrees(Settled(s, outcome, totals), faults' = 0)
    BY <1>1, <1>8, <2>1, <2>2, SettledAgrees
  <2>4. Agrees(blob', faults' = 0)
    BY <1>8, <2>3
  <2> QED BY <1>2, <2>4
<1>9. CASE Skip(r)
  <2> DEFINE n == [t EXCEPT !.skipped = @ + 1, !.attempted = @ - 1]
  <2>1. /\ n \in Totals /\ n.attempted = t.attempted - 1 /\ n.failed = t.failed
        /\ n.skipped = t.skipped + 1 /\ n.rateLimited = t.rateLimited
        /\ n.succeeded = t.succeeded /\ n.changes = t.changes
    BY <1>1, CountsType DEF Totals
  <2>2. /\ pc[r] \in {"fetching", "missing"} /\ faults' = faults
        /\ blob' = Settled(s, "skipped", n)
    BY <1>9 DEF Skip, Persist, bounds
  <2>3. "skipped" \in Outcomes /\ "skipped" \notin Attempts /\ "skipped" \notin Synced
    BY DEF Outcomes, Done, Attempts, Synced
  <2> HIDE DEF n, t, s
  <2> QED BY <1>8, <2>1, <2>2, <2>3
<1>10. CASE FetchFails(r)
  <2> DEFINE n == [t EXCEPT !.failed = @ + 1]
  <2>1. /\ n \in Totals /\ n.attempted = t.attempted /\ n.failed = t.failed + 1
        /\ n.skipped = t.skipped /\ n.rateLimited = t.rateLimited
        /\ n.succeeded = t.succeeded /\ n.changes = t.changes
    BY <1>1, CountsType DEF Totals
  <2>2. /\ pc[r] \in {"fetching", "missing"} /\ faults' = faults
        /\ blob' = Settled(s, "failed", n)
    BY <1>10 DEF FetchFails, Persist, bounds
  <2>3. "failed" \in Outcomes /\ "failed" \in Attempts /\ "failed" \notin Synced
    BY DEF Outcomes, Failed, Attempts, Synced
  <2> HIDE DEF n, t, s
  <2> QED BY <1>8, <2>1, <2>2, <2>3
<1>11. CASE FetchLimited(r)
  <2> DEFINE n == [t EXCEPT !.rateLimited = @ + 1, !.attempted = @ - 1]
  <2>1. /\ n \in Totals /\ n.attempted = t.attempted - 1 /\ n.failed = t.failed
        /\ n.skipped = t.skipped /\ n.rateLimited = t.rateLimited + 1
        /\ n.succeeded = t.succeeded /\ n.changes = t.changes
    BY <1>1, CountsType DEF Totals
  <2>2. /\ pc[r] \in {"fetching", "missing"} /\ faults' = faults
        /\ blob' = Settled(s, "rate_limited", n)
    BY <1>11 DEF FetchLimited
  <2>3. /\ "rate_limited" \in Outcomes /\ "rate_limited" \notin Attempts
        /\ "rate_limited" \notin Synced
    BY DEF Outcomes, Failed, Attempts, Synced
  <2> HIDE DEF n, t, s
  <2> QED BY <1>8, <2>1, <2>2, <2>3
<1>12. ASSUME NEW changed \in BOOLEAN
       PROVE  LET n == Succeeded(t, changed) IN
              /\ n \in Totals /\ n.attempted = t.attempted /\ n.failed = t.failed
              /\ n.skipped = t.skipped /\ n.rateLimited = t.rateLimited
              /\ n.succeeded = t.succeeded + 1
              /\ n.changes = IF changed THEN t.changes + 1 ELSE t.changes
  <2>1. Succeeded(t, changed) \in Totals
    BY <1>1, SucceededType
  <2> HIDE DEF t
  <2> QED BY <1>1, <2>1 DEF Succeeded, Totals
<1>13. ASSUME NEW changed \in BOOLEAN, FetchOk(r, changed) PROVE CountInv'
  <2> DEFINE n == Succeeded(t, changed)
             o == IF changed THEN "changed" ELSE "succeeded"
  <2>1. /\ pc[r] \in {"fetching", "missing"} /\ faults' = faults /\ blob' = Settled(s, o, n)
    BY <1>13 DEF FetchOk, Persist, bounds
  <2>2. /\ o \in Outcomes /\ o \in Attempts /\ o \in Synced /\ (o = "changed" <=> changed)
        /\ o # "failed" /\ o # "skipped" /\ o # "rate_limited"
    BY DEF Outcomes, Done, Attempts, Synced
  <2>3. /\ n \in Totals /\ n.attempted = t.attempted /\ n.failed = t.failed
        /\ n.skipped = t.skipped /\ n.rateLimited = t.rateLimited
        /\ n.succeeded = t.succeeded + 1
        /\ n.changes = IF changed THEN t.changes + 1 ELSE t.changes
    BY <1>12
  <2> HIDE DEF n, o, t, s
  <2>4. n.changes = IF o = "changed" THEN t.changes + 1 ELSE t.changes
    BY <2>2, <2>3
  <2> QED BY <1>8, <2>1, <2>2, <2>3, <2>4
<1>14. ASSUME NEW changed \in BOOLEAN, SaveFault(r, changed) PROVE CountInv'
  <2> DEFINE m == Succeeded(t, changed)
             n == [m EXCEPT !.failed = @ + 1]
  <2>1. /\ m \in Totals /\ m.attempted = t.attempted /\ m.failed = t.failed
        /\ m.skipped = t.skipped /\ m.rateLimited = t.rateLimited
    BY <1>12
  <2>2. /\ pc[r] \in {"fetching", "missing"} /\ faults' = faults + 1
        /\ blob' = Settled(s, "failed", n)
    BY <1>14 DEF SaveFault, Persist
  <2>3. faults' # 0
    BY <2>2 DEF Inv, TypeOK
  <2> HIDE DEF m
  <2>4. /\ n \in Totals /\ n.attempted = t.attempted /\ n.failed = t.failed + 1
        /\ n.skipped = t.skipped /\ n.rateLimited = t.rateLimited
    BY <2>1, CountsType DEF Totals
  <2>5. "failed" \in Outcomes /\ "failed" \in Attempts
    BY DEF Outcomes, Failed, Attempts
  <2> HIDE DEF n, t, s
  <2> QED BY <1>8, <2>2, <2>3, <2>4, <2>5
<1> QED BY <1>4, <1>6, <1>7, <1>9, <1>10, <1>11, <1>13, <1>14 DEF Runs, Settles, Faults

LEMMA CountNext == Inv /\ CountInv /\ [Next]_vars => CountInv'
<1> SUFFICES ASSUME Inv, CountInv, [Next]_vars PROVE CountInv'
  OBVIOUS
<1>1. ASSUME NEW r \in Runners,
             Trigger(r) \/ SchedulerTick(r) \/ Resume(r) \/ Runs(r) \/ Faults(r)
      PROVE  CountInv'
  BY <1>1, BeginCounts, RunnerCounts
<1>2. ASSUME \A r \in Runners : pc'[r] = "idle" \/ (pc'[r] = pc[r] /\ mem'[r] = mem[r]),
             blob' = blob \/ blob' = NoBlob, faults' = faults
      PROVE  CountInv'
  <2>1. blob' # NoBlob => Agrees(blob', faults' = 0)
    BY <1>2 DEF CountInv
  <2>2. \A r \in Runners : pc'[r] = "opening" => Agrees(mem'[r], faults' = 0)
    BY <1>2 DEF CountInv
  <2> QED BY <2>1, <2>2 DEF CountInv, Agrees, CountOf
<1>3. CASE Crash
  <2>1. /\ \A r \in Runners : pc'[r] = "idle"
        /\ blob' = blob /\ faults' = faults
    BY <1>3 DEF Crash, disk
  <2> QED BY <1>2, <2>1
<1>4. CASE HealLock \/ HealBlob \/ HealthCheck
  BY <1>2, <1>4 DEF HealLock, HealBlob, HealthCheck, bounds
<1>5. CASE Boot \/ ResumeNothing \/ BecomesDue \/ GoesStale \/ PolicyTimer
  BY <1>2, <1>5 DEF Boot, ResumeNothing, BecomesDue, GoesStale, PolicyTimer, disk, bounds
<1>6. CASE \E a \in Apps : AddApp(a) \/ DeleteApp(a)
  BY <1>2, <1>6 DEF AddApp, DeleteApp, disk, bounds
<1>7. CASE UNCHANGED vars
  BY <1>2, <1>7 DEF vars, disk, bounds
<1> QED BY <1>1, <1>3, <1>4, <1>5, <1>6, <1>7 DEF Next, BootCheck

\* In every stored state of every run the summary counters are the counts of
\* its entries, through crashes, resumes, limits and failing writes: an app is
\* never counted twice as attempted.
THEOREM CountersAlwaysMatch == Spec => []CountersMatchQueue
<1>1. Init => CountInv
  BY DEF Init, CountInv
<1>2. CountInv => CountersMatchQueue
  BY DEF CountInv, CountersMatchQueue, Agrees, Attempts, Synced
<1> QED BY <1>1, <1>2, SpecInv, CountNext, PTL DEF Spec
=============================================================================
