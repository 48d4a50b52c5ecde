------------------------ MODULE WholeDatabaseProofs ------------------------
(***************************************************************************)
(* Proofs about restores and wipes beside live work, for any number of     *)
(* apps, workers, backups, crashes and failing runs.                       *)
(***************************************************************************)
EXTENDS WholeDatabase, TLAPS

\* A live run of a bulk job holds the job's lock, and its queue has something
\* left, unless a wipe came between: this is what tells a lock in use from one
\* that a crash or a restore left behind.
HoldsLock ==
    \A w \in Workers :
        work[w] \in Bulk \ spoiled =>
            lock[work[w]] /\ queue[work[w]] \in {"todo", "aside"}

Inv ==
    /\ TypeOK
    /\ NoLateWriter
    /\ HoldsLock
    /\ OneRunPerJob
    /\ SyncOutlivesNoWipe

\* An empty database, idle.
LEMMA InitInv == Init => Inv
<1> SUFFICES ASSUME Init PROVE Inv
  OBVIOUS
<1>1. TypeOK
  BY DEF Init, TypeOK, Locks, Works, Queues
<1>2. NoLateWriter /\ SyncOutlivesNoWipe
  BY DEF Init, NoLateWriter, SyncOutlivesNoWipe
<1>3. HoldsLock /\ OneRunPerJob
  BY JobsAssumption DEF Init, HoldsLock, OneRunPerJob, On
<1> QED BY <1>1, <1>2, <1>3 DEF Inv

\* The jobs are among the works, and idling is not one.
LEMMA JobNames ==
    /\ Bulk \subseteq Locks
    /\ Locks \subseteq Works
    /\ "none" \notin Works
    /\ "import" \in Locks /\ "import" \notin Bulk
    /\ "single" \in Works /\ "single" \notin Locks
    /\ "sync" \in Bulk /\ "wayback" \in Bulk
  BY BulkAssumption, JobsAssumption DEF Locks, Works

\* Work that begins is the only change to what the workers do.
LEMMA TakeInv ==
    ASSUME Inv, NEW w \in Workers, NEW j \in Works, work[w] = "none", Take(w, j)
    PROVE  /\ work' \in [Workers -> Works \cup {"none"}]
           /\ late' = {}
           /\ late' \subseteq Workers /\ wiped' \subseteq Workers /\ spoiled' \subseteq Works
           /\ SyncOutlivesNoWipe'
           /\ spoiled' = spoiled
           /\ \A v \in Workers : work'[v] = IF v = w THEN j ELSE work[v]
  BY DEF Inv, TypeOK, Take, NoLateWriter, SyncOutlivesNoWipe

\* Work that ends leaves the rest as it was, and a job that still runs as
\* spoiled or unspoiled as it was.
LEMMA LeaveInv ==
    ASSUME Inv, NEW S \in SUBSET Workers, Leave(S)
    PROVE  /\ work' \in [Workers -> Works \cup {"none"}]
           /\ late' = {}
           /\ late' \subseteq Workers /\ wiped' \subseteq Workers /\ spoiled' \subseteq Works
           /\ SyncOutlivesNoWipe'
           /\ \A v \in Workers :
                /\ work'[v] = IF v \in S THEN "none" ELSE work[v]
                /\ work'[v] \notin spoiled' => work'[v] \notin spoiled
<1>1. work' = [v \in Workers |-> IF v \in S THEN "none" ELSE work[v]]
  BY DEF Leave
<1>2. work' \in [Workers -> Works \cup {"none"}]
  BY <1>1 DEF Inv, TypeOK
<1>3. late' = {} /\ late' \subseteq Workers /\ wiped' \subseteq Workers
  BY DEF Leave, Inv, TypeOK, NoLateWriter
<1>4. spoiled' = {j \in spoiled : \E v \in Workers : work'[v] = j}
  BY <1>1 DEF Leave
<1>5. spoiled' \subseteq Works /\ SyncOutlivesNoWipe'
  BY <1>4 DEF Inv, TypeOK, SyncOutlivesNoWipe
<1>6. ASSUME NEW v \in Workers
      PROVE  /\ work'[v] = IF v \in S THEN "none" ELSE work[v]
             /\ work'[v] \notin spoiled' => work'[v] \notin spoiled
  BY <1>1, <1>4
<1> QED BY <1>2, <1>3, <1>5, <1>6

-----------------------------------------------------------------------------
\* The bulk runs a step does not touch keep their place.
LEMMA FewerRuns ==
    ASSUME Inv,
           \A v \in Workers : work'[v] \in Bulk \ spoiled' =>
               work'[v] = work[v] /\ work[v] \notin spoiled
    PROVE  OneRunPerJob'
<1> SUFFICES ASSUME NEW j \in Bulk, j \notin spoiled',
                    NEW v \in Workers, NEW w \in Workers, work'[v] = j, work'[w] = j
             PROVE  v = w
  BY DEF OneRunPerJob, On
<1>1. work[v] = j /\ work[w] = j /\ j \notin spoiled
  OBVIOUS
<1> QED BY <1>1 DEF Inv, OneRunPerJob, On

\* A run joins when its job has none, or one that a wipe has spoiled.
LEMMA OneMoreRun ==
    ASSUME Inv, NEW w \in Workers, NEW j \in Works,
           work[w] = "none", spoiled' = spoiled,
           \A v \in Workers : work'[v] = IF v = w THEN j ELSE work[v],
           j \in Bulk \ spoiled => \A v \in Workers : work[v] # j
    PROVE  OneRunPerJob'
<1> SUFFICES ASSUME NEW k \in Bulk, k \notin spoiled,
                    NEW u \in Workers, NEW v \in Workers, work'[u] = k, work'[v] = k
             PROVE  u = v
  BY DEF OneRunPerJob, On
<1>1. CASE k = j
  BY <1>1
<1>2. CASE k # j
  <2>1. work[u] = k /\ work[v] = k
    BY <1>2
  <2> QED BY <2>1 DEF Inv, OneRunPerJob, On
<1> QED BY <1>1, <1>2

\* A job whose lock is free has no run that is not spoiled.
LEMMA FreeLock ==
    ASSUME Inv, NEW j \in Bulk \ spoiled, ~lock[j] \/ queue[j] \notin {"todo", "aside"}
    PROVE  \A v \in Workers : work[v] # j
  BY DEF Inv, HoldsLock

-----------------------------------------------------------------------------
\* A fresh run finds its lock free, so its job has no other run.
LEMMA StartInv ==
    ASSUME Inv, NEW w \in Workers, NEW j \in Bulk, Start(w, j)
    PROVE  Inv'
<1>1. j \in Works /\ j \in Locks /\ work[w] = "none" /\ Take(w, j)
  BY JobNames DEF Start, Free
<1>2. /\ lock' = [lock EXCEPT ![j] = TRUE]
      /\ queue' = [queue EXCEPT ![j] = "todo"]
      /\ UNCHANGED <<apps, checks, backups, bounds>>
  BY DEF Start
<1>3. TypeOK'
  BY <1>1, <1>2, TakeInv DEF Inv, TypeOK, Take, Queues, bounds
<1>4. NoLateWriter' /\ SyncOutlivesNoWipe'
  BY <1>1, TakeInv DEF NoLateWriter
<1>5. HoldsLock'
  BY <1>1, <1>2, TakeInv, JobNames DEF HoldsLock, Inv, TypeOK
<1>6. OneRunPerJob'
  <2>1. j \notin spoiled => \A v \in Workers : work[v] # j
    BY FreeLock DEF Start
  <2> QED BY <1>1, <2>1, TakeInv, OneMoreRun
<1> QED BY <1>3, <1>4, <1>5, <1>6 DEF Inv

LEMMA ResumeQueueInv ==
    ASSUME Inv, NEW w \in Workers, ResumeQueue(w)
    PROVE  Inv'
<1> DEFINE j == "wayback"
<1>1. j \in Bulk /\ j \in Works /\ j \in Locks /\ work[w] = "none" /\ Take(w, j)
  BY JobNames DEF ResumeQueue, Free
<1>2. /\ lock' = [lock EXCEPT ![j] = TRUE]
      /\ queue' = [queue EXCEPT ![j] = "todo"]
      /\ UNCHANGED <<apps, checks, backups, bounds>>
  BY DEF ResumeQueue
<1>3. j \notin spoiled => \A v \in Workers : work[v] # j
  BY <1>1, FreeLock DEF ResumeQueue
<1> HIDE DEF j
<1>4. TypeOK'
  BY <1>1, <1>2, TakeInv DEF Inv, TypeOK, Take, Queues, bounds
<1>5. NoLateWriter' /\ SyncOutlivesNoWipe'
  BY <1>1, TakeInv DEF NoLateWriter
<1>6. HoldsLock'
  BY <1>1, <1>2, TakeInv, JobNames DEF HoldsLock, Inv, TypeOK
<1>7. OneRunPerJob'
  BY <1>1, <1>3, TakeInv, OneMoreRun
<1> QED BY <1>4, <1>5, <1>6, <1>7 DEF Inv

\* The boot check takes a queue over only when its job is not live.
LEMMA CheckResumesInv ==
    ASSUME Inv, NEW w \in Workers, NEW j \in Bulk, CheckResumes(w, j)
    PROVE  Inv'
<1>1. j \in Works /\ j \in Locks /\ work[w] = "none" /\ Take(w, j)
  BY JobNames DEF CheckResumes, Free
<1>2. /\ lock' = [lock EXCEPT ![j] = TRUE]
      /\ queue[j] = "todo"
      /\ checks' = checks \ {j}
      /\ UNCHANGED <<apps, queue, backups, bounds>>
  BY DEF CheckResumes
<1>3. \A v \in Workers : work[v] # j
  BY DEF CheckResumes, On
<1>4. TypeOK'
  BY <1>1, <1>2, TakeInv DEF Inv, TypeOK, Take, bounds
<1>5. NoLateWriter' /\ SyncOutlivesNoWipe'
  BY <1>1, TakeInv DEF NoLateWriter
<1>6. HoldsLock'
  BY <1>1, <1>2, TakeInv, JobNames DEF HoldsLock, Inv, TypeOK
<1>7. OneRunPerJob'
  BY <1>1, <1>3, TakeInv, OneMoreRun
<1> QED BY <1>4, <1>5, <1>6, <1>7 DEF Inv

\* A tick and a request for one app are no bulk runs.
LEMMA OtherWorkInv ==
    ASSUME Inv, NEW w \in Workers, Tick(w) \/ Single(w)
    PROVE  Inv'
<1>1. PICK j \in {"import", "single"} :
        /\ work[w] = "none" /\ Take(w, j)
        /\ lock' = [lock EXCEPT !["import"] = TRUE] \/ lock' = lock
        /\ UNCHANGED <<apps, queue, checks, backups, bounds>>
  BY DEF Tick, Single, Free, database
<1>2. j \in Works /\ j \notin Bulk
  BY JobNames DEF Works, Locks
<1>3. TypeOK'
  BY <1>1, <1>2, TakeInv DEF Inv, TypeOK, Take, bounds
<1>4. NoLateWriter' /\ SyncOutlivesNoWipe'
  BY <1>1, <1>2, TakeInv DEF NoLateWriter
<1>5. \A k \in Bulk : lock'[k] = lock[k]
  BY <1>1, JobNames DEF Inv, TypeOK
<1>6. HoldsLock'
  BY <1>1, <1>2, <1>5, TakeInv DEF HoldsLock, Inv, TypeOK
<1>7. OneRunPerJob'
  BY <1>1, <1>2, TakeInv, OneMoreRun
<1> QED BY <1>3, <1>4, <1>6, <1>7 DEF Inv

\* The one run of a job takes lock and queue along when it ends.
LEMMA FinishInv ==
    ASSUME Inv, NEW w \in Workers, Finish(w) \/ Park(w)
    PROVE  Inv'
<1> DEFINE j == work[w]
<1>1. /\ j # "none"
      /\ Leave({w})
      /\ \A k \in Bulk : k # j => lock'[k] = lock[k] /\ queue'[k] = queue[k]
      /\ lock' \in [Locks -> BOOLEAN]
      /\ queue' \in [Bulk -> Queues]
      /\ UNCHANGED <<apps, checks, up, upload, backups, bounds>>
  <2>1. CASE Finish(w)
    BY <2>1, JobNames DEF Finish, Inv, TypeOK, Queues
  <2>2. CASE Park(w)
    BY <2>2, JobNames DEF Park, Inv, TypeOK, Queues
  <2> QED BY <2>1, <2>2
<1>2. TypeOK'
  BY <1>1, LeaveInv DEF Inv, TypeOK, bounds
<1>3. NoLateWriter' /\ SyncOutlivesNoWipe'
  BY <1>1, LeaveInv DEF NoLateWriter
<1>4. OneRunPerJob'
  BY <1>1, LeaveInv, FewerRuns, JobNames
<1>5. HoldsLock'
  <2> SUFFICES ASSUME NEW v \in Workers, work'[v] \in Bulk, work'[v] \notin spoiled'
               PROVE  lock'[work'[v]] /\ queue'[work'[v]] \in {"todo", "aside"}
    BY DEF HoldsLock
  <2>1. v # w /\ work'[v] = work[v] /\ work[v] \notin spoiled
    BY <1>1, LeaveInv, JobNames
  <2>2. work[v] # j
    BY <2>1 DEF Inv, OneRunPerJob, On
  <2> QED BY <1>1, <2>1, <2>2 DEF Inv, HoldsLock
<1> QED BY <1>2, <1>3, <1>4, <1>5 DEF Inv

\* A run that is thrown out was the only one of its job.
LEMMA ThrowInv ==
    ASSUME Inv, NEW w \in Workers, NEW q \in Queues, Throw(w, q)
    PROVE  Inv'
<1> DEFINE j == work[w]
<1>1. /\ j \in Bulk
      /\ Leave({w})
      /\ \A k \in Bulk : k # j => queue'[k] = queue[k]
      /\ queue' \in [Bulk -> Queues]
      /\ UNCHANGED <<apps, lock, checks, up, upload, backups, crashes>>
      /\ faults' = faults + 1
  BY DEF Throw, Inv, TypeOK
<1>2. TypeOK'
  BY <1>1, LeaveInv DEF Inv, TypeOK
<1>3. NoLateWriter' /\ SyncOutlivesNoWipe'
  BY <1>1, LeaveInv DEF NoLateWriter
<1>4. OneRunPerJob'
  BY <1>1, LeaveInv, FewerRuns, JobNames
<1>5. HoldsLock'
  <2> SUFFICES ASSUME NEW v \in Workers, work'[v] \in Bulk, work'[v] \notin spoiled'
               PROVE  lock'[work'[v]] /\ queue'[work'[v]] \in {"todo", "aside"}
    BY DEF HoldsLock
  <2>1. v # w /\ work'[v] = work[v] /\ work[v] \notin spoiled
    BY <1>1, LeaveInv, JobNames
  <2>2. work[v] # j
    BY <2>1 DEF Inv, OneRunPerJob, On
  <2> QED BY <1>1, <2>1, <2>2 DEF Inv, HoldsLock
<1> QED BY <1>2, <1>3, <1>4, <1>5 DEF Inv

\* After a crash nothing runs.
LEMMA CrashInv ==
    ASSUME Inv, NEW S \in SUBSET Bulk, Crash(S)
    PROVE  Inv'
<1>1. Leave(Workers)
  BY DEF Crash
<1>2. \A v \in Workers : work'[v] = "none"
  BY <1>1, LeaveInv
<1>3. queue' \in [Bulk -> Queues]
  BY DEF Crash, Inv, TypeOK, Queues
<1>4. TypeOK'
  <2>1. /\ work' \in [Workers -> Works \cup {"none"}]
        /\ late' \subseteq Workers /\ wiped' \subseteq Workers /\ spoiled' \subseteq Works
    BY <1>1, LeaveInv
  <2>2. /\ UNCHANGED <<apps, lock, backups, faults>>
        /\ up' = FALSE /\ upload' = FALSE /\ checks' = {}
        /\ crashes' = crashes + 1
    BY DEF Crash
  <2>3. TypeOK
    BY DEF Inv
  <2>4. crashes' \in Nat
    BY <2>2, <2>3 DEF TypeOK
  <2>5. /\ apps' \subseteq Apps /\ lock' \in [Locks -> BOOLEAN]
        /\ checks' \subseteq Bulk /\ up' \in BOOLEAN /\ upload' \in BOOLEAN
        /\ backups' \subseteq Backup /\ faults' \in Nat
    BY <2>2, <2>3 DEF TypeOK
  <2> QED BY <1>3, <2>1, <2>4, <2>5 DEF TypeOK
<1>5. NoLateWriter' /\ SyncOutlivesNoWipe'
  BY <1>1, LeaveInv DEF NoLateWriter
<1>6. HoldsLock' /\ OneRunPerJob'
  BY <1>2, JobNames DEF HoldsLock, OneRunPerJob, On
<1> QED BY <1>4, <1>5, <1>6 DEF Inv

-----------------------------------------------------------------------------
\* When the work stays what it was, the locks and queues of the runs decide.
LEMMA SameWork ==
    ASSUME Inv, UNCHANGED <<work, spoiled, late>>,
           \A v \in Workers : work[v] \in Bulk \ spoiled =>
               lock'[work[v]] /\ queue'[work[v]] \in {"todo", "aside"}
    PROVE  NoLateWriter' /\ HoldsLock' /\ OneRunPerJob' /\ SyncOutlivesNoWipe'
  BY DEF Inv, NoLateWriter, HoldsLock, OneRunPerJob, On, SyncOutlivesNoWipe

\* A live run writes its queue.
LEMMA PersistInv ==
    ASSUME Inv, NEW w \in Workers, Persist(w)
    PROVE  Inv'
<1>1. TypeOK'
  BY DEF Inv, TypeOK, Persist, Queues, process, bounds
<1>2. \A v \in Workers : work[v] \in Bulk \ spoiled =>
          lock'[work[v]] /\ queue'[work[v]] \in {"todo", "aside"}
  BY DEF Inv, TypeOK, HoldsLock, Persist
<1> QED BY <1>1, <1>2, SameWork DEF Inv, Persist, process

\* The user puts a queue aside, or discards one whose lock is free.
LEMMA ControlInv ==
    ASSUME Inv, PutAside \/ Discard
    PROVE  Inv'
<1>1. TypeOK'
  <2>1. CASE PutAside
    BY <2>1, JobNames DEF Inv, TypeOK, PutAside, Queues, process, bounds
  <2>2. CASE Discard
    BY <2>2, JobNames DEF Inv, TypeOK, Discard, Queues, process, bounds
  <2> QED BY <2>1, <2>2
<1>2. ASSUME NEW v \in Workers, work[v] \in Bulk, work[v] \notin spoiled
      PROVE  lock'[work[v]] /\ queue'[work[v]] \in {"todo", "aside"}
  <2>0. lock[work[v]] /\ queue[work[v]] \in {"todo", "aside"}
    BY <1>2 DEF Inv, HoldsLock
  <2>1. CASE PutAside
    BY <2>0, <2>1, <1>2 DEF Inv, TypeOK, PutAside
  <2>2. CASE Discard
    BY <2>0, <2>2, <1>2, JobNames DEF Inv, TypeOK, Discard
  <2> QED BY <2>1, <2>2
<1>3. UNCHANGED <<work, spoiled, late>>
  BY DEF PutAside, Discard, process
<1> QED BY <1>1, <1>2, <1>3, SameWork DEF Inv

\* What the resume check and the health check free, no live run holds.
LEMMA FreeingInv ==
    ASSUME Inv, NEW j \in Bulk,
           HealthCheck(j) \/ CheckNothing(j) \/ \E q \in Queues : CheckFrees(j, q)
    PROVE  Inv'
<1>1. CASE CheckNothing(j)
  <2>1. TypeOK'
    BY <1>1 DEF Inv, TypeOK, CheckNothing, database, bounds
  <2>2. UNCHANGED <<work, spoiled, late, lock, queue>>
    BY <1>1 DEF CheckNothing, database
  <2> QED BY <2>1, <2>2, SameWork DEF Inv, HoldsLock
<1>2. CASE HealthCheck(j) \/ \E q \in Queues : CheckFrees(j, q)
  <2>1. TypeOK'
    <3>1. CASE HealthCheck(j)
      BY <3>1, JobNames DEF Inv, TypeOK, HealthCheck, Queues, process, bounds
    <3>2. ASSUME NEW q \in Queues, CheckFrees(j, q)
          PROVE  TypeOK'
      BY <3>2, JobNames DEF Inv, TypeOK, CheckFrees, bounds
    <3> QED BY <1>2, <3>1, <3>2
  <2>2. /\ UNCHANGED <<work, spoiled, late>>
        /\ \A k \in Bulk : k # j => lock'[k] = lock[k] /\ queue'[k] = queue[k]
    BY <1>2, JobNames DEF HealthCheck, CheckFrees, process, Inv, TypeOK
  <2>3. j \in spoiled \/ \A v \in Workers : work[v] # j
    <3>1. CASE HealthCheck(j)
      BY <3>1, FreeLock DEF HealthCheck, On
    <3>2. CASE \E q \in Queues : CheckFrees(j, q)
      BY <3>2 DEF CheckFrees, On
    <3> QED BY <1>2, <3>1, <3>2
  <2> QED BY <2>1, <2>2, <2>3, SameWork DEF Inv, HoldsLock
<1> QED BY <1>1, <1>2

\* A restore finds no live work, which is why nothing is late for it.
LEMMA RestoreInv ==
    ASSUME Inv, NEW b \in backups, Restore(b)
    PROVE  Inv'
<1>1. Live = {}
  BY DEF Restore, Idle
<1>2. late' = {}
  BY <1>1 DEF Restore, Replace, Inv, NoLateWriter
<1>3. b \in Backup
  BY DEF Inv, TypeOK
<1>4. TypeOK'
  BY <1>2, <1>3 DEF Restore, Replace, Inv, TypeOK, Backup, bounds
<1>5. NoLateWriter' /\ SyncOutlivesNoWipe'
  BY <1>2 DEF Restore, Replace, Inv, NoLateWriter, SyncOutlivesNoWipe
<1>6. HoldsLock' /\ OneRunPerJob'
  BY <1>1, JobNames DEF Restore, Replace, Live, HoldsLock, OneRunPerJob, On
<1> QED BY <1>4, <1>5, <1>6 DEF Inv

\* A wipe finds the sync's lock free, so no live sync; the jobs it takes the
\* lock from are spoiled.
LEMMA WipeInv ==
    ASSUME Inv, Wipe
    PROVE  Inv'
<1>1. spoiled' = spoiled \cup {work[w] : w \in Live}
  BY DEF Wipe
<1>2. \A v \in Workers : work[v] \in Bulk => work[v] \in spoiled'
  BY <1>1, JobNames DEF Live
<1>3. "sync" \notin spoiled'
  <2>1. "sync" \notin spoiled /\ ~lock["sync"]
    BY DEF Wipe, Inv, SyncOutlivesNoWipe
  <2>2. \A v \in Workers : work[v] # "sync"
    BY <2>1, FreeLock, JobNames
  <2> QED BY <1>1, <2>1, <2>2 DEF Live
<1>4. TypeOK'
  <2>1. spoiled' \subseteq Works /\ wiped' \subseteq Workers
    BY <1>1 DEF Wipe, Live, Inv, TypeOK
  <2>2. lock' \in [Locks -> BOOLEAN] /\ queue' \in [Bulk -> Queues]
    BY DEF Wipe, Queues
  <2> QED BY <2>1, <2>2 DEF Wipe, Inv, TypeOK, bounds
<1>5. NoLateWriter' /\ SyncOutlivesNoWipe'
  BY <1>3 DEF Wipe, Inv, NoLateWriter, SyncOutlivesNoWipe
<1>6. HoldsLock' /\ OneRunPerJob'
  BY <1>2 DEF Wipe, HoldsLock, OneRunPerJob, On
<1> QED BY <1>4, <1>5, <1>6 DEF Inv

\* What touches neither work nor the locks and queues of bulk jobs.
LEMMA QuietInv ==
    ASSUME Inv,
           \/ \E w \in Workers, a \in Apps : Scraped(w, a)
           \/ Export \/ AskRestore \/ RefuseRestore \/ Boot
    PROVE  Inv'
<1>1. TypeOK'
  <2>1. CASE \E w \in Workers, a \in Apps : Scraped(w, a)
    BY <2>1 DEF Inv, TypeOK, Scraped, process, bounds
  <2>2. CASE Export
    <3>1. [apps |-> apps, lock |-> lock, queue |-> queue] \in Backup
      BY DEF Inv, TypeOK, Backup
    <3> QED BY <2>2, <3>1 DEF Inv, TypeOK, Export, database, process, bounds
  <2>3. CASE AskRestore
    BY <2>3 DEF Inv, TypeOK, AskRestore, database, bounds
  <2>4. CASE RefuseRestore
    BY <2>4 DEF Inv, TypeOK, RefuseRestore, database, bounds
  <2>5. CASE Boot
    BY <2>5, JobNames DEF Inv, TypeOK, Boot, bounds
  <2> QED BY <2>1, <2>2, <2>3, <2>4, <2>5
<1>2. /\ UNCHANGED <<work, spoiled, late, queue>>
      /\ \A k \in Bulk : lock'[k] = lock[k]
  BY JobNames DEF Scraped, Export, AskRestore, RefuseRestore, Boot, process, database, Inv, TypeOK
<1> QED BY <1>1, <1>2, SameWork DEF Inv, HoldsLock

-----------------------------------------------------------------------------
\* Every step keeps the invariant.
LEMMA NextInv == Inv /\ [Next]_vars => Inv'
<1> SUFFICES ASSUME Inv, [Next]_vars PROVE Inv'
  OBVIOUS
<1>1. ASSUME NEW w \in Workers, Working(w) PROVE Inv'
  BY <1>1, StartInv, ResumeQueueInv, OtherWorkInv, QuietInv, PersistInv, FinishInv,
     ThrowInv DEF Working
<1>2. CASE PutAside \/ Discard
  BY <1>2, ControlInv
<1>3. CASE Whole
  BY <1>3, QuietInv, RestoreInv, WipeInv DEF Whole
<1>4. CASE Healing
  BY <1>4, CrashInv, QuietInv, FreeingInv, CheckResumesInv DEF Healing
<1>5. CASE UNCHANGED vars
  BY <1>5 DEF vars, database, process, bounds, Inv, TypeOK, NoLateWriter, HoldsLock,
     OneRunPerJob, On, SyncOutlivesNoWipe
<1> QED BY <1>1, <1>2, <1>3, <1>4, <1>5 DEF Next

\* The inductive invariant holds in every state of every behaviour.
THEOREM WholeInvariant == Spec => []Inv
<1>1. Init => Inv
  BY InitInv
<1>2. Inv /\ [Next]_vars => Inv'
  BY NextInv
<1> QED BY <1>1, <1>2, PTL DEF Spec

\* No work that began before a restore runs after it: the registry is looked
\* at again in the same slice as the transaction.
THEOREM WholeNoLateWriter == Spec => []NoLateWriter
<1>1. Inv => NoLateWriter
  BY DEF Inv
<1> QED BY <1>1, WholeInvariant, PTL

\* A bulk job has one run at a time, whatever restores, crashes and heals do
\* to its lock and queue.
THEOREM WholeOneRunPerJob == Spec => []OneRunPerJob
<1>1. Inv => OneRunPerJob
  BY DEF Inv
<1> QED BY <1>1, WholeInvariant, PTL

\* No sync runs on over a wiped database.
THEOREM WholeSyncOutlivesNoWipe == Spec => []SyncOutlivesNoWipe
<1>1. Inv => SyncOutlivesNoWipe
  BY DEF Inv
<1> QED BY <1>1, WholeInvariant, PTL

-----------------------------------------------------------------------------
\* A worker a wipe came under counts as one for its job, until it ends.
Marked == \A w \in wiped : work[w] \in spoiled

LEMMA MarkedNext == Inv /\ Marked /\ [Next]_vars => Marked'
<1> SUFFICES ASSUME Inv, Marked, [Next]_vars PROVE Marked'
  OBVIOUS
<1>0. /\ work \in [Workers -> Works \cup {"none"}]
      /\ wiped \subseteq Workers /\ spoiled \subseteq Works /\ "none" \notin Works
  BY JobNames DEF Inv, TypeOK
<1>1. ASSUME UNCHANGED <<work, wiped, spoiled>> PROVE Marked'
  BY <1>1 DEF Marked
<1>2. ASSUME NEW w \in Workers, NEW j \in Works, work[w] = "none", Take(w, j) PROVE Marked'
  <2>1. w \notin wiped
    BY <1>0, <1>2 DEF Marked
  <2> QED BY <1>0, <1>2, <2>1 DEF Take, Marked
<1>3. ASSUME NEW S \in SUBSET Workers, Leave(S) PROVE Marked'
  <2>1. \A w \in wiped' : w \in wiped /\ work'[w] = work[w]
    BY <1>0, <1>3 DEF Leave
  <2>2. \A w \in wiped' : work[w] \in spoiled'
    <3> SUFFICES ASSUME NEW w \in wiped' PROVE work[w] \in spoiled'
      OBVIOUS
    <3>1. w \in Workers /\ work[w] \in spoiled /\ work'[w] = work[w]
      BY <1>0, <2>1 DEF Marked
    <3> QED BY <1>3, <3>1 DEF Leave
  <2> QED BY <2>1, <2>2 DEF Marked
<1>4. ASSUME NEW w \in Workers, Working(w) PROVE Marked'
  <2>1. ASSUME NEW j \in Bulk, Start(w, j) PROVE Marked'
    BY <2>1, <1>2, JobNames DEF Start, Free
  <2>2. CASE ResumeQueue(w)
    BY <2>2, <1>2, JobNames DEF ResumeQueue, Free
  <2>3. CASE Tick(w) \/ Single(w)
    BY <2>3, <1>2, JobNames DEF Tick, Single, Free
  <2>4. CASE (\E a \in Apps : Scraped(w, a)) \/ Persist(w)
    BY <2>4, <1>1 DEF Scraped, Persist, process
  <2>5. CASE Finish(w) \/ Park(w) \/ \E q \in Queues : Throw(w, q)
    BY <2>5, <1>3 DEF Finish, Park, Throw
  <2> QED BY <1>4, <2>1, <2>2, <2>3, <2>4, <2>5 DEF Working
<1>5. CASE PutAside \/ Discard
  BY <1>5, <1>1 DEF PutAside, Discard, process
<1>6. CASE Whole
  <2>1. CASE Wipe
    <3>1. /\ work' = work /\ wiped' = wiped \cup Live
          /\ spoiled' = spoiled \cup {work[w] : w \in Live}
      BY <2>1 DEF Wipe
    <3> QED BY <3>1 DEF Marked
  <2>2. CASE Export \/ AskRestore \/ RefuseRestore \/ \E b \in backups : Restore(b)
    BY <2>2, <1>1 DEF Export, AskRestore, RefuseRestore, Restore, Replace, process
  <2> QED BY <1>6, <2>1, <2>2 DEF Whole
<1>7. CASE Healing
  <2>1. CASE \E S \in SUBSET Bulk : Crash(S)
    BY <2>1, <1>3 DEF Crash
  <2>2. ASSUME NEW j \in Bulk, NEW w \in Workers, CheckResumes(w, j) PROVE Marked'
    BY <2>2, <1>2, JobNames DEF CheckResumes, Free
  <2>3. CASE \/ Boot
             \/ \E j \in Bulk : \/ CheckNothing(j)
                                \/ \E q \in Queues : CheckFrees(j, q)
                                \/ HealthCheck(j)
    BY <2>3, <1>1 DEF Boot, CheckNothing, CheckFrees, HealthCheck, process
  <2> QED BY <1>7, <2>1, <2>2, <2>3 DEF Healing
<1>8. CASE UNCHANGED vars
  BY <1>8, <1>1 DEF vars, process
<1> QED BY <1>4, <1>5, <1>6, <1>7, <1>8 DEF Next

\* What brings an app back after "Delete everything" is an import or the scrape of
\* one app that was under way: never a sync, for which the wipe waits.
THEOREM WholeComesBackByNoSync ==
    Spec => [][ \A w \in Workers, a \in Apps :
                  Scraped(w, a) /\ w \in wiped => work[w] \in {"import", "single"} ]_vars
<1>1. Init => Marked
  BY DEF Init, Marked
<1>2. Inv /\ Marked /\ [Next]_vars =>
        [ \A w \in Workers, a \in Apps :
            Scraped(w, a) /\ w \in wiped => work[w] \in {"import", "single"} ]_vars
  BY DEF Inv, Marked, Scraped, SyncOutlivesNoWipe
<1> QED BY <1>1, <1>2, MarkedNext, WholeInvariant, PTL DEF Spec
=============================================================================
