-------------------------- MODULE WaybackBulkProofs --------------------------
(***************************************************************************)
(* Proofs about the bulk Wayback import, for any number of apps, runners,  *)
(* crashes, throttled answers and failing writes: the queue has one owner  *)
(* through every button, its count of attempts is exact, a pause or a      *)
(* cancel is obeyed and survives a restart, and every step is a step of    *)
(* the abstract queue or leaves it alone.                                  *)
(***************************************************************************)
EXTENDS WaybackBulk, FiniteSetTheorems, TLAPS

Outcomes == {"done", "failed"}
Attempts == {"in_progress", "done", "failed"}

\* The count of attempts is that of the apps begun.
Begun(s) == WithStatus(s, Attempts)
Counted(s) == s.attempted = Cardinality(Begun(s))

Walking == Awaiting \cup {"next", "missing", "throttled"}
Empty == {"idle", "forcing", "forced"}

\* What a runner at l may hold in memory.
Sound(l, s) ==
    /\ l \in Empty <=> s = NoBlob
    /\ s # NoBlob => Counted(s)
    /\ l \in {"importing", "missing"} =>
           s.current \in Apps /\ s.entry[s.current] = "in_progress"
    /\ l = "sleeping" => Unsettled(s) # {}
    /\ l \in Walking \cup {"acquiring", "opening"} => s.status = "running"

\* What every activation of the import holds by itself.
RunInv ==
    /\ TypeOK
    /\ blob # NoBlob => Counted(blob)
    /\ \A r \in Runners : Sound(pc[r], mem[r])

\* A run that begins is a new one with nothing stored, or the stored one
\* continued with the same apps left to do and the same ones settled.
TakesOver(s) ==
    \/ blob = NoBlob /\ \A a \in Apps : s.entry[a] \in {"absent", "pending"}
    \/ /\ blob # NoBlob
       /\ blob.status = "running"
       /\ Unsettled(s) = Unsettled(blob)
       /\ WithStatus(s, Outcomes) = WithStatus(blob, Outcomes)

\* The stored queue is that of s, but for requests and the app shown as current.
Follows(s) == blob.run = s.run /\ blob.entry = s.entry /\ blob.attempted = s.attempted

\* What a runner knows of the store.
Owned(r) ==
    /\ pc[r] # "idle" => boot \in {"waiting", "done"}
    /\ pc[r] \in {"forcing", "forced", "releasing"} => blob = NoBlob
    /\ pc[r] \in {"acquiring", "opening"} => TakesOver(mem[r])
    /\ pc[r] \in Walking \cup {"opening"} => mutex
    /\ pc[r] \in Walking =>
           blob # NoBlob /\ blob.status # "paused" /\ Follows(mem[r])
    /\ pc[r] \in Awaiting => ~stale

\* There is one runner at most, and the store is its own.
Own ==
    /\ \A q, r \in Runners : pc[q] # "idle" /\ pc[r] # "idle" => q = r
    /\ \A r \in Runners : Owned(r)

OwnInv == RunInv /\ Own

-----------------------------------------------------------------------------
(***************************************************************************)
(* What the operators on a run state yield.                                *)
(***************************************************************************)
LEMMA NewRunType ==
    ASSUME TypeOK, NEW id \in RunIds
    PROVE  /\ NewRun(id) \in Blobs
           /\ NewRun(id).status = "running"
           /\ NewRun(id).attempted = 0
           /\ \A a \in Apps : NewRun(id).entry[a] \in {"absent", "pending"}
  BY DEF NewRun, Blobs, Entries, Statuses

LEMMA ResumedType ==
    ASSUME NEW s \in Blobs
    PROVE  LET left == s.attempted - Cardinality(WithStatus(s, {"in_progress"})) IN
           /\ Resumed(s) \in Blobs
           /\ Resumed(s).status = "running"
           /\ Resumed(s).attempted = IF left < 0 THEN 0 ELSE left
           /\ \A a \in Apps : Resumed(s).entry[a] =
                  IF s.entry[a] = "in_progress" THEN "pending" ELSE s.entry[a]
<1> DEFINE left == s.attempted - Cardinality(WithStatus(s, {"in_progress"}))
           n == IF left < 0 THEN 0 ELSE left
           e == [a \in Apps |-> IF s.entry[a] = "in_progress" THEN "pending" ELSE s.entry[a]]
<1>1. Cardinality(WithStatus(s, {"in_progress"})) \in Nat
  <2>1. IsFiniteSet(WithStatus(s, {"in_progress"}))
    BY AppsAssumption, FS_Subset DEF WithStatus
  <2> QED BY <2>1, FS_CardinalityType
<1>2. n \in Int
  BY <1>1 DEF Blobs
<1>3. e \in [Apps -> Entries]
  BY DEF Blobs, Entries
<1>4. Resumed(s) = [s EXCEPT !.status = "running", !.entry = e, !.attempted = n]
  BY DEF Resumed
<1>5. /\ Resumed(s) \in Blobs /\ Resumed(s).entry = e /\ Resumed(s).attempted = n
      /\ Resumed(s).status = "running"
  <2> HIDE DEF e, n
  <2> QED BY <1>2, <1>3, <1>4 DEF Blobs, Statuses
<1> QED BY <1>5

\* Continuing a run settles and loses nothing.
LEMMA ResumedKeeps ==
    ASSUME NEW s \in Blobs
    PROVE  /\ Unsettled(Resumed(s)) = Unsettled(s)
           /\ WithStatus(Resumed(s), Outcomes) = WithStatus(s, Outcomes)
<1>1. \A a \in Apps : Resumed(s).entry[a] =
        IF s.entry[a] = "in_progress" THEN "pending" ELSE s.entry[a]
  BY ResumedType
<1> QED BY <1>1 DEF Unsettled, WithStatus, Outcomes

\* Marking a pending app in flight.
Dequeued(s, a) ==
    [s EXCEPT !.entry[a] = "in_progress", !.current = a, !.attempted = @ + 1]

LEMMA DequeuedType ==
    ASSUME NEW s \in Blobs, NEW a \in Apps
    PROVE  /\ Dequeued(s, a) \in Blobs
           /\ Dequeued(s, a).run = s.run
           /\ Dequeued(s, a).status = s.status
           /\ Dequeued(s, a).current = a
           /\ Dequeued(s, a).entry[a] = "in_progress"
           /\ \A b \in Apps : b # a => Dequeued(s, a).entry[b] = s.entry[b]
           /\ Dequeued(s, a).attempted = s.attempted + 1
<1> DEFINE e == [s.entry EXCEPT ![a] = "in_progress"]
           n == s.attempted + 1
<1>1. /\ e \in [Apps -> Entries] /\ e[a] = "in_progress"
      /\ \A b \in Apps : b # a => e[b] = s.entry[b]
  BY DEF Blobs, Entries
<1>2. n \in Int
  BY DEF Blobs
<1>3. Dequeued(s, a) = [s EXCEPT !.entry = e, !.current = a, !.attempted = n]
  BY DEF Dequeued
<1>4. /\ Dequeued(s, a) \in Blobs /\ Dequeued(s, a).current = a
      /\ Dequeued(s, a).entry = e /\ Dequeued(s, a).attempted = n
      /\ Dequeued(s, a).run = s.run /\ Dequeued(s, a).status = s.status
  <2> HIDE DEF e, n
  <2> QED BY <1>1, <1>2, <1>3 DEF Blobs
<1> QED BY <1>1, <1>4

\* Settling the app in flight, or putting it back.
LEMMA SettledType ==
    ASSUME NEW s \in Blobs, s.current \in Apps, NEW status \in Entries
    PROVE  /\ Settled(s, status) \in Blobs
           /\ Settled(s, status).status = s.status
           /\ Settled(s, status).run = s.run
           /\ Settled(s, status).attempted = s.attempted
           /\ Settled(s, status).entry[s.current] = status
           /\ \A b \in Apps : b # s.current => Settled(s, status).entry[b] = s.entry[b]
<1> DEFINE i == s.current
           e == [s.entry EXCEPT ![i] = status]
           u == Settled(s, status)
<1>1. /\ e \in [Apps -> Entries] /\ e[i] = status
      /\ \A b \in Apps : b # i => e[b] = s.entry[b]
  BY DEF Blobs
<1>2. u = [s EXCEPT !.entry = e, !.current = NoApp]
  BY DEF Settled
<1>3. /\ u \in Blobs /\ u.entry = e /\ u.status = s.status /\ u.run = s.run
      /\ u.attempted = s.attempted
  <2> HIDE DEF e
  <2> QED BY <1>1, <1>2 DEF Blobs
<1> QED BY <1>1, <1>3

-----------------------------------------------------------------------------
(***************************************************************************)
(* Counting entries.                                                       *)
(***************************************************************************)

LEMMA StatusFinite ==
    ASSUME NEW s, NEW statuses
    PROVE  /\ IsFiniteSet(WithStatus(s, statuses))
           /\ Cardinality(WithStatus(s, statuses)) \in Nat
<1>1. IsFiniteSet(WithStatus(s, statuses))
  BY AppsAssumption, FS_Subset DEF WithStatus
<1> QED BY <1>1, FS_CardinalityType

\* A new run counts nothing.
LEMMA NewRunCounted ==
    ASSUME TypeOK, NEW id \in RunIds
    PROVE  Counted(NewRun(id))
<1>1. Begun(NewRun(id)) = {}
  BY NewRunType DEF Begun, WithStatus, Attempts
<1> QED BY <1>1, NewRunType, FS_EmptySet DEF Counted

\* Un-counting what a dead process was importing keeps the count.
LEMMA ResumedCounted ==
    ASSUME NEW s \in Blobs, Counted(s)
    PROVE  Counted(Resumed(s))
<1> DEFINE u == Resumed(s)
           F == WithStatus(s, {"in_progress"})
           K == WithStatus(s, Outcomes)
<1>1. \A a \in Apps : u.entry[a] = IF s.entry[a] = "in_progress" THEN "pending" ELSE s.entry[a]
  BY ResumedType
<1>2. /\ IsFiniteSet(F) /\ Cardinality(F) \in Nat
      /\ IsFiniteSet(K) /\ Cardinality(K) \in Nat
  BY StatusFinite
<1>3. Begun(s) = F \cup K /\ F \cap K = {}
  BY DEF Begun, WithStatus, Attempts, Outcomes
<1>4. Begun(u) = K
  BY <1>1 DEF Begun, WithStatus, Attempts, Outcomes
<1>5. s.attempted = Cardinality(F \cup K)
  BY <1>3 DEF Counted
<1>6. Cardinality(WithStatus(s, {"in_progress"})) = Cardinality(F)
  OBVIOUS
<1> HIDE DEF F, K
<1>8. Cardinality(F \cap K) = 0
  BY <1>3, FS_EmptySet
<1>9. Cardinality(F \cup K) = Cardinality(F) + Cardinality(K) - Cardinality(F \cap K)
  BY <1>2, FS_Union
<1>10. s.attempted - Cardinality(WithStatus(s, {"in_progress"})) = Cardinality(K)
  BY <1>2, <1>5, <1>6, <1>8, <1>9
<1>11. u.attempted = Cardinality(K)
  BY <1>2, <1>10, ResumedType
<1> QED BY <1>4, <1>11 DEF Counted

\* Taking a pending app counts one attempt.
LEMMA DequeuedCounted ==
    ASSUME NEW s \in Blobs, NEW a \in Apps, s.entry[a] = "pending", Counted(s)
    PROVE  Counted(Dequeued(s, a))
<1> DEFINE u == Dequeued(s, a)
<1>0. u.attempted = s.attempted + 1
  BY DequeuedType
<1>1. u.entry[a] = "in_progress" /\ \A b \in Apps : b # a => u.entry[b] = s.entry[b]
  BY DequeuedType
<1> HIDE DEF u
<1>2. Begun(u) = Begun(s) \cup {a} /\ a \notin Begun(s)
  BY <1>1 DEF Begun, WithStatus, Attempts
<1>3. Cardinality(Begun(u)) = Cardinality(Begun(s)) + 1
  <2>1. IsFiniteSet(Begun(s))
    BY StatusFinite DEF Begun
  <2> QED BY <1>2, <2>1, FS_AddElement
<1> QED BY <1>0, <1>3 DEF Counted, u

\* Settling an app keeps the count.
LEMMA SettledCounted ==
    ASSUME NEW s \in Blobs, s.current \in Apps, s.entry[s.current] = "in_progress", Counted(s),
           NEW status \in Outcomes
    PROVE  Counted(Settled(s, status))
<1> DEFINE u == Settled(s, status)
           i == s.current
<1>0. status \in Entries /\ status \in Attempts
  BY DEF Outcomes, Attempts, Entries
<1>1. /\ u.attempted = s.attempted
      /\ u.entry[i] = status /\ \A b \in Apps : b # i => u.entry[b] = s.entry[b]
  BY <1>0, SettledType
<1>2. i \in Apps /\ s.entry[i] \in Attempts
  BY DEF Attempts
<1> HIDE DEF u, i
<1>3. Begun(u) = Begun(s)
  BY <1>0, <1>1, <1>2 DEF Begun, WithStatus
<1> QED BY <1>1, <1>3 DEF Counted, u

\* An app the archive refused goes back, un-counted.
PutBack(s) == [Settled(s, "pending") EXCEPT !.attempted = @ - 1]

LEMMA PutBackType ==
    ASSUME NEW s \in Blobs, s.current \in Apps, s.entry[s.current] = "in_progress"
    PROVE  /\ PutBack(s) \in Blobs
           /\ PutBack(s).status = s.status
           /\ PutBack(s).attempted = s.attempted - 1
           /\ PutBack(s).entry[s.current] = "pending"
           /\ \A b \in Apps : b # s.current => PutBack(s).entry[b] = s.entry[b]
<1> DEFINE u == Settled(s, "pending")
           n == s.attempted - 1
           w == PutBack(s)
<1>1. /\ u \in Blobs /\ u.status = s.status /\ u.attempted = s.attempted
      /\ u.entry[s.current] = "pending"
      /\ \A b \in Apps : b # s.current => u.entry[b] = s.entry[b]
  BY SettledType DEF Entries
<1>2. n \in Int
  BY DEF Blobs
<1> HIDE DEF u
<1>3. w = [u EXCEPT !.attempted = n]
  BY <1>1 DEF PutBack, u
<1> HIDE DEF n
<1>4. /\ w \in Blobs /\ w.status = u.status /\ w.entry = u.entry /\ w.attempted = n
  BY <1>1, <1>2, <1>3 DEF Blobs
<1> QED BY <1>1, <1>4 DEF n

LEMMA PutBackCounted ==
    ASSUME NEW s \in Blobs, s.current \in Apps, s.entry[s.current] = "in_progress", Counted(s)
    PROVE  Counted(PutBack(s))
<1> DEFINE u == PutBack(s)
           i == s.current
<1>1. u.attempted = s.attempted - 1
  BY PutBackType
<1>2. u.entry[i] = "pending" /\ \A b \in Apps : b # i => u.entry[b] = s.entry[b]
  BY PutBackType
<1>3. i \in Apps /\ s.entry[i] = "in_progress"
  OBVIOUS
<1> HIDE DEF u, i
<1>4. Begun(u) = Begun(s) \ {i} /\ i \in Begun(s)
  BY <1>2, <1>3 DEF Begun, WithStatus, Attempts
<1>5. Cardinality(Begun(u)) = Cardinality(Begun(s)) - 1
  <2>1. IsFiniteSet(Begun(s))
    BY StatusFinite DEF Begun
  <2> QED BY <1>4, <2>1, FS_RemoveElement
<1> QED BY <1>1, <1>5 DEF Counted, u

-----------------------------------------------------------------------------
(***************************************************************************)
(* What an activation of the import holds by itself.                       *)
(***************************************************************************)
Places == {"idle"} \cup Awaiting \cup Steps

\* The variables a step of any kind keeps well formed by its own assignments.
PlainType ==
    /\ mutex \in BOOLEAN
    /\ stale \in BOOLEAN
    /\ boot \in {"down", "waiting", "healing", "done"}
    /\ pc \in [Runners -> Places]
    /\ aborted \in [Runners -> BOOLEAN]
    /\ strikes \in [Runners -> 0..MaxRetries]
    /\ crashes \in Nat
    /\ limits \in Nat
    /\ faults \in Nat

LEMMA PlainNext == TypeOK /\ [Next]_vars => PlainType'
<1> SUFFICES ASSUME TypeOK, [Next]_vars PROVE PlainType'
  OBVIOUS
<1> USE DEF PlainType
<1>1. PlainType
  BY DEF TypeOK, Places, bounds
<1>2. ASSUME NEW r \in Runners, NEW l \in Places, Goto(r, l) PROVE pc' \in [Runners -> Places]
  BY <1>1, <1>2 DEF Goto
<1>3. ASSUME NEW r \in Runners, Leave(r)
      PROVE  /\ pc' \in [Runners -> Places]
             /\ aborted' \in [Runners -> BOOLEAN]
             /\ strikes' \in [Runners -> 0..MaxRetries]
  <2>1. pc' \in [Runners -> Places]
    BY <1>2, <1>3 DEF Leave, Places
  <2>2. strikes' \in [Runners -> 0..MaxRetries]
    BY <1>1, <1>3 DEF Leave, MaxRetries
  <2> QED BY <1>1, <1>3, <2>1, <2>2 DEF Leave
<1>4. ASSUME NEW r \in Runners, Buttons(r) PROVE PlainType'
  <2>1. PICK l \in {"opening", "forcing", "acquiring"} : Goto(r, l)
    BY <1>4 DEF Buttons, Start, BeginFresh, Begin, ForceClear, ResumeQueue
  <2>2. pc' \in [Runners -> Places]
    BY <1>2, <2>1 DEF Places, Steps
  <2> QED BY <1>1, <1>4, <2>2 DEF Buttons, Start, BeginFresh, Begin, ForceClear, ResumeQueue, bounds
<1>5. ASSUME NEW r \in Runners,
             ForceRelease(r) \/ ForceStart(r) \/ Acquire(r) \/ Open(r)
             \/ (\E a \in Apps : Dequeue(r, a)) \/ Missing(r) \/ ImportFails(r) \/ Awake(r)
             \/ Park(r) \/ Finish(r)
      PROVE  PlainType'
  <2>1. PICK l \in {"idle", "forced", "opening", "next", "importing", "missing", "parking",
                    "releasing"} : Goto(r, l)
    BY <1>5 DEF ForceRelease, ForceStart, BeginFresh, Begin, Acquire, Open, Dequeue, Missing,
                ImportFails, Awake, Park, Finish
  <2>2. pc' \in [Runners -> Places]
    BY <1>2, <2>1 DEF Places, Steps, Awaiting
  <2> QED BY <1>1, <1>5, <2>2 DEF ForceRelease, ForceStart, BeginFresh, Begin, Acquire, Open,
                Dequeue, Missing, ImportFails, Awake, Park, Finish, Persist, bounds
<1>6. ASSUME NEW r \in Runners, Imported(r) PROVE PlainType'
  <2>1. pc' \in [Runners -> Places]
    BY <1>2, <1>6 DEF Imported, Places, Steps
  <2>2. strikes' \in [Runners -> 0..MaxRetries]
    BY <1>1, <1>6 DEF Imported, MaxRetries
  <2> QED BY <1>1, <1>6, <2>1, <2>2 DEF Imported, Persist, bounds
<1>7. ASSUME NEW r \in Runners, Throttled(r) PROVE PlainType'
  <2>1. PICK l \in {"sleeping", "throttled"} : Goto(r, l)
    BY <1>7 DEF Throttled
  <2>2. pc' \in [Runners -> Places]
    BY <1>2, <2>1 DEF Places, Steps, Awaiting
  <2>3. strikes' \in [Runners -> 0..MaxRetries]
    <3>1. CASE strikes[r] < MaxRetries
      <4>1. strikes[r] + 1 \in 0..MaxRetries /\ strikes' = [strikes EXCEPT ![r] = strikes[r] + 1]
        BY <1>1, <1>7, <3>1 DEF Throttled, MaxRetries
      <4> QED BY <1>1, <4>1
    <3>2. CASE ~(strikes[r] < MaxRetries)
      BY <1>1, <1>7, <3>2 DEF Throttled
    <3> QED BY <3>1, <3>2
  <2>4. limits' \in Nat
    BY <1>1, <1>7 DEF Throttled
  <2> QED BY <1>1, <1>7, <2>2, <2>3, <2>4 DEF Throttled, Persist
<1>8. ASSUME NEW r \in Runners, Interrupted(r) PROVE PlainType'
  <2>1. CASE Leave(r)
    BY <1>1, <1>3, <1>8, <2>1 DEF Interrupted, bounds
  <2>2. CASE Goto(r, "next") /\ UNCHANGED <<aborted, strikes>>
    <3>1. pc' \in [Runners -> Places]
      BY <1>2, <2>2 DEF Places, Steps
    <3> QED BY <1>1, <1>8, <2>2, <3>1 DEF Interrupted, bounds
  <2> QED BY <1>8, <2>1, <2>2 DEF Interrupted
<1>9. ASSUME NEW r \in Runners, Parked(r) \/ Release(r) PROVE PlainType'
  BY <1>1, <1>3, <1>9 DEF Parked, Release, bounds
<1>10. ASSUME NEW r \in Runners, Throws(r) PROVE PlainType'
  <2>1. faults' \in Nat
    BY <1>1, <1>10 DEF Throws
  <2> QED BY <1>1, <1>3, <1>10, <2>1 DEF Throws
<1>11. CASE Pause \/ Boot \/ BootNothing \/ BootUnlock \/ BootPark \/ HealthCheck \/ GoesStale
            \/ \E a \in Apps : AddApp(a) \/ DeleteApp(a)
  BY <1>1, <1>11 DEF Pause, Boot, BootNothing, BootUnlock, BootPark, HealthCheck, GoesStale,
                     AddApp, DeleteApp, runner, bounds
<1>12. CASE Cancel
  <2>1. aborted' \in [Runners -> BOOLEAN]
    BY <1>1, <1>12 DEF Cancel
  <2> QED BY <1>1, <1>12, <2>1 DEF Cancel, bounds
<1>13. CASE Crash
  <2>1. crashes' \in Nat
    BY <1>1, <1>13 DEF Crash
  <2>2. pc' \in [Runners -> Places] /\ strikes' \in [Runners -> 0..MaxRetries]
    BY <1>13 DEF Crash, Places, MaxRetries
  <2> QED BY <1>1, <1>13, <2>1, <2>2 DEF Crash
<1>14. ASSUME NEW r \in Runners, BootResume(r) PROVE PlainType'
  <2>1. pc' \in [Runners -> Places]
    BY <1>2, <1>14 DEF BootResume, Begin, Places, Steps
  <2> QED BY <1>1, <1>14, <2>1 DEF BootResume, Begin, bounds
<1>15. CASE UNCHANGED vars
  BY <1>1, <1>15 DEF vars, runner, bounds
<1> QED BY <1>4, <1>5, <1>6, <1>7, <1>8, <1>9, <1>10, <1>11, <1>12, <1>13, <1>14, <1>15
        DEF Next, Runs, BootCheck

\* The next state is sound when what it holds and stores is.
LEMMA NextSound ==
    ASSUME PlainType', apps' \subseteq Apps,
           NEW b \in Blobs \cup {NoBlob}, blob' = b, b # NoBlob => Counted(b),
           NEW p, pc' = p, NEW m \in [Runners -> Blobs \cup {NoBlob}], mem' = m,
           \A q \in Runners : Sound(p[q], m[q])
    PROVE  RunInv'
<1>1. TypeOK'
  BY DEF PlainType, TypeOK, Places, bounds
<1>2. (blob # NoBlob => Counted(blob))'
  BY DEF Counted, Begun, WithStatus
<1>3. ASSUME NEW q \in Runners PROVE Sound(pc[q], mem[q])'
  <2>1. Sound(pc'[q], mem'[q])
    OBVIOUS
  <2> QED BY <2>1 DEF Sound, Counted, Begun, Unsettled, WithStatus
<1> QED BY <1>1, <1>2, <1>3 DEF RunInv

\* A step of one runner, which keeps or replaces what it holds and what is stored.
LEMMA StepSound ==
    ASSUME RunInv, PlainType', apps' \subseteq Apps, NEW r \in Runners, NEW l, Goto(r, l),
           NEW s \in Blobs \cup {NoBlob}, mem' = [mem EXCEPT ![r] = s], Sound(l, s),
           NEW b \in Blobs \cup {NoBlob}, blob' = b, b # NoBlob => Counted(b)
    PROVE  RunInv'
<1>1. mem' \in [Runners -> Blobs \cup {NoBlob}]
  BY DEF RunInv, TypeOK
<1>2. \A q \in Runners : Sound(pc'[q], mem'[q])
  BY DEF RunInv, TypeOK, Goto
<1> QED BY <1>1, <1>2, NextSound

\* A step that moves one runner on.
LEMMA MoveSound ==
    ASSUME RunInv, PlainType', apps' = apps, NEW r \in Runners, NEW l, Goto(r, l), mem' = mem,
           blob' = blob \/ blob' = NoBlob, Sound(l, mem[r])
    PROVE  RunInv'
<1>1. PICK b \in Blobs \cup {NoBlob} : blob' = b /\ (b # NoBlob => Counted(b))
  BY DEF RunInv, TypeOK
<1>2. PICK s \in Blobs \cup {NoBlob} : s = mem[r]
  BY DEF RunInv, TypeOK
<1>3. mem' = [mem EXCEPT ![r] = s]
  BY <1>2 DEF RunInv, TypeOK
<1>4. apps' \subseteq Apps
  BY DEF RunInv, TypeOK
<1> QED BY <1>1, <1>2, <1>3, <1>4, StepSound

\* A step that ends a run and stores nothing.
LEMMA LeaveSound ==
    ASSUME RunInv, PlainType', apps' = apps, NEW r \in Runners, Leave(r), blob' = blob
    PROVE  RunInv'
<1>1. Sound("idle", NoBlob)
  BY DEF Sound, Empty, Walking, Awaiting
<1>2. apps' \subseteq Apps /\ blob \in Blobs \cup {NoBlob} /\ (blob # NoBlob => Counted(blob))
  BY DEF RunInv, TypeOK
<1> QED BY <1>1, <1>2, StepSound DEF Leave

\* A step that leaves the runners alone.
LEMMA AsideSound ==
    ASSUME RunInv, PlainType', apps' \subseteq Apps, pc' = pc, mem' = mem,
           NEW b \in Blobs \cup {NoBlob}, blob' = b, b # NoBlob => Counted(b)
    PROVE  RunInv'
<1>1. /\ mem \in [Runners -> Blobs \cup {NoBlob}]
      /\ \A q \in Runners : Sound(pc[q], mem[q])
  BY DEF RunInv, TypeOK
<1> QED BY <1>1, NextSound

LEMMA CountedSame ==
    ASSUME NEW s, NEW u, Counted(s), u.entry = s.entry, u.attempted = s.attempted
    PROVE  Counted(u)
  BY DEF Counted, Begun, WithStatus

\* What a runner that has begun holds.
LEMMA Holds ==
    ASSUME RunInv, NEW r \in Runners, pc[r] \notin Empty
    PROVE  /\ mem[r] \in Blobs /\ mem[r] # NoBlob /\ Counted(mem[r])
           /\ pc[r] \in Walking \cup {"acquiring", "opening"} => mem[r].status = "running"
           /\ pc[r] \in {"importing", "missing"} =>
                 mem[r].current \in Apps /\ mem[r].entry[mem[r].current] = "in_progress"
           /\ pc[r] = "sleeping" => Unsettled(mem[r]) # {}
  BY NoBlobAssumption DEF RunInv, TypeOK, Sound

\* A new run begins.
LEMMA FreshSound ==
    ASSUME RunInv, PlainType', NEW r \in Runners, BeginFresh(r)
    PROVE  RunInv'
<1>1. PICK id \in RunIds : Begin(r, NewRun(id))
  BY DEF BeginFresh
<1>2. PICK s \in Blobs : s = NewRun(id) /\ Counted(s) /\ s.status = "running"
  BY NewRunType, NewRunCounted DEF RunInv
<1>3. Sound("opening", s)
  BY <1>2, NoBlobAssumption DEF Sound, Empty
<1>4. blob' = blob /\ blob \in Blobs \cup {NoBlob} /\ (blob # NoBlob => Counted(blob))
  BY <1>1 DEF Begin, RunInv, TypeOK
<1>5. Goto(r, "opening") /\ apps' \subseteq Apps /\ mem' = [mem EXCEPT ![r] = s]
  BY <1>1, <1>2 DEF Begin, RunInv, TypeOK
<1> QED BY <1>3, <1>4, <1>5, StepSound

\* A stored run is continued.
LEMMA ContinueSound ==
    ASSUME RunInv, PlainType', NEW r \in Runners, blob # NoBlob,
           blob' = blob \/ blob' = [blob EXCEPT !.status = "running"],
           NEW l \in {"acquiring", "opening"}, Goto(r, l),
           mem' = [mem EXCEPT ![r] = Resumed(blob)], apps' = apps
    PROVE  RunInv'
<1>1. PICK o \in Blobs : o = blob /\ Counted(o)
  BY DEF RunInv, TypeOK
<1>2. PICK b \in Blobs : b = blob' /\ Counted(b)
  <2>1. CASE blob' = blob
    BY <1>1, <2>1
  <2>2. CASE blob' = [blob EXCEPT !.status = "running"]
    <3>1. blob' \in Blobs /\ blob'.entry = o.entry /\ blob'.attempted = o.attempted
      BY <1>1, <2>2 DEF Blobs, Statuses
    <3> QED BY <1>1, <3>1, CountedSame
  <2> QED BY <2>1, <2>2
<1>3. PICK s \in Blobs : s = Resumed(blob) /\ Counted(s) /\ s.status = "running"
  BY <1>1, ResumedType, ResumedCounted
<1>4. Sound(l, s)
  BY <1>3, NoBlobAssumption DEF Sound, Empty
<1>5. apps' \subseteq Apps /\ mem' = [mem EXCEPT ![r] = s]
  BY <1>3 DEF RunInv, TypeOK
<1> QED BY <1>2, <1>4, <1>5, StepSound

\* A run writes what it holds.
LEMMA PersistSound ==
    ASSUME RunInv, PlainType', apps' = apps, NEW r \in Runners,
           NEW s \in Blobs, Counted(s), Persist(r, s), NEW l, Goto(r, l), l \notin Empty,
           l \in {"importing", "missing"} =>
               s.current \in Apps /\ s.entry[s.current] = "in_progress",
           l = "sleeping" => Unsettled(s) # {},
           l \in Walking \cup {"acquiring", "opening"} => s.status = "running"
    PROVE  RunInv'
<1>1. Sound(l, s)
  BY NoBlobAssumption DEF Sound
<1>2. mem' = [mem EXCEPT ![r] = s] /\ blob' = s /\ apps' \subseteq Apps
  BY DEF Persist, RunInv, TypeOK
<1> QED BY <1>1, <1>2, StepSound

LEMMA ButtonsSound ==
    ASSUME RunInv, PlainType', NEW r \in Runners, Buttons(r)
    PROVE  RunInv'
<1>1. CASE Start(r)
  BY <1>1, FreshSound DEF Start
<1>2. CASE ForceClear(r)
  <2>1. Sound("forcing", mem[r])
    BY <1>2, NoBlobAssumption DEF ForceClear, RunInv, Sound, Empty, Walking, Awaiting
  <2> QED BY <1>2, <2>1, MoveSound DEF ForceClear
<1>3. CASE ResumeQueue(r)
  BY <1>3, ContinueSound DEF ResumeQueue, HasPendingWork
<1> QED BY <1>1, <1>2, <1>3 DEF Buttons

LEMMA RunnerSound ==
    ASSUME RunInv, PlainType', NEW r \in Runners, Runs(r)
    PROVE  RunInv'
<1> DEFINE s == mem[r]
<1>1. CASE ForceRelease(r)
  <2>1. PICK l \in {"idle", "forced"} : Goto(r, l)
    BY <1>1 DEF ForceRelease
  <2>2. Sound(l, mem[r])
    BY <1>1 DEF ForceRelease, RunInv, Sound, Empty, Walking, Awaiting
  <2> QED BY <1>1, <2>1, <2>2, MoveSound DEF ForceRelease
<1>2. CASE ForceStart(r)
  BY <1>2, FreshSound DEF ForceStart
<1>3. ASSUME Acquire(r) \/ Awake(r) \/ Finish(r) PROVE RunInv'
  <2>1. /\ pc[r] \in {"acquiring", "sleeping", "next"} /\ apps' = apps /\ mem' = mem
        /\ blob' = blob \/ blob' = NoBlob
    BY <1>3 DEF Acquire, Awake, Finish
  <2>2. PICK l \in {"opening", "next", "releasing"} : Goto(r, l)
    BY <1>3 DEF Acquire, Awake, Finish
  <2>3. Sound(l, mem[r])
    BY <2>1, Holds DEF Sound, Empty, Walking, Awaiting
  <2> QED BY <2>1, <2>2, <2>3, MoveSound
<1>4. CASE Open(r)
  <2>1. s \in Blobs /\ Counted(s) /\ s.status = "running"
    BY <1>4, Holds DEF Open, Empty
  <2> HIDE DEF s
  <2> QED BY <1>4, <2>1, PersistSound DEF Open, Empty, s
<1>5. ASSUME NEW a \in Apps, Dequeue(r, a) PROVE RunInv'
  <2> DEFINE u == Dequeued(s, a)
  <2>1. /\ s \in Blobs /\ Counted(s) /\ s.status = "running" /\ s.entry[a] = "pending"
    BY <1>5, Holds DEF Dequeue, Empty, Walking
  <2>2. u \in Blobs /\ u.status = "running" /\ u.current = a /\ u.entry[a] = "in_progress"
    BY <2>1, DequeuedType
  <2>3. Counted(u)
    BY <2>1, DequeuedCounted
  <2>4. Persist(r, u)
    BY <1>5 DEF Dequeue, Dequeued
  <2>5. PICK l \in {"importing", "missing"} : Goto(r, l)
    BY <1>5 DEF Dequeue
  <2>6. apps' = apps
    BY <1>5 DEF Dequeue
  <2> HIDE DEF s, u
  <2> QED BY <2>2, <2>3, <2>4, <2>5, <2>6, PersistSound DEF Empty
<1>6. ASSUME Missing(r) \/ Imported(r) \/ ImportFails(r) PROVE RunInv'
  <2>1. /\ s \in Blobs /\ Counted(s) /\ s.status = "running"
        /\ s.current \in Apps /\ s.entry[s.current] = "in_progress"
    BY <1>6, Holds DEF Missing, Imported, ImportFails, Empty, Walking, Awaiting
  <2>2. PICK status \in Outcomes : Persist(r, Settled(s, status))
    BY <1>6 DEF Missing, Imported, ImportFails, Outcomes
  <2> DEFINE u == Settled(s, status)
  <2>3. u \in Blobs /\ u.status = "running" /\ Counted(u)
    BY <2>1, SettledType, SettledCounted DEF Outcomes, Entries
  <2>4. Goto(r, "next") /\ apps' = apps
    BY <1>6 DEF Missing, Imported, ImportFails
  <2>5. Persist(r, u)
    BY <2>2
  <2> HIDE DEF s, u
  <2> QED BY <2>3, <2>4, <2>5, PersistSound DEF Empty
<1>7. CASE Throttled(r)
  <2> DEFINE u == PutBack(s)
  <2>1. /\ s \in Blobs /\ Counted(s) /\ s.status = "running"
        /\ s.current \in Apps /\ s.entry[s.current] = "in_progress"
    BY <1>7, Holds DEF Throttled, Empty, Walking, Awaiting
  <2>2. u \in Blobs /\ u.status = "running" /\ Counted(u) /\ u.entry[s.current] = "pending"
    BY <2>1, PutBackType, PutBackCounted
  <2>3. Unsettled(u) # {}
    BY <2>1, <2>2 DEF Unsettled, WithStatus
  <2>4. Persist(r, u)
    BY <1>7 DEF Throttled, PutBack
  <2>5. PICK l \in {"sleeping", "throttled"} : Goto(r, l)
    BY <1>7 DEF Throttled
  <2>6. apps' = apps
    BY <1>7 DEF Throttled
  <2> HIDE DEF s, u
  <2> QED BY <2>2, <2>3, <2>4, <2>5, <2>6, PersistSound DEF Empty
<1>8. CASE Interrupted(r)
  <2>1. CASE Leave(r)
    BY <1>8, <2>1, LeaveSound DEF Interrupted
  <2>2. CASE Goto(r, "next") /\ mem' = [mem EXCEPT ![r].current = NoApp]
    <3> DEFINE u == [s EXCEPT !.current = NoApp]
    <3>1. s \in Blobs /\ Counted(s) /\ s.status = "running"
      BY <1>8, Holds DEF Interrupted, Empty, Walking, Awaiting
    <3>2. /\ u \in Blobs /\ u.status = s.status /\ u.entry = s.entry
          /\ u.attempted = s.attempted
      BY <3>1 DEF Blobs
    <3>3. mem' = [mem EXCEPT ![r] = u]
      BY <2>2 DEF RunInv, TypeOK
    <3> HIDE DEF s, u
    <3>4. Sound("next", u)
      BY <3>1, <3>2, CountedSame, NoBlobAssumption DEF Sound, Empty
    <3>5. /\ blob' = blob /\ blob \in Blobs \cup {NoBlob} /\ (blob # NoBlob => Counted(blob))
          /\ apps' \subseteq Apps
      BY <1>8 DEF Interrupted, RunInv, TypeOK
    <3> QED BY <2>2, <3>2, <3>3, <3>4, <3>5, StepSound
  <2> QED BY <1>8, <2>1, <2>2 DEF Interrupted
<1>9. CASE Park(r)
  <2> DEFINE u == [s EXCEPT !.status = "paused", !.current = NoApp]
  <2>1. s \in Blobs /\ Counted(s)
    BY <1>9, Holds DEF Park, Empty
  <2>2. u \in Blobs /\ u.entry = s.entry /\ u.attempted = s.attempted
    BY <2>1 DEF Blobs, Statuses
  <2>3. Persist(r, u) /\ Goto(r, "parking") /\ apps' = apps
    BY <1>9 DEF Park
  <2> HIDE DEF s, u
  <2>4. Counted(u)
    BY <2>1, <2>2, CountedSame
  <2> QED BY <2>2, <2>3, <2>4, PersistSound DEF Empty, Walking, Awaiting
<1>10. CASE Parked(r) \/ Release(r)
  BY <1>10, LeaveSound DEF Parked, Release
<1> QED BY <1>1, <1>2, <1>3, <1>4, <1>5, <1>6, <1>7, <1>8, <1>9, <1>10 DEF Runs

LEMMA RunNext == RunInv /\ [Next]_vars => RunInv'
<1> SUFFICES ASSUME RunInv, [Next]_vars PROVE RunInv'
  OBVIOUS
<1>1. PlainType'
  BY PlainNext DEF RunInv
<1>2. /\ apps \subseteq Apps /\ blob \in Blobs \cup {NoBlob}
      /\ blob # NoBlob => Counted(blob)
  BY DEF RunInv, TypeOK
<1>3. ASSUME NEW r \in Runners, Buttons(r) \/ Runs(r) PROVE RunInv'
  BY <1>1, <1>3, ButtonsSound, RunnerSound
<1>4. ASSUME NEW r \in Runners, Throws(r) PROVE RunInv'
  BY <1>1, <1>4, LeaveSound DEF Throws
<1>5. ASSUME NEW status \in Statuses, blob # NoBlob,
             blob' \in {[blob EXCEPT !.status = status],
                        [blob EXCEPT !.status = status, !.current = NoApp]},
             apps' = apps, pc' = pc, mem' = mem
      PROVE  RunInv'
  <2>1. PICK o \in Blobs : o = blob /\ Counted(o)
    BY <1>2, <1>5
  <2>2. blob' \in Blobs /\ blob'.entry = o.entry /\ blob'.attempted = o.attempted
    BY <1>5, <2>1 DEF Blobs
  <2>3. PICK b \in Blobs : b = blob' /\ Counted(b)
    BY <2>1, <2>2, CountedSame
  <2> QED BY <1>1, <1>2, <1>5, <2>3, AsideSound
<1>6. CASE Pause
  BY <1>5, <1>6 DEF Pause, runner, Statuses, Requests
<1>7. ASSUME apps' \subseteq Apps, pc' = pc, mem' = mem, blob' = blob \/ blob' = NoBlob
      PROVE  RunInv'
  BY <1>1, <1>2, <1>7, AsideSound
<1>8. CASE Cancel
  <2>1. apps' \subseteq Apps /\ pc' = pc /\ mem' = mem
    BY <1>2, <1>8 DEF Cancel
  <2>2. CASE blob # NoBlob /\ mutex
    BY <1>5, <1>8, <2>2 DEF Cancel, Statuses, Requests
  <2>3. CASE ~(blob # NoBlob /\ mutex)
    BY <1>7, <1>8, <2>1, <2>3 DEF Cancel
  <2> QED BY <2>2, <2>3
<1>9. CASE Crash
  <2>1. Sound("idle", NoBlob)
    BY DEF Sound, Empty, Walking, Awaiting
  <2>2. \A q \in Runners : Sound(pc'[q], mem'[q])
    BY <1>9, <2>1 DEF Crash
  <2>3. mem' \in [Runners -> Blobs \cup {NoBlob}] /\ blob' = blob /\ apps' = apps
    BY <1>9 DEF Crash
  <2> QED BY <1>1, <1>2, <2>2, <2>3, NextSound
<1>10. CASE Boot \/ BootNothing \/ BootUnlock \/ HealthCheck \/ GoesStale
            \/ \E a \in Apps : AddApp(a) \/ DeleteApp(a)
  BY <1>2, <1>7, <1>10 DEF Boot, BootNothing, BootUnlock, HealthCheck, GoesStale, AddApp,
                           DeleteApp, runner
<1>11. CASE BootPark
  <2>1. CASE blob' = blob \/ blob' = NoBlob
    BY <1>2, <1>7, <1>11, <2>1 DEF BootPark, runner
  <2>2. CASE IsPaused /\ blob' = [blob EXCEPT !.status = "paused", !.current = NoApp]
    BY <1>5, <1>11, <2>2 DEF BootPark, runner, IsPaused, Statuses
  <2> QED BY <1>11, <2>1, <2>2 DEF BootPark
<1>12. ASSUME NEW r \in Runners, BootResume(r) PROVE RunInv'
  BY <1>1, <1>12, ContinueSound DEF BootResume, Begin, AutoResumes, HasPendingWork
<1>13. CASE UNCHANGED vars
  BY <1>2, <1>7, <1>13 DEF vars, runner
<1> QED BY <1>3, <1>4, <1>6, <1>8, <1>9, <1>10, <1>11, <1>12, <1>13 DEF Next, BootCheck

LEMMA InitRun == Init => RunInv
<1> SUFFICES ASSUME Init PROVE RunInv
  OBVIOUS
<1>1. TypeOK
  <2>1. strikes \in [Runners -> 0..MaxRetries] /\ bounds \in Nat \X Nat \X Nat
    BY DEF Init, MaxRetries, bounds
  <2>2. pc \in [Runners -> {"idle"} \cup Awaiting \cup Steps]
    BY DEF Init
  <2> QED BY <2>1, <2>2 DEF Init, TypeOK
<1>2. \A r \in Runners : Sound(pc[r], mem[r])
  BY DEF Init, Sound, Empty, Walking, Awaiting
<1> QED BY <1>1, <1>2 DEF Init, RunInv

LEMMA SpecRun == Spec => []RunInv
  BY InitRun, RunNext, PTL DEF Spec

\* The variables of the import stay within their types.
THEOREM WaybackTypeCorrect == Spec => []TypeOK
<1>1. RunInv => TypeOK
  BY DEF RunInv
<1> QED BY <1>1, SpecRun, PTL

\* An app is counted as attempted once, while it is imported and after, over
\* every crash, throttled answer, failing write, pause and resume.
THEOREM WaybackAttemptsMatch == Spec => []AttemptsMatchQueue
<1>1. RunInv => AttemptsMatchQueue
  BY DEF RunInv, AttemptsMatchQueue, Counted, Begun, Attempts
<1> QED BY <1>1, SpecRun, PTL

-----------------------------------------------------------------------------
(***************************************************************************)
(* One owner.                                                              *)
(***************************************************************************)

\* A run that has begun is the only one.
LEMMA Alone ==
    ASSUME RunInv, Own, NEW r \in Runners, pc[r] # "idle"
    PROVE  /\ \A q \in Runners : q # r => pc[q] = "idle"
           /\ boot \in {"waiting", "done"}
  BY DEF Own, Owned

\* What is stored while a runner awaits an answer.
LEMMA AwaitingOwns ==
    ASSUME RunInv, Own, NEW r \in Runners, pc[r] \in Awaiting
    PROVE  mutex /\ HasPendingWork /\ ~stale /\ blob.status # "paused"
<1>1. mutex /\ ~stale /\ blob # NoBlob /\ blob.status # "paused" /\ blob.entry = mem[r].entry
  BY DEF Own, Owned, Follows, Walking
<1>2. Unsettled(mem[r]) # {}
  <2>1. CASE pc[r] = "sleeping"
    BY <2>1, Holds DEF Empty
  <2>2. CASE pc[r] = "importing"
    <3>1. mem[r].current \in Apps /\ mem[r].entry[mem[r].current] = "in_progress"
      BY <2>2, Holds DEF Empty
    <3> QED BY <3>1 DEF Unsettled, WithStatus
  <2> QED BY <2>1, <2>2 DEF Awaiting
<1>3. Unsettled(blob) = Unsettled(mem[r])
  BY <1>1 DEF Unsettled, WithStatus
<1> QED BY <1>1, <1>2, <1>3 DEF HasPendingWork

\* Handlers that need the lock free or nothing to do find nobody at work.
LEMMA NobodyAwaits ==
    ASSUME RunInv, Own, Yielded, ~mutex \/ ~HasPendingWork \/ stale
    PROVE  \A q \in Runners : pc[q] = "idle"
  BY AwaitingOwns DEF Yielded

LEMMA OwnIdle ==
    ASSUME \A q \in Runners : pc'[q] = "idle"
    PROVE  Own'
  BY DEF Own, Owned, Walking, Awaiting

\* A step of the only runner, or of one that begins where there is none.
LEMMA OwnStep ==
    ASSUME RunInv, Own, NEW r \in Runners, NEW l, Goto(r, l), Owned(r)',
           pc[r] # "idle" \/ \A q \in Runners : pc[q] = "idle"
    PROVE  Own'
<1>1. \A q \in Runners : pc'[q] = IF q = r THEN l ELSE "idle"
  BY Alone DEF Goto, RunInv, TypeOK
<1>2. \A q \in Runners : q # r => Owned(q)'
  BY <1>1 DEF Owned, Walking, Awaiting
<1> QED BY <1>1, <1>2 DEF Own

\* The only runner ends.
LEMMA OwnEnds ==
    ASSUME RunInv, Own, NEW r \in Runners, pc[r] # "idle", Goto(r, "idle")
    PROVE  Own'
<1>1. \A q \in Runners : pc'[q] = "idle"
  BY Alone DEF Goto, RunInv, TypeOK
<1> QED BY <1>1, OwnIdle

\* A step that leaves runners and store alone.
LEMMA OwnAside ==
    ASSUME Own, UNCHANGED <<pc, mem, blob, mutex>>,
           stale' = stale \/ \A q \in Runners : pc[q] = "idle",
           boot' = boot \/ boot' \in {"waiting", "done"} \/ \A q \in Runners : pc[q] = "idle"
    PROVE  Own'
<1>1. ASSUME NEW q \in Runners PROVE Owned(q)'
  BY DEF Own, Owned, TakesOver, Follows, Unsettled, WithStatus, Walking, Awaiting
<1> QED BY <1>1 DEF Own

\* A request of the user changes the status of the stored queue, no more.
LEMMA RequestOwn ==
    ASSUME RunInv, Own, Yielded, UNCHANGED <<pc, mem, mutex, boot>>, ~stale', blob # NoBlob,
           NEW status \in Requests, blob' = [blob EXCEPT !.status = status]
    PROVE  Own'
<1>1. ASSUME NEW q \in Runners, pc[q] # "idle" PROVE Owned(q)'
  <2>1. pc[q] \in Awaiting
    BY <1>1 DEF Yielded
  <2>2. blob \in Blobs
    BY DEF RunInv, TypeOK
  <2>3. /\ blob' \in Blobs /\ blob'.status = status /\ blob'.run = blob.run
        /\ blob'.entry = blob.entry /\ blob'.attempted = blob.attempted
    BY <2>2 DEF Blobs, Statuses
  <2>4. mutex /\ boot \in {"waiting", "done"} /\ Follows(mem[q])
    BY <2>1 DEF Own, Owned, Walking, Awaiting
  <2>5. Follows(mem[q])'
    BY <2>3, <2>4 DEF Follows
  <2>6. blob' # NoBlob /\ blob'.status # "paused"
    BY <2>3, NoBlobAssumption DEF Requests
  <2> QED BY <2>1, <2>4, <2>5, <2>6 DEF Owned, Walking, Awaiting
<1>2. ASSUME NEW q \in Runners, pc[q] = "idle" PROVE Owned(q)'
  BY <1>2 DEF Owned, Walking, Awaiting
<1> QED BY <1>1, <1>2 DEF Own

\* A new run begins.
LEMMA FreshOwn ==
    ASSUME RunInv, Own, NEW r \in Runners, BeginFresh(r), boot' = boot,
           boot \in {"waiting", "done"}, blob = NoBlob,
           pc[r] # "idle" \/ \A q \in Runners : pc[q] = "idle"
    PROVE  Own'
<1>1. PICK id \in RunIds : Begin(r, NewRun(id))
  BY DEF BeginFresh
<1>2. PICK s \in Blobs : s = NewRun(id) /\ \A a \in Apps : s.entry[a] \in {"absent", "pending"}
  BY NewRunType DEF RunInv
<1>3. /\ Goto(r, "opening") /\ mem' = [mem EXCEPT ![r] = s] /\ blob' = NoBlob /\ mutex'
  BY <1>1, <1>2 DEF Begin
<1>4. pc'[r] = "opening" /\ mem'[r] = s
  BY <1>3 DEF Goto, RunInv, TypeOK
<1>5. TakesOver(mem[r])'
  BY <1>2, <1>3, <1>4 DEF TakesOver
<1>6. Owned(r)'
  BY <1>3, <1>4, <1>5 DEF Owned, Walking, Awaiting
<1> QED BY <1>3, <1>6, OwnStep

\* The stored run is continued.
LEMMA ContinueOwn ==
    ASSUME RunInv, Own, NEW r \in Runners, \A q \in Runners : pc[q] = "idle",
           blob # NoBlob, NEW l \in {"acquiring", "opening"}, Goto(r, l),
           \/ blob' = [blob EXCEPT !.status = "running"]
           \/ blob' = blob /\ blob.status = "running",
           mem' = [mem EXCEPT ![r] = Resumed(blob)], boot' \in {"waiting", "done"},
           l = "opening" => mutex'
    PROVE  Own'
<1>1. blob \in Blobs
  BY DEF RunInv, TypeOK
<1>2. blob' \in Blobs /\ blob'.status = "running" /\ blob'.entry = blob.entry
  BY <1>1 DEF Blobs, Statuses
<1>3. pc'[r] = l /\ mem'[r] = Resumed(blob)
  BY DEF Goto, RunInv, TypeOK
<1>4. PICK s \in Blobs : s = Resumed(blob)
  BY <1>1, ResumedType
<1>5. /\ Unsettled(s) = Unsettled(blob)
      /\ WithStatus(s, Outcomes) = WithStatus(blob, Outcomes)
  BY <1>1, <1>4, ResumedKeeps
<1>6. mem'[r] = s
  BY <1>3, <1>4
<1>7. TakesOver(mem[r])'
  BY <1>2, <1>5, <1>6, NoBlobAssumption DEF TakesOver, Unsettled, WithStatus
<1>8. Owned(r)'
  BY <1>3, <1>7 DEF Owned, Walking, Awaiting
<1> QED BY <1>8, OwnStep

\* A runner writes what it holds and walks on.
LEMMA PersistOwn ==
    ASSUME RunInv, Own, NEW r \in Runners, pc[r] \in Walking \cup {"opening"},
           NEW s \in Blobs, Persist(r, s), boot' = boot, NEW l, Goto(r, l),
           \/ l \in Walking /\ s.status = "running"
           \/ l = "parking"
    PROVE  Own'
<1>1. pc[r] # "idle" /\ mutex /\ boot \in {"waiting", "done"}
  BY DEF Own, Owned, Walking, Awaiting
<1>2. pc'[r] = l /\ mem'[r] = s /\ blob' = s /\ mutex' /\ ~stale'
  BY <1>1 DEF Goto, Persist, RunInv, TypeOK
<1>3. Follows(mem[r])'
  BY <1>2 DEF Follows
<1>4. Owned(r)'
  BY <1>1, <1>2, <1>3, NoBlobAssumption DEF Owned, Walking, Awaiting
<1> QED BY <1>1, <1>4, OwnStep

LEMMA ButtonsOwn ==
    ASSUME RunInv, Own, NEW r \in Runners, Buttons(r)
    PROVE  Own'
<1>1. \A q \in Runners : pc[q] = "idle"
  <2>1. Yielded /\ (~mutex \/ ~HasPendingWork)
    BY DEF Buttons, Start, ForceClear, ResumeQueue, CanStart
  <2> QED BY <2>1, NobodyAwaits
<1>2. boot \in {"waiting", "done"}
  BY DEF Buttons, Start, ForceClear, ResumeQueue, Yielded, RunInv, TypeOK
<1>3. CASE Start(r)
  BY <1>1, <1>2, <1>3, FreshOwn DEF Start, CanStart, BeginFresh
<1>4. CASE ForceClear(r)
  <2>1. Goto(r, "forcing") /\ blob' = NoBlob /\ boot' = boot
    BY <1>4 DEF ForceClear
  <2>2. pc'[r] = "forcing"
    BY <2>1 DEF Goto, RunInv, TypeOK
  <2>3. Owned(r)'
    BY <1>2, <2>1, <2>2 DEF Owned, Walking, Awaiting
  <2> QED BY <1>1, <2>1, <2>3, OwnStep
<1>5. CASE ResumeQueue(r)
  BY <1>1, <1>2, <1>5, ContinueOwn DEF ResumeQueue, HasPendingWork
<1> QED BY <1>3, <1>4, <1>5 DEF Buttons

LEMMA RunnerOwn ==
    ASSUME RunInv, RunInv', Own, NEW r \in Runners, Runs(r)
    PROVE  Own'
<1>1. pc[r] # "idle"
  BY DEF Runs, ForceRelease, ForceStart, Acquire, Open, Dequeue, Missing, Imported, ImportFails,
         Throttled, Awake, Interrupted, Park, Parked, Finish, Release, Awaiting
<1>2. \A l : Goto(r, l) => pc'[r] = l
  BY DEF Goto, RunInv, TypeOK
<1>3. boot \in {"waiting", "done"} /\ Owned(r)
  BY <1>1, Alone DEF Own
<1>4. CASE ForceRelease(r)
  <2>1. PICK l \in {"idle", "forced"} : Goto(r, l)
    BY <1>4 DEF ForceRelease
  <2>2. blob' = NoBlob /\ boot' = boot
    BY <1>3, <1>4 DEF ForceRelease, Owned
  <2>3. Owned(r)'
    BY <1>2, <1>3, <2>1, <2>2 DEF Owned, Walking, Awaiting
  <2> QED BY <1>1, <2>1, <2>3, OwnStep
<1>5. CASE ForceStart(r)
  <2>1. BeginFresh(r) /\ blob = NoBlob
    BY <1>3, <1>5 DEF ForceStart, Owned
  <2>2. boot' = boot
    BY <2>1 DEF BeginFresh
  <2> QED BY <1>1, <1>3, <2>1, <2>2, FreshOwn
<1>6. CASE Acquire(r)
  <2>1. Goto(r, "opening") /\ mutex' /\ UNCHANGED <<blob, mem, boot>> /\ TakesOver(mem[r])
    BY <1>3, <1>6 DEF Acquire, Owned
  <2>2. TakesOver(mem[r])'
    BY <2>1 DEF TakesOver, Unsettled, WithStatus
  <2>3. Owned(r)'
    BY <1>2, <1>3, <2>1, <2>2 DEF Owned, Walking, Awaiting
  <2> QED BY <1>1, <2>1, <2>3, OwnStep
<1>7. CASE Open(r)
  <2>1. mem[r] \in Blobs /\ mem[r].status = "running"
    BY <1>7, Holds DEF Open, Empty
  <2> QED BY <1>7, <2>1, PersistOwn DEF Open, Walking
<1>8. ASSUME Missing(r) \/ Imported(r) \/ ImportFails(r) \/ Throttled(r)
             \/ \E a \in Apps : Dequeue(r, a)
      PROVE  Own'
  <2>1. pc[r] \in Walking /\ boot' = boot
    BY <1>8 DEF Missing, Imported, ImportFails, Throttled, Dequeue, Walking, Awaiting
  <2>2. \E s : Persist(r, s)
    BY <1>8 DEF Missing, Imported, ImportFails, Throttled, Dequeue
  <2>3. PICK s : Persist(r, s)
    BY <2>2
  <2>4. PICK l \in Walking : Goto(r, l)
    BY <1>8 DEF Missing, Imported, ImportFails, Throttled, Dequeue, Walking, Awaiting
  <2>5. pc'[r] = l /\ mem'[r] = s
    BY <1>2, <2>3, <2>4 DEF Persist, RunInv, TypeOK
  <2>6. l \notin Empty
    BY DEF Walking, Awaiting, Empty
  <2>7. mem'[r] \in Blobs \cup {NoBlob} /\ mem'[r] # NoBlob /\ mem'[r].status = "running"
    BY <2>5, <2>6 DEF RunInv, TypeOK, Sound
  <2> QED BY <2>1, <2>3, <2>4, <2>5, <2>7, PersistOwn
<1>9. CASE Awake(r)
  <2>1. Goto(r, "next") /\ UNCHANGED <<mutex, blob, mem, boot>> /\ pc[r] \in Walking
    BY <1>9 DEF Awake, Walking, Awaiting
  <2>2. Follows(mem[r])'
    BY <1>3, <2>1 DEF Owned, Follows
  <2>3. Owned(r)'
    BY <1>2, <1>3, <2>1, <2>2 DEF Owned, Walking, Awaiting
  <2> QED BY <1>1, <2>1, <2>3, OwnStep
<1>10. CASE Interrupted(r)
  <2>1. CASE Leave(r)
    BY <1>1, <2>1, OwnEnds DEF Leave
  <2>2. CASE Goto(r, "next") /\ mem' = [mem EXCEPT ![r].current = NoApp]
    <3>1. mem[r] \in Blobs
      BY <1>10, Holds DEF Interrupted, Empty, Awaiting
    <3>2. PICK u : u = [mem[r] EXCEPT !.current = NoApp]
      OBVIOUS
    <3>3. u.run = mem[r].run /\ u.entry = mem[r].entry /\ u.attempted = mem[r].attempted
      BY <3>1, <3>2 DEF Blobs
    <3>4. mem'[r] = u
      BY <2>2, <3>2 DEF RunInv, TypeOK
    <3>5. UNCHANGED <<mutex, blob, boot>> /\ pc[r] \in Walking
      BY <1>10 DEF Interrupted, Walking
    <3>6. Follows(mem[r])'
      BY <1>3, <3>3, <3>4, <3>5 DEF Owned, Follows
    <3>7. Owned(r)'
      BY <1>2, <1>3, <2>2, <3>5, <3>6 DEF Owned, Walking, Awaiting
    <3> QED BY <1>1, <2>2, <3>7, OwnStep
  <2> QED BY <1>10, <2>1, <2>2 DEF Interrupted
<1>11. CASE Park(r)
  <2>1. mem[r] \in Blobs /\ pc[r] \in Walking
    BY <1>11, Holds DEF Park, Empty, Walking
  <2>2. PICK s : s = [mem[r] EXCEPT !.status = "paused", !.current = NoApp]
    OBVIOUS
  <2>3. s \in Blobs
    BY <2>1, <2>2 DEF Blobs, Statuses
  <2> QED BY <1>11, <2>1, <2>2, <2>3, PersistOwn DEF Park
<1>12. CASE Finish(r)
  <2>1. Goto(r, "releasing") /\ blob' = NoBlob /\ boot' = boot
    BY <1>12 DEF Finish
  <2>2. Owned(r)'
    BY <1>2, <1>3, <2>1 DEF Owned, Walking, Awaiting
  <2> QED BY <1>1, <2>1, <2>2, OwnStep
<1>13. CASE Parked(r) \/ Release(r)
  BY <1>1, <1>13, OwnEnds DEF Parked, Release, Leave
<1> QED BY <1>4, <1>5, <1>6, <1>7, <1>8, <1>9, <1>10, <1>11, <1>12, <1>13 DEF Runs

\* Where a step gives the stored queue up or parks it, nobody is at work.
LEMMA ClearingAlone ==
    ASSUME RunInv, Own,
           HealthCheck \/ BootUnlock \/ BootPark \/ (Cancel /\ ~(blob # NoBlob /\ mutex))
           \/ (Pause /\ ~mutex)
    PROVE  \A q \in Runners : pc[q] = "idle" /\ pc'[q] = "idle"
<1>1. pc' = pc
  BY DEF HealthCheck, BootUnlock, BootPark, Cancel, Pause, runner
<1>2. CASE HealthCheck \/ (Pause /\ ~mutex)
  BY <1>1, <1>2, NobodyAwaits DEF HealthCheck, LockIsDead, Pause
<1>3. CASE BootUnlock
  BY <1>1, <1>3 DEF BootUnlock, ImportLive, LiveRuns
<1>4. CASE BootPark
  BY <1>1, <1>4, Alone DEF BootPark
<1>5. CASE Cancel /\ ~(blob # NoBlob /\ mutex)
  <2>1. ~mutex \/ ~HasPendingWork
    BY <1>5 DEF HasPendingWork
  <2> QED BY <1>1, <1>5, <2>1, NobodyAwaits DEF Cancel
<1> QED BY <1>2, <1>3, <1>4, <1>5

LEMMA OwnNext == OwnInv /\ [Next]_vars => OwnInv'
<1> SUFFICES ASSUME RunInv, Own, [Next]_vars PROVE Own'
  BY RunNext DEF OwnInv
<1>1. RunInv'
  BY RunNext
<1>2. ASSUME NEW r \in Runners, Buttons(r) \/ Runs(r) PROVE Own'
  BY <1>1, <1>2, ButtonsOwn, RunnerOwn
<1>3. ASSUME NEW r \in Runners, Throws(r) PROVE Own'
  BY <1>3, OwnEnds DEF Throws, Leave
<1>4. CASE Pause
  <2>1. CASE mutex
    BY <1>4, <2>1, RequestOwn DEF Pause, runner, Requests
  <2>2. CASE ~mutex
    BY <1>4, <2>2, ClearingAlone, OwnIdle
  <2> QED BY <2>1, <2>2
<1>5. CASE Cancel
  <2>1. CASE blob # NoBlob /\ mutex
    BY <1>5, <2>1, RequestOwn DEF Cancel, Requests
  <2>2. CASE ~(blob # NoBlob /\ mutex)
    BY <1>5, <2>2, ClearingAlone, OwnIdle
  <2> QED BY <2>1, <2>2
<1>6. CASE HealthCheck \/ BootUnlock \/ BootPark
  BY <1>6, ClearingAlone, OwnIdle
<1>7. CASE Crash
  BY <1>7, OwnIdle DEF Crash
<1>8. CASE Boot \/ BootNothing
  <2>1. UNCHANGED <<pc, mem, blob, mutex, stale>> /\ boot' \in {"waiting", "done"}
    BY <1>8 DEF Boot, BootNothing, runner
  <2> QED BY <2>1, OwnAside
<1>9. ASSUME NEW r \in Runners, BootResume(r) PROVE Own'
  <2>1. \A q \in Runners : pc[q] = "idle"
    BY <1>9 DEF BootResume, ImportLive, LiveRuns
  <2>2. blob # NoBlob /\ blob.status = "running"
    BY <1>9 DEF BootResume, AutoResumes, HasPendingWork, IsPaused, IsCancelled, RunInv, TypeOK,
                Blobs, Statuses, Requests
  <2>3. /\ Goto(r, "opening") /\ blob' = blob /\ mutex' /\ boot' = "done"
        /\ mem' = [mem EXCEPT ![r] = Resumed(blob)]
    BY <1>9 DEF BootResume, Begin
  <2> QED BY <2>1, <2>2, <2>3, ContinueOwn
<1>10. CASE GoesStale
  <2>1. UNCHANGED <<pc, mem, blob, mutex, boot>> /\ \A q \in Runners : pc[q] = "idle"
    BY <1>10 DEF GoesStale, ImportLive, LiveRuns, runner
  <2> QED BY <2>1, OwnAside
<1>11. CASE \E a \in Apps : AddApp(a) \/ DeleteApp(a)
  BY <1>11, OwnAside DEF AddApp, DeleteApp, runner
<1>12. CASE UNCHANGED vars
  BY <1>12, OwnAside DEF vars, runner
<1> QED BY <1>2, <1>3, <1>4, <1>5, <1>6, <1>7, <1>8, <1>9, <1>10, <1>11, <1>12
        DEF Next, BootCheck

LEMMA SpecOwn == Spec => []OwnInv
<1>1. Init => Own
  BY DEF Init, Own, Owned, Walking, Awaiting
<1>2. Init => RunInv
  BY InitRun
<1>3. Init => OwnInv
  BY <1>1, <1>2 DEF OwnInv
<1> QED BY <1>3, OwnNext, PTL DEF Spec

\* The queue has one owner at most, though it can be started by a button, a
\* re-import, "Resume queue" and the boot check; it is the one in its owner's
\* memory, but for a request of the user; and behind a parked queue there is
\* only a runner that is about to let go of the lock.
THEOREM WaybackQueueIsOwned == Spec => []QueueIsOwned
<1>1. OwnInv => QueueIsOwned
  <2> SUFFICES ASSUME OwnInv PROVE QueueIsOwned
    OBVIOUS
  <2>1. \A q, r \in LiveRuns : q = r
    BY DEF OwnInv, Own, LiveRuns
  <2>2. ASSUME NEW r \in Runners, pc[r] \in Awaiting \cup {"next", "missing"}
        PROVE  /\ mutex
               /\ blob # NoBlob
               /\ [blob EXCEPT !.status = "running"]
                    = [mem[r] EXCEPT !.status = "running", !.current = blob.current]
    <3>1. mutex /\ blob # NoBlob /\ Follows(mem[r])
      BY <2>2 DEF OwnInv, Own, Owned, Walking
    <3>2. blob \in Blobs /\ mem[r] \in Blobs
      BY <2>2, <3>1, Holds DEF OwnInv, RunInv, TypeOK, Empty, Awaiting
    <3>3. [blob EXCEPT !.status = "running"]
            = [mem[r] EXCEPT !.status = "running", !.current = blob.current]
      BY <3>1, <3>2 DEF Follows, Blobs
    <3> QED BY <3>1, <3>3
  <2>3. ASSUME blob # NoBlob, blob.status = "paused", NEW r \in LiveRuns
        PROVE  pc[r] \in {"parking", "forcing", "forced"}
    <3>1. r \in Runners /\ pc[r] # "idle" /\ pc[r] \in Places
      BY DEF LiveRuns, OwnInv, RunInv, TypeOK, Places
    <3>2. pc[r] \notin Walking \cup {"acquiring", "opening", "releasing"}
      BY <2>3, <3>1 DEF OwnInv, Own, Owned, TakesOver
    <3> QED BY <3>1, <3>2 DEF Places, Steps, Walking
  <2> QED BY <2>1, <2>2, <2>3 DEF QueueIsOwned
<1> QED BY <1>1, SpecOwn, PTL

\* A runner looks for requests before it begins an app.
LEMMA DequeueUnasked ==
    ASSUME OwnInv, NEW r \in Runners, NEW a \in Apps, Dequeue(r, a)
    PROVE  blob.status \notin Requests
<1>1. pc[r] = "next" /\ blob # NoBlob /\ blob.run = mem[r].run
  BY DEF Dequeue, OwnInv, Own, Owned, Walking, Follows
<1>2. mem[r] \in Blobs
  BY <1>1, Holds DEF OwnInv, Empty
<1>3. CASE blob.status \in Requests
  <2>1. Synced(mem[r]) = [mem[r] EXCEPT !.status = blob.status]
    BY <1>1, <1>3 DEF Synced
  <2>2. Synced(mem[r]).status = blob.status
    BY <1>2, <2>1 DEF Blobs
  <2> QED BY <1>3, <2>2 DEF Dequeue
<1> QED BY <1>3

\* No app is begun once a pause or a cancel stands in the stored queue.
THEOREM WaybackRequestIsObeyed == Spec => NoAppAfterRequest
<1>1. OwnInv /\ [Next]_vars =>
        [ \A r \in Runners : pc[r] = "next" /\ pc'[r] \in {"importing", "missing"}
                               => blob.status \notin Requests ]_vars
  <2> SUFFICES ASSUME OwnInv, [Next]_vars, NEW r \in Runners, pc[r] = "next",
                      pc'[r] \in {"importing", "missing"}
               PROVE  blob.status \notin Requests
    OBVIOUS
  <2>1. pc \in [Runners -> Places]
    BY DEF OwnInv, RunInv, TypeOK, Places
  <2>2. \A q \in Runners : q # r => pc[q] = "idle"
    BY Alone DEF OwnInv
  <2>3. ASSUME NEW a \in Apps, Dequeue(r, a) PROVE blob.status \notin Requests
    BY <2>3, DequeueUnasked
  <2>4. ASSUME NEW q \in Runners, q # r,
               Buttons(q) \/ Runs(q) \/ Throws(q) \/ BootResume(q)
        PROVE  FALSE
    <3>1. pc[q] = "idle" /\ ~Yielded
      BY <2>2, <2>4 DEF Yielded, Awaiting
    <3> QED BY <2>4, <3>1 DEF Buttons, Start, ForceClear, ResumeQueue, Runs, ForceRelease,
               ForceStart, Acquire, Open, Dequeue, Missing, Imported, ImportFails, Throttled,
               Awake, Interrupted, Park, Parked, Finish, Release, Throws, BootResume, Awaiting
  <2>5. ASSUME Buttons(r) \/ Runs(r) \/ Throws(r) \/ BootResume(r)
        PROVE  \E a \in Apps : Dequeue(r, a)
    <3>1. ~Yielded
      BY DEF Yielded, Awaiting
    <3>2. \A l : Goto(r, l) => l \in {"importing", "missing"}
      BY <2>1 DEF Goto
    <3> QED BY <2>5, <3>1, <3>2 DEF Buttons, Start, ForceClear, ResumeQueue, Runs, ForceRelease,
               ForceStart, Acquire, Open, Missing, Imported, ImportFails, Throttled, Awake,
               Interrupted, Park, Parked, Finish, Release, Throws, BootResume, Awaiting, Leave
  <2>6. CASE pc' = pc
    BY <2>6
  <2>7. CASE Crash
    BY <2>7 DEF Crash
  <2> QED BY <2>3, <2>4, <2>5, <2>6, <2>7
          DEF Next, BootCheck, Pause, Cancel, Boot, BootNothing, BootUnlock, BootPark,
              HealthCheck, AddApp, DeleteApp, GoesStale, runner, vars
<1> QED BY <1>1, SpecOwn, PTL DEF Spec, NoAppAfterRequest

\* Where a runner does not look at the stored queue no request can be in it, and
\* a cancel has reached its request or its wait.
Heard ==
    \A r \in Runners :
        /\ pc[r] = "missing" => blob.status = "running"
        /\ pc[r] \in Awaiting /\ IsCancelled => aborted[r]

LEMMA HeardNext == OwnInv /\ Heard /\ [Next]_vars => Heard'
<1> SUFFICES ASSUME OwnInv, Heard, [Next]_vars, NEW r \in Runners,
                    pc'[r] \in {"missing"} \cup Awaiting
             PROVE  /\ pc'[r] = "missing" => blob'.status = "running"
                    /\ IsCancelled' => aborted'[r]
  BY DEF Heard, Awaiting
<1>0. /\ RunInv /\ Own
      /\ pc \in [Runners -> Places] /\ mem \in [Runners -> Blobs \cup {NoBlob}]
      /\ aborted \in [Runners -> BOOLEAN] /\ blob \in Blobs \cup {NoBlob}
  BY DEF OwnInv, RunInv, TypeOK, Places
<1>1. ASSUME pc' = pc, blob' = blob, aborted' = aborted
      PROVE  /\ pc'[r] = "missing" => blob'.status = "running"
             /\ IsCancelled' => aborted'[r]
  BY <1>1 DEF Heard, IsCancelled, Awaiting
<1>2. ASSUME blob'.status \notin Requests, pc'[r] # "missing" \/ blob'.status = "running"
      PROVE  /\ pc'[r] = "missing" => blob'.status = "running"
             /\ IsCancelled' => aborted'[r]
  BY <1>2 DEF IsCancelled, Requests
<1>3. ASSUME NEW a \in Apps, Dequeue(r, a) PROVE blob'.status = "running"
  <2>1. mem[r] \in Blobs /\ mem[r].status = "running"
    BY <1>0, <1>3, Holds DEF Dequeue, Empty, Walking
  <2> QED BY <1>3, <2>1 DEF Dequeue, Persist, Blobs
<1>4. ASSUME Throttled(r) PROVE blob'.status = "running"
  <2>1. mem[r] \in Blobs /\ mem[r].status = "running"
    BY <1>0, <1>4, Holds DEF Throttled, Empty, Walking, Awaiting
  <2> QED BY <1>4, <2>1 DEF Throttled, Persist, Settled, Blobs
<1>5. ASSUME Buttons(r) \/ Runs(r) \/ Throws(r) \/ BootResume(r)
      PROVE  Throttled(r) \/ \E a \in Apps : Dequeue(r, a)
  <2>1. \A l : Goto(r, l) => l \in {"missing"} \cup Awaiting
    BY <1>0 DEF Goto
  <2> QED BY <1>5, <2>1 DEF Buttons, Start, ForceClear, ResumeQueue, BeginFresh, Begin, Runs,
             ForceRelease, ForceStart, Acquire, Open, Missing, Imported, ImportFails, Awake,
             Interrupted, Park, Parked, Finish, Release, Throws, BootResume, Awaiting, Leave
<1>6. ASSUME NEW q \in Runners, q # r, Buttons(q) \/ Runs(q) \/ Throws(q) \/ BootResume(q)
      PROVE  FALSE
  <2>1. pc'[r] = pc[r]
    BY <1>0, <1>6 DEF Buttons, Start, ForceClear, ResumeQueue, BeginFresh, Begin, Runs,
       ForceRelease, ForceStart, Acquire, Open, Dequeue, Missing, Imported, ImportFails, Throttled,
       Awake, Interrupted, Park, Parked, Finish, Release, Throws, BootResume, Leave, Goto
  <2>2. pc[r] # "idle" /\ pc[q] = "idle"
    BY <1>0, <1>6, <2>1, Alone DEF Awaiting
  <2>3. Buttons(q) \/ BootResume(q)
    BY <1>6, <2>2 DEF Runs, ForceRelease, ForceStart, Acquire, Open, Dequeue, Missing, Imported,
       ImportFails, Throttled, Awake, Interrupted, Park, Parked, Finish, Release, Throws, Awaiting
  <2>4. Yielded /\ (~mutex \/ ~HasPendingWork \/ ~ImportLive)
    BY <2>3 DEF Buttons, Start, ForceClear, ResumeQueue, BootResume, CanStart
  <2>5. ImportLive
    BY <2>2 DEF ImportLive, LiveRuns
  <2> QED BY <1>0, <2>2, <2>4, <2>5, NobodyAwaits
<1>7. CASE Pause
  <2>1. pc' = pc /\ pc[r] # "missing"
    BY <1>7 DEF Pause, runner, Yielded, Awaiting
  <2>2. blob \in Blobs
    BY <1>0, <1>7 DEF Pause
  <2>3. blob'.status \in {"pause_requested", "paused"}
    BY <1>7, <2>2 DEF Pause, Blobs
  <2> QED BY <2>1, <2>3 DEF IsCancelled
<1>8. CASE Cancel
  <2>1. pc' = pc /\ pc[r] \in Awaiting
    BY <1>8 DEF Cancel, Yielded, Awaiting
  <2>2. blob # NoBlob /\ mutex /\ mem[r].run = blob.run
    BY <1>0, <2>1 DEF Own, Owned, Follows, Walking
  <2>3. aborted'[r]
    BY <1>8, <2>1, <2>2 DEF Cancel
  <2> QED BY <2>1, <2>3 DEF Awaiting
<1>9. CASE Crash
  BY <1>9 DEF Crash, Awaiting
<1>10. CASE HealthCheck
  <2>1. pc'[r] = pc[r] /\ Yielded /\ (~HasPendingWork \/ stale)
    BY <1>10 DEF HealthCheck, LockIsDead, runner
  <2> QED BY <1>0, <2>1, NobodyAwaits DEF Awaiting
<1>11. CASE BootPark
  <2>1. pc'[r] = pc[r] /\ boot = "healing"
    BY <1>11 DEF BootPark, runner
  <2> QED BY <1>0, <2>1, Alone DEF Awaiting
<1>12. CASE \/ Boot \/ BootNothing \/ BootUnlock \/ GoesStale \/ UNCHANGED vars
            \/ \E a \in Apps : AddApp(a) \/ DeleteApp(a)
  BY <1>1, <1>12 DEF Boot, BootNothing, BootUnlock, GoesStale, AddApp, DeleteApp, runner, vars
<1>13. ASSUME NEW q \in Runners, Buttons(q) \/ Runs(q) \/ Throws(q) \/ BootResume(q)
       PROVE  blob'.status = "running"
  BY <1>3, <1>4, <1>5, <1>6, <1>13
<1> QED BY <1>2, <1>7, <1>8, <1>9, <1>10, <1>11, <1>12, <1>13 DEF Next, BootCheck, Requests

LEMMA SpecHeard == Spec => [](OwnInv /\ Heard)
<1>1. Init => Heard
  BY DEF Init, Heard, Awaiting
<1> QED BY <1>1, HeardNext, SpecOwn, PTL DEF Spec

\* Only the outcome of an import, and the user, put a request aside.
LEMMA RequestStep ==
    ASSUME OwnInv, Heard, [Next]_vars, blob # NoBlob, blob.status \in Requests,
           blob' # NoBlob, blob'.status = "running"
    PROVE  \E r \in Runners : (pc[r] = "importing" /\ ~aborted[r]) \/ ResumeQueue(r)
<1>0. /\ RunInv /\ Own /\ blob \in Blobs /\ mem \in [Runners -> Blobs \cup {NoBlob}]
  BY DEF OwnInv, RunInv, TypeOK
<1>1. blob' # blob
  BY DEF Requests
<1>2. ASSUME NEW r \in Runners, Buttons(r) \/ Runs(r) \/ Throws(r)
      PROVE  (pc[r] = "importing" /\ ~aborted[r]) \/ ResumeQueue(r)
  <2>1. CASE Open(r)
    BY <1>0, <2>1 DEF Open, Own, Owned, TakesOver, Requests
  <2>2. CASE \E a \in Apps : Dequeue(r, a)
    BY <2>2, DequeueUnasked
  <2>3. CASE Missing(r)
    BY <2>3 DEF Missing, Heard, Requests
  <2>4. CASE Imported(r) \/ ImportFails(r) \/ Throttled(r)
    BY <2>4 DEF Imported, ImportFails, Throttled, Yielded
  <2>5. CASE Park(r)
    <3>1. mem[r] \in Blobs
      BY <1>0, <2>5, Holds DEF Park, Empty
    <3> QED BY <2>5, <3>1 DEF Park, Persist, Blobs
  <2> QED BY <1>1, <1>2, <2>1, <2>2, <2>3, <2>4, <2>5
          DEF Buttons, Start, BeginFresh, Begin, ForceClear, Runs, ForceRelease, ForceStart, Acquire,
              Awake, Interrupted, Parked, Finish, Release, Throws
<1>3. CASE Pause
  BY <1>0, <1>3 DEF Pause, Blobs
<1>4. CASE Cancel
  BY <1>0, <1>4 DEF Cancel, Blobs
<1>5. CASE BootPark
  BY <1>0, <1>1, <1>5 DEF BootPark, Blobs
<1>6. CASE \/ Crash \/ Boot \/ BootNothing \/ BootUnlock \/ HealthCheck \/ GoesStale \/ UNCHANGED vars
           \/ \E r \in Runners : BootResume(r)
           \/ \E a \in Apps : AddApp(a) \/ DeleteApp(a)
  BY <1>1, <1>6 DEF Crash, Boot, BootNothing, BootUnlock, HealthCheck, GoesStale, BootResume, Begin,
     AddApp, DeleteApp, vars
<1> QED BY <1>2, <1>3, <1>4, <1>5, <1>6 DEF Next, BootCheck

\* A pause that was asked for is lost only to the outcome of an app it came amid,
\* which the runner writes over it; one asked for in the wait for a throttled
\* archive is not.  The user may take it back with "Resume queue".
THEOREM WaybackPauseIsLostOnlyAmidAnApp ==
    Spec => [][ blob # NoBlob /\ blob.status = "pause_requested" /\ blob' # NoBlob
                  => \/ blob'.status # "running"
                     \/ \E r \in Runners : pc[r] = "importing" \/ ResumeQueue(r) ]_vars
<1>1. OwnInv /\ Heard /\ [Next]_vars =>
        [ blob # NoBlob /\ blob.status = "pause_requested" /\ blob' # NoBlob
            => \/ blob'.status # "running"
               \/ \E r \in Runners : pc[r] = "importing" \/ ResumeQueue(r) ]_vars
  BY RequestStep DEF Requests
<1> QED BY <1>1, SpecHeard, PTL DEF Spec

\* A cancelled queue is never at work again, for a cancel also aborts what the
\* runner waits for: no outcome is written over it, and no button resumes it.
THEOREM WaybackCancelIsKept ==
    Spec => [][ IsCancelled /\ blob' # NoBlob => blob'.status # "running" ]_vars
<1>1. OwnInv /\ Heard /\ [Next]_vars => [ IsCancelled /\ blob' # NoBlob => blob'.status # "running" ]_vars
  <2> SUFFICES ASSUME OwnInv, Heard, [Next]_vars, IsCancelled, blob' # NoBlob, blob'.status = "running"
               PROVE  FALSE
    OBVIOUS
  <2>1. PICK r \in Runners : (pc[r] = "importing" /\ ~aborted[r]) \/ ResumeQueue(r)
    BY RequestStep DEF IsCancelled, Requests
  <2> QED BY <2>1 DEF Heard, Awaiting, ResumeQueue
<1> QED BY <1>1, SpecHeard, PTL DEF Spec

\* What the user asked for survives a restart: a paused queue is kept and not
\* continued, a cancelled one is not continued.
THEOREM WaybackRequestSurvives == Spec => RequestSurvivesRestart
<1>1. RunInv /\ [Next]_vars =>
        [ boot' # boot /\ (IsPaused \/ IsCancelled)
          => /\ LiveRuns' \subseteq LiveRuns
             /\ IsPaused => blob' # NoBlob /\ blob'.status \in {"paused", blob.status} ]_vars
  <2> SUFFICES ASSUME RunInv, [Next]_vars, boot' # boot, IsPaused \/ IsCancelled
               PROVE  /\ LiveRuns' \subseteq LiveRuns
                      /\ IsPaused => blob' # NoBlob /\ blob'.status \in {"paused", blob.status}
    OBVIOUS
  <2>1. blob \in Blobs \cup {NoBlob}
    BY DEF RunInv, TypeOK
  <2>2. CASE Crash
    BY <2>2 DEF Crash, LiveRuns, IsPaused
  <2>3. CASE Boot \/ BootNothing \/ BootUnlock
    BY <2>3 DEF Boot, BootNothing, BootUnlock, runner, LiveRuns, IsPaused
  <2>4. CASE BootPark
    <3>1. LiveRuns' = LiveRuns
      BY <2>4 DEF BootPark, runner, LiveRuns
    <3>2. ASSUME IsPaused PROVE blob' # NoBlob /\ blob'.status = "paused"
      <4>1. blob \in Blobs
        BY <2>1, <3>2 DEF IsPaused
      <4>2. CASE blob' = blob /\ blob.status = "paused"
        BY <4>1, <4>2, NoBlobAssumption
      <4>3. CASE blob' = [blob EXCEPT !.status = "paused", !.current = NoApp]
        <5>1. blob' \in Blobs /\ blob'.status = "paused"
          BY <4>1, <4>3 DEF Blobs, Statuses
        <5> QED BY <5>1, NoBlobAssumption
      <4> QED BY <2>4, <3>2, <4>2, <4>3 DEF BootPark
    <3> QED BY <3>1, <3>2
  <2>5. ~\E r \in Runners : BootResume(r)
    BY DEF BootResume, AutoResumes
  <2>6. ASSUME NEW r \in Runners, Buttons(r) \/ Runs(r) \/ Throws(r) PROVE boot' = boot
    BY <2>6 DEF Buttons, Start, BeginFresh, Begin, ForceClear, ResumeQueue, Runs, ForceRelease,
               ForceStart, Acquire, Open, Dequeue, Missing, Imported, ImportFails, Throttled,
               Awake, Interrupted, Park, Parked, Finish, Release, Throws
  <2>7. CASE Pause \/ Cancel \/ HealthCheck \/ GoesStale \/ UNCHANGED vars
            \/ \E a \in Apps : AddApp(a) \/ DeleteApp(a)
    BY <2>7 DEF Pause, Cancel, HealthCheck, GoesStale, AddApp, DeleteApp, vars
  <2> QED BY <2>2, <2>3, <2>4, <2>5, <2>6, <2>7 DEF Next, BootCheck
<1> QED BY <1>1, SpecRun, PTL DEF Spec, RequestSurvivesRestart

-----------------------------------------------------------------------------
(***************************************************************************)
(* What the steps of the abstract queue are here.                          *)
(***************************************************************************)
Todo == IF blob = NoBlob THEN {} ELSE Unsettled(blob)
Settleds == IF blob = NoBlob THEN {} ELSE WithStatus(blob, Outcomes)
Working == {mem[r].current : r \in {q \in Runners : pc[q] = "importing"}}

LEMMA QueueStutters ==
    ASSUME (blob' = NoBlob) <=> (blob = NoBlob),
           Todo' = Todo, Settleds' = Settleds, Working' = Working
    PROVE  UNCHANGED Queue!vars
  BY DEF Queue!vars, Todo, Settleds, Working, Outcomes

LEMMA QueueTakes ==
    ASSUME NEW a \in Todo, blob # NoBlob, blob' # NoBlob, Working = {}, Working' = {a},
           Todo' = Todo, Settleds' = Settleds
    PROVE  Queue!Take(a)
  BY DEF Queue!Take, Todo, Settleds, Working, Outcomes

LEMMA QueueSettles ==
    ASSUME NEW a \in Todo, blob # NoBlob, blob' # NoBlob,
           Working \subseteq {a}, Working' = {},
           Todo' = Todo \ {a}, Settleds' = Settleds \cup {a}
    PROVE  Queue!Settle(a)
  BY DEF Queue!Settle, Todo, Settleds, Working, Outcomes

\* A step that changes neither the stored queue nor the app worked on.
LEMMA StutterRefines ==
    ASSUME blob' = blob, Working' = Working
    PROVE  UNCHANGED Queue!vars
<1>1. Todo' = Todo /\ Settleds' = Settleds
  BY DEF Todo, Settleds, Unsettled, WithStatus
<1> QED BY <1>1, QueueStutters

\* A step after which nobody works and nothing is stored gives the run up.
LEMMA CloseRefines ==
    ASSUME Working = {}, Working' = {}, blob' = NoBlob
    PROVE  UNCHANGED Queue!vars \/ Queue!Close
<1>1. Todo' = {} /\ Settleds' = {}
  BY DEF Todo, Settleds
<1>2. CASE blob = NoBlob
  BY <1>2, StutterRefines
<1>3. CASE blob # NoBlob
  BY <1>1, <1>3 DEF Queue!Close, Todo, Settleds, Working, Outcomes
<1> QED BY <1>2, <1>3

\* A step after which nobody works, with the same queue stored.
LEMMA DropRefines ==
    ASSUME Working' = {}, blob' = blob
    PROVE  UNCHANGED Queue!vars \/ Queue!Drop
<1>1. Todo' = Todo /\ Settleds' = Settleds
  BY DEF Todo, Settleds, Unsettled, WithStatus
<1>2. CASE Working = {}
  BY <1>2, StutterRefines
<1>3. CASE Working # {}
  BY <1>1, <1>3 DEF Queue!Drop, Todo, Settleds, Working, Outcomes
<1> QED BY <1>2, <1>3

\* What the only runner works on, before a step of it and after.
LEMMA WorkingOne ==
    ASSUME RunInv, Own, NEW r \in Runners, pc[r] # "idle"
    PROVE  Working = IF pc[r] = "importing" THEN {mem[r].current} ELSE {}
  BY Alone DEF Working

LEMMA WorkingNext ==
    ASSUME RunInv, Own, NEW r \in Runners, NEW l, Goto(r, l),
           pc[r] # "idle" \/ \A q \in Runners : pc[q] = "idle"
    PROVE  Working' = IF l = "importing" THEN {mem'[r].current} ELSE {}
<1>1. \A q \in Runners : pc'[q] = (IF q = r THEN l ELSE "idle")
  BY Alone DEF Goto, RunInv, TypeOK
<1> QED BY <1>1 DEF Working

\* A step that leaves the store alone and imports nothing after it.
LEMMA AsideRefines ==
    ASSUME RunInv, Own, NEW r \in Runners, blob' = blob, NEW l, l # "importing", Goto(r, l),
           pc[r] # "idle" \/ \A q \in Runners : pc[q] = "idle"
    PROVE  UNCHANGED Queue!vars \/ Queue!Drop
<1>1. Working' = {}
  BY WorkingNext
<1> QED BY <1>1, DropRefines

\* A step that changes the stored queue and settles nothing.
LEMMA KeepRefines ==
    ASSUME blob # NoBlob, blob' # NoBlob, Unsettled(blob') = Unsettled(blob),
           WithStatus(blob', Outcomes) = WithStatus(blob, Outcomes),
           Working' = Working \/ Working' = {}
    PROVE  UNCHANGED Queue!vars \/ Queue!Drop
<1>1. Todo' = Todo /\ Settleds' = Settleds
  BY DEF Todo, Settleds, Unsettled, WithStatus
<1>2. CASE Working' = Working
  BY <1>1, <1>2, QueueStutters
<1>3. CASE Working' # Working
  BY <1>1, <1>3 DEF Queue!Drop, Todo, Settleds, Working, Outcomes
<1> QED BY <1>2, <1>3

-----------------------------------------------------------------------------
(***************************************************************************)
(* The steps of a runner.                                                  *)
(***************************************************************************)
LEMMA OpenRefines ==
    ASSUME RunInv, Own, NEW r \in Runners, Open(r)
    PROVE  UNCHANGED Queue!vars \/ Queue!Drop \/ \E S \in SUBSET Apps : Queue!Open(S)
<1>1. mem[r] \in Blobs /\ blob' = mem[r] /\ blob' # NoBlob /\ TakesOver(mem[r])
  BY Holds, NoBlobAssumption DEF Open, Persist, Own, Owned, Empty
<1>2. Working = {} /\ Working' = {}
  BY WorkingOne, WorkingNext DEF Open
<1>3. CASE blob = NoBlob /\ \A a \in Apps : mem[r].entry[a] \in {"absent", "pending"}
  <2>1. Settleds' = {}
    BY <1>1, <1>3 DEF Settleds, WithStatus, Outcomes
  <2>2. PICK S \in SUBSET Apps : Todo' = S
    BY DEF Todo, Unsettled, WithStatus
  <2>3. Queue!Open(S)
    BY <1>1, <1>2, <1>3, <2>1, <2>2 DEF Queue!Open, Todo, Settleds, Working, Outcomes
  <2> QED BY <2>3
<1>4. CASE /\ blob # NoBlob
           /\ Unsettled(mem[r]) = Unsettled(blob)
           /\ WithStatus(mem[r], Outcomes) = WithStatus(blob, Outcomes)
  <2>1. /\ Unsettled(blob') = Unsettled(blob)
        /\ WithStatus(blob', Outcomes) = WithStatus(blob, Outcomes)
    BY <1>1, <1>4
  <2> QED BY <1>1, <1>2, <1>4, <2>1, KeepRefines
<1> QED BY <1>1, <1>3, <1>4 DEF TakesOver

\* Taking the next app: it is imported, unless its row is gone.
LEMMA DequeueRefines ==
    ASSUME RunInv, Own, NEW r \in Runners, NEW a \in Apps, Dequeue(r, a)
    PROVE  UNCHANGED Queue!vars \/ Queue!Drop \/ Queue!Take(a)
<1> DEFINE s == Dequeued(mem[r], a)
           l == IF a \in apps THEN "importing" ELSE "missing"
<1>1. /\ blob # NoBlob /\ blob.entry = mem[r].entry /\ mem[r] \in Blobs
      /\ mem[r].entry[a] = "pending"
  BY Holds DEF Dequeue, Own, Owned, Walking, Follows, Empty
<1>2. /\ s \in Blobs /\ s.current = a /\ s.entry[a] = "in_progress"
      /\ \A b \in Apps : b # a => s.entry[b] = mem[r].entry[b]
  BY <1>1, DequeuedType
<1>3. Persist(r, s) /\ Goto(r, l)
  BY DEF Dequeue, Dequeued
<1> HIDE DEF s, l
<1>4. blob' = s /\ blob' # NoBlob /\ mem'[r] = s
  BY <1>2, <1>3, NoBlobAssumption DEF Persist, RunInv, TypeOK
<1>5. /\ Unsettled(blob') = Unsettled(blob) /\ a \in Unsettled(blob)
      /\ WithStatus(blob', Outcomes) = WithStatus(blob, Outcomes)
  BY <1>1, <1>2, <1>4 DEF Unsettled, WithStatus, Outcomes
<1>6. Working = {}
  BY WorkingOne DEF Dequeue
<1>7. Working' = IF l = "importing" THEN {a} ELSE {}
  BY <1>2, <1>3, <1>4, WorkingNext DEF Dequeue
<1>8. CASE l = "importing"
  <2>1. a \in Todo /\ Todo' = Todo /\ Settleds' = Settleds
    BY <1>1, <1>4, <1>5 DEF Todo, Settleds, Unsettled, WithStatus
  <2> QED BY <1>1, <1>4, <1>6, <1>7, <1>8, <2>1, QueueTakes
<1>9. CASE l # "importing"
  BY <1>1, <1>4, <1>5, <1>6, <1>7, <1>9, KeepRefines
<1> QED BY <1>8, <1>9

\* Settling the app in flight.
LEMMA SettleRefines ==
    ASSUME RunInv, Own, NEW r \in Runners, Missing(r) \/ Imported(r) \/ ImportFails(r)
    PROVE  \E a \in Apps : Queue!Settle(a)
<1> DEFINE i == mem[r].current
<1>1. /\ pc[r] \in {"importing", "missing"} /\ Goto(r, "next")
  BY DEF Missing, Imported, ImportFails
<1>2. PICK status \in Outcomes : Persist(r, Settled(mem[r], status))
  BY DEF Missing, Imported, ImportFails, Outcomes
<1> DEFINE s == Settled(mem[r], status)
<1>3. /\ blob # NoBlob /\ blob.entry = mem[r].entry /\ mem[r] \in Blobs
      /\ i \in Apps /\ mem[r].entry[i] = "in_progress"
  BY <1>1, Holds DEF Own, Owned, Walking, Awaiting, Follows, Empty
<1>4. /\ s \in Blobs /\ s.entry[i] = status
      /\ \A b \in Apps : b # i => s.entry[b] = mem[r].entry[b]
  BY <1>3, SettledType DEF Outcomes, Entries
<1>5. Working \subseteq {i} /\ Working' = {}
  BY <1>1, WorkingOne, WorkingNext
<1>6. blob' = s
  BY <1>2 DEF Persist
<1> HIDE DEF s, i
<1>7. blob' # NoBlob
  BY <1>4, <1>6, NoBlobAssumption
<1>8. i \in Todo /\ Todo' = Todo \ {i}
  <2>1. Todo = Unsettled(blob) /\ Todo' = Unsettled(s)
    BY <1>3, <1>6, <1>7 DEF Todo, Unsettled, WithStatus
  <2> QED BY <1>3, <1>4, <2>1 DEF Unsettled, WithStatus, Outcomes
<1>9. Settleds' = Settleds \cup {i}
  <2>1. Settleds = WithStatus(blob, Outcomes) /\ Settleds' = WithStatus(s, Outcomes)
    BY <1>3, <1>6, <1>7 DEF Settleds, WithStatus
  <2> QED BY <1>3, <1>4, <2>1 DEF WithStatus, Outcomes
<1> QED BY <1>3, <1>5, <1>7, <1>8, <1>9, QueueSettles

\* An app the archive refused goes back to be done.
LEMMA ThrottledRefines ==
    ASSUME RunInv, Own, NEW r \in Runners, Throttled(r)
    PROVE  UNCHANGED Queue!vars \/ Queue!Drop
<1> DEFINE i == mem[r].current
           s == PutBack(mem[r])
<1>1. PICK l \in {"sleeping", "throttled"} : Goto(r, l)
  BY DEF Throttled
<1>2. pc[r] = "importing" /\ Persist(r, s)
  BY DEF Throttled, PutBack
<1>3. /\ blob # NoBlob /\ blob.entry = mem[r].entry /\ mem[r] \in Blobs
      /\ i \in Apps /\ mem[r].entry[i] = "in_progress"
  BY <1>2, Holds DEF Own, Owned, Walking, Awaiting, Follows, Empty
<1>4. /\ s \in Blobs /\ s.entry[i] = "pending"
      /\ \A b \in Apps : b # i => s.entry[b] = mem[r].entry[b]
  BY <1>3, PutBackType
<1>5. Working' = {}
  BY <1>1, <1>2, WorkingNext
<1>6. blob' = s
  BY <1>2 DEF Persist
<1> HIDE DEF s, i
<1>7. /\ blob' # NoBlob /\ Unsettled(blob') = Unsettled(blob)
      /\ WithStatus(blob', Outcomes) = WithStatus(blob, Outcomes)
  BY <1>3, <1>4, <1>6, NoBlobAssumption DEF Unsettled, WithStatus, Outcomes
<1> QED BY <1>3, <1>5, <1>7, KeepRefines

LEMMA RunnerRefines ==
    ASSUME RunInv, Own, NEW r \in Runners, Runs(r)
    PROVE  UNCHANGED Queue!vars \/ Queue!Next
<1>1. CASE ForceRelease(r) \/ ForceStart(r) \/ Acquire(r) \/ Awake(r) \/ Interrupted(r)
           \/ Parked(r) \/ Release(r)
  <2>1. pc[r] # "idle" /\ blob' = blob
    BY <1>1 DEF ForceRelease, ForceStart, BeginFresh, Begin, Acquire, Awake, Interrupted, Parked,
                Release, Awaiting
  <2>2. PICK l \in {"idle", "forced", "opening", "next"} : Goto(r, l)
    BY <1>1 DEF ForceRelease, ForceStart, BeginFresh, Begin, Acquire, Awake, Interrupted, Parked,
                Release, Leave
  <2> QED BY <2>1, <2>2, AsideRefines DEF Queue!Next
<1>2. CASE Open(r)
  BY <1>2, OpenRefines DEF Queue!Next
<1>3. CASE \E a \in Apps : Dequeue(r, a)
  BY <1>3, DequeueRefines DEF Queue!Next
<1>4. CASE Missing(r) \/ Imported(r) \/ ImportFails(r)
  BY <1>4, SettleRefines DEF Queue!Next
<1>5. CASE Throttled(r)
  BY <1>5, ThrottledRefines DEF Queue!Next
<1>6. CASE Park(r)
  <2>1. pc[r] \in {"next", "throttled"} /\ Goto(r, "parking")
    BY <1>6 DEF Park
  <2>2. PICK s : s = [mem[r] EXCEPT !.status = "paused", !.current = NoApp]
    OBVIOUS
  <2>3. mem[r] \in Blobs /\ blob # NoBlob /\ blob.entry = mem[r].entry
    BY <2>1, Holds DEF Own, Owned, Walking, Follows, Empty
  <2>4. s \in Blobs /\ s.entry = mem[r].entry
    BY <2>2, <2>3 DEF Blobs, Statuses
  <2>5. blob' = s
    BY <1>6, <2>2 DEF Park, Persist
  <2>6. /\ blob' # NoBlob /\ Unsettled(blob') = Unsettled(blob)
        /\ WithStatus(blob', Outcomes) = WithStatus(blob, Outcomes)
    BY <2>3, <2>4, <2>5, NoBlobAssumption DEF Unsettled, WithStatus
  <2>7. Working' = {}
    BY <2>1, WorkingNext
  <2> QED BY <2>3, <2>6, <2>7, KeepRefines DEF Queue!Next
<1>7. CASE Finish(r)
  <2>1. Working = {} /\ Working' = {}
    BY <1>7, WorkingOne, WorkingNext DEF Finish
  <2> QED BY <1>7, <2>1, CloseRefines DEF Finish, Queue!Next
<1> QED BY <1>1, <1>2, <1>3, <1>4, <1>5, <1>6, <1>7 DEF Runs

LEMMA ButtonsRefine ==
    ASSUME RunInv, Own, NEW r \in Runners, Buttons(r)
    PROVE  UNCHANGED Queue!vars \/ Queue!Next
<1>1. \A q \in Runners : pc[q] = "idle"
  <2>1. Yielded /\ (~mutex \/ ~HasPendingWork)
    BY DEF Buttons, Start, ForceClear, ResumeQueue, CanStart
  <2> QED BY <2>1, NobodyAwaits
<1>2. Working = {}
  BY <1>1 DEF Working
<1>3. PICK l \in {"opening", "forcing", "acquiring"} : Goto(r, l)
  BY DEF Buttons, Start, BeginFresh, Begin, ForceClear, ResumeQueue
<1>4. Working' = {}
  BY <1>1, <1>3, WorkingNext
<1>5. CASE Start(r)
  BY <1>2, <1>4, <1>5, DropRefines DEF Start, BeginFresh, Begin, Queue!Next
<1>6. CASE ForceClear(r)
  BY <1>2, <1>4, <1>6, CloseRefines DEF ForceClear, Queue!Next
<1>7. CASE ResumeQueue(r)
  <2>1. blob # NoBlob /\ blob \in Blobs /\ blob' = [blob EXCEPT !.status = "running"]
    BY <1>7 DEF ResumeQueue, HasPendingWork, RunInv, TypeOK
  <2>2. blob' \in Blobs /\ blob'.entry = blob.entry
    BY <2>1 DEF Blobs, Statuses
  <2>3. /\ blob' # NoBlob /\ Unsettled(blob') = Unsettled(blob)
        /\ WithStatus(blob', Outcomes) = WithStatus(blob, Outcomes)
    BY <2>2, NoBlobAssumption DEF Unsettled, WithStatus
  <2> QED BY <1>2, <1>4, <2>1, <2>3, KeepRefines DEF Queue!Next
<1> QED BY <1>5, <1>6, <1>7 DEF Buttons

-----------------------------------------------------------------------------
(***************************************************************************)
(* The refinement.                                                         *)
(***************************************************************************)
LEMMA QueueStep ==
    ASSUME OwnInv, [Next]_vars
    PROVE  [Queue!Next]_(Queue!vars)
<1> USE DEF OwnInv
<1>1. ASSUME NEW r \in Runners, Buttons(r) \/ Runs(r)
      PROVE  UNCHANGED Queue!vars \/ Queue!Next
  BY <1>1, ButtonsRefine, RunnerRefines
<1>2. ASSUME NEW r \in Runners, Throws(r) PROVE UNCHANGED Queue!vars \/ Queue!Next
  <2>1. pc[r] # "idle" /\ Goto(r, "idle") /\ blob' = blob
    BY <1>2 DEF Throws, Leave
  <2> QED BY <2>1, AsideRefines DEF Queue!Next
<1>3. CASE Crash
  <2>1. Working' = {}
    BY <1>3 DEF Crash, Working
  <2> QED BY <1>3, <2>1, DropRefines DEF Crash, Queue!Next
<1>4. ASSUME NEW r \in Runners, BootResume(r) PROVE UNCHANGED Queue!vars \/ Queue!Next
  <2>1. /\ \A q \in Runners : pc[q] = "idle"
        /\ Goto(r, "opening") /\ blob' = blob
    BY <1>4 DEF BootResume, ImportLive, LiveRuns, Begin
  <2> QED BY <2>1, AsideRefines DEF Queue!Next
<1>5. ASSUME pc' = pc, mem' = mem PROVE Working' = Working
  BY <1>5 DEF Working
<1>6. ASSUME NEW status \in Statuses, blob # NoBlob, Working' = Working,
             blob' \in {[blob EXCEPT !.status = status],
                        [blob EXCEPT !.status = status, !.current = NoApp]}
      PROVE  UNCHANGED Queue!vars \/ Queue!Next
  <2>1. blob \in Blobs
    BY <1>6 DEF RunInv, TypeOK
  <2>2. blob' \in Blobs /\ blob'.entry = blob.entry
    BY <1>6, <2>1 DEF Blobs
  <2>3. /\ blob' # NoBlob /\ Unsettled(blob') = Unsettled(blob)
        /\ WithStatus(blob', Outcomes) = WithStatus(blob, Outcomes)
    BY <2>2, NoBlobAssumption DEF Unsettled, WithStatus
  <2> QED BY <1>6, <2>3, KeepRefines DEF Queue!Next
<1>7. ASSUME \A q \in Runners : pc[q] = "idle" /\ pc'[q] = "idle", blob' = NoBlob
      PROVE  UNCHANGED Queue!vars \/ Queue!Next
  <2>1. Working = {} /\ Working' = {}
    BY <1>7 DEF Working
  <2> QED BY <1>7, <2>1, CloseRefines DEF Queue!Next
<1>8. CASE Pause
  BY <1>5, <1>6, <1>8 DEF Pause, runner, Statuses, Requests
<1>9. CASE Cancel
  <2>1. CASE blob # NoBlob /\ mutex
    BY <1>5, <1>6, <1>9, <2>1 DEF Cancel, Statuses, Requests
  <2>2. CASE ~(blob # NoBlob /\ mutex)
    <3>1. \A q \in Runners : pc[q] = "idle" /\ pc'[q] = "idle"
      BY <1>9, <2>2, ClearingAlone
    <3> QED BY <1>7, <1>9, <2>2, <3>1 DEF Cancel
  <2> QED BY <2>1, <2>2
<1>10. CASE HealthCheck
  <2>1. \A q \in Runners : pc[q] = "idle" /\ pc'[q] = "idle"
    BY <1>10, ClearingAlone
  <2> QED BY <1>7, <1>10, <2>1 DEF HealthCheck
<1>11. ASSUME blob' = blob, pc' = pc, mem' = mem PROVE UNCHANGED Queue!vars
  BY <1>5, <1>11, StutterRefines
<1>12. CASE BootPark
  <2>1. CASE blob' = blob
    BY <1>11, <1>12, <2>1 DEF BootPark, runner
  <2>2. CASE blob' = NoBlob
    <3>1. \A q \in Runners : pc[q] = "idle" /\ pc'[q] = "idle"
      BY <1>12, ClearingAlone
    <3> QED BY <1>7, <2>2, <3>1
  <2>3. CASE IsPaused /\ blob' = [blob EXCEPT !.status = "paused", !.current = NoApp]
    BY <1>5, <1>6, <1>12, <2>3 DEF BootPark, runner, IsPaused, Statuses
  <2> QED BY <1>12, <2>1, <2>2, <2>3 DEF BootPark
<1>13. CASE Boot \/ BootNothing \/ BootUnlock \/ GoesStale
            \/ \E a \in Apps : AddApp(a) \/ DeleteApp(a)
  BY <1>11, <1>13 DEF Boot, BootNothing, BootUnlock, GoesStale, AddApp, DeleteApp, runner
<1>14. CASE UNCHANGED vars
  BY <1>11, <1>14 DEF vars, runner
<1> QED BY <1>1, <1>2, <1>3, <1>4, <1>8, <1>9, <1>10, <1>12, <1>13, <1>14 DEF Next, BootCheck

\* The bulk import implements the promise of every bulk job: over all buttons,
\* interleavings, crashes, throttled answers and failing writes, an app is
\* imported by one runner at a time, what is settled stays settled in its run,
\* and a run is given up only while nobody imports.
THEOREM WaybackImplementsQueue == Spec => QueueSpec
<1>1. Init => Queue!Init
  BY DEF Init, Queue!Init
<1>2. OwnInv /\ [Next]_vars => [Queue!Next]_(Queue!vars)
  BY QueueStep
<1> QED BY <1>1, <1>2, SpecOwn, PTL DEF Spec, QueueSpec, Queue!Spec

\* What the refinement comes to for the apps of a run: while its queue is stored,
\* through pauses, resumes, crashes and throttled answers, none is added, lost or
\* settled a second time, and one at most is being imported.
THEOREM WaybackOutcomesAreFinal ==
    Spec => /\ [][ blob # NoBlob /\ blob' # NoBlob =>
                     /\ Settleds \subseteq Settleds'
                     /\ Todo' \cup Settleds' = Todo \cup Settleds ]_vars
            /\ [](Working = {} \/ \E a \in Todo : Working = {a})
<1> DEFINE Only == Working = {} \/ \E a \in Todo : Working = {a}
<1>1. Queue!Init => Only
  BY DEF Queue!Init, Working
<1>2. Only /\ [Queue!Next]_(Queue!vars) => Only'
  <2> SUFFICES ASSUME Only, [Queue!Next]_(Queue!vars) PROVE Only'
    OBVIOUS
  <2> QED BY DEF Queue!Next, Queue!Open, Queue!Take, Queue!Settle, Queue!Drop, Queue!Close, Queue!vars,
                 Working, Todo
<1>3. [Queue!Next]_(Queue!vars) =>
        (blob # NoBlob /\ blob' # NoBlob =>
           /\ Settleds \subseteq Settleds'
           /\ Todo' \cup Settleds' = Todo \cup Settleds)
  BY DEF Queue!Next, Queue!Open, Queue!Take, Queue!Settle, Queue!Drop, Queue!Close, Queue!vars,
         Settleds, Todo, Outcomes
<1> QED BY <1>1, <1>2, <1>3, WaybackImplementsQueue, PTL DEF QueueSpec, Queue!Spec
=============================================================================
