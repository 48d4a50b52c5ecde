--------------------------- MODULE SyncPortProofs ---------------------------
(***************************************************************************)
(* Proofs about the bulk sync of the Rust server, for any number of apps,  *)
(* runners, dropped requests, crashes, 429s and failing writes.  What a    *)
(* run holds by itself, its counters among it, holds whatever comes in     *)
(* between its sections; that it is the only one, and so that the queue is *)
(* walked as BulkQueue promises, is claimed until the first start or       *)
(* health check that does come in between (overlaps = 0).                  *)
(***************************************************************************)
EXTENDS SyncPort, FiniteSetTheorems, TLAPS

Outcomes == Done \cup Failed
Attempts == {"in_progress", "succeeded", "changed", "failed"}
Synced == {"succeeded", "changed"}

\* The totals of a run are the counts of its entries.
Agrees(s) ==
    /\ s.totals.attempted = CountOf(s, Attempts)
    /\ s.totals.succeeded = CountOf(s, Synced)
    /\ s.totals.changes = CountOf(s, {"changed"})
    /\ s.totals.failed = CountOf(s, {"failed"})
    /\ s.totals.skipped = CountOf(s, {"skipped"})
    /\ s.totals.rateLimited = CountOf(s, {"rate_limited"})

\* What a runner at l may hold in memory.  Once Apple has limited the run, the
\* apps that will not be asked for are counted ahead.
Sound(l, s) ==
    /\ l \in {"idle", "checked"} => s = NoBlob
    /\ l \notin {"idle", "checked", "entered"} => s # NoBlob
    /\ l \in {"fetching", "missing"} =>
           s.current \in Apps /\ s.entry[s.current] = "in_progress"
    /\ s # NoBlob /\ l \notin {"stopping", "releasing"} => Agrees(s)

\* What every run holds by itself, overlapped or not.
RunInv ==
    /\ TypeOK
    /\ blob # NoBlob => Agrees(blob)
    /\ \A r \in Runners : Sound(pc[r], mem[r])

\* Before its first write a run is a new one with nothing stored, or the stored
\* one taken over with the same apps left to do and the same ones settled.
TakesOver(s) ==
    \/ blob = NoBlob /\ \A a \in Apps : s.entry[a] \in {"absent", "pending"}
    \/ /\ blob # NoBlob
       /\ Unsettled(s) = Unsettled(blob)
       /\ \A a \in Apps : s.entry[a] \in Outcomes <=> blob.entry[a] \in Outcomes

\* What a run knows of the store while no other came in between.
Owned(r) ==
    /\ pc[r] # "idle" => boot \in {"waiting", "done"}
    /\ pc[r] = "checked" => CanStart
    /\ pc[r] = "resuming" => HasPending
    /\ pc[r] \notin {"idle"} \cup Starting => mutex
    /\ pc[r] \in Starting \cup Awaiting \cup {"next", "missing"} => blob = mem[r]
    /\ pc[r] = "opening" => TakesOver(mem[r])
    /\ pc[r] \in {"clearing", "stopping"} => blob # NoBlob

\* There is one run at most, and the store is its own.
Own ==
    /\ \A q, r \in Runners : pc[q] # "idle" /\ pc[r] # "idle" => q = r
    /\ \A r \in Runners : Owned(r)

OwnInv == overlaps = 0 => Own

-----------------------------------------------------------------------------
(***************************************************************************)
(* The operators the model is built from keep a run state well formed.     *)
(***************************************************************************)

\* A set of apps has a number of members.
LEMMA CountType ==
    ASSUME NEW S \in SUBSET Apps
    PROVE  Cardinality(S) \in Nat
  BY AppsAssumption, FS_Subset, FS_CardinalityType

\* A fresh run is a well-formed run state.
LEMMA NewRunType ==
    ASSUME NEW id \in RunIds
    PROVE  NewRun(id) \in Blobs
  BY DEF NewRun, Blobs, Entries, Totals, Done, Failed

\* A run taken over is well formed, with nothing in flight and everything that
\* was not settled pending.
LEMMA ResumedType ==
    ASSUME NEW s \in Blobs
    PROVE  /\ Resumed(s) \in Blobs
           /\ \A a \in Apps : Resumed(s).entry[a] =
                IF s.entry[a] = "in_progress" THEN "pending" ELSE s.entry[a]
           /\ LET left == s.totals.attempted - Cardinality(InFlight(s)) IN
              Resumed(s).totals =
                [s.totals EXCEPT !.attempted = IF left < 0 THEN 0 ELSE left]
<1> DEFINE left == s.totals.attempted - Cardinality(InFlight(s))
           n == IF left < 0 THEN 0 ELSE left
           e == [a \in Apps |-> IF a \in InFlight(s) THEN "pending" ELSE s.entry[a]]
           t == [s.totals EXCEPT !.attempted = n]
<1>1. Cardinality(InFlight(s)) \in Nat
  BY CountType DEF InFlight
<1>2. n \in Int
  BY <1>1 DEF Blobs, Totals
<1>3. e \in [Apps -> Entries]
  BY DEF Blobs, Entries
<1>4. t \in Totals
  <2> HIDE DEF n
  <2> QED BY <1>2 DEF Blobs, Totals
<1>5. Resumed(s) = [s EXCEPT !.entry = e, !.totals.attempted = n]
  BY DEF Resumed
<1>6. Resumed(s) \in Blobs /\ Resumed(s).entry = e /\ Resumed(s).totals = t
  <2> HIDE DEF e, n
  <2> QED BY <1>3, <1>4, <1>5 DEF Blobs
<1>7. \A a \in Apps : e[a] = IF s.entry[a] = "in_progress" THEN "pending" ELSE s.entry[a]
  BY DEF InFlight
<1> QED BY <1>6, <1>7

\* Taking a run over settles and loses nothing.
LEMMA ResumedKeeps ==
    ASSUME NEW s \in Blobs
    PROVE  /\ Unsettled(Resumed(s)) = Unsettled(s)
           /\ \A a \in Apps : Resumed(s).entry[a] \in Outcomes <=> s.entry[a] \in Outcomes
<1>1. \A a \in Apps : Resumed(s).entry[a] =
        IF s.entry[a] = "in_progress" THEN "pending" ELSE s.entry[a]
  BY ResumedType
<1>2. "in_progress" \notin Outcomes /\ "pending" \notin Outcomes
  BY DEF Outcomes, Done, Failed
<1> QED BY <1>1, <1>2 DEF Unsettled, Pending, InFlight

\* Counting one attempt.
LEMMA AttemptType ==
    ASSUME NEW t \in Totals, NEW n \in Int
    PROVE  [t EXCEPT !.attempted = n] \in Totals
  BY DEF Totals

\* What the totals of a run become when its app is settled.
LEMMA SkippedTotals ==
    ASSUME NEW t \in Totals
    PROVE  LET n == [t EXCEPT !.skipped = @ + 1, !.attempted = @ - 1] IN
           /\ n \in Totals /\ n.attempted = t.attempted - 1
           /\ n.succeeded = t.succeeded /\ n.changes = t.changes /\ n.failed = t.failed
           /\ n.skipped = t.skipped + 1 /\ n.rateLimited = t.rateLimited
<1> DEFINE u == [t EXCEPT !.skipped = @ + 1]
           n == [t EXCEPT !.skipped = @ + 1, !.attempted = @ - 1]
<1>1. u \in Totals /\ u.attempted = t.attempted
  BY DEF Totals
<1>2. n = [u EXCEPT !.attempted = u.attempted - 1]
  BY DEF Totals
<1>3. u.attempted - 1 \in Int
  BY <1>1 DEF Totals
<1>4. n \in Totals
  <2> HIDE DEF u, n
  <2> QED BY <1>1, <1>2, <1>3, AttemptType
<1> QED BY <1>4 DEF Totals

LEMMA FailedTotals ==
    ASSUME NEW t \in Totals
    PROVE  LET n == [t EXCEPT !.failed = @ + 1] IN
           /\ n \in Totals /\ n.attempted = t.attempted
           /\ n.succeeded = t.succeeded /\ n.changes = t.changes /\ n.failed = t.failed + 1
           /\ n.skipped = t.skipped /\ n.rateLimited = t.rateLimited
  BY DEF Totals

LEMMA LimitedTotals ==
    ASSUME NEW t \in Totals
    PROVE  LET n == [t EXCEPT !.rateLimited = @ + 1, !.attempted = @ - 1] IN
           /\ n \in Totals /\ n.attempted = t.attempted - 1
           /\ n.succeeded = t.succeeded /\ n.changes = t.changes /\ n.failed = t.failed
           /\ n.skipped = t.skipped /\ n.rateLimited = t.rateLimited + 1
<1> DEFINE u == [t EXCEPT !.rateLimited = @ + 1]
           n == [t EXCEPT !.rateLimited = @ + 1, !.attempted = @ - 1]
<1>1. u \in Totals /\ u.attempted = t.attempted
  BY DEF Totals
<1>2. n = [u EXCEPT !.attempted = u.attempted - 1]
  BY DEF Totals
<1>3. u.attempted - 1 \in Int
  BY <1>1 DEF Totals
<1>4. n \in Totals
  <2> HIDE DEF u, n
  <2> QED BY <1>1, <1>2, <1>3, AttemptType
<1> QED BY <1>4 DEF Totals

LEMMA SucceededTotals ==
    ASSUME NEW t \in Totals, NEW changed \in BOOLEAN
    PROVE  LET n == Succeeded(t, changed) IN
           /\ n \in Totals /\ n.attempted = t.attempted
           /\ n.succeeded = t.succeeded + 1
           /\ n.changes = IF changed THEN t.changes + 1 ELSE t.changes
           /\ n.failed = t.failed /\ n.skipped = t.skipped /\ n.rateLimited = t.rateLimited
<1> DEFINE n == Succeeded(t, changed)
           c == IF changed THEN t.changes + 1 ELSE t.changes
<1>1. c \in Int /\ t.succeeded + 1 \in Int
  BY DEF Totals
<1>2. n = [t EXCEPT !.succeeded = t.succeeded + 1, !.changes = c]
  BY DEF Succeeded, Totals
<1> HIDE DEF n
<1>3. n.changes = c
  <2> HIDE DEF c
  <2> QED BY <1>2 DEF Totals
<1>4. /\ n \in Totals /\ n.attempted = t.attempted /\ n.succeeded = t.succeeded + 1
      /\ n.failed = t.failed /\ n.skipped = t.skipped /\ n.rateLimited = t.rateLimited
  <2> HIDE DEF c
  <2> QED BY <1>1, <1>2 DEF Totals
<1> QED BY <1>3, <1>4 DEF n

\* Marking a pending app in flight.
Dequeued(s, a) ==
    [s EXCEPT !.entry[a] = "in_progress", !.current = a, !.totals.attempted = @ + 1]

LEMMA DequeuedType ==
    ASSUME NEW s \in Blobs, NEW a \in Apps
    PROVE  /\ Dequeued(s, a) \in Blobs
           /\ Dequeued(s, a).current = a
           /\ Dequeued(s, a).entry[a] = "in_progress"
           /\ \A b \in Apps : b # a => Dequeued(s, a).entry[b] = s.entry[b]
           /\ Dequeued(s, a).totals = [s.totals EXCEPT !.attempted = @ + 1]
<1> DEFINE e == [s.entry EXCEPT ![a] = "in_progress"]
           t == [s.totals EXCEPT !.attempted = @ + 1]
<1>1. /\ e \in [Apps -> Entries] /\ e[a] = "in_progress"
      /\ \A b \in Apps : b # a => e[b] = s.entry[b]
  BY DEF Blobs, Entries
<1>2. t \in Totals
  BY DEF Blobs, Totals
<1>3. Dequeued(s, a) = [s EXCEPT !.entry = e, !.current = a, !.totals = t]
  BY DEF Dequeued
<1>4. /\ Dequeued(s, a) \in Blobs /\ Dequeued(s, a).current = a
      /\ Dequeued(s, a).entry = e /\ Dequeued(s, a).totals = t
  <2> HIDE DEF e, t
  <2> QED BY <1>1, <1>2, <1>3 DEF Blobs
<1> QED BY <1>1, <1>4

\* Settling the app in flight.
LEMMA SettledType ==
    ASSUME NEW s \in Blobs, s.current \in Apps,
           NEW outcome \in Outcomes, NEW totals \in Totals
    PROVE  LET u == Settled(s, outcome, totals) IN
           /\ u \in Blobs
           /\ u.totals = totals
           /\ \A b \in Apps : u.entry[b] = IF b = s.current THEN outcome ELSE s.entry[b]
<1> DEFINE e == [s.entry EXCEPT ![s.current] = outcome]
           u == Settled(s, outcome, totals)
<1>1. e \in [Apps -> Entries]
  BY DEF Blobs, Entries, Outcomes
<1>2. \A b \in Apps : e[b] = IF b = s.current THEN outcome ELSE s.entry[b]
  BY DEF Blobs
<1>3. u = [s EXCEPT !.entry = e, !.current = NoApp, !.totals = totals]
  BY DEF Settled
<1>4. u \in Blobs /\ u.entry = e /\ u.totals = totals
  <2> HIDE DEF e
  <2> QED BY <1>1, <1>3 DEF Blobs
<1> QED BY <1>2, <1>4

-----------------------------------------------------------------------------
(***************************************************************************)
(* Counting entries.                                                       *)
(***************************************************************************)

\* Counts depend on the entries only.
LEMMA CountSame ==
    ASSUME NEW s, NEW u, NEW S, \A a \in Apps : u.entry[a] \in S <=> s.entry[a] \in S
    PROVE  CountOf(u, S) = CountOf(s, S)
<1>1. {a \in Apps : u.entry[a] \in S} = {a \in Apps : s.entry[a] \in S}
  OBVIOUS
<1> QED BY <1>1 DEF CountOf

\* One entry moves from one status to another.
LEMMA CountMoves ==
    ASSUME NEW s, NEW u, NEW a \in Apps,
           \A b \in Apps : b # a => u.entry[b] = s.entry[b],
           NEW S
    PROVE  /\ (s.entry[a] \in S <=> u.entry[a] \in S) => CountOf(u, S) = CountOf(s, S)
           /\ s.entry[a] \in S /\ u.entry[a] \notin S => CountOf(u, S) = CountOf(s, S) - 1
           /\ s.entry[a] \notin S /\ u.entry[a] \in S => CountOf(u, S) = CountOf(s, S) + 1
<1> DEFINE X == {b \in Apps : s.entry[b] \in S}
           Y == {b \in Apps : u.entry[b] \in S}
<1>1. (s.entry[a] \in S <=> u.entry[a] \in S) => CountOf(u, S) = CountOf(s, S)
  <2>1. (s.entry[a] \in S <=> u.entry[a] \in S)
           => \A b \in Apps : u.entry[b] \in S <=> s.entry[b] \in S
    OBVIOUS
  <2> QED BY <2>1, CountSame
<1>2. IsFiniteSet(X)
  BY AppsAssumption, FS_Subset
<1>3. CountOf(u, S) = Cardinality(Y) /\ CountOf(s, S) = Cardinality(X)
  BY DEF CountOf
<1>4. ASSUME s.entry[a] \in S, u.entry[a] \notin S PROVE CountOf(u, S) = CountOf(s, S) - 1
  <2>1. Y = X \ {a} /\ a \in X
    BY <1>4
  <2> HIDE DEF X, Y
  <2> QED BY <1>2, <1>3, <2>1, FS_RemoveElement
<1>5. ASSUME s.entry[a] \notin S, u.entry[a] \in S PROVE CountOf(u, S) = CountOf(s, S) + 1
  <2>1. Y = X \cup {a} /\ a \notin X
    BY <1>5
  <2> HIDE DEF X, Y
  <2> QED BY <1>2, <1>3, <2>1, FS_AddElement
<1> QED BY <1>1, <1>4, <1>5

\* A new run counts nothing.
LEMMA NewRunAgrees ==
    ASSUME NEW id \in RunIds
    PROVE  Agrees(NewRun(id))
<1> DEFINE s == NewRun(id)
<1>1. \A a \in Apps : s.entry[a] \in {"absent", "pending"}
  BY DEF NewRun
<1>2. /\ s.totals.attempted = 0 /\ s.totals.failed = 0 /\ s.totals.skipped = 0
      /\ s.totals.rateLimited = 0 /\ s.totals.succeeded = 0 /\ s.totals.changes = 0
  BY DEF NewRun
<1> HIDE DEF s
<1>3. ASSUME NEW S, "absent" \notin S, "pending" \notin S PROVE CountOf(s, S) = 0
  <2>1. {a \in Apps : s.entry[a] \in S} = {}
    BY <1>1, <1>3
  <2> QED BY <2>1, FS_EmptySet DEF CountOf
<1>4. CountOf(s, Attempts) = 0 /\ CountOf(s, Synced) = 0
  BY <1>3 DEF Attempts, Synced
<1>5. /\ CountOf(s, {"failed"}) = 0 /\ CountOf(s, {"skipped"}) = 0
      /\ CountOf(s, {"rate_limited"}) = 0 /\ CountOf(s, {"changed"}) = 0
  BY <1>3
<1> QED BY <1>2, <1>4, <1>5 DEF Agrees, s

\* Un-counting what a dead process was fetching keeps a run in agreement.
LEMMA ResumedAgrees ==
    ASSUME NEW s \in Blobs, Agrees(s)
    PROVE  Agrees(Resumed(s))
<1> DEFINE left == s.totals.attempted - Cardinality(InFlight(s))
           n == IF left < 0 THEN 0 ELSE left
           u == Resumed(s)
           Kept == {"succeeded", "changed", "failed"}
           K == {a \in Apps : s.entry[a] \in Kept}
<1>1. /\ \A a \in Apps : u.entry[a] = IF s.entry[a] = "in_progress" THEN "pending" ELSE s.entry[a]
      /\ u.totals = [s.totals EXCEPT !.attempted = n]
  BY ResumedType
<1> HIDE DEF u
<1>2. ASSUME NEW S, "pending" \notin S, "in_progress" \notin S PROVE CountOf(u, S) = CountOf(s, S)
  <2>1. \A a \in Apps : u.entry[a] \in S <=> s.entry[a] \in S
    BY <1>1, <1>2
  <2> QED BY <2>1, CountSame
<1>3. n = CountOf(u, Attempts)
  <2>1. IsFiniteSet(InFlight(s)) /\ IsFiniteSet(K)
    BY AppsAssumption, FS_Subset DEF InFlight
  <2>2. {a \in Apps : s.entry[a] \in Attempts} = InFlight(s) \cup K /\ InFlight(s) \cap K = {}
    BY DEF InFlight, Attempts
  <2>3. CountOf(s, Attempts) = Cardinality(InFlight(s) \cup K)
    BY <2>2 DEF CountOf
  <2>4. \A a \in Apps : u.entry[a] \in Attempts <=> s.entry[a] \in Kept
    BY <1>1 DEF Attempts
  <2>5. {a \in Apps : u.entry[a] \in Attempts} = K
    BY <2>4
  <2>6. CountOf(u, Attempts) = Cardinality(K)
    BY <2>5 DEF CountOf
  <2>7. Cardinality(InFlight(s)) \in Nat /\ Cardinality(K) \in Nat
    BY <2>1, FS_CardinalityType
  <2>8. s.totals.attempted = CountOf(s, Attempts)
    BY DEF Agrees
  <2> HIDE DEF K
  <2>9. Cardinality(InFlight(s) \cap K) = 0
    BY <2>2, FS_EmptySet
  <2>10. Cardinality(InFlight(s) \cup K)
           = Cardinality(InFlight(s)) + Cardinality(K) - Cardinality(InFlight(s) \cap K)
    BY <2>1, FS_Union
  <2>11. left = Cardinality(K)
    BY <2>3, <2>7, <2>8, <2>9, <2>10
  <2> HIDE DEF left
  <2> QED BY <2>6, <2>7, <2>11
<1>4. /\ u.totals.attempted = n
      /\ u.totals.failed = s.totals.failed /\ u.totals.skipped = s.totals.skipped
      /\ u.totals.rateLimited = s.totals.rateLimited
      /\ u.totals.succeeded = s.totals.succeeded /\ u.totals.changes = s.totals.changes
  <2> HIDE DEF n
  <2> QED BY <1>1 DEF Blobs, Totals
<1>5. CountOf(u, Synced) = CountOf(s, Synced)
  BY <1>2 DEF Synced
<1>6. /\ CountOf(u, {"failed"}) = CountOf(s, {"failed"})
      /\ CountOf(u, {"skipped"}) = CountOf(s, {"skipped"})
      /\ CountOf(u, {"rate_limited"}) = CountOf(s, {"rate_limited"})
      /\ CountOf(u, {"changed"}) = CountOf(s, {"changed"})
  BY <1>2
<1> HIDE DEF n
<1> QED BY <1>3, <1>4, <1>5, <1>6 DEF Agrees, u

\* Taking a pending app counts one attempt.
LEMMA DequeuedAgrees ==
    ASSUME NEW s \in Blobs, NEW a \in Pending(s), Agrees(s)
    PROVE  Agrees(Dequeued(s, a))
<1> DEFINE u == Dequeued(s, a)
<1>1. a \in Apps /\ s.entry[a] = "pending"
  BY DEF Pending
<1>2. /\ u.entry[a] = "in_progress" /\ \A b \in Apps : b # a => u.entry[b] = s.entry[b]
      /\ u.totals = [s.totals EXCEPT !.attempted = @ + 1]
  BY <1>1, DequeuedType
<1> HIDE DEF u
<1>3. /\ u.totals.attempted = s.totals.attempted + 1
      /\ u.totals.failed = s.totals.failed /\ u.totals.skipped = s.totals.skipped
      /\ u.totals.rateLimited = s.totals.rateLimited
      /\ u.totals.succeeded = s.totals.succeeded /\ u.totals.changes = s.totals.changes
  BY <1>2 DEF Blobs, Totals
<1>4. ASSUME NEW S
      PROVE  /\ "pending" \notin S /\ "in_progress" \in S => CountOf(u, S) = CountOf(s, S) + 1
             /\ "pending" \notin S /\ "in_progress" \notin S => CountOf(u, S) = CountOf(s, S)
  <2>1. /\ s.entry[a] \notin S /\ u.entry[a] \in S => CountOf(u, S) = CountOf(s, S) + 1
        /\ (s.entry[a] \in S <=> u.entry[a] \in S) => CountOf(u, S) = CountOf(s, S)
    BY ONLY <1>1, <1>2, CountMoves
  <2> QED BY <1>1, <1>2, <2>1
<1>5. CountOf(u, Attempts) = CountOf(s, Attempts) + 1
  BY <1>4 DEF Attempts
<1>6. CountOf(u, Synced) = CountOf(s, Synced)
  BY <1>4 DEF Synced
<1>7. /\ CountOf(u, {"failed"}) = CountOf(s, {"failed"})
      /\ CountOf(u, {"skipped"}) = CountOf(s, {"skipped"})
      /\ CountOf(u, {"rate_limited"}) = CountOf(s, {"rate_limited"})
      /\ CountOf(u, {"changed"}) = CountOf(s, {"changed"})
  BY <1>4
<1> QED BY <1>3, <1>5, <1>6, <1>7 DEF Agrees, u

\* Settling the app in flight keeps the agreement when the new totals count its
\* outcome once.
LEMMA SettledAgrees ==
    ASSUME NEW s \in Blobs, s.current \in Apps, s.entry[s.current] = "in_progress",
           NEW outcome \in Outcomes, NEW t \in Totals, Agrees(s),
           t.attempted = IF outcome \in Attempts THEN s.totals.attempted
                                                 ELSE s.totals.attempted - 1,
           t.succeeded = IF outcome \in Synced THEN s.totals.succeeded + 1
                                               ELSE s.totals.succeeded,
           t.changes = IF outcome = "changed" THEN s.totals.changes + 1
                                              ELSE s.totals.changes,
           t.failed = IF outcome = "failed" THEN s.totals.failed + 1 ELSE s.totals.failed,
           t.skipped = IF outcome = "skipped" THEN s.totals.skipped + 1 ELSE s.totals.skipped,
           t.rateLimited = IF outcome = "rate_limited" THEN s.totals.rateLimited + 1
                                                       ELSE s.totals.rateLimited
    PROVE  Agrees(Settled(s, outcome, t))
<1> DEFINE u == Settled(s, outcome, t)
           i == s.current
<1>1. /\ u.totals = t
      /\ \A b \in Apps : u.entry[b] = IF b = i THEN outcome ELSE s.entry[b]
  BY SettledType
<1> HIDE DEF u
<1>2. i \in Apps /\ s.entry[i] = "in_progress" /\ u.entry[i] = outcome
  BY <1>1
<1> HIDE DEF i
<1>3. ASSUME NEW S
      PROVE  /\ "in_progress" \in S /\ outcome \in S => CountOf(u, S) = CountOf(s, S)
             /\ "in_progress" \in S /\ outcome \notin S => CountOf(u, S) = CountOf(s, S) - 1
             /\ "in_progress" \notin S /\ outcome \in S => CountOf(u, S) = CountOf(s, S) + 1
             /\ "in_progress" \notin S /\ outcome \notin S => CountOf(u, S) = CountOf(s, S)
  BY <1>1, <1>2, CountMoves
<1>4. CountOf(u, Attempts) =
        IF outcome \in Attempts THEN CountOf(s, Attempts) ELSE CountOf(s, Attempts) - 1
  BY <1>3 DEF Attempts
<1>5. CountOf(u, Synced) =
        IF outcome \in Synced THEN CountOf(s, Synced) + 1 ELSE CountOf(s, Synced)
  BY <1>3 DEF Synced
<1>6. ASSUME NEW o, o # "in_progress"
      PROVE  CountOf(u, {o}) = IF outcome = o THEN CountOf(s, {o}) + 1 ELSE CountOf(s, {o})
  BY <1>3, <1>6
<1>7. t.failed = CountOf(u, {"failed"}) /\ t.skipped = CountOf(u, {"skipped"})
  BY <1>6 DEF Agrees
<1>8. t.rateLimited = CountOf(u, {"rate_limited"}) /\ t.changes = CountOf(u, {"changed"})
  BY <1>6 DEF Agrees
<1>9. t.attempted = CountOf(u, Attempts) /\ t.succeeded = CountOf(u, Synced)
  BY <1>4, <1>5 DEF Agrees
<1> QED BY <1>1, <1>7, <1>8, <1>9 DEF Agrees, u

-----------------------------------------------------------------------------
(***************************************************************************)
(* What a run holds by itself.                                             *)
(***************************************************************************)
Places == {"idle"} \cup Starting \cup Awaiting \cup Between \cup Held

\* The variables a step of any kind keeps well formed by its own assignments.
PlainType ==
    /\ mutex \in BOOLEAN
    /\ stale \in BOOLEAN
    /\ due \in BOOLEAN
    /\ boot \in {"down", "waiting", "healing", "done"}
    /\ pc \in [Runners -> Places]
    /\ who \in [Runners -> Initiators]
    /\ overlaps \in Nat
    /\ drops \in Nat
    /\ crashes \in Nat
    /\ limits \in Nat
    /\ faults \in Nat

LEMMA PlainNext == TypeOK /\ [Next]_vars => PlainType'
<1> SUFFICES ASSUME TypeOK, [Next]_vars PROVE PlainType'
  OBVIOUS
<1> USE DEF TypeOK, PlainType, Places, disk, bounds
<1>1. ASSUME NEW r \in Runners, NEW l \in Places, Goto(r, l) PROVE pc' \in [Runners -> Places]
  BY <1>1 DEF Goto
<1>2. ASSUME NEW S, Ends(S)
      PROVE  pc' \in [Runners -> Places] /\ who' \in [Runners -> Initiators]
  BY <1>2 DEF Ends, Initiators
<1>3. ASSUME NEW r \in Runners, NEW asker \in Initiators, Check(r, asker) PROVE PlainType'
  <2>1. pc' \in [Runners -> Places]
    BY <1>1, <1>3 DEF Check, Starting
  <2>2. overlaps' \in Nat
    BY <1>3 DEF Check, Overlapping
  <2>3. who' \in [Runners -> Initiators]
    BY <1>3 DEF Check
  <2> QED BY <1>3, <2>1, <2>2, <2>3 DEF Check
<1>4. CASE \E r \in Runners : Trigger(r) \/ SchedulerTick(r)
  BY <1>3, <1>4 DEF Trigger, SchedulerTick, Initiators
<1>5. ASSUME NEW r \in Runners, Enter(r) \/ Open(r) \/ Opened(r) PROVE PlainType'
  <2>1. PICK l \in {"entered", "opening", "clearing", "next"} : Goto(r, l)
    BY <1>5 DEF Enter, Open, Opened
  <2>2. pc' \in [Runners -> Places]
    BY <1>1, <2>1 DEF Starting, Between, Held
  <2> QED BY <1>5, <2>2 DEF Enter, Open, Opened, Persist
<1>6. ASSUME NEW r \in Runners, Skip(r) \/ Settles(r) \/ \E a \in Apps : Dequeue(r, a)
      PROVE  PlainType'
  <2>0. FetchLimited(r) => limits' \in Nat
    <3>1. FetchLimited(r) => limits' = limits + 1
      BY DEF FetchLimited
    <3> QED BY <3>1
  <2>1. PICK l \in {"next", "fetching", "missing", "stopping"} : Goto(r, l)
    BY <1>6 DEF Skip, Settles, FetchOk, FetchFails, FetchLimited, Dequeue
  <2>2. pc' \in [Runners -> Places]
    BY <1>1, <2>1 DEF Awaiting, Between, Held
  <2>3. CASE FetchLimited(r)
    <3>1. /\ stale' = FALSE
          /\ UNCHANGED <<mutex, due, boot, who, overlaps, drops, crashes, faults>>
      BY <2>3 DEF FetchLimited
    <3> QED BY <2>0, <2>2, <2>3, <3>1
  <2>4. CASE Skip(r) \/ FetchFails(r) \/ \E changed \in BOOLEAN : FetchOk(r, changed)
    BY <2>2, <2>4 DEF Skip, FetchOk, FetchFails, Persist
  <2>5. CASE \E a \in Apps : Dequeue(r, a)
    BY <2>2, <2>5 DEF Dequeue, Persist
  <2> QED BY <1>6, <2>3, <2>4, <2>5 DEF Settles
<1>7. ASSUME NEW r \in Runners, Stamp(r) \/ Clear(r) PROVE PlainType'
  <2>1. PICK l \in {"next", "clearing", "releasing"} : Goto(r, l)
    BY <1>7 DEF Stamp, Clear
  <2>2. pc' \in [Runners -> Places]
    BY <1>1, <2>1 DEF Between, Held
  <2> QED BY <1>7, <2>2 DEF Stamp, Clear
<1>8. ASSUME NEW r \in Runners, Release(r) \/ Abort(r) \/ Disconnect(r) PROVE PlainType'
  <2>1. pc' \in [Runners -> Places] /\ who' \in [Runners -> Initiators]
    BY <1>2, <1>8 DEF Release, Abort, Disconnect
  <2>2. CASE Release(r)
    BY <2>1, <2>2 DEF Release
  <2>3. CASE Abort(r)
    BY <2>1, <2>3 DEF Abort
  <2>4. CASE Disconnect(r)
    BY <2>1, <2>4 DEF Disconnect
  <2> QED BY <1>8, <2>2, <2>3, <2>4
<1>9. CASE Crash
  <2>1. pc' \in [Runners -> Places] /\ who' \in [Runners -> Initiators]
    BY <1>2, <1>9 DEF Crash
  <2> QED BY <1>9, <2>1 DEF Crash
<1>10. ASSUME NEW r \in Runners, Resume(r) PROVE PlainType'
  <2>1. pc' \in [Runners -> Places]
    BY <1>1, <1>10 DEF Resume, Starting
  <2>2. overlaps' \in Nat
    BY <1>10 DEF Resume, Overlapping
  <2>3. who' \in [Runners -> Initiators]
    BY <1>10 DEF Resume, Initiators
  <2> QED BY <1>10, <2>1, <2>2, <2>3 DEF Resume
<1>11. CASE Boot \/ ResumeNothing \/ HealLock \/ HealBlob \/ BecomesDue \/ GoesStale
  BY <1>11 DEF Boot, ResumeNothing, HealLock, HealBlob, BecomesDue, GoesStale, runs
<1>12. CASE HealthCheck
  <2>1. overlaps' \in Nat
    BY <1>12 DEF HealthCheck, Overlapping
  <2> QED BY <1>12, <2>1 DEF HealthCheck, runs
<1>13. CASE \E a \in Apps : AddApp(a) \/ DeleteApp(a)
  BY <1>13 DEF AddApp, DeleteApp, runs
<1>14. CASE UNCHANGED vars
  BY <1>14 DEF vars, runs
<1> QED BY <1>4, <1>5, <1>6, <1>7, <1>8, <1>9, <1>10, <1>11, <1>12, <1>13, <1>14
        DEF Next, Runs, BootCheck

\* The next state is sound when what it holds and stores is.
LEMMA NextSound ==
    ASSUME TypeOK', NEW b, blob' = b, b # NoBlob => Agrees(b),
           NEW p, pc' = p, NEW m, mem' = m, \A q \in Runners : Sound(p[q], m[q])
    PROVE  RunInv'
<1>1. (blob # NoBlob => Agrees(blob))'
  BY DEF Agrees, CountOf
<1>2. ASSUME NEW q \in Runners PROVE Sound(pc[q], mem[q])'
  <2>1. p[q] = pc'[q] /\ m[q] = mem'[q]
    OBVIOUS
  <2>2. Sound(p[q], m[q])
    OBVIOUS
  <2>3. Sound(pc'[q], mem'[q])
    BY <2>1, <2>2
  <2> QED BY <2>3 DEF Sound, Agrees, CountOf
<1> QED BY <1>1, <1>2 DEF RunInv

\* A step of one runner, which keeps or replaces what it holds and what is stored.
LEMMA StepSound ==
    ASSUME RunInv, PlainType', NEW r \in Runners, NEW l, Goto(r, l),
           NEW s \in Blobs \cup {NoBlob}, mem' = [mem EXCEPT ![r] = s], Sound(l, s),
           NEW b \in Blobs \cup {NoBlob}, blob' = b, b # NoBlob => Agrees(b),
           apps' \subseteq Apps
    PROVE  RunInv'
<1>1. mem' \in [Runners -> Blobs \cup {NoBlob}]
  BY DEF RunInv, TypeOK
<1>2. TypeOK'
  BY <1>1 DEF PlainType, TypeOK, Places
<1>3. \A q \in Runners : Sound(pc'[q], mem'[q])
  BY DEF RunInv, TypeOK, Goto
<1> QED BY <1>2, <1>3, NextSound

\* A step that ends runs and stores nothing.
LEMMA EndsSound ==
    ASSUME RunInv, PlainType', NEW S, Ends(S), blob' = blob, apps' \subseteq Apps
    PROVE  RunInv'
<1>1. mem' \in [Runners -> Blobs \cup {NoBlob}]
  BY DEF RunInv, TypeOK, Ends
<1>2. TypeOK'
  BY <1>1 DEF PlainType, TypeOK, Places, RunInv
<1>3. Sound("idle", NoBlob)
  BY DEF Sound
<1>4. \A q \in Runners : Sound(pc'[q], mem'[q])
  BY <1>3 DEF RunInv, Ends
<1>5. blob # NoBlob => Agrees(blob)
  BY DEF RunInv
<1> QED BY <1>2, <1>4, <1>5, NextSound

\* A step that leaves the runs alone.
LEMMA AsideSound ==
    ASSUME RunInv, PlainType', pc' = pc, mem' = mem,
           blob' = blob \/ blob' = NoBlob, apps' \subseteq Apps
    PROVE  RunInv'
<1>1. TypeOK'
  BY DEF PlainType, TypeOK, Places, RunInv
<1>2. PICK b \in {blob, NoBlob} : blob' = b
  OBVIOUS
<1>3. b # NoBlob => Agrees(b)
  BY DEF RunInv
<1>4. \A q \in Runners : Sound(pc[q], mem[q])
  BY DEF RunInv
<1> QED BY <1>1, <1>2, <1>3, <1>4, NextSound

\* A run opens on a new queue or on the one it took over.
LEMMA OpenSound ==
    ASSUME RunInv, PlainType', NEW r \in Runners, Open(r)
    PROVE  RunInv'
<1>1. PICK id \in RunIds : mem' = [mem EXCEPT ![r] = Seeded(r, id)]
  BY DEF Open
<1>2. PICK s \in Blobs : s = Seeded(r, id) /\ Agrees(s)
  <2>1. CASE mem[r] = NoBlob
    BY <2>1, NewRunType, NewRunAgrees DEF Seeded
  <2>2. CASE mem[r] # NoBlob
    <3>1. mem[r] \in Blobs /\ Agrees(mem[r])
      BY <2>2 DEF RunInv, TypeOK, Sound, Open
    <3> QED BY <2>2, <3>1, ResumedType, ResumedAgrees DEF Seeded
  <2> QED BY <2>1, <2>2
<1>3. Sound("opening", s)
  BY <1>2, NoBlobAssumption DEF Sound
<1>4. blob' = blob /\ blob \in Blobs \cup {NoBlob} /\ (blob # NoBlob => Agrees(blob))
  BY DEF Open, RunInv, TypeOK
<1>5. Goto(r, "opening") /\ apps' \subseteq Apps
  BY DEF Open, RunInv, TypeOK
<1>6. mem' = [mem EXCEPT ![r] = s]
  BY <1>1, <1>2
<1> HIDE DEF Seeded
<1> QED BY <1>3, <1>4, <1>5, <1>6, StepSound

\* A run writes what it holds.
LEMMA PersistSound ==
    ASSUME RunInv, PlainType', NEW r \in Runners, NEW s \in Blobs, Agrees(s), Persist(r, s),
           NEW l \in {"next", "clearing", "fetching", "missing"}, Goto(r, l),
           l \in {"fetching", "missing"} =>
               s.current \in Apps /\ s.entry[s.current] = "in_progress",
           apps' \subseteq Apps
    PROVE  RunInv'
<1>1. Sound(l, s)
  BY NoBlobAssumption DEF Sound
<1>2. mem' = [mem EXCEPT ![r] = s] /\ blob' = s
  BY DEF Persist
<1> QED BY <1>1, <1>2, StepSound

LEMMA SettlesSound ==
    ASSUME RunInv, PlainType', NEW r \in Runners, Skip(r) \/ Settles(r)
    PROVE  RunInv'
<1> DEFINE s == mem[r]
           t == s.totals
<1>1. /\ s \in Blobs /\ t \in Totals /\ Agrees(s)
      /\ s.current \in Apps /\ s.entry[s.current] = "in_progress"
  <2>1. pc[r] \in {"fetching", "missing"}
    BY DEF Skip, Settles, FetchOk, FetchFails, FetchLimited
  <2>2. s \in Blobs
    BY <2>1 DEF RunInv, TypeOK, Sound
  <2> QED BY <2>1, <2>2, NoBlobAssumption DEF RunInv, Sound, Blobs
<1>2. apps' \subseteq Apps
  BY <1>1 DEF Skip, Settles, FetchOk, FetchFails, FetchLimited, RunInv, TypeOK
<1>3. CASE Skip(r)
  <2> DEFINE n == [t EXCEPT !.skipped = @ + 1, !.attempted = @ - 1]
  <2>1. /\ n \in Totals /\ n.attempted = t.attempted - 1
        /\ n.succeeded = t.succeeded /\ n.changes = t.changes /\ n.failed = t.failed
        /\ n.skipped = t.skipped + 1 /\ n.rateLimited = t.rateLimited
    BY <1>1, SkippedTotals
  <2>2. "skipped" \in Outcomes /\ "skipped" \notin Attempts /\ "skipped" \notin Synced
    BY DEF Outcomes, Done, Attempts, Synced
  <2>3. Persist(r, Settled(s, "skipped", n)) /\ Goto(r, "next")
    BY <1>3 DEF Skip
  <2> HIDE DEF n, s
  <2>4. Settled(s, "skipped", n) \in Blobs /\ Agrees(Settled(s, "skipped", n))
    BY <1>1, <2>1, <2>2, SettledType, SettledAgrees
  <2> QED BY <1>2, <2>3, <2>4, PersistSound
<1>4. CASE FetchFails(r)
  <2> DEFINE n == [t EXCEPT !.failed = @ + 1]
  <2>1. /\ n \in Totals /\ n.attempted = t.attempted
        /\ n.succeeded = t.succeeded /\ n.changes = t.changes /\ n.failed = t.failed + 1
        /\ n.skipped = t.skipped /\ n.rateLimited = t.rateLimited
    BY <1>1, FailedTotals
  <2>2. "failed" \in Outcomes /\ "failed" \in Attempts /\ "failed" \notin Synced
    BY DEF Outcomes, Failed, Attempts, Synced
  <2>3. Persist(r, Settled(s, "failed", n)) /\ Goto(r, "next")
    BY <1>4 DEF FetchFails
  <2> HIDE DEF n, s
  <2>4. Settled(s, "failed", n) \in Blobs /\ Agrees(Settled(s, "failed", n))
    BY <1>1, <2>1, <2>2, SettledType, SettledAgrees
  <2> QED BY <1>2, <2>3, <2>4, PersistSound
<1>5. ASSUME NEW changed \in BOOLEAN, FetchOk(r, changed) PROVE RunInv'
  <2> DEFINE n == Succeeded(t, changed)
             o == IF changed THEN "changed" ELSE "succeeded"
  <2>1. /\ n \in Totals /\ n.attempted = t.attempted /\ n.succeeded = t.succeeded + 1
        /\ n.changes = IF changed THEN t.changes + 1 ELSE t.changes
        /\ n.failed = t.failed /\ n.skipped = t.skipped /\ n.rateLimited = t.rateLimited
    BY <1>1, SucceededTotals
  <2>2. /\ o \in Outcomes /\ o \in Attempts /\ o \in Synced /\ (o = "changed" <=> changed)
        /\ o # "failed" /\ o # "skipped" /\ o # "rate_limited"
    BY DEF Outcomes, Done, Attempts, Synced
  <2>3. Persist(r, Settled(s, o, n)) /\ Goto(r, "next")
    BY <1>5 DEF FetchOk
  <2> HIDE DEF n, s, o
  <2>4. n.changes = IF o = "changed" THEN t.changes + 1 ELSE t.changes
    BY <2>1, <2>2
  <2>5. Settled(s, o, n) \in Blobs /\ Agrees(Settled(s, o, n))
    BY <1>1, <2>1, <2>2, <2>4, SettledType, SettledAgrees
  <2> QED BY <1>2, <2>3, <2>5, PersistSound
<1>6. CASE FetchLimited(r)
  <2> DEFINE n == [t EXCEPT !.rateLimited = @ + 1, !.attempted = @ - 1]
             u == Settled(s, "rate_limited", n)
             m == [u EXCEPT !.totals.rateLimited = @ + Cardinality(Pending(u))]
  <2>1. /\ n \in Totals /\ n.attempted = t.attempted - 1
        /\ n.succeeded = t.succeeded /\ n.changes = t.changes /\ n.failed = t.failed
        /\ n.skipped = t.skipped /\ n.rateLimited = t.rateLimited + 1
    BY <1>1, LimitedTotals
  <2>2. "rate_limited" \in Outcomes /\ "rate_limited" \notin Attempts /\ "rate_limited" \notin Synced
    BY DEF Outcomes, Failed, Attempts, Synced
  <2>3. Goto(r, "stopping") /\ blob' = u /\ mem' = [mem EXCEPT ![r] = m]
    BY <1>6 DEF FetchLimited
  <2> HIDE DEF n, s
  <2>4. u \in Blobs /\ Agrees(u)
    BY <1>1, <2>1, <2>2, SettledType, SettledAgrees
  <2> HIDE DEF u
  <2>5. m \in Blobs
    <3> DEFINE k == u.totals.rateLimited + Cardinality(Pending(u))
               v == [u.totals EXCEPT !.rateLimited = k]
    <3>1. Cardinality(Pending(u)) \in Nat /\ u.totals \in Totals
      BY <2>4, CountType DEF Pending, Blobs
    <3>2. k \in Int
      BY <3>1 DEF Totals
    <3>3. m = [u EXCEPT !.totals = v]
      BY <2>4 DEF Blobs
    <3> HIDE DEF k, m
    <3>4. v \in Totals
      BY <3>1, <3>2 DEF Totals
    <3> HIDE DEF v
    <3> QED BY <2>4, <3>3, <3>4 DEF Blobs
  <2> HIDE DEF m
  <2>6. Sound("stopping", m)
    BY <2>5, NoBlobAssumption DEF Sound
  <2> QED BY <1>2, <2>3, <2>4, <2>5, <2>6, StepSound
<1> QED BY <1>3, <1>4, <1>5, <1>6 DEF Settles

LEMMA DequeueSound ==
    ASSUME RunInv, PlainType', NEW r \in Runners, NEW a \in Apps, Dequeue(r, a)
    PROVE  RunInv'
<1>1. PICK s \in Blobs : s = mem[r] /\ Agrees(s) /\ a \in Pending(s)
  BY DEF Dequeue, RunInv, TypeOK, Sound
<1> DEFINE u == Dequeued(s, a)
<1>2. /\ u \in Blobs /\ u.current = a
      /\ u.entry[a] = "in_progress"
  BY DequeuedType
<1>3. Agrees(u)
  BY <1>1, DequeuedAgrees
<1>4. Persist(r, u) /\ apps' \subseteq Apps
  BY <1>1 DEF Dequeue, Dequeued, RunInv, TypeOK
<1>5. PICK l \in {"fetching", "missing"} : Goto(r, l)
  BY DEF Dequeue
<1> HIDE DEF u
<1>6. u.current \in Apps /\ u.entry[u.current] = "in_progress"
  BY <1>2
<1> QED BY <1>2, <1>3, <1>4, <1>5, <1>6, PersistSound

LEMMA RunnerSound ==
    ASSUME RunInv, PlainType', NEW r \in Runners, Runs(r)
    PROVE  RunInv'
<1>1. blob \in Blobs \cup {NoBlob} /\ (blob # NoBlob => Agrees(blob)) /\ apps \subseteq Apps
  BY DEF RunInv, TypeOK
<1>2. mem[r] \in Blobs \cup {NoBlob} /\ Sound(pc[r], mem[r]) /\ mem = [mem EXCEPT ![r] = mem[r]]
  BY DEF RunInv, TypeOK
<1>3. CASE Enter(r) \/ Stamp(r)
  <2>1. PICK l \in {"entered", "next", "clearing"} :
          Goto(r, l) /\ (l # "entered" => pc[r] = "next")
    BY <1>3 DEF Enter, Stamp
  <2>2. pc[r] \in {"checked", "resuming", "next"}
    BY <1>3 DEF Enter, Stamp
  <2>3. Sound(l, mem[r])
    BY <1>2, <2>1, <2>2 DEF Sound
  <2>4. mem' = mem /\ blob' = blob /\ apps' = apps
    BY <1>3 DEF Enter, Stamp, disk
  <2> QED BY <1>1, <1>2, <2>1, <2>3, <2>4, StepSound
<1>4. CASE Open(r)
  BY <1>4, OpenSound
<1>5. CASE Opened(r)
  <2>1. PICK l \in {"clearing", "next"} : Goto(r, l)
    BY <1>5 DEF Opened
  <2>2. mem[r] \in Blobs /\ Agrees(mem[r])
    BY <1>2, <1>5 DEF Opened, Sound
  <2> QED BY <1>1, <1>5, <2>1, <2>2, PersistSound DEF Opened
<1>6. ASSUME NEW a \in Apps, Dequeue(r, a) PROVE RunInv'
  BY <1>6, DequeueSound
<1>7. CASE Skip(r) \/ Settles(r)
  BY <1>7, SettlesSound
<1>8. CASE Clear(r)
  <2>1. Sound("releasing", mem[r])
    BY <1>2, <1>8 DEF Clear, Sound
  <2>2. mem' = mem /\ blob' = NoBlob /\ apps' = apps /\ Goto(r, "releasing")
    BY <1>8 DEF Clear
  <2> QED BY <1>1, <1>2, <2>1, <2>2, StepSound
<1>9. CASE Release(r)
  BY <1>1, <1>9, EndsSound DEF Release
<1> QED BY <1>3, <1>4, <1>5, <1>6, <1>7, <1>8, <1>9 DEF Runs

LEMMA RunNext == RunInv /\ [Next]_vars => RunInv'
<1> SUFFICES ASSUME RunInv, [Next]_vars PROVE RunInv'
  OBVIOUS
<1>1. PlainType'
  BY PlainNext DEF RunInv
<1>2. blob \in Blobs \cup {NoBlob} /\ (blob # NoBlob => Agrees(blob)) /\ apps \subseteq Apps
  BY DEF RunInv, TypeOK
<1>3. ASSUME NEW r \in Runners, Trigger(r) \/ SchedulerTick(r) PROVE RunInv'
  <2>1. pc[r] = "idle" /\ Goto(r, "checked") /\ mem' = mem /\ blob' = blob /\ apps' = apps
    BY <1>3 DEF Trigger, SchedulerTick, Check, disk
  <2>2. /\ mem[r] \in Blobs \cup {NoBlob} /\ Sound("checked", mem[r])
        /\ mem = [mem EXCEPT ![r] = mem[r]]
    BY <2>1 DEF RunInv, TypeOK, Sound
  <2> QED BY <1>1, <1>2, <2>1, <2>2, StepSound
<1>4. ASSUME NEW r \in Runners, Resume(r) PROVE RunInv'
  <2>1. Sound("resuming", blob)
    BY <1>2, <1>4 DEF Resume, HasPending, Sound
  <2>2. /\ Goto(r, "resuming") /\ mem' = [mem EXCEPT ![r] = blob]
        /\ blob' = blob /\ apps' = apps
    BY <1>4 DEF Resume, disk
  <2> QED BY <1>1, <1>2, <2>1, <2>2, StepSound
<1>5. ASSUME NEW r \in Runners, Abort(r) \/ Disconnect(r) PROVE RunInv'
  <2>1. pc[r] = "fetching" => mem[r].current \in Apps
    BY DEF RunInv, Sound
  <2>2. apps' \subseteq Apps /\ blob' = blob /\ Ends({r})
    BY <1>2, <1>5, <2>1 DEF Abort, Disconnect, disk
  <2> QED BY <1>1, <2>2, EndsSound
<1>6. CASE Crash
  BY <1>1, <1>2, <1>6, EndsSound DEF Crash, disk
<1>7. CASE Boot \/ ResumeNothing \/ HealLock \/ HealBlob \/ HealthCheck \/ BecomesDue \/ GoesStale
  BY <1>1, <1>2, <1>7, AsideSound
     DEF Boot, ResumeNothing, HealLock, HealBlob, HealthCheck, BecomesDue, GoesStale, disk, runs
<1>8. CASE \E a \in Apps : AddApp(a) \/ DeleteApp(a)
  BY <1>1, <1>2, <1>8, AsideSound DEF AddApp, DeleteApp, disk, runs
<1>9. CASE UNCHANGED vars
  BY <1>1, <1>2, <1>9, AsideSound DEF vars, disk, runs
<1> QED BY <1>3, <1>4, <1>5, <1>6, <1>7, <1>8, <1>9, RunnerSound, <1>1 DEF Next, BootCheck

LEMMA RunInit == Init => RunInv
<1> SUFFICES ASSUME Init PROVE RunInv
  OBVIOUS
<1>1. TypeOK
  BY DEF Init, TypeOK, Initiators
<1> QED BY <1>1 DEF Init, RunInv, Sound

LEMMA SpecRun == Spec => []RunInv
  BY RunInit, RunNext, PTL DEF Spec

\* Every stored queue, lock and in-memory run state is well formed, also when
\* runs overlap.
THEOREM TypeCorrect == Spec => []TypeOK
<1>1. RunInv => TypeOK
  BY DEF RunInv
<1> QED BY <1>1, SpecRun, PTL

\* The counters of every stored run are the counts of its entries, through
\* crashes, dropped requests, limits and failing writes, and also when two runs
\* overlap: each writes queue and counters together.
THEOREM CountersAlwaysMatch == Spec => []CountersMatchQueue
<1>1. RunInv => CountersMatchQueue
  BY DEF RunInv, CountersMatchQueue, Agrees, Attempts, Synced
<1> QED BY <1>1, SpecRun, PTL

-----------------------------------------------------------------------------
(***************************************************************************)
(* What holds until the first overlap.                                     *)
(***************************************************************************)
LEMMA OverlapsGrow ==
    ASSUME TypeOK, [Next]_vars, overlaps' = 0
    PROVE  overlaps = 0
<1>1. overlaps' = overlaps \/ overlaps' = overlaps + 1
  <2>1. ASSUME NEW r \in Runners, Runs(r) \/ Abort(r) \/ Disconnect(r)
        PROVE  overlaps' = overlaps
    BY <2>1 DEF Runs, Enter, Open, Opened, Dequeue, Skip, Settles, FetchOk, FetchFails,
                FetchLimited, Stamp, Clear, Release, Abort, Disconnect, bounds
  <2>2. ASSUME NEW r \in Runners, Trigger(r) \/ SchedulerTick(r) \/ Resume(r)
        PROVE  overlaps' = overlaps \/ overlaps' = overlaps + 1
    BY <2>2 DEF Trigger, SchedulerTick, Check, Resume, Overlapping
  <2>3. CASE HealthCheck
    BY <2>3 DEF HealthCheck, Overlapping
  <2>4. CASE Crash \/ Boot \/ ResumeNothing \/ HealLock \/ HealBlob \/ BecomesDue \/ GoesStale
    BY <2>4 DEF Crash, Boot, ResumeNothing, HealLock, HealBlob, BecomesDue, GoesStale, bounds
  <2>5. CASE \E a \in Apps : AddApp(a) \/ DeleteApp(a)
    BY <2>5 DEF AddApp, DeleteApp, bounds
  <2>6. CASE UNCHANGED vars
    BY <2>6 DEF vars, bounds
  <2> QED BY <2>1, <2>2, <2>3, <2>4, <2>5, <2>6 DEF Next, BootCheck
<1> QED BY <1>1 DEF TypeOK

\* A run that has begun is the only one.
LEMMA Alone ==
    ASSUME RunInv, Own, NEW r \in Runners, pc[r] # "idle"
    PROVE  /\ \A q \in Runners : q # r => pc[q] = "idle"
           /\ boot \in {"waiting", "done"}
           /\ pc[r] \notin Starting => mutex /\ mem[r] \in Blobs
  BY DEF RunInv, Own, Owned, TypeOK, Sound, Starting

LEMMA OwnIdle ==
    ASSUME \A q \in Runners : pc'[q] = "idle"
    PROVE  Own'
  BY DEF Own, Owned, Starting, Awaiting

\* A step of the only run.
LEMMA OwnStep ==
    ASSUME RunInv, Own, NEW r \in Runners, pc[r] # "idle", NEW l, Goto(r, l), Owned(r)'
    PROVE  Own'
<1>1. \A q \in Runners : pc'[q] = IF q = r THEN l ELSE "idle"
  BY Alone DEF Goto, RunInv, TypeOK
<1>2. \A q \in Runners : q # r => Owned(q)'
  BY <1>1 DEF Owned, Starting, Awaiting
<1> QED BY <1>1, <1>2 DEF Own

\* The only run ends.
LEMMA OwnEnds ==
    ASSUME RunInv, Own, NEW r \in Runners, pc[r] # "idle", Ends({r})
    PROVE  Own'
<1>1. \A q \in Runners : pc'[q] = "idle"
  BY Alone DEF Ends
<1> QED BY <1>1, OwnIdle

\* A step that leaves runs and store alone.
LEMMA OwnAside ==
    ASSUME Own, UNCHANGED <<pc, mem, blob, mutex>>,
           boot' = boot \/ boot' \in {"waiting", "done"} \/ \A q \in Runners : pc[q] = "idle"
    PROVE  Own'
<1>1. ASSUME NEW q \in Runners PROVE Owned(q)'
  BY DEF Own, Owned, CanStart, HasPending, TakesOver, Unsettled, Pending, InFlight
<1> QED BY <1>1 DEF Own

\* No run has begun where the lock and the queue are free, unless it has found
\* them so.
LEMMA FreeMeansStarting ==
    ASSUME RunInv, Own, CanStart, StartingRuns = {}
    PROVE  \A q \in Runners : pc[q] = "idle"
  BY DEF Own, Owned, CanStart, StartingRuns

\* A runner that begins where none has begun.
LEMMA BeginOwn ==
    ASSUME RunInv, \A q \in Runners : pc[q] = "idle", NEW r \in Runners, NEW l, Goto(r, l),
           Owned(r)'
    PROVE  Own'
<1>1. \A q \in Runners : pc'[q] = IF q = r THEN l ELSE "idle"
  BY DEF Goto, RunInv, TypeOK
<1>2. \A q \in Runners : q # r => Owned(q)'
  BY <1>1 DEF Owned, Starting, Awaiting
<1> QED BY <1>1, <1>2 DEF Own

LEMMA CheckOwn ==
    ASSUME RunInv, Own, overlaps = 0, overlaps' = 0,
           NEW r \in Runners, NEW asker \in Initiators, Check(r, asker)
    PROVE  Own'
<1>1. StartingRuns = {}
  BY DEF Check, Overlapping
<1>2. \A q \in Runners : pc[q] = "idle"
  BY <1>1, FreeMeansStarting DEF Check
<1>3. Goto(r, "checked") /\ mem' = mem /\ blob' = blob /\ mutex' = mutex /\ boot' = boot
  BY DEF Check, disk
<1>4. pc'[r] = "checked" /\ mem'[r] = NoBlob
  BY <1>2, <1>3 DEF Goto, RunInv, TypeOK, Sound
<1>5. blob = NoBlob /\ ~mutex /\ boot \in {"waiting", "done"}
  BY DEF Check, CanStart, Unlocked, RunInv, TypeOK
<1>6. Owned(r)'
  BY <1>3, <1>4, <1>5 DEF Owned, CanStart, Starting
<1> QED BY <1>2, <1>3, <1>6, BeginOwn

LEMMA ResumeOwn ==
    ASSUME RunInv, Own, overlaps = 0, overlaps' = 0, NEW r \in Runners, Resume(r)
    PROVE  Own'
<1>1. StartingRuns = {}
  BY DEF Resume, Overlapping
<1>2. \A q \in Runners : pc[q] = "idle"
  BY <1>1 DEF Resume, SyncIsLive, LiveRuns, StartingRuns, Starting
<1>3. /\ Goto(r, "resuming") /\ mem' = [mem EXCEPT ![r] = blob] /\ blob' = blob
      /\ boot' = "done" /\ HasPending
  BY DEF Resume, disk
<1>4. pc'[r] = "resuming" /\ mem'[r] = blob'
  BY <1>3 DEF Goto, RunInv, TypeOK
<1>5. HasPending'
  BY <1>3 DEF HasPending, Unsettled, Pending, InFlight
<1>6. Owned(r)'
  BY <1>3, <1>4, <1>5 DEF Owned, Starting
<1> QED BY <1>2, <1>3, <1>6, BeginOwn

\* Opening takes over what is stored.
LEMMA OpenOwn ==
    ASSUME RunInv, Own, NEW r \in Runners, Open(r)
    PROVE  Own'
<1>1. pc[r] = "entered" /\ blob = mem[r]
  BY DEF Open, Own, Owned, Starting
<1>2. PICK id \in RunIds : mem' = [mem EXCEPT ![r] = Seeded(r, id)]
  BY DEF Open
<1>3. Goto(r, "opening") /\ blob' = blob /\ mutex' = TRUE /\ boot' = boot
  BY DEF Open
<1>4. pc'[r] = "opening" /\ mem'[r] = Seeded(r, id)
  BY <1>2, <1>3 DEF Goto, RunInv, TypeOK
<1>5. PICK s : s = Seeded(r, id) /\ TakesOver(s)
  <2>1. CASE blob = NoBlob
    <3>1. \A a \in Apps : NewRun(id).entry[a] \in {"absent", "pending"}
      BY DEF NewRun
    <3> QED BY <1>1, <2>1, <3>1 DEF Seeded, TakesOver
  <2>2. CASE blob # NoBlob
    <3>1. blob \in Blobs
      BY <2>2 DEF RunInv, TypeOK
    <3>2. /\ Unsettled(Resumed(blob)) = Unsettled(blob)
          /\ \A a \in Apps : Resumed(blob).entry[a] \in Outcomes <=> blob.entry[a] \in Outcomes
      BY <3>1, ResumedKeeps
    <3> QED BY <1>1, <2>2, <3>2 DEF Seeded, TakesOver
  <2> QED BY <2>1, <2>2
<1>6. TakesOver(mem[r])'
  BY <1>3, <1>4, <1>5 DEF TakesOver, Unsettled, Pending, InFlight
<1>7. boot \in {"waiting", "done"}
  BY <1>1, Alone
<1>8. Owned(r)'
  BY <1>3, <1>4, <1>6, <1>7 DEF Owned, Starting, Awaiting
<1> QED BY <1>1, <1>3, <1>8, OwnStep

\* A run that has opened writes what it holds.
LEMMA PersistOwn ==
    ASSUME RunInv, Own, NEW r \in Runners, pc[r] \notin {"idle"} \cup Starting,
           NEW s \in Blobs, Persist(r, s), boot' = boot,
           NEW l \in {"next", "clearing", "fetching", "missing"}, Goto(r, l)
    PROVE  Own'
<1>1. /\ pc'[r] = l /\ mem'[r] = s /\ blob' = s /\ mutex'
      /\ boot' \in {"waiting", "done"}
  BY Alone DEF Goto, Persist, RunInv, TypeOK
<1>2. Owned(r)'
  BY <1>1, NoBlobAssumption DEF Owned, Starting, Awaiting
<1> QED BY <1>2, OwnStep

LEMMA RunnerOwn ==
    ASSUME RunInv, RunInv', Own, NEW r \in Runners, Runs(r)
    PROVE  Own'
<1>1. pc[r] # "idle"
  BY DEF Runs, Enter, Open, Opened, Dequeue, Skip, Settles, FetchOk, FetchFails,
         FetchLimited, Stamp, Clear, Release
<1>2. \A l : Goto(r, l) => pc'[r] = l
  BY DEF Goto, RunInv, TypeOK
<1>3. boot \in {"waiting", "done"}
  BY <1>1, Alone
<1>4. CASE Enter(r)
  <2>1. Goto(r, "entered") /\ mem' = mem /\ blob' = blob /\ boot' = boot /\ blob = mem[r]
    BY <1>4 DEF Enter, disk, Own, Owned, Starting
  <2>2. Owned(r)'
    BY <1>2, <1>3, <2>1 DEF Owned, Starting, Awaiting
  <2> QED BY <1>1, <2>1, <2>2, OwnStep
<1>5. CASE Open(r)
  BY <1>5, OpenOwn
<1>6. CASE Opened(r)
  <2>1. pc[r] \notin {"idle"} \cup Starting /\ mem[r] \in Blobs
    BY <1>6, Alone DEF Opened, Starting
  <2>2. PICK l \in {"clearing", "next"} : Goto(r, l)
    BY <1>6 DEF Opened
  <2> QED BY <1>6, <2>1, <2>2, PersistOwn DEF Opened
<1>7. ASSUME Skip(r) \/ FetchFails(r)
             \/ (\E changed \in BOOLEAN : FetchOk(r, changed)) \/ \E a \in Apps : Dequeue(r, a)
      PROVE  Own'
  <2>1. pc[r] \notin {"idle"} \cup Starting
    BY <1>7 DEF Skip, FetchFails, FetchOk, Dequeue, Starting
  <2>2. \E s : Persist(r, s)
    BY <1>7 DEF Skip, FetchFails, FetchOk, Dequeue
  <2>3. PICK s : Persist(r, s)
    BY <2>2
  <2>4. PICK l \in {"next", "fetching", "missing"} : Goto(r, l)
    BY <1>7 DEF Skip, FetchFails, FetchOk, Dequeue
  <2>5. pc'[r] = l /\ mem'[r] = s
    BY <1>2, <2>3, <2>4 DEF Persist, RunInv, TypeOK
  <2>6. mem'[r] \in Blobs \cup {NoBlob} /\ mem'[r] # NoBlob
    BY <2>4, <2>5 DEF RunInv, TypeOK, Sound
  <2>7. s \in Blobs
    BY <2>5, <2>6
  <2>8. boot' = boot
    BY <1>7 DEF Skip, FetchFails, FetchOk, Dequeue
  <2> QED BY <2>1, <2>3, <2>4, <2>7, <2>8, PersistOwn
<1>8. CASE FetchLimited(r)
  <2>1. Goto(r, "stopping") /\ boot' = boot /\ mutex' = mutex
    BY <1>8 DEF FetchLimited
  <2>2. blob' # NoBlob
    <3> DEFINE t == [mem[r].totals EXCEPT !.rateLimited = @ + 1, !.attempted = @ - 1]
               s == Settled(mem[r], "rate_limited", t)
    <3>1. mem[r] \in Blobs /\ mem[r].current \in Apps /\ mem[r].totals \in Totals
      BY <1>8, Alone DEF FetchLimited, Starting, RunInv, Sound, Blobs
    <3>2. t \in Totals
      BY <3>1, LimitedTotals
    <3>3. blob' = s
      BY <1>8 DEF FetchLimited
    <3> HIDE DEF t
    <3>4. s \in Blobs
      BY <3>1, <3>2, SettledType DEF Outcomes, Failed
    <3> HIDE DEF s
    <3> QED BY <3>3, <3>4, NoBlobAssumption
  <2>3. mutex
    BY <1>8, Alone DEF FetchLimited, Starting
  <2>4. Owned(r)'
    BY <1>2, <1>3, <2>1, <2>2, <2>3 DEF Owned, Starting, Awaiting
  <2> QED BY <1>1, <2>1, <2>4, OwnStep
<1>9. CASE Stamp(r)
  <2>1. /\ mem' = mem /\ blob' = blob /\ mutex' = mutex /\ boot' = boot
        /\ pc[r] = "next"
    BY <1>9 DEF Stamp, disk
  <2>2. PICK l \in {"next", "clearing"} : Goto(r, l)
    BY <1>9 DEF Stamp
  <2>3. mutex /\ blob = mem[r] /\ mem[r] # NoBlob
    BY <2>1, Alone, NoBlobAssumption DEF Own, Owned, Starting, Awaiting
  <2>4. Owned(r)'
    BY <1>2, <1>3, <2>1, <2>2, <2>3 DEF Owned, Starting, Awaiting
  <2> QED BY <1>1, <2>2, <2>4, OwnStep
<1>10. CASE Clear(r)
  <2>1. Goto(r, "releasing") /\ mutex' = mutex /\ boot' = boot /\ mutex
    BY <1>10, Alone DEF Clear, Starting
  <2>2. Owned(r)'
    BY <1>2, <1>3, <2>1 DEF Owned, Starting, Awaiting
  <2> QED BY <1>1, <2>1, <2>2, OwnStep
<1>11. CASE Release(r)
  BY <1>1, <1>11, OwnEnds DEF Release
<1> QED BY <1>4, <1>5, <1>6, <1>7, <1>8, <1>9, <1>10, <1>11 DEF Runs, Settles

\* The boot-time check and the health check clear a store nobody owns.
LEMMA HealIdle ==
    ASSUME RunInv, Own, overlaps = 0, overlaps' = 0, HealLock \/ HealBlob \/ HealthCheck
    PROVE  \A q \in Runners : pc[q] = "idle" /\ pc'[q] = "idle"
<1>1. ASSUME NEW q \in Runners, pc[q] # "idle" PROVE FALSE
  <2>1. CASE HealLock
    <3>1. pc[q] \in {"checked", "resuming"}
      BY <1>1, <2>1 DEF HealLock, SyncIsLive, LiveRuns
    <3>2. CanStart \/ HasPending
      BY <3>1 DEF Own, Owned
    <3> QED BY <2>1, <3>2 DEF HealLock
  <2>2. CASE HealBlob
    BY <1>1, <2>2, Alone DEF HealBlob
  <2>3. CASE HealthCheck
    <3>1. ~SyncIsLive /\ StartingRuns = {}
      BY <2>3 DEF HealthCheck, Overlapping
    <3> QED BY <1>1, <3>1 DEF SyncIsLive, LiveRuns, StartingRuns, Starting
  <2> QED BY <2>1, <2>2, <2>3
<1>2. pc' = pc
  BY DEF HealLock, HealBlob, HealthCheck, runs
<1> QED BY <1>1, <1>2

LEMMA OwnNext == RunInv /\ OwnInv /\ [Next]_vars => OwnInv'
<1> SUFFICES ASSUME RunInv, OwnInv, [Next]_vars, overlaps' = 0 PROVE Own'
  BY DEF OwnInv
<1>1. overlaps = 0 /\ Own /\ RunInv'
  BY OverlapsGrow, RunNext DEF OwnInv, RunInv
<1>2. ASSUME NEW r \in Runners, Trigger(r) \/ SchedulerTick(r) PROVE Own'
  BY <1>1, <1>2, CheckOwn DEF Trigger, SchedulerTick, Initiators
<1>3. ASSUME NEW r \in Runners, Runs(r) PROVE Own'
  BY <1>1, <1>3, RunnerOwn
<1>4. ASSUME NEW r \in Runners, Abort(r) \/ Disconnect(r) PROVE Own'
  BY <1>1, <1>4, OwnEnds DEF Abort, Disconnect, Awaiting
<1>5. CASE Crash
  <2>1. \A q \in Runners : pc'[q] = "idle"
    BY <1>5 DEF Crash, Ends
  <2> QED BY <2>1, OwnIdle
<1>6. CASE Boot
  <2>1. \A q \in Runners : pc[q] = "idle"
    BY <1>1, <1>6, Alone DEF Boot
  <2> QED BY <1>6, <2>1, OwnIdle DEF Boot, runs
<1>7. ASSUME NEW r \in Runners, Resume(r) PROVE Own'
  BY <1>1, <1>7, ResumeOwn
<1>8. CASE HealLock \/ HealBlob \/ HealthCheck
  BY <1>1, <1>8, HealIdle, OwnIdle
<1>9. CASE ResumeNothing \/ BecomesDue \/ GoesStale
  BY <1>1, <1>9, OwnAside DEF ResumeNothing, BecomesDue, GoesStale, disk, runs
<1>10. CASE \E a \in Apps : AddApp(a) \/ DeleteApp(a)
  BY <1>1, <1>10, OwnAside DEF AddApp, DeleteApp, disk, runs
<1>11. CASE UNCHANGED vars
  BY <1>1, <1>11, OwnAside DEF vars, disk, runs
<1> QED BY <1>2, <1>3, <1>4, <1>5, <1>6, <1>7, <1>8, <1>9, <1>10, <1>11 DEF Next, BootCheck

LEMMA SpecOwn == Spec => []OwnInv
<1>1. Init => OwnInv
  BY DEF Init, OwnInv, Own, Owned, Starting, Awaiting
<1> QED BY <1>1, OwnNext, SpecRun, PTL DEF Spec

\* As long as no other start and no health check has come in between the
\* sections of a run that begins or ends, two runs never walk the queue at once.
THEOREM OneRunnerUntilOverlap == Spec => [](overlaps = 0 => OneRunner)
<1>1. OwnInv => (overlaps = 0 => OneRunner)
  BY DEF OwnInv, Own, OneRunner, LiveRuns
<1> QED BY <1>1, SpecOwn, PTL

\* As long, a run that is live holds the lock, and the stored queue is its own.
THEOREM QueueIsOwnedUntilOverlap == Spec => [](overlaps = 0 => QueueIsOwned)
<1>1. OwnInv => (overlaps = 0 => QueueIsOwned)
  BY DEF OwnInv, Own, Owned, QueueIsOwned, LiveRuns, Starting
<1> QED BY <1>1, SpecOwn, PTL

-----------------------------------------------------------------------------
(***************************************************************************)
(* What the steps of the abstract queue are here.                          *)
(***************************************************************************)
Todo == IF blob = NoBlob THEN {} ELSE Unsettled(blob)
SettledApps == IF blob = NoBlob THEN {} ELSE {a \in Apps : blob.entry[a] \in Outcomes}
Working == {mem[r].current : r \in {q \in Runners : pc[q] = "fetching"}}

LEMMA QueueStutters ==
    ASSUME (blob' = NoBlob) <=> (blob = NoBlob),
           Todo' = Todo, SettledApps' = SettledApps, Working' = Working
    PROVE  UNCHANGED Queue!vars
  BY DEF Queue!vars, Todo, SettledApps, Working, Outcomes

LEMMA QueueTakes ==
    ASSUME NEW a \in Todo, blob # NoBlob, blob' # NoBlob, Working = {}, Working' = {a},
           Todo' = Todo, SettledApps' = SettledApps
    PROVE  Queue!Take(a)
  BY DEF Queue!Take, Todo, SettledApps, Working, Outcomes

LEMMA QueueSettles ==
    ASSUME NEW a \in Todo, blob # NoBlob, blob' # NoBlob,
           Working \subseteq {a}, Working' = {},
           Todo' = Todo \ {a}, SettledApps' = SettledApps \cup {a}
    PROVE  Queue!Settle(a)
  BY DEF Queue!Settle, Todo, SettledApps, Working, Outcomes

\* A step that changes neither the stored queue nor the app worked on.
LEMMA StutterRefines ==
    ASSUME blob' = blob, Working' = Working
    PROVE  UNCHANGED Queue!vars
<1>1. Todo' = Todo /\ SettledApps' = SettledApps
  BY DEF Todo, SettledApps, Unsettled, Pending, InFlight
<1> QED BY <1>1, QueueStutters

\* A step after which nobody works and nothing is stored gives the run up.
LEMMA CloseRefines ==
    ASSUME Working = {}, Working' = {}, blob' = NoBlob
    PROVE  UNCHANGED Queue!vars \/ Queue!Close
<1>1. Todo' = {} /\ SettledApps' = {}
  BY DEF Todo, SettledApps
<1>2. CASE blob = NoBlob
  BY <1>2, StutterRefines
<1>3. CASE blob # NoBlob
  BY <1>1, <1>3 DEF Queue!Close, Todo, SettledApps, Working, Outcomes
<1> QED BY <1>2, <1>3

\* A step after which nobody works, with the same queue stored.
LEMMA DropRefines ==
    ASSUME Working' = {}, blob' = blob
    PROVE  UNCHANGED Queue!vars \/ Queue!Drop
<1>1. Todo' = Todo /\ SettledApps' = SettledApps
  BY DEF Todo, SettledApps, Unsettled, Pending, InFlight
<1>2. CASE Working = {}
  BY <1>2, StutterRefines
<1>3. CASE Working # {}
  BY <1>1, <1>3 DEF Queue!Drop, Todo, SettledApps, Working, Outcomes
<1> QED BY <1>2, <1>3

\* What the only run works on.
LEMMA WorkingOne ==
    ASSUME RunInv, Own, NEW r \in Runners, pc[r] # "idle"
    PROVE  Working = IF pc[r] = "fetching" THEN {mem[r].current} ELSE {}
  BY Alone DEF Working

\* Where the run goes to, and what that makes it work on.
LEMMA WorkingNext ==
    ASSUME RunInv, Own, NEW r \in Runners, pc[r] # "idle", NEW l, Goto(r, l)
    PROVE  Working' = IF l = "fetching" THEN {mem'[r].current} ELSE {}
<1>1. \A q \in Runners : pc'[q] = (IF q = r THEN l ELSE "idle")
  BY Alone DEF Goto, RunInv, TypeOK
<1> QED BY <1>1 DEF Working

\* A step that leaves the store alone and fetches nothing after it.
LEMMA AsideRefines ==
    ASSUME RunInv, Own, NEW r \in Runners, pc[r] # "idle", blob' = blob,
           NEW l, l # "fetching", Goto(r, l)
    PROVE  UNCHANGED Queue!vars \/ Queue!Drop
<1>1. Working' = {}
  BY WorkingNext
<1> QED BY <1>1, DropRefines

-----------------------------------------------------------------------------
(***************************************************************************)
(* The steps of a runner.                                                  *)
(***************************************************************************)
LEMMA OpenedRefines ==
    ASSUME RunInv, Own, NEW r \in Runners, Opened(r)
    PROVE  UNCHANGED Queue!vars \/ \E S \in SUBSET Apps : Queue!Open(S)
<1>1. mem[r] \in Blobs /\ blob' = mem[r] /\ blob' # NoBlob /\ TakesOver(mem[r])
  BY Alone, NoBlobAssumption DEF Opened, Persist, Own, Owned, Starting
<1>2. Working = {}
  BY WorkingOne DEF Opened
<1>3. PICK l \in {"clearing", "next"} : Goto(r, l)
  BY DEF Opened
<1>4. Working' = {}
  BY <1>3, WorkingNext DEF Opened
<1>5. CASE blob = NoBlob /\ \A a \in Apps : mem[r].entry[a] \in {"absent", "pending"}
  <2>1. SettledApps' = {}
    BY <1>1, <1>5 DEF SettledApps, Outcomes, Done, Failed
  <2>2. PICK S \in SUBSET Apps : Todo' = S
    BY DEF Todo, Unsettled, Pending, InFlight
  <2>3. Queue!Open(S)
    BY <1>1, <1>2, <1>4, <1>5, <2>1, <2>2 DEF Queue!Open, Todo, SettledApps, Working, Outcomes
  <2> QED BY <2>3
<1>6. CASE /\ blob # NoBlob
           /\ Unsettled(mem[r]) = Unsettled(blob)
           /\ \A a \in Apps : mem[r].entry[a] \in Outcomes <=> blob.entry[a] \in Outcomes
  <2>1. Todo' = Todo
    BY <1>1, <1>6 DEF Todo, Unsettled, Pending, InFlight
  <2>2. SettledApps' = SettledApps
    BY <1>1, <1>6 DEF SettledApps, Outcomes
  <2> QED BY <1>1, <1>2, <1>4, <1>6, <2>1, <2>2, QueueStutters
<1> QED BY <1>1, <1>5, <1>6 DEF TakesOver

\* Taking the next app: it is fetched, unless its row is gone.
LEMMA DequeueRefines ==
    ASSUME RunInv, Own, NEW r \in Runners, NEW a \in Apps, Dequeue(r, a)
    PROVE  UNCHANGED Queue!vars \/ Queue!Take(a)
<1> DEFINE s == Dequeued(mem[r], a)
           l == IF a \in apps THEN "fetching" ELSE "missing"
<1>1. /\ blob = mem[r] /\ mem[r] \in Blobs /\ blob # NoBlob
      /\ a \in Pending(mem[r])
  BY Alone, NoBlobAssumption DEF Dequeue, Own, Owned, Starting
<1>2. /\ s \in Blobs /\ s.current = a /\ s.entry[a] = "in_progress"
      /\ \A b \in Apps : b # a => s.entry[b] = mem[r].entry[b]
  BY <1>1, DequeuedType
<1>3. Persist(r, s) /\ Goto(r, l)
  BY DEF Dequeue, Dequeued
<1> HIDE DEF s, l
<1>4. mem[r].entry[a] = "pending"
  BY <1>1 DEF Pending
<1>5. blob' = s /\ blob' # NoBlob /\ mem'[r] = s
  BY <1>2, <1>3, NoBlobAssumption DEF Persist, RunInv, TypeOK
<1>6. Todo' = Todo /\ a \in Todo
  <2>1. Todo' = Unsettled(s) /\ Todo = Unsettled(mem[r])
    BY <1>1, <1>5 DEF Todo, Unsettled, Pending, InFlight
  <2> QED BY <1>2, <1>4, <2>1 DEF Unsettled, Pending, InFlight
<1>7. SettledApps' = SettledApps
  <2>1. /\ SettledApps' = {b \in Apps : s.entry[b] \in Outcomes}
        /\ SettledApps = {b \in Apps : mem[r].entry[b] \in Outcomes}
    BY <1>1, <1>5 DEF SettledApps, Outcomes
  <2>2. mem[r].entry[a] \notin Outcomes /\ "in_progress" \notin Outcomes
    BY <1>4 DEF Outcomes, Done, Failed
  <2> QED BY <1>2, <2>1, <2>2
<1>8. Working = {}
  BY WorkingOne DEF Dequeue
<1>9. Working' = IF l = "fetching" THEN {a} ELSE {}
  BY <1>2, <1>3, <1>5, WorkingNext DEF Dequeue
<1>10. CASE l = "fetching"
  BY <1>1, <1>5, <1>6, <1>7, <1>8, <1>9, <1>10, QueueTakes
<1>11. CASE l # "fetching"
  BY <1>1, <1>5, <1>6, <1>7, <1>8, <1>9, <1>11, QueueStutters
<1> QED BY <1>10, <1>11

\* Settling the app in flight.
LEMMA SettleRefines ==
    ASSUME RunInv, Own, NEW r \in Runners, pc[r] \in {"fetching", "missing"},
           NEW outcome \in Outcomes, NEW totals \in Totals,
           blob' = Settled(mem[r], outcome, totals),
           NEW l \in {"next", "stopping"}, Goto(r, l)
    PROVE  \E a \in Apps : Queue!Settle(a)
<1> DEFINE i == mem[r].current
           s == Settled(mem[r], outcome, totals)
<1>1. /\ blob = mem[r] /\ mem[r] \in Blobs /\ i \in Apps
      /\ mem[r].entry[i] = "in_progress" /\ blob # NoBlob
  BY Alone, NoBlobAssumption DEF Own, Owned, RunInv, Sound, Awaiting, Starting
<1>2. /\ s \in Blobs
      /\ \A a \in Apps : s.entry[a] = (IF a = i THEN outcome ELSE mem[r].entry[a])
  BY <1>1, SettledType
<1>3. Working \subseteq {i} /\ Working' = {}
  BY WorkingOne, WorkingNext
<1>4. outcome # "pending" /\ outcome # "in_progress" /\ "in_progress" \notin Outcomes
  BY DEF Outcomes, Done, Failed
<1> HIDE DEF s, i
<1>5. blob' = s /\ blob' # NoBlob
  BY <1>2, NoBlobAssumption DEF s
<1>6. Todo' = Todo \ {i} /\ i \in Todo
  <2>1. Todo' = Unsettled(s) /\ Todo = Unsettled(mem[r])
    BY <1>1, <1>5 DEF Todo, Unsettled, Pending, InFlight
  <2> QED BY <1>1, <1>2, <1>4, <2>1 DEF Unsettled, Pending, InFlight
<1>7. SettledApps' = SettledApps \cup {i}
  <2>1. /\ SettledApps' = {a \in Apps : s.entry[a] \in Outcomes}
        /\ SettledApps = {a \in Apps : mem[r].entry[a] \in Outcomes}
    BY <1>1, <1>5 DEF SettledApps, Outcomes
  <2> QED BY <1>1, <1>2, <2>1
<1> QED BY <1>1, <1>3, <1>5, <1>6, <1>7, QueueSettles

\* However a fetch ends, its app is settled.
LEMMA OutcomeRefines ==
    ASSUME RunInv, Own, NEW r \in Runners, Skip(r) \/ Settles(r)
    PROVE  \E a \in Apps : Queue!Settle(a)
<1> DEFINE t == mem[r].totals
<1>1. t \in Totals
  BY Alone DEF Skip, Settles, FetchOk, FetchFails, FetchLimited, Blobs, Starting
<1>2. {"skipped", "succeeded", "changed", "failed", "rate_limited"} \subseteq Outcomes
  BY DEF Outcomes, Done, Failed
<1>3. CASE Skip(r)
  BY <1>1, <1>2, <1>3, SkippedTotals, SettleRefines DEF Skip, Persist
<1>4. ASSUME NEW changed \in BOOLEAN, FetchOk(r, changed) PROVE \E a \in Apps : Queue!Settle(a)
  <2> DEFINE o == IF changed THEN "changed" ELSE "succeeded"
  <2>1. Succeeded(t, changed) \in Totals
    BY <1>1, SucceededTotals
  <2>2. o \in Outcomes
    BY <1>2
  <2>3. blob' = Settled(mem[r], o, Succeeded(t, changed))
    BY <1>4 DEF FetchOk, Persist
  <2> HIDE DEF o
  <2> QED BY <1>4, <2>1, <2>2, <2>3, SettleRefines DEF FetchOk
<1>5. CASE FetchFails(r)
  BY <1>1, <1>2, <1>5, FailedTotals, SettleRefines DEF FetchFails, Persist
<1>6. CASE FetchLimited(r)
  BY <1>1, <1>2, <1>6, LimitedTotals, SettleRefines DEF FetchLimited
<1> QED BY <1>3, <1>4, <1>5, <1>6 DEF Settles

LEMMA RunnerRefines ==
    ASSUME RunInv, Own, NEW r \in Runners, Runs(r)
    PROVE  UNCHANGED Queue!vars \/ Queue!Next
<1>1. CASE Enter(r) \/ Open(r) \/ Stamp(r)
  <2>1. pc[r] # "idle" /\ blob' = blob
    BY <1>1 DEF Enter, Open, Stamp, disk
  <2>2. PICK l \in {"entered", "opening", "next", "clearing"} : Goto(r, l)
    BY <1>1 DEF Enter, Open, Stamp
  <2> QED BY <2>1, <2>2, AsideRefines DEF Queue!Next
<1>2. CASE Opened(r)
  BY <1>2, OpenedRefines DEF Queue!Next
<1>3. CASE \E a \in Apps : Dequeue(r, a)
  BY <1>3, DequeueRefines DEF Queue!Next
<1>4. CASE Skip(r) \/ Settles(r)
  BY <1>4, OutcomeRefines DEF Queue!Next
<1>5. CASE Clear(r)
  <2>1. Working = {}
    BY <1>5, WorkingOne DEF Clear
  <2>2. Working' = {}
    BY <1>5, WorkingNext DEF Clear
  <2> QED BY <1>5, <2>1, <2>2, CloseRefines DEF Clear, Queue!Next
<1>6. CASE Release(r)
  <2>1. Working' = {}
    BY <1>6, Alone DEF Release, Ends, Working
  <2> QED BY <1>6, <2>1, DropRefines DEF Release, Queue!Next
<1> QED BY <1>1, <1>2, <1>3, <1>4, <1>5, <1>6 DEF Runs

-----------------------------------------------------------------------------
(***************************************************************************)
(* The refinement.                                                         *)
(***************************************************************************)
LEMMA QueueStep ==
    ASSUME RunInv, Own, overlaps = 0, overlaps' = 0, [Next]_vars
    PROVE  [Queue!Next]_(Queue!vars)
<1>1. ASSUME NEW r \in Runners, Runs(r) PROVE UNCHANGED Queue!vars \/ Queue!Next
  BY <1>1, RunnerRefines
<1>2. ASSUME NEW r \in Runners, Abort(r) \/ Disconnect(r)
      PROVE  UNCHANGED Queue!vars \/ Queue!Next
  <2>1. pc[r] # "idle" /\ Ends({r}) /\ blob' = blob
    BY <1>2 DEF Abort, Disconnect, Awaiting, disk
  <2>2. Working' = {}
    BY <2>1, Alone DEF Ends, Working
  <2> QED BY <2>1, <2>2, DropRefines DEF Queue!Next
<1>3. CASE Crash
  <2>1. Working' = {}
    BY <1>3 DEF Crash, Ends, Working
  <2> QED BY <1>3, <2>1, DropRefines DEF Crash, disk, Queue!Next
<1>4. ASSUME NEW r \in Runners, Trigger(r) \/ SchedulerTick(r) \/ Resume(r)
      PROVE  UNCHANGED Queue!vars
  <2>1. /\ pc[r] = "idle" /\ blob' = blob
        /\ mem' = mem \/ mem' = [mem EXCEPT ![r] = blob]
    BY <1>4 DEF Trigger, SchedulerTick, Check, Resume, disk
  <2>2. PICK l \in {"checked", "resuming"} : Goto(r, l)
    BY <1>4 DEF Trigger, SchedulerTick, Check, Resume
  <2>3. \A q \in Runners : /\ pc'[q] = "fetching" <=> pc[q] = "fetching"
                           /\ pc[q] = "fetching" => mem'[q] = mem[q]
    BY <2>1, <2>2 DEF Goto, RunInv, TypeOK
  <2>4. Working' = Working
    BY <2>3 DEF Working
  <2> QED BY <2>1, <2>4, StutterRefines
<1>5. CASE HealBlob \/ HealthCheck
  <2>1. \A q \in Runners : pc[q] = "idle" /\ pc'[q] = "idle"
    BY <1>5, HealIdle
  <2>2. Working = {} /\ Working' = {}
    BY <2>1 DEF Working
  <2> QED BY <1>5, <2>2, CloseRefines DEF HealBlob, HealthCheck, Queue!Next
<1>6. ASSUME blob' = blob, pc' = pc, mem' = mem PROVE UNCHANGED Queue!vars
  <2>1. Working' = Working
    BY <1>6 DEF Working
  <2> QED BY <1>6, <2>1, StutterRefines
<1>7. CASE Boot \/ ResumeNothing \/ HealLock \/ BecomesDue \/ GoesStale
  BY <1>6, <1>7 DEF Boot, ResumeNothing, HealLock, BecomesDue, GoesStale, disk, runs
<1>8. CASE \E a \in Apps : AddApp(a) \/ DeleteApp(a)
  BY <1>6, <1>8 DEF AddApp, DeleteApp, disk, runs
<1>9. CASE UNCHANGED vars
  BY <1>6, <1>9 DEF vars, disk, runs
<1> QED BY <1>1, <1>2, <1>3, <1>4, <1>5, <1>7, <1>8, <1>9 DEF Next, BootCheck

\* Nothing has come in between yet.
Calm == overlaps = 0

Undisturbed == RunInv /\ Own /\ Calm

\* The bulk sync of the Rust server implements the promise of every bulk job,
\* over all interleavings of its sections, dropped requests, crashes, 429s and
\* failing writes, in every behaviour in which no start and no health check
\* comes in between the sections of a run that begins or ends.
THEOREM PortImplementsQueueInTurn == Spec /\ []Calm => QueueSpec
<1>1. Init => Queue!Init
  BY DEF Init, Queue!Init
<1>2. RunInv /\ OwnInv /\ Calm => Undisturbed
  BY DEF OwnInv, Undisturbed, Calm
<1>3. Undisturbed /\ Undisturbed' /\ [Next]_vars => [Queue!Next]_(Queue!vars)
  BY QueueStep DEF Undisturbed, Calm
<1> QED BY <1>1, <1>2, <1>3, SpecRun, SpecOwn, PTL DEF Spec, QueueSpec, Queue!Spec
=============================================================================
