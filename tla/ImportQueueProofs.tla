-------------------------- MODULE ImportQueueProofs --------------------------
(***************************************************************************)
(* Proofs about the import queue, for any number of rows, imports, apps,   *)
(* workers, crashes and throttled answers: its types, and, as long as no   *)
(* retry button is pressed, that no row is worked on by two ticks, that a  *)
(* settled row is not turned back, and that an import once completed gets  *)
(* no row that waits.                                                      *)
(***************************************************************************)
EXTENDS ImportQueue, TLAPS

Scraping == {"fetching", "writing", "committed", "refused"}
Labels == {"idle", "loading", "next"} \cup Scraping

\* What a worker at l has in hand; a click claims nothing.
Placed(w, l, t, i) ==
    /\ l \in {"idle", "loading"} => t = {}
    /\ w \in Clicks => t = {} /\ l \notin {"loading", "next"}
    /\ IF l \in Scraping THEN i \in Items \ t /\ Target[i] # NoApp ELSE i = NoApp

Typed == TypeOK /\ \A w \in Workers : Placed(w, pc[w], todo[w], item[w])

\* A row in a tick's hands is still fenced off, unless the user has taken its app
\* or its import away.
Fenced(i) ==
    \/ rows[i].status = "queued" /\ rows[i].next = "claimed"
    \/ rows[i].status \in {"removed", "absent"}

\* Without the buttons only ticks work, and each on rows of its own.
Exclusive ==
    Unhurried =>
        /\ \A w \in Clicks : pc[w] = "idle"
        /\ \A w \in Ticks, i \in Items : Holds(w, i) => Fenced(i)
        /\ \A v, w \in Ticks, i \in Items : Holds(v, i) /\ Holds(w, i) => v = w

\* Only a row that waits or that was removed can be waiting after a step, and a
\* settled one is only removed or deleted.
MovesOn ==
    \A i \in Items :
       /\ rows[i].status \in {"imported", "error"} =>
             rows'[i].status \in {rows[i].status, "removed", "absent"}
       /\ rows'[i].status = "queued" => rows[i].status \in {"queued", "removed"}

\* An import is newly completed only when none of its rows waits.
Completes ==
    \A i \in Items :
       ImportOf[i] \in completed' /\ ImportOf[i] \notin completed => rows'[i].status # "queued"

-----------------------------------------------------------------------------
(***************************************************************************)
(* The operators of the model.                                             *)
(***************************************************************************)
LEMMA TypesAre ==
    TypeOK <=>
       /\ up \in BOOLEAN /\ apps \subseteq Apps /\ rows \in [Items -> Rows] /\ completed \subseteq Imports
       /\ running \in BOOLEAN /\ overdue \in BOOLEAN /\ paused \in BOOLEAN
       /\ pc \in [Workers -> Labels] /\ todo \in [Workers -> SUBSET Items]
       /\ item \in [Workers -> Items \cup {NoApp}] /\ isNew \in [Workers -> BOOLEAN]
       /\ presses \in Nat /\ limits \in Nat /\ crashes \in Nat
<1>1. {"idle", "next"} \cup Awaiting = Labels BY DEF Awaiting, Labels, Scraping
<1>2. bounds \in Nat \X Nat \X Nat <=> presses \in Nat /\ limits \in Nat /\ crashes \in Nat
  BY DEF bounds
<1> QED BY <1>1, <1>2 DEF TypeOK

LEMMA RowIs ==
    ASSUME NEW r \in Rows
    PROVE  /\ r.status \in Statuses
           /\ \A s \in Statuses, n \in {"now", "claimed", "later"} :
                 /\ [r EXCEPT !.status = s, !.next = n] \in Rows
                 /\ [r EXCEPT !.status = s, !.next = n].status = s
                 /\ [r EXCEPT !.status = s, !.next = n].next = n
BY DEF Rows

\* A write lands on one row, and only if it is still there.
LEMMA WriteIs ==
    ASSUME rows \in [Items -> Rows], NEW i \in Items, NEW row \in Rows, Write(i, row)
    PROVE  /\ rows' \in [Items -> Rows]
           /\ \A j \in Items : j # i => rows'[j] = rows[j]
           /\ rows'[i] = rows[i] \/ (Exists(i) /\ rows'[i] = row)
           /\ rows'[i] = row \/ (rows[i].status = "absent" /\ rows'[i] = rows[i])
BY DEF Write, Exists

LEMMA CompletesIs ==
    ASSUME completed \subseteq Imports, NEW i \in Items, CompletesWith(i, rows')
    PROVE  completed' \subseteq Imports /\ Completes
<1>1. ImportOf[i] \in Imports BY RowsAssumption
<1> QED BY <1>1 DEF CompletesWith, Completes

\* The row of an outcome, and the outcome as recorded.
LEMMA WrittenIs ==
    ASSUME TypeOK, NEW i \in Items, WriteSuccess(i) \/ WriteError(i)
    PROVE  /\ rows' \in [Items -> Rows]
           /\ \A j \in Items : j # i => rows'[j] = rows[j]
           /\ rows'[i].status \in {"imported", "error", "absent"}
<1>0. rows \in [Items -> Rows] BY TypesAre
<1>1. CASE WriteSuccess(i)
  <2>1. PICK row : row = [status |-> "imported", app |-> SafeApp(Target[i]), next |-> "now"] OBVIOUS
  <2>2. row \in Rows /\ row.status = "imported"
    BY <2>1, RowsAssumption DEF Rows, Statuses, SafeApp
  <2>3. Write(i, row) BY <1>1, <2>1 DEF WriteSuccess
  <2> QED BY <1>0, <2>2, <2>3, WriteIs
<1>2. CASE WriteError(i)
  <2>0. rows[i] \in Rows BY <1>0
  <2>1. PICK row : row = [rows[i] EXCEPT !.status = "error", !.next = "now"] OBVIOUS
  <2>2. row \in Rows /\ row.status = "error" BY <2>0, <2>1 DEF Rows, Statuses
  <2>3. Write(i, row) BY <1>2, <2>1 DEF WriteError
  <2> QED BY <1>0, <2>2, <2>3, WriteIs
<1> QED BY <1>1, <1>2

LEMMA OutcomeIs ==
    ASSUME TypeOK, NEW i \in Items, RecordSuccess(i) \/ RecordError(i)
    PROVE  /\ rows' \in [Items -> Rows] /\ completed' \subseteq Imports /\ Completes
           /\ \A j \in Items : j # i => rows'[j] = rows[j]
           /\ rows'[i].status \in {"imported", "error", "absent"}
<1>1. completed \subseteq Imports BY TypesAre
<1>2. CompletesWith(i, rows') /\ (WriteSuccess(i) \/ WriteError(i)) BY DEF RecordSuccess, RecordError
<1> QED BY <1>1, <1>2, WrittenIs, CompletesIs

LEMMA RetryIs ==
    ASSUME TypeOK, NEW i \in Items, RecordRetry(i)
    PROVE  /\ rows' \in [Items -> Rows] /\ completed' = completed
           /\ \A j \in Items : j # i => rows'[j] = rows[j]
           /\ rows[i].status = "absent" => rows'[i].status = "absent"
<1>0. rows \in [Items -> Rows] /\ rows[i] \in Rows BY TypesAre
<1>1. PICK row : row = [rows[i] EXCEPT !.status = "queued", !.next = "later"] OBVIOUS
<1>2. row \in Rows BY <1>0, <1>1 DEF Rows, Statuses
<1>3. Write(i, row) /\ completed' = completed BY <1>1 DEF RecordRetry
<1> QED BY <1>0, <1>2, <1>3, WriteIs DEF Exists

\* One worker's step.
LEMMA GotoIs ==
    ASSUME pc \in [Workers -> Labels], NEW w \in Workers, NEW l \in Labels, Goto(w, l)
    PROVE  pc' \in [Workers -> Labels] /\ pc'[w] = l /\ \A v \in Workers : v # w => pc'[v] = pc[v]
BY DEF Goto

LEMMA InHand ==
    ASSUME Typed, NEW w \in Workers, pc[w] \in Scraping
    PROVE  item[w] \in Items /\ Target[item[w]] \in Apps
BY RowsAssumption DEF Typed, Placed

LEMMA DoneIs ==
    ASSUME Typed, NEW w \in Workers, Done(w), todo' = todo
    PROVE  /\ pc' \in [Workers -> Labels] /\ item' \in [Workers -> Items \cup {NoApp}]
           /\ isNew' \in [Workers -> BOOLEAN]
           /\ pc'[w] = Onward(w) /\ item'[w] = NoApp
           /\ \A v \in Workers : v # w => pc'[v] = pc[v] /\ item'[v] = item[v]
<1>1. /\ pc \in [Workers -> Labels] /\ item \in [Workers -> Items \cup {NoApp}]
      /\ isNew \in [Workers -> BOOLEAN]
  BY TypesAre DEF Typed
<1>2. Onward(w) \in Labels BY DEF Onward, Labels
<1>3. Goto(w, Onward(w)) /\ item' = [item EXCEPT ![w] = NoApp] /\ isNew' = [isNew EXCEPT ![w] = FALSE]
  BY DEF Done
<1> QED BY <1>1, <1>2, <1>3, GotoIs

\* A worker dies between the two writes of an outcome.
LEMMA TornIs ==
    ASSUME Typed, NEW w \in Workers, Torn(w)
    PROVE  /\ pc[w] # "idle"
           /\ \E i \in Items :
                 /\ Holds(w, i) /\ rows' \in [Items -> Rows]
                 /\ \A j \in Items : j # i => rows'[j] = rows[j]
                 /\ rows'[i].status \in {"imported", "error", "absent"}
<1>0. TypeOK /\ todo[w] \subseteq Items BY TypesAre DEF Typed
<1>1. CASE pc[w] \in {"committed", "fetching", "refused"}
  <2>1. item[w] \in Items BY <1>1, InHand DEF Scraping
  <2>2. WriteSuccess(item[w]) \/ WriteError(item[w]) BY <1>1 DEF Torn
  <2> QED BY <1>0, <1>1, <2>1, <2>2, WrittenIs DEF Holds
<1>2. CASE pc[w] = "next"
  <2>1. PICK i \in todo[w] : WriteError(i) BY <1>2 DEF Torn
  <2> QED BY <1>0, <1>2, <2>1, WrittenIs DEF Holds
<1> QED BY <1>1, <1>2 DEF Torn

-----------------------------------------------------------------------------
(***************************************************************************)
(* Types.                                                                  *)
(***************************************************************************)
LEMMA TypedInit == Init => Typed
<1> SUFFICES ASSUME Init PROVE Typed OBVIOUS
<1>1. ASSUME NEW i \in Items
      PROVE  [status |-> "queued", app |-> SafeApp(Target[i]), next |-> "now"] \in Rows
  BY RowsAssumption DEF SafeApp, Rows, Statuses
<1>2. rows \in [Items -> Rows] BY <1>1 DEF Init
<1>3. TypeOK BY <1>2, TypesAre DEF Init, Labels
<1>4. \A w \in Workers : Placed(w, pc[w], todo[w], item[w]) BY DEF Init, Placed, Scraping
<1> QED BY <1>3, <1>4 DEF Typed

\* A step of worker w leaves the hands of the others alone.
LEMMA PlacedStep ==
    ASSUME Typed, NEW w \in Workers, Placed(w, pc'[w], todo'[w], item'[w]),
           \A v \in Workers : v # w => pc'[v] = pc[v] /\ item'[v] = item[v] /\ todo'[v] = todo[v]
    PROVE  \A v \in Workers : Placed(v, pc'[v], todo'[v], item'[v])
BY DEF Typed

LEMMA TypedNext == Typed /\ [Next]_vars => Typed'
<1> SUFFICES ASSUME Typed, [Next]_vars PROVE Typed' OBVIOUS
<1>0. /\ TypeOK
      /\ up \in BOOLEAN /\ apps \subseteq Apps /\ rows \in [Items -> Rows] /\ completed \subseteq Imports
      /\ running \in BOOLEAN /\ overdue \in BOOLEAN /\ paused \in BOOLEAN
      /\ pc \in [Workers -> Labels] /\ todo \in [Workers -> SUBSET Items]
      /\ item \in [Workers -> Items \cup {NoApp}] /\ isNew \in [Workers -> BOOLEAN]
      /\ presses \in Nat /\ limits \in Nat /\ crashes \in Nat
      /\ \A w \in Workers : Placed(w, pc[w], todo[w], item[w])
  BY TypesAre DEF Typed
<1> DEFINE Sorts ==
       /\ up \in BOOLEAN /\ apps \subseteq Apps /\ rows \in [Items -> Rows] /\ completed \subseteq Imports
       /\ running \in BOOLEAN /\ overdue \in BOOLEAN /\ paused \in BOOLEAN
       /\ isNew \in [Workers -> BOOLEAN]
       /\ presses \in Nat /\ limits \in Nat /\ crashes \in Nat
    Hands ==
       /\ pc \in [Workers -> Labels] /\ todo \in [Workers -> SUBSET Items]
       /\ item \in [Workers -> Items \cup {NoApp}]
       /\ \A w \in Workers : Placed(w, pc[w], todo[w], item[w])
<1>1. ASSUME Sorts', Hands' PROVE Typed'
  <2>1. {"idle", "next"} \cup Awaiting = Labels BY DEF Awaiting, Labels, Scraping
  <2>2. pc' \in [Workers -> {"idle", "next"} \cup Awaiting] BY <1>1, <2>1
  <2>3. (bounds \in Nat \X Nat \X Nat)' BY <1>1 DEF bounds
  <2>4. TypeOK' BY <1>1, <2>2, <2>3 DEF TypeOK
  <2>5. \A w \in Workers : Placed(w, pc'[w], todo'[w], item'[w]) BY <1>1
  <2> QED BY <2>4, <2>5 DEF Typed
<1> HIDE DEF Sorts, Hands
<1>2. ASSUME UNCHANGED <<pc, todo, item>> PROVE Hands' BY <1>0, <1>2 DEF Hands
<1>3. Ticks \subseteq Workers /\ Clicks \subseteq Workers BY DEF Workers
<1>4. ASSUME NEW w \in Ticks, pc[w] = "idle", Take(w), UNCHANGED <<todo, item>> PROVE Hands'
  <2>1. "loading" \in Labels /\ Goto(w, "loading") BY <1>4 DEF Take, Labels
  <2>2. /\ pc' \in [Workers -> Labels] /\ pc'[w] = "loading" /\ \A v \in Workers : v # w => pc'[v] = pc[v]
    BY <1>0, <1>3, <2>1, GotoIs
  <2>3. Placed(w, pc'[w], todo'[w], item'[w])
    BY <1>0, <1>3, <1>4, <2>2, WorkersAssumption DEF Placed, Scraping
  <2>4. \A v \in Workers : Placed(v, pc'[v], todo'[v], item'[v]) BY <1>3, <1>4, <2>2, <2>3, PlacedStep
  <2> QED BY <1>0, <1>4, <2>2, <2>4 DEF Hands
<1>5. ASSUME NEW w \in Ticks, Tick(w) PROVE Typed'
  <2>1. Hands' BY <1>3, <1>4, <1>5 DEF Tick, work
  <2>2. Sorts' BY <1>0, <1>5 DEF Tick, Take, work, bounds, Sorts
  <2> QED BY <2>1, <2>2, <1>1
<1>6. ASSUME NEW w \in Ticks, ForceTick(w) PROVE Typed'
  <2>1. CASE LockIsFree
    <3>1. Hands' BY <1>3, <1>4, <1>6, <2>1 DEF ForceTick, work
    <3>2. \A i \in Items : [rows[i] EXCEPT !.next = "now"] \in Rows BY <1>0 DEF Rows
    <3>3. rows' \in [Items -> Rows] /\ presses' \in Nat BY <1>0, <1>6, <3>2 DEF ForceTick
    <3>4. UNCHANGED <<up, apps, completed, isNew, limits, crashes>> BY <1>6 DEF ForceTick, work
    <3>5. running' = TRUE /\ overdue' = FALSE /\ paused' = FALSE BY <1>6, <2>1 DEF ForceTick, Take
    <3>6. Sorts' BY <1>0, <3>3, <3>4, <3>5 DEF Sorts
    <3> QED BY <3>1, <3>6, <1>1
  <2>2. CASE ~LockIsFree
    <3>1. Hands' BY <1>2, <1>6, <2>2 DEF ForceTick, work
    <3>2. \A i \in Items : [rows[i] EXCEPT !.next = "now"] \in Rows BY <1>0 DEF Rows
    <3>3. rows' \in [Items -> Rows] /\ presses' \in Nat BY <1>0, <1>6, <3>2 DEF ForceTick
    <3>4. UNCHANGED <<up, apps, completed, isNew, limits, crashes>> BY <1>6 DEF ForceTick, work
    <3>5. running' = running /\ overdue' = overdue /\ paused' = FALSE
      BY <1>6, <2>2 DEF ForceTick, lock
    <3>6. Sorts' BY <1>0, <3>3, <3>4, <3>5 DEF Sorts
    <3> QED BY <3>1, <3>6, <1>1
  <2> QED BY <2>1, <2>2
<1>7. ASSUME NEW w \in Workers, Claim(w) PROVE Typed'
  <2>1. PICK batch \in SUBSET Due :
           /\ rows' = [i \in Items |-> IF i \in batch THEN [rows[i] EXCEPT !.next = "claimed"] ELSE rows[i]]
           /\ todo' = [todo EXCEPT ![w] = batch]
    BY <1>7 DEF Claim
  <2>2. batch \subseteq Items BY DEF Due
  <2>3. \A i \in Items : [rows[i] EXCEPT !.next = "claimed"] \in Rows BY <1>0 DEF Rows
  <2>4. pc[w] = "loading" /\ Goto(w, "next") /\ item' = item BY <1>7 DEF Claim
  <2>5. pc' \in [Workers -> Labels] /\ pc'[w] = "next" /\ \A v \in Workers : v # w => pc'[v] = pc[v]
    BY <1>0, <2>4, GotoIs DEF Labels
  <2>6. Placed(w, pc'[w], todo'[w], item'[w]) BY <1>0, <2>4, <2>5 DEF Placed, Scraping
  <2>7. \A v \in Workers : Placed(v, pc'[v], todo'[v], item'[v]) BY <1>0, <2>1, <2>4, <2>5, <2>6, PlacedStep
  <2>8. Hands' BY <1>0, <2>1, <2>2, <2>4, <2>5, <2>7 DEF Hands
  <2>9. Sorts' BY <1>0, <1>7, <2>1, <2>3 DEF Claim, lock, bounds, Sorts
  <2> QED BY <2>8, <2>9, <1>1
<1>8. ASSUME NEW w \in Workers, NEW i \in Items, Pick(w, i) PROVE Typed'
  <2>0. pc[w] = "next" /\ todo' = [todo EXCEPT ![w] = @ \ {i}] BY <1>8 DEF Pick
  <2>1. CASE Target[i] = NoApp
    <3>1. RecordError(i) /\ pc' = pc /\ item' = item BY <1>8, <2>1 DEF Pick
    <3>2. Placed(w, pc'[w], todo'[w], item'[w]) BY <1>0, <2>0, <3>1 DEF Placed, Scraping
    <3>3. \A v \in Workers : Placed(v, pc'[v], todo'[v], item'[v]) BY <1>0, <2>0, <3>1, <3>2, PlacedStep
    <3>4. Hands' BY <1>0, <2>0, <3>1, <3>3 DEF Hands
    <3>5. rows' \in [Items -> Rows] /\ completed' \subseteq Imports BY <1>0, <3>1, OutcomeIs
    <3>6. Sorts' BY <1>0, <1>8, <3>5 DEF Pick, lock, bounds, Sorts
    <3> QED BY <3>4, <3>6, <1>1
  <2>2. CASE Target[i] # NoApp
    <3>1. /\ Goto(w, "fetching") /\ item' = [item EXCEPT ![w] = i]
          /\ rows' = rows /\ completed' = completed
      BY <1>8, <2>2 DEF Pick
    <3>2. pc' \in [Workers -> Labels] /\ pc'[w] = "fetching" /\ \A v \in Workers : v # w => pc'[v] = pc[v]
      BY <1>0, <3>1, GotoIs DEF Labels, Scraping
    <3>3. w \notin Clicks BY <1>0, <2>0 DEF Placed
    <3>4. item'[w] = i /\ i \notin todo'[w] BY <1>0, <2>0, <3>1
    <3>5. Placed(w, pc'[w], todo'[w], item'[w]) BY <2>2, <3>2, <3>3, <3>4 DEF Placed, Scraping
    <3>6. \A v \in Workers : Placed(v, pc'[v], todo'[v], item'[v])
      BY <1>0, <2>0, <3>1, <3>2, <3>5, PlacedStep
    <3>7. Hands' BY <1>0, <2>0, <3>1, <3>2, <3>6 DEF Hands
    <3>8. Sorts' BY <1>0, <1>8, <3>1 DEF Pick, lock, bounds, Sorts
    <3> QED BY <3>7, <3>8, <1>1
  <2> QED BY <2>1, <2>2
<1>9. ASSUME NEW w \in Workers, Finish(w) PROVE Typed'
  <2>1. pc[w] = "next" /\ todo[w] = {} /\ Goto(w, "idle") /\ todo' = todo /\ item' = item
    BY <1>9 DEF Finish, work
  <2>2. pc' \in [Workers -> Labels] /\ pc'[w] = "idle" /\ \A v \in Workers : v # w => pc'[v] = pc[v]
    BY <1>0, <2>1, GotoIs DEF Labels
  <2>3. Placed(w, pc'[w], todo'[w], item'[w]) BY <1>0, <2>1, <2>2 DEF Placed, Scraping
  <2>4. \A v \in Workers : Placed(v, pc'[v], todo'[v], item'[v]) BY <2>1, <2>2, <2>3, PlacedStep
  <2>5. Hands' BY <1>0, <2>1, <2>2, <2>4 DEF Hands
  <2>6. Sorts' BY <1>0, <1>9 DEF Finish, work, bounds, Sorts
  <2> QED BY <2>5, <2>6, <1>1
<1>10. ASSUME NEW w \in Clicks, NEW i \in Items, Click(w, i) PROVE Typed'
  <2>0. w \in Workers /\ pc[w] = "idle" /\ todo' = todo BY <1>3, <1>10 DEF Click
  <2>1. CASE Target[i] = NoApp
    <3>1. RecordError(i) /\ pc' = pc /\ item' = item BY <1>10, <2>1 DEF Click
    <3>2. Hands' BY <1>2, <2>0, <3>1
    <3>3. rows' \in [Items -> Rows] /\ completed' \subseteq Imports BY <1>0, <3>1, OutcomeIs
    <3>4. Sorts' BY <1>0, <1>10, <3>3 DEF Click, lock, Sorts
    <3> QED BY <3>2, <3>4, <1>1
  <2>2. CASE Target[i] # NoApp
    <3>1. /\ Goto(w, "fetching") /\ item' = [item EXCEPT ![w] = i]
          /\ rows' = rows /\ completed' = completed
      BY <1>10, <2>2 DEF Click
    <3>2. pc' \in [Workers -> Labels] /\ pc'[w] = "fetching" /\ \A v \in Workers : v # w => pc'[v] = pc[v]
      BY <1>0, <2>0, <3>1, GotoIs DEF Labels, Scraping
    <3>3. Placed(w, pc'[w], todo'[w], item'[w]) BY <1>0, <2>0, <2>2, <3>1, <3>2 DEF Placed, Scraping
    <3>4. \A v \in Workers : Placed(v, pc'[v], todo'[v], item'[v])
      BY <1>0, <2>0, <3>1, <3>2, <3>3, PlacedStep
    <3>5. Hands' BY <1>0, <2>0, <3>1, <3>2, <3>4 DEF Hands
    <3>6. Sorts' BY <1>0, <1>10, <3>1 DEF Click, lock, Sorts
    <3> QED BY <3>5, <3>6, <1>1
  <2> QED BY <2>1, <2>2
<1>11. ASSUME NEW w \in Workers, Parsed(w) PROVE Typed'
  <2>1. pc[w] = "fetching" /\ Goto(w, "writing") /\ todo' = todo /\ item' = item BY <1>11 DEF Parsed
  <2>2. pc' \in [Workers -> Labels] /\ pc'[w] = "writing" /\ \A v \in Workers : v # w => pc'[v] = pc[v]
    BY <1>0, <2>1, GotoIs DEF Labels, Scraping
  <2>3. Placed(w, pc'[w], todo'[w], item'[w]) BY <1>0, <2>1, <2>2 DEF Placed, Scraping
  <2>4. \A v \in Workers : Placed(v, pc'[v], todo'[v], item'[v]) BY <2>1, <2>2, <2>3, PlacedStep
  <2>5. Hands' BY <1>0, <2>1, <2>2, <2>4 DEF Hands
  <2>6. isNew' \in [Workers -> BOOLEAN] BY <1>0, <1>11 DEF Parsed
  <2>7. Sorts' BY <1>0, <1>11, <2>6 DEF Parsed, lock, bounds, Sorts
  <2> QED BY <2>5, <2>7, <1>1
\* An outcome recorded in the end.
<1>12. ASSUME NEW w \in Workers, pc[w] \in Scraping,
              RecordSuccess(item[w]) \/ RecordError(item[w]), Done(w),
              UNCHANGED <<up, apps, lock, paused, todo, bounds>>
       PROVE  Typed'
  <2>1. item[w] \in Items BY <1>12, InHand
  <2>2. rows' \in [Items -> Rows] /\ completed' \subseteq Imports BY <1>0, <1>12, <2>1, OutcomeIs
  <2>3. /\ pc' \in [Workers -> Labels] /\ item' \in [Workers -> Items \cup {NoApp}]
        /\ isNew' \in [Workers -> BOOLEAN]
        /\ pc'[w] = Onward(w) /\ item'[w] = NoApp
        /\ \A v \in Workers : v # w => pc'[v] = pc[v] /\ item'[v] = item[v]
    BY <1>12, DoneIs
  <2>4. Placed(w, pc'[w], todo'[w], item'[w])
    <3>1. todo'[w] = todo[w] /\ (w \in Clicks => todo[w] = {}) /\ (w \in Ticks \/ w \in Clicks)
      BY <1>0, <1>12 DEF Placed, Workers
    <3> QED BY <2>3, <3>1, WorkersAssumption DEF Placed, Onward, Scraping
  <2>5. \A v \in Workers : Placed(v, pc'[v], todo'[v], item'[v]) BY <1>12, <2>3, <2>4, PlacedStep
  <2>6. Hands' BY <1>0, <1>12, <2>3, <2>5 DEF Hands
  <2>7. Sorts' BY <1>0, <1>12, <2>2, <2>3 DEF lock, bounds, Sorts
  <2> QED BY <2>6, <2>7, <1>1
<1>13. ASSUME NEW w \in Workers, FetchFails(w) PROVE Typed' BY <1>12, <1>13 DEF FetchFails, Scraping
<1>14. ASSUME NEW w \in Workers, Record(w) PROVE Typed' BY <1>12, <1>14 DEF Record, Scraping
<1>15. ASSUME NEW w \in Workers, Limited(w) PROVE Typed'
  <2>1. /\ pc[w] = "fetching" /\ RecordRetry(item[w]) /\ Goto(w, "idle")
        /\ item' = [item EXCEPT ![w] = NoApp] /\ todo' = [todo EXCEPT ![w] = {}]
    BY <1>15 DEF Limited
  <2>2. item[w] \in Items BY <2>1, InHand DEF Scraping
  <2>3. rows' \in [Items -> Rows] /\ completed' = completed BY <1>0, <2>1, <2>2, RetryIs
  <2>4. pc' \in [Workers -> Labels] /\ pc'[w] = "idle" /\ \A v \in Workers : v # w => pc'[v] = pc[v]
    BY <1>0, <2>1, GotoIs DEF Labels
  <2>5. Placed(w, pc'[w], todo'[w], item'[w]) BY <1>0, <2>1, <2>4 DEF Placed, Scraping
  <2>6. \A v \in Workers : Placed(v, pc'[v], todo'[v], item'[v])
    BY <1>0, <2>1, <2>4, <2>5, PlacedStep
  <2>7. Hands' BY <1>0, <2>1, <2>4, <2>6 DEF Hands
  <2>8. limits' \in Nat /\ presses' = presses /\ crashes' = crashes /\ up' = up /\ apps' = apps
        /\ overdue' = overdue /\ isNew' = isNew
    BY <1>0, <1>15 DEF Limited
  <2>9. paused' \in BOOLEAN /\ running' \in BOOLEAN BY <1>0, <1>15 DEF Limited
  <2>10. Sorts' BY <1>0, <2>3, <2>8, <2>9 DEF Sorts
  <2> QED BY <2>7, <2>10, <1>1
<1>16. ASSUME NEW w \in Workers, Commit(w) PROVE Typed'
  <2>1. PICK l \in {"committed", "refused"} :
           /\ pc[w] = "writing" /\ Goto(w, l) /\ todo' = todo /\ item' = item
           /\ apps' \in {apps, apps \cup {Target[item[w]]}}
    BY <1>16 DEF Commit, work
  <2>2. apps' \subseteq Apps BY <1>0, <2>1, InHand DEF Scraping
  <2>3. pc' \in [Workers -> Labels] /\ pc'[w] = l /\ \A v \in Workers : v # w => pc'[v] = pc[v]
    BY <1>0, <2>1, GotoIs DEF Labels, Scraping
  <2>4. Placed(w, pc'[w], todo'[w], item'[w]) BY <1>0, <2>1, <2>3 DEF Placed, Scraping
  <2>5. \A v \in Workers : Placed(v, pc'[v], todo'[v], item'[v]) BY <2>1, <2>3, <2>4, PlacedStep
  <2>6. Hands' BY <1>0, <2>1, <2>3, <2>5 DEF Hands
  <2>7. Sorts' BY <1>0, <1>16, <2>2 DEF Commit, lock, work, bounds, Sorts
  <2> QED BY <2>6, <2>7, <1>1
<1>17. ASSUME NEW a \in Apps, DeleteApp(a) PROVE Typed'
  <2>1. Hands' BY <1>2, <1>17 DEF DeleteApp, work
  <2>2. \A i \in Items : [rows[i] EXCEPT !.status = "removed", !.app = NoApp] \in Rows
    BY <1>0 DEF Rows, Statuses
  <2>3. Sorts' BY <1>0, <1>17, <2>2 DEF DeleteApp, lock, work, bounds, Sorts
  <2> QED BY <2>1, <2>3, <1>1
<1>18. ASSUME NEW m \in Imports, DeleteImport(m) PROVE Typed'
  <2>1. Hands' BY <1>2, <1>18 DEF DeleteImport, work
  <2>2. PICK gone : /\ apps' = apps \ gone
                    /\ rows' = [i \in Items |->
                        IF ImportOf[i] = m
                        THEN [status |-> "absent", app |-> NoApp, next |-> "now"]
                        ELSE IF rows[i].app \in gone THEN [rows[i] EXCEPT !.app = NoApp]
                        ELSE rows[i]]
    BY <1>18 DEF DeleteImport
  <2>3. \A i \in Items : [rows[i] EXCEPT !.app = NoApp] \in Rows BY <1>0 DEF Rows
  <2>4. [status |-> "absent", app |-> NoApp, next |-> "now"] \in Rows BY DEF Rows, Statuses
  <2>5. rows' \in [Items -> Rows] BY <1>0, <2>2, <2>3, <2>4
  <2>6. Sorts' BY <1>0, <1>18, <2>2, <2>5 DEF DeleteImport, lock, work, bounds, Sorts
  <2> QED BY <2>1, <2>6, <1>1
<1>19. CASE LockAges
  <2>1. Hands' BY <1>2, <1>19 DEF LockAges, work
  <2>2. Sorts' BY <1>0, <1>19 DEF LockAges, work, bounds, Sorts
  <2> QED BY <2>1, <2>2, <1>1
<1>20. ASSUME NEW i \in Items, FenceElapses(i) PROVE Typed'
  <2>1. Hands' BY <1>2, <1>20 DEF FenceElapses, work
  <2>2. rows' = [rows EXCEPT ![i] = [rows[i] EXCEPT !.next = "now"]] BY <1>20 DEF FenceElapses
  <2>3. [rows[i] EXCEPT !.next = "now"] \in Rows BY <1>0 DEF Rows
  <2>4. Sorts' BY <1>0, <1>20, <2>2, <2>3 DEF FenceElapses, lock, work, bounds, Sorts
  <2> QED BY <2>1, <2>4, <1>1
<1>21. CASE PauseElapses
  <2>1. Hands' BY <1>2, <1>21 DEF PauseElapses, work
  <2>2. Sorts' BY <1>0, <1>21 DEF PauseElapses, lock, work, bounds, Sorts
  <2> QED BY <2>1, <2>2, <1>1
<1>22. CASE Crash
  <2>1. Hands' BY <1>22 DEF Crash, Hands, Placed, Labels, Scraping
  <2>2. up' = FALSE /\ crashes' \in Nat /\ isNew' \in [Workers -> BOOLEAN] BY <1>0, <1>22 DEF Crash
  <2>3. UNCHANGED <<apps, completed, running, overdue, paused, presses, limits>>
    BY <1>22 DEF Crash, lock
  <2>4. rows' \in [Items -> Rows] BY <1>0, <1>22, TornIs DEF Crash
  <2>5. Sorts' BY <1>0, <2>2, <2>3, <2>4 DEF Sorts
  <2> QED BY <2>1, <2>5, <1>1
<1>23. CASE Boot
  <2>1. Hands' BY <1>2, <1>23 DEF Boot, work
  <2>2. Sorts' BY <1>0, <1>23 DEF Boot, work, bounds, Sorts
  <2> QED BY <2>1, <2>2, <1>1
<1>24. CASE UNCHANGED vars
  <2>1. Hands' BY <1>2, <1>24 DEF vars, work
  <2>2. Sorts' BY <1>0, <1>24 DEF vars, lock, work, bounds, Sorts
  <2> QED BY <2>1, <2>2, <1>1
<1> QED BY <1>5, <1>6, <1>7, <1>8, <1>9, <1>10, <1>11, <1>13, <1>14, <1>15, <1>16, <1>17, <1>18,
           <1>19, <1>20, <1>21, <1>22, <1>23, <1>24 DEF Next, Runs, Fetched

LEMMA SpecTyped == Spec => []Typed
BY TypedInit, TypedNext, PTL DEF Spec

\* The variables of the queue stay within their types.
THEOREM ImportTypeCorrect == Spec => []TypeOK
<1>1. Typed => TypeOK BY DEF Typed
<1> QED BY <1>1, SpecTyped, PTL

-----------------------------------------------------------------------------
(***************************************************************************)
(* One tick per row.                                                       *)
(***************************************************************************)

\* Steps after which no tick holds more, and what is held is as fenced as it was.
LEMMA ExclusiveStays ==
    ASSUME Exclusive, Unhurried,
           \A w \in Clicks : pc'[w] = "idle",
           \A w \in Ticks, i \in Items : i = item'[w] \/ i \in todo'[w] => Holds(w, i) /\ Fenced(i)'
    PROVE  Exclusive'
BY DEF Exclusive, Holds

\* Who runs is a tick, and the row it scrapes is in no other hands.
LEMMA RunnerIs ==
    ASSUME Typed, Exclusive, Unhurried, NEW w \in Workers, pc[w] # "idle"
    PROVE  /\ w \in Ticks /\ w \notin Clicks
           /\ pc[w] \in Scraping =>
                 /\ item[w] \in Items /\ item[w] \notin todo[w] /\ Fenced(item[w])
                 /\ \A v \in Ticks : v # w => item[w] # item[v] /\ item[w] \notin todo[v]
<1>1. w \in Ticks /\ w \notin Clicks BY WorkersAssumption DEF Exclusive, Workers
<1>2. ASSUME pc[w] \in Scraping
      PROVE  /\ item[w] \in Items /\ item[w] \notin todo[w] /\ Holds(w, item[w])
  BY <1>2 DEF Typed, Placed, Holds
<1> QED BY <1>1, <1>2 DEF Exclusive, Holds

\* In an unhurried step the buttons are out, and were.
LEMMA NoPress ==
    ASSUME TypeOK, [Next]_vars, Unhurried'
    PROVE  /\ Unhurried
           /\ \A w \in Ticks : ~ ForceTick(w)
           /\ \A w \in Clicks, i \in Items : ~ Click(w, i)
<1>1. presses \in Nat /\ presses' = 0 BY TypesAre DEF Unhurried
<1>2. presses + 1 # presses' BY <1>1
<1>3. ASSUME NEW w \in Ticks, ForceTick(w) PROVE FALSE BY <1>2, <1>3 DEF ForceTick
<1>4. ASSUME NEW w \in Clicks, NEW i \in Items, Click(w, i) PROVE FALSE BY <1>2, <1>4 DEF Click
<1>5. presses' = presses
  BY <1>3, <1>4 DEF Next, Runs, Fetched, Tick, Claim, Pick, Finish, Parsed, FetchFails, Limited, Commit,
     Record, DeleteApp, DeleteImport, LockAges, FenceElapses, PauseElapses, Crash, Boot, vars, bounds
<1> QED BY <1>1, <1>3, <1>4, <1>5 DEF Unhurried

LEMMA ExclusiveInit == Init => Exclusive
BY NoAppAssumption DEF Init, Exclusive, Holds, Workers

LEMMA ExclusiveNext == Typed /\ Exclusive /\ [Next]_vars => Exclusive'
<1> SUFFICES ASSUME Typed, Exclusive, [Next]_vars, Unhurried' PROVE Exclusive'
  BY DEF Exclusive
<1>0. /\ TypeOK /\ rows \in [Items -> Rows]
      /\ pc \in [Workers -> Labels] /\ todo \in [Workers -> SUBSET Items]
      /\ item \in [Workers -> Items \cup {NoApp}]
      /\ Ticks \subseteq Workers /\ Clicks \subseteq Workers
      /\ \A w \in Workers : Placed(w, pc[w], todo[w], item[w])
  BY TypesAre DEF Typed, Workers
\* The buttons are out.
<1>2. ASSUME NEW w \in Ticks, ForceTick(w) PROVE FALSE BY <1>0, <1>2, NoPress
<1>3. ASSUME NEW w \in Clicks, NEW i \in Items, Click(w, i) PROVE FALSE BY <1>0, <1>3, NoPress
<1>5. /\ Unhurried
      /\ \A w \in Clicks : pc[w] = "idle"
      /\ \A w \in Ticks, i \in Items : Holds(w, i) => Fenced(i)
      /\ \A v, w \in Ticks, i \in Items : Holds(v, i) /\ Holds(w, i) => v = w
  BY <1>0, NoPress DEF Exclusive
<1>6. ASSUME UNCHANGED <<todo, item>>, \A w \in Clicks : pc'[w] = "idle",
             \A i \in Items : Fenced(i) => Fenced(i)'
      PROVE  Exclusive'
  BY <1>5, <1>6, ExclusiveStays DEF Holds
<1>7. ASSUME NEW w \in Workers, pc[w] # "idle", NEW l, Goto(w, l)
      PROVE  \A v \in Clicks : pc'[v] = "idle"
  BY <1>0, <1>5, <1>7, RunnerIs DEF Goto
<1>8. ASSUME rows' = rows PROVE \A i \in Items : Fenced(i) => Fenced(i)' BY <1>8 DEF Fenced
<1>9. ASSUME NEW w \in Ticks, Tick(w) PROVE Exclusive'
  <2>1. \A v \in Clicks : pc'[v] = "idle" BY <1>0, <1>5, <1>9, WorkersAssumption DEF Tick, Take, Goto
  <2> QED BY <2>1, <1>6, <1>8, <1>9 DEF Tick, work
<1>10. ASSUME NEW w \in Workers, Claim(w) PROVE Exclusive'
  <2>1. PICK batch \in SUBSET Due :
           /\ rows' = [i \in Items |-> IF i \in batch THEN [rows[i] EXCEPT !.next = "claimed"] ELSE rows[i]]
           /\ todo' = [todo EXCEPT ![w] = batch]
    BY <1>10 DEF Claim
  <2>2. pc[w] = "loading" /\ Goto(w, "next") /\ item' = item BY <1>10 DEF Claim
  <2>3. w \in Ticks /\ \A v \in Clicks : pc'[v] = "idle" BY <1>5, <1>7, <2>2, RunnerIs
  <2>4. \A i \in batch : rows[i].status = "queued" /\ rows[i].next = "now" BY DEF Due
  <2>5. \A i \in batch, v \in Ticks : ~ Holds(v, i) BY <1>5, <2>4 DEF Fenced, Due
  <2>6. \A i \in batch : rows'[i].status = "queued" /\ rows'[i].next = "claimed"
    BY <1>0, <2>1, <2>4 DEF Due, Rows
  <2>7. \A i \in Items : i \notin batch => rows'[i] = rows[i] BY <2>1
  <2>8. item[w] = NoApp BY <1>0, <2>2 DEF Placed, Scraping
  <2>9. \A v \in Ticks, i \in Items : i = item'[v] \/ i \in todo'[v] =>
           \/ i \notin batch /\ v # w /\ Holds(v, i)
           \/ i \in batch /\ v = w
    BY <1>0, <2>1, <2>2, <2>5, <2>8, NoAppAssumption DEF Holds
  <2>10. \A v \in Ticks, i \in Items : i = item'[v] \/ i \in todo'[v] => Fenced(i)'
    BY <1>5, <2>6, <2>7, <2>9 DEF Fenced
  <2>11. \A u, v \in Ticks, i \in Items :
            (i = item'[u] \/ i \in todo'[u]) /\ (i = item'[v] \/ i \in todo'[v]) => u = v
    BY <1>5, <2>9
  <2> QED BY <2>3, <2>10, <2>11 DEF Exclusive, Holds
\* A row that gets its outcome is in no hands any more.
<1>11. ASSUME NEW w \in Workers, pc[w] \in Scraping,
              \A j \in Items : j # item[w] => rows'[j] = rows[j],
              item' = [item EXCEPT ![w] = NoApp], todo'[w] \subseteq todo[w],
              \A v \in Workers : v # w => todo'[v] = todo[v],
              \A v \in Clicks : pc'[v] = "idle"
       PROVE  Exclusive'
  <2>1. /\ w \in Ticks /\ item[w] \in Items /\ item[w] \notin todo[w]
        /\ \A v \in Ticks : v # w => item[w] # item[v] /\ item[w] \notin todo[v]
    BY <1>5, <1>11, RunnerIs DEF Scraping
  <2>2. \A v \in Ticks, i \in Items : i = item'[v] \/ i \in todo'[v] => i # item[w] /\ Holds(v, i)
    BY <1>0, <1>11, <2>1, NoAppAssumption DEF Holds
  <2>3. \A v \in Ticks, i \in Items : i = item'[v] \/ i \in todo'[v] => Fenced(i)'
    BY <1>5, <1>11, <2>2 DEF Fenced
  <2> QED BY <1>5, <1>11, <2>2, <2>3, ExclusiveStays
<1>12. ASSUME NEW w \in Workers, pc[w] \in Scraping,
              RecordSuccess(item[w]) \/ RecordError(item[w]), Done(w), todo' = todo
       PROVE  Exclusive'
  <2>1. item[w] \in Items BY <1>12, InHand
  <2>2. \A j \in Items : j # item[w] => rows'[j] = rows[j] BY <1>0, <1>12, <2>1, OutcomeIs
  <2>3. Goto(w, Onward(w)) /\ item' = [item EXCEPT ![w] = NoApp] BY <1>12 DEF Done
  <2>4. \A v \in Clicks : pc'[v] = "idle" BY <1>7, <1>12, <2>3 DEF Scraping
  <2> QED BY <1>11, <1>12, <2>2, <2>3, <2>4
<1>13. ASSUME NEW w \in Workers, NEW i \in Items, Pick(w, i) PROVE Exclusive'
  <2>1. pc[w] = "next" /\ i \in todo[w] /\ todo' = [todo EXCEPT ![w] = @ \ {i}] BY <1>13 DEF Pick
  <2>2. w \in Ticks /\ item[w] = NoApp BY <1>0, <1>5, <2>1, RunnerIs DEF Placed, Scraping
  <2>3. Fenced(i) /\ \A v \in Ticks : v # w => i # item[v] /\ i \notin todo[v]
    BY <1>5, <2>1, <2>2 DEF Holds
  <2>4. CASE Target[i] = NoApp
    <3>1. RecordError(i) /\ pc' = pc /\ item' = item BY <1>13, <2>4 DEF Pick
    <3>2. \A j \in Items : j # i => rows'[j] = rows[j] BY <1>0, <3>1, OutcomeIs
    <3>3. \A v \in Ticks, j \in Items : j = item'[v] \/ j \in todo'[v] => j # i /\ Holds(v, j)
      BY <1>0, <2>1, <2>2, <2>3, <3>1, NoAppAssumption DEF Holds
    <3>4. \A v \in Ticks, j \in Items : j = item'[v] \/ j \in todo'[v] => Fenced(j)'
      BY <1>5, <3>2, <3>3 DEF Fenced
    <3> QED BY <1>5, <3>1, <3>3, <3>4, ExclusiveStays
  <2>5. CASE Target[i] # NoApp
    <3>1. Goto(w, "fetching") /\ item' = [item EXCEPT ![w] = i] /\ rows' = rows
      BY <1>13, <2>5 DEF Pick
    <3>2. \A v \in Clicks : pc'[v] = "idle" BY <1>7, <2>1, <3>1
    <3>3. \A v \in Ticks, j \in Items : j = item'[v] \/ j \in todo'[v] => Holds(v, j)
      BY <1>0, <2>1, <3>1 DEF Holds
    <3> QED BY <1>5, <1>8, <3>1, <3>2, <3>3, ExclusiveStays
  <2> QED BY <2>4, <2>5
<1>14. ASSUME NEW w \in Workers, Finish(w) PROVE Exclusive'
  BY <1>6, <1>7, <1>8, <1>14 DEF Finish, work
<1>15. ASSUME NEW w \in Workers, Parsed(w) PROVE Exclusive'
  BY <1>6, <1>7, <1>8, <1>15 DEF Parsed
<1>16. ASSUME NEW w \in Workers, FetchFails(w) PROVE Exclusive'
  BY <1>12, <1>16 DEF FetchFails, Scraping
<1>17. ASSUME NEW w \in Workers, Limited(w) PROVE Exclusive'
  <2>1. /\ pc[w] = "fetching" /\ RecordRetry(item[w]) /\ Goto(w, "idle")
        /\ item' = [item EXCEPT ![w] = NoApp] /\ todo' = [todo EXCEPT ![w] = {}]
    BY <1>17 DEF Limited
  <2>2. item[w] \in Items BY <2>1, InHand DEF Scraping
  <2>3. \A j \in Items : j # item[w] => rows'[j] = rows[j] BY <1>0, <2>1, <2>2, RetryIs
  <2>4. \A v \in Clicks : pc'[v] = "idle" BY <1>7, <2>1
  <2> QED BY <1>0, <1>11, <2>1, <2>3, <2>4 DEF Scraping
<1>18. ASSUME NEW w \in Workers, Commit(w) PROVE Exclusive'
  BY <1>6, <1>7, <1>8, <1>18 DEF Commit, work
<1>19. ASSUME NEW w \in Workers, Record(w) PROVE Exclusive'
  BY <1>12, <1>19 DEF Record, Scraping
<1>20. ASSUME NEW a \in Apps, DeleteApp(a) PROVE Exclusive'
  <2>1. \A i \in Items : Fenced(i) => Fenced(i)' BY <1>0, <1>20 DEF DeleteApp, Fenced, Rows
  <2> QED BY <1>5, <1>6, <1>20, <2>1 DEF DeleteApp, work
<1>21. ASSUME NEW m \in Imports, DeleteImport(m) PROVE Exclusive'
  <2>1. PICK gone : rows' = [i \in Items |->
                        IF ImportOf[i] = m
                        THEN [status |-> "absent", app |-> NoApp, next |-> "now"]
                        ELSE IF rows[i].app \in gone THEN [rows[i] EXCEPT !.app = NoApp]
                        ELSE rows[i]]
    BY <1>21 DEF DeleteImport
  <2>2. \A i \in Items : Fenced(i) => Fenced(i)' BY <1>0, <2>1 DEF Fenced, Rows
  <2> QED BY <1>5, <1>6, <1>21, <2>2 DEF DeleteImport, work
<1>22. ASSUME NEW i \in Items, FenceElapses(i) PROVE Exclusive'
  <2>1. /\ rows' = [rows EXCEPT ![i] = [rows[i] EXCEPT !.next = "now"]]
        /\ rows[i].next = "claimed" => \A w \in Ticks : ~ Holds(w, i)
        /\ UNCHANGED <<pc, todo, item>>
    BY <1>22 DEF FenceElapses, Holds, work
  <2>2. rows'[i].status = rows[i].status BY <1>0, <2>1 DEF Rows
  <2>3. \A w \in Ticks, j \in Items : Holds(w, j) => Fenced(j)'
    BY <1>0, <1>5, <2>1, <2>2 DEF Fenced
  <2> QED BY <1>5, <2>1, <2>3, ExclusiveStays DEF Holds
<1>23. CASE Crash
  <2>1. \A w \in Ticks, i \in Items : ~ (i = item'[w] \/ i \in todo'[w])
    BY <1>0, <1>23, NoAppAssumption DEF Crash
  <2>2. \A w \in Clicks : pc'[w] = "idle" BY <1>0, <1>23 DEF Crash
  <2> QED BY <1>5, <2>1, <2>2, ExclusiveStays
<1>24. CASE LockAges \/ PauseElapses \/ Boot \/ UNCHANGED vars
  BY <1>5, <1>6, <1>8, <1>24 DEF LockAges, PauseElapses, Boot, vars, work
<1> QED BY <1>2, <1>3, <1>9, <1>10, <1>13, <1>14, <1>15, <1>16, <1>17, <1>18, <1>19, <1>20, <1>21, <1>22,
           <1>23, <1>24 DEF Next, Runs, Fetched

LEMMA SpecExclusive == Spec => [](Typed /\ Exclusive)
BY TypedInit, TypedNext, ExclusiveInit, ExclusiveNext, PTL DEF Spec

\* No row is claimed by two ticks at once, although a slow tick loses the lock to
\* the next one after ninety seconds, as long as no retry button is pressed.
THEOREM ImportNoDoubleGrab == Spec => []NoDoubleGrab
<1>1. Exclusive => NoDoubleGrab BY DEF Exclusive, NoDoubleGrab
<1> QED BY <1>1, SpecExclusive, PTL

-----------------------------------------------------------------------------
(***************************************************************************)
(* What is settled stays settled.                                          *)
(***************************************************************************)

\* The outcome of a row that was not settled.
LEMMA OutcomeMoves ==
    ASSUME TypeOK, NEW i \in Items, rows[i].status \notin {"imported", "error"},
           RecordSuccess(i) \/ RecordError(i)
    PROVE  MovesOn /\ Completes
BY OutcomeIs DEF MovesOn

\* Steps that complete no import.
LEMMA QuietMoves ==
    ASSUME completed' = completed,
           \A i \in Items : \/ rows'[i].status = rows[i].status
                            \/ rows'[i].status \in {"removed", "absent"}
    PROVE  MovesOn /\ Completes
BY DEF MovesOn, Completes

LEMMA StepMoves == Typed /\ Exclusive /\ Unhurried' /\ [Next]_vars => MovesOn /\ Completes
<1> SUFFICES ASSUME Typed, Exclusive, Unhurried', [Next]_vars PROVE MovesOn /\ Completes OBVIOUS
<1>0. /\ TypeOK /\ rows \in [Items -> Rows] /\ Ticks \subseteq Workers /\ Clicks \subseteq Workers
  BY TypesAre DEF Typed, Workers
<1>00. Unhurried BY <1>0, NoPress
<1>1. ASSUME NEW w \in Workers, pc[w] \in Scraping
      PROVE  item[w] \in Items /\ rows[item[w]].status \in {"queued", "removed", "absent"}
  BY <1>00, <1>1, RunnerIs DEF Scraping, Fenced
<1>2. ASSUME UNCHANGED <<rows, completed>> PROVE MovesOn /\ Completes BY <1>2, QuietMoves
<1>3. ASSUME NEW w \in Ticks, Tick(w) PROVE MovesOn /\ Completes BY <1>2, <1>3 DEF Tick
<1>4. ASSUME NEW w \in Ticks, ForceTick(w) PROVE FALSE BY <1>0, <1>4, NoPress
<1>5. ASSUME NEW w \in Clicks, NEW i \in Items, Click(w, i) PROVE FALSE BY <1>0, <1>5, NoPress
<1>6. ASSUME NEW w \in Workers, Claim(w) PROVE MovesOn /\ Completes
  <2>1. PICK batch \in SUBSET Due :
           rows' = [i \in Items |-> IF i \in batch THEN [rows[i] EXCEPT !.next = "claimed"] ELSE rows[i]]
    BY <1>6 DEF Claim
  <2>2. \A i \in Items : rows'[i].status = rows[i].status BY <1>0, <2>1 DEF Rows
  <2> QED BY <2>2, <1>6, QuietMoves DEF Claim
<1>7. ASSUME NEW w \in Workers, NEW i \in Items, Pick(w, i) PROVE MovesOn /\ Completes
  <2>1. w \in Ticks /\ Fenced(i) BY <1>00, <1>7, RunnerIs DEF Pick, Exclusive, Holds
  <2>2. CASE Target[i] = NoApp BY <1>0, <1>7, <2>1, <2>2, OutcomeMoves DEF Pick, Fenced
  <2>3. CASE Target[i] # NoApp BY <1>2, <1>7, <2>3 DEF Pick
  <2> QED BY <2>2, <2>3
<1>8. ASSUME NEW w \in Workers, FetchFails(w) PROVE MovesOn /\ Completes
  <2>1. pc[w] \in Scraping /\ RecordError(item[w]) BY <1>8 DEF FetchFails, Scraping
  <2> QED BY <1>0, <1>1, <2>1, OutcomeMoves
<1>9. ASSUME NEW w \in Workers, Record(w) PROVE MovesOn /\ Completes
  <2>1. pc[w] \in Scraping /\ (RecordSuccess(item[w]) \/ RecordError(item[w]))
    BY <1>9 DEF Record, Scraping
  <2> QED BY <1>0, <1>1, <2>1, OutcomeMoves
<1>10. ASSUME NEW w \in Workers, Limited(w) PROVE MovesOn /\ Completes
  <2>1. pc[w] \in Scraping /\ RecordRetry(item[w]) BY <1>10 DEF Limited, Scraping
  <2>2. item[w] \in Items /\ rows[item[w]].status \in {"queued", "removed", "absent"} BY <1>1, <2>1
  <2>3. /\ completed' = completed /\ \A j \in Items : j # item[w] => rows'[j] = rows[j]
        /\ rows[item[w]].status = "absent" => rows'[item[w]].status = "absent"
    BY <1>0, <2>1, <2>2, RetryIs
  <2> QED BY <2>2, <2>3 DEF MovesOn, Completes
<1>11. ASSUME NEW a \in Apps, DeleteApp(a) PROVE MovesOn /\ Completes
  <2>1. \A i \in Items : rows'[i].status \in {rows[i].status, "removed"}
    BY <1>0, <1>11 DEF DeleteApp, Rows
  <2> QED BY <2>1, <1>11, QuietMoves DEF DeleteApp
<1>12. ASSUME NEW m \in Imports, DeleteImport(m) PROVE MovesOn /\ Completes
  <2>1. PICK gone : rows' = [i \in Items |->
                        IF ImportOf[i] = m
                        THEN [status |-> "absent", app |-> NoApp, next |-> "now"]
                        ELSE IF rows[i].app \in gone THEN [rows[i] EXCEPT !.app = NoApp]
                        ELSE rows[i]]
    BY <1>12 DEF DeleteImport
  <2>2. \A i \in Items : rows'[i].status \in {rows[i].status, "absent"} BY <1>0, <2>1 DEF Rows
  <2> QED BY <2>2, <1>12, QuietMoves DEF DeleteImport
<1>13. ASSUME NEW i \in Items, FenceElapses(i) PROVE MovesOn /\ Completes
  <2>1. rows' = [rows EXCEPT ![i] = [rows[i] EXCEPT !.next = "now"]] /\ completed' = completed
    BY <1>13 DEF FenceElapses
  <2>2. \A j \in Items : rows'[j].status = rows[j].status BY <1>0, <2>1 DEF Rows
  <2> QED BY <2>1, <2>2, QuietMoves
<1>14. CASE Crash
  <2>1. completed' = completed BY <1>14 DEF Crash
  <2>2. CASE rows' = rows BY <1>2, <2>1, <2>2
  <2>3. ASSUME NEW w \in Workers, Torn(w) PROVE MovesOn /\ Completes
    <3>1. PICK i \in Items : /\ Holds(w, i) /\ \A j \in Items : j # i => rows'[j] = rows[j]
                             /\ rows'[i].status \in {"imported", "error", "absent"}
      BY <2>3, TornIs
    <3>2. w \in Ticks BY <1>00, <2>3, TornIs, RunnerIs
    <3>3. rows[i].status \in {"queued", "removed", "absent"} BY <1>00, <3>1, <3>2 DEF Exclusive, Fenced
    <3> QED BY <2>1, <3>1, <3>3 DEF MovesOn, Completes
  <2> QED BY <1>14, <2>2, <2>3 DEF Crash
<1> QED BY <1>2, <1>3, <1>4, <1>5, <1>6, <1>7, <1>8, <1>9, <1>10, <1>11, <1>12, <1>13, <1>14
        DEF Next, Runs, Fetched, Finish, Parsed, Commit, LockAges, PauseElapses, Boot, vars

\* A row whose scrape has settled is not turned back by a later scrape, as long
\* as no retry button is pressed.
THEOREM ImportOutcomeKept == Spec => OutcomeKept
<1>1. Typed /\ Exclusive /\ [Next]_vars =>
         [ Unhurried' => \A i \in Items :
             /\ rows[i].status = "imported" => rows'[i].status \in {"imported", "removed", "absent"}
             /\ rows[i].status = "error" => rows'[i].status \in {"error", "removed", "absent"} ]_vars
  <2> SUFFICES ASSUME Typed, Exclusive, [Next]_vars, Unhurried'
               PROVE  \A i \in Items :
                        /\ rows[i].status = "imported" => rows'[i].status \in {"imported", "removed", "absent"}
                        /\ rows[i].status = "error" => rows'[i].status \in {"error", "removed", "absent"}
    OBVIOUS
  <2> QED BY StepMoves DEF MovesOn
<1> QED BY <1>1, SpecExclusive, PTL DEF Spec, OutcomeKept

\* An import is completed when no row of it waits, and none waits again after,
\* but for a removed one a scrape in flight brings back, as long as no retry
\* button is pressed.
THEOREM ImportStaysSettled == Spec => CompletedStaysSettled
<1>1. Typed /\ Exclusive /\ [Next]_vars =>
         [ Unhurried' => \A i \in Items :
             ImportOf[i] \in completed' /\ rows'[i].status = "queued"
                => \/ rows[i].status = "removed"
                   \/ ImportOf[i] \in completed /\ rows[i].status = "queued" ]_vars
  <2> SUFFICES ASSUME Typed, Exclusive, [Next]_vars, Unhurried', NEW i \in Items,
                      ImportOf[i] \in completed', rows'[i].status = "queued"
               PROVE  \/ rows[i].status = "removed"
                      \/ ImportOf[i] \in completed /\ rows[i].status = "queued"
    OBVIOUS
  <2> QED BY StepMoves DEF MovesOn, Completes
<1> QED BY <1>1, SpecExclusive, PTL DEF Spec, CompletedStaysSettled

-----------------------------------------------------------------------------
(***************************************************************************)
(* What leaves an import open.                                             *)
(***************************************************************************)

\* What OpenOnlyByARemoval says of a process that has not died.
Accounted ==
    \A i \in Items :
        rows[i].status \in {"imported", "error"} =>
            \/ ImportOf[i] \in completed
            \/ \E j \in Items : ImportOf[j] = ImportOf[i] /\ rows[j].status \in {"queued", "removed"}

\* Steps in which a row keeps its status, or is removed.
LEMMA AccountedStays ==
    ASSUME Accounted, completed' = completed,
           \A i \in Items : rows'[i].status = rows[i].status \/ rows'[i].status = "removed"
    PROVE  Accounted'
<1> SUFFICES ASSUME NEW i \in Items, rows'[i].status \in {"imported", "error"}, ImportOf[i] \notin completed
             PROVE  \E j \in Items : ImportOf[j] = ImportOf[i] /\ rows'[j].status \in {"queued", "removed"}
  BY DEF Accounted
<1>1. rows[i].status \in {"imported", "error"} OBVIOUS
<1>2. PICK j \in Items : ImportOf[j] = ImportOf[i] /\ rows[j].status \in {"queued", "removed"}
  BY <1>1 DEF Accounted
<1> QED BY <1>2

\* An outcome looks at the rows of its import as it leaves them.
LEMMA AccountedOutcome ==
    ASSUME TypeOK, Accounted, NEW i \in Items, RecordSuccess(i) \/ RecordError(i)
    PROVE  Accounted'
<1>0. rows \in [Items -> Rows] BY TypesAre
<1>1. CompletesWith(i, rows') /\ \E row : Write(i, row)
  BY DEF RecordSuccess, RecordError, WriteSuccess, WriteError
<1>2. CASE ~Exists(i)
  <2>1. rows' = rows /\ completed' = completed BY <1>0, <1>1, <1>2 DEF Write, CompletesWith
  <2> QED BY <2>1, AccountedStays
<1>3. CASE Exists(i)
  <2> SUFFICES ASSUME NEW k \in Items, rows'[k].status \in {"imported", "error"}
               PROVE  \/ ImportOf[k] \in completed'
                      \/ \E j \in Items : ImportOf[j] = ImportOf[k] /\ rows'[j].status \in {"queued", "removed"}
    BY DEF Accounted
  <2>1. CASE ImportOf[k] = ImportOf[i] BY <1>1, <1>3, <2>1 DEF CompletesWith
  <2>2. CASE ImportOf[k] # ImportOf[i]
    <3>1. \A j \in Items : j # i => rows'[j] = rows[j] BY OutcomeIs
    <3>2. completed \subseteq completed' BY <1>1 DEF CompletesWith
    <3>3. rows[k].status \in {"imported", "error"} BY <2>2, <3>1
    <3> QED BY <2>2, <3>1, <3>2, <3>3 DEF Accounted
  <2> QED BY <2>1, <2>2
<1> QED BY <1>2, <1>3

LEMMA AccountedNext == Typed /\ OpenOnlyByARemoval /\ [Next]_vars => OpenOnlyByARemoval'
<1> SUFFICES ASSUME Typed, OpenOnlyByARemoval, [Next]_vars, crashes' = 0 PROVE Accounted'
  BY DEF OpenOnlyByARemoval, Accounted
<1>0. TypeOK /\ rows \in [Items -> Rows] /\ crashes \in Nat BY TypesAre DEF Typed
<1>11. ASSUME Crash PROVE FALSE
  <2>1. crashes + 1 # crashes' BY <1>0
  <2> QED BY <1>11, <2>1 DEF Crash
<1>12. crashes' = crashes
  BY <1>11 DEF Next, Runs, Fetched, Tick, ForceTick, Claim, Pick, Finish, Click, Parsed, FetchFails,
     Limited, Commit, Record, DeleteApp, DeleteImport, LockAges, FenceElapses, PauseElapses, Boot, vars, bounds
<1>13. Accounted BY <1>12 DEF OpenOnlyByARemoval, Accounted
<1>1. ASSUME UNCHANGED <<rows, completed>> PROVE Accounted' BY <1>1, AccountedStays, <1>13
<1>2. ASSUME NEW w \in Ticks, Tick(w) \/ ForceTick(w) PROVE Accounted'
  <2>1. completed' = completed /\ \A i \in Items : rows'[i].status = rows[i].status
    BY <1>0, <1>2 DEF Tick, ForceTick, Rows
  <2> QED BY <2>1, AccountedStays, <1>13
<1>3. ASSUME NEW w \in Clicks, NEW i \in Items, Click(w, i) PROVE Accounted'
  BY <1>0, <1>1, <1>3, AccountedOutcome, <1>13 DEF Click
<1>4. ASSUME NEW w \in Workers, Claim(w) PROVE Accounted'
  <2>1. PICK batch \in SUBSET Due :
           rows' = [i \in Items |-> IF i \in batch THEN [rows[i] EXCEPT !.next = "claimed"] ELSE rows[i]]
    BY <1>4 DEF Claim
  <2>2. \A i \in Items : rows'[i].status = rows[i].status BY <1>0, <2>1 DEF Rows
  <2> QED BY <2>2, <1>4, AccountedStays, <1>13 DEF Claim
<1>5. ASSUME NEW w \in Workers, NEW i \in Items, Pick(w, i) PROVE Accounted'
  BY <1>0, <1>1, <1>5, AccountedOutcome, <1>13 DEF Pick
<1>6. ASSUME NEW w \in Workers, FetchFails(w) \/ Record(w) PROVE Accounted'
  <2>1. pc[w] \in Scraping /\ (RecordSuccess(item[w]) \/ RecordError(item[w]))
    BY <1>6 DEF FetchFails, Record, Scraping
  <2> QED BY <1>0, <2>1, InHand, AccountedOutcome, <1>13
<1>7. ASSUME NEW w \in Workers, Limited(w) PROVE Accounted'
  <2>1. pc[w] \in Scraping /\ RecordRetry(item[w]) BY <1>7 DEF Limited, Scraping
  <2>2. item[w] \in Items BY <2>1, InHand
  <2>3. PICK i \in Items : i = item[w] BY <2>2
  <2>4. completed' = completed /\ \A j \in Items : j # i => rows'[j] = rows[j]
    BY <1>0, <2>1, <2>3, RetryIs
  <2>5. rows'[i].status = "queued" \/ rows'[i] = rows[i]
    BY <1>0, <2>1, <2>3 DEF RecordRetry, Write, Rows
  <2>6. \A j \in Items : rows[j].status \in {"queued", "removed"} => rows'[j].status \in {"queued", "removed"}
    BY <2>4, <2>5
  <2>7. \A j \in Items : rows'[j].status \in {"imported", "error"} => rows[j].status = rows'[j].status
    BY <2>4, <2>5
  <2> QED BY <1>13, <2>4, <2>6, <2>7 DEF Accounted
<1>8. ASSUME NEW a \in Apps, DeleteApp(a) PROVE Accounted'
  <2>1. \A i \in Items : rows'[i].status = rows[i].status \/ rows'[i].status = "removed"
    BY <1>0, <1>8 DEF DeleteApp, Rows
  <2> QED BY <2>1, <1>8, AccountedStays, <1>13 DEF DeleteApp
<1>9. ASSUME NEW m \in Imports, DeleteImport(m) PROVE Accounted'
  <2>1. PICK gone : rows' = [i \in Items |->
                        IF ImportOf[i] = m
                        THEN [status |-> "absent", app |-> NoApp, next |-> "now"]
                        ELSE IF rows[i].app \in gone THEN [rows[i] EXCEPT !.app = NoApp]
                        ELSE rows[i]]
    BY <1>9 DEF DeleteImport
  <2>2. \A i \in Items : /\ ImportOf[i] = m => rows'[i].status = "absent"
                         /\ ImportOf[i] # m => rows'[i].status = rows[i].status
    BY <1>0, <2>1 DEF Rows
  <2>3. completed' = completed BY <1>9 DEF DeleteImport
  <2> QED BY <1>13, <2>2, <2>3 DEF Accounted
<1>10. ASSUME NEW i \in Items, FenceElapses(i) PROVE Accounted'
  <2>1. rows' = [rows EXCEPT ![i] = [rows[i] EXCEPT !.next = "now"]] /\ completed' = completed
    BY <1>10 DEF FenceElapses
  <2>2. \A j \in Items : rows'[j].status = rows[j].status BY <1>0, <2>1 DEF Rows
  <2> QED BY <2>1, <2>2, AccountedStays, <1>13
<1> QED BY <1>1, <1>2, <1>3, <1>4, <1>5, <1>6, <1>7, <1>8, <1>9, <1>10, <1>11
        DEF Next, Runs, Fetched, Finish, Parsed, Commit, LockAges, PauseElapses, Boot, vars

\* Whatever ticks, clicks and deletions come in whatever order, an import of which
\* a row is settled and none waits is completed, unless a row of it was removed (or
\* the process died): that is the one way out of the queue that does not call
\* completeImportIfSettled.
THEOREM ImportIsLeftOpenOnlyByARemoval == Spec => []OpenOnlyByARemoval
<1>1. Init => OpenOnlyByARemoval BY DEF Init, OpenOnlyByARemoval
<1> QED BY <1>1, AccountedNext, SpecTyped, PTL DEF Spec
=============================================================================
