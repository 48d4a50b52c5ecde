---------------------------- MODULE HistoryProofs ----------------------------
(***************************************************************************)
(* Proofs about the change history of an app, for any number of labels,    *)
(* captures, overlapping imports, tabs and reviews: its types; the badge   *)
(* never outlives what there is to review, when scrapes are written on the *)
(* spot; the grid shows the newest scrape; with one tab what is hidden is  *)
(* on record; and the imported captures are compared row by row.           *)
(***************************************************************************)
EXTENDS History, FiniteSetTheorems, WellFoundedInduction, TLAPS

-----------------------------------------------------------------------------
(***************************************************************************)
(* Types and dates.                                                        *)
(***************************************************************************)
AppRows == [here : BOOLEAN, label : Snapshots, count : Nat, ackAt : Nat, snoozed : BOOLEAN]
Entries == [at : Nat, source : Sources, by : Importers \cup {0},
            label : Snapshots, base : Snapshots \cup {NoBase}, changed : BOOLEAN]
Actions == {"reviewed", "snoozed", "unsnoozed"}
Reviews == [at : Nat, tab : Tabs, action : Actions, count : Nat, ackAt : Nat, snoozed : BOOLEAN]
Scrapes == [at : Nat, isNew : BOOLEAN, label : Labels, base : Snapshots \cup {NoBase}]

\* Captures bear the dates the archive has for them, all else the date of a tick
\* of its own; what is in the mailbox is later than every scrape and capture on
\* file, in the order of the scrapes.
Dated ==
    /\ now % 2 = 0
    /\ inline => posted = <<>>
    /\ \A r \in rows :
          /\ r.at <= now
          /\ r.source = "wayback" <=> r.at \in Captures
          /\ \A n \in DOMAIN posted : r.at # posted[n].at
          /\ r.source \in {"live", "wayback"} => \A n \in DOMAIN posted : r.at < posted[n].at
    /\ \A r, s \in rows : r.at = s.at /\ r.source # "wayback" => r = s
    /\ \A n \in DOMAIN posted : posted[n].at <= now /\ posted[n].at \notin Captures
    /\ \A m, n \in DOMAIN posted : m < n => posted[m].at < posted[n].at

Known == TypeOK /\ Dated

Smaller == OpToRel(<, Nat)

LEMMA Least ==
    ASSUME NEW T, T \subseteq Nat, T # {}
    PROVE  \E x \in T : \A y \in T : x <= y
<1>1. IsWellFoundedOn(Smaller, Nat) BY NatLessThanWellFounded, Zenon DEF Smaller
<1>2. PICK x \in T : \A y \in T : ~ (<<y, x>> \in Smaller) BY <1>1, WFMin
<1>3. \A y \in Nat : y < x => <<y, x>> \in Smaller BY Zenon DEF OpToRel, Smaller
<1>4. ASSUME NEW y \in T PROVE x <= y
  <2>1. ~ (y < x) BY <1>2, <1>3, Zenon
  <2>2. x \in Nat /\ y \in Nat OBVIOUS
  <2> QED BY <2>1, <2>2
<1> QED BY <1>4

\* There is an oldest row, and a newest one up to any date.
LEMMA OldestIs ==
    ASSUME NEW R, R \subseteq Entries, R # {}
    PROVE  Oldest(R) \in R /\ \A s \in R : Oldest(R).at <= s.at
<1> DEFINE T == {r.at : r \in R}
<1>1. T \subseteq Nat /\ T # {} BY DEF Entries
<1>2. PICK x \in T : \A y \in T : x <= y BY <1>1, Least
<1>3. \E r \in R : \A s \in R : r.at <= s.at BY <1>2
<1> QED BY <1>3 DEF Oldest

LEMMA NewestIs ==
    ASSUME NEW R, R \subseteq Entries, R # {}, NEW n \in Nat, \A r \in R : r.at <= n
    PROVE  Newest(R) \in R /\ \A s \in R : s.at <= Newest(R).at
<1> DEFINE T == {n - r.at : r \in R}
<1>0. \A r \in R : r.at \in Nat BY DEF Entries
<1>1. \A r \in R : n - r.at \in Nat BY <1>0
<1> T \subseteq Nat /\ T # {} BY <1>1
<1>2. PICK x \in T : \A y \in T : x <= y BY Least
<1>3. PICK r \in R : x = n - r.at OBVIOUS
<1>4. ASSUME NEW s \in R PROVE s.at <= r.at
  <2>1. n - r.at <= n - s.at BY <1>2, <1>3
  <2>2. r.at \in Nat /\ s.at \in Nat BY <1>0
  <2> QED BY <2>1, <2>2
<1>5. \E q \in R : \A s \in R : s.at <= q.at BY <1>4
<1> QED BY <1>5 DEF Newest

LEMMA LatestIs ==
    ASSUME Known, NEW default \in Snapshots
    PROVE  LatestOr(default) \in Snapshots
<1>1. rows \subseteq Entries /\ now \in Nat BY DEF Known, TypeOK, Entries
<1>2. ASSUME rows # {} PROVE Newest(rows) \in rows BY <1>1, <1>2, NewestIs DEF Known, Dated
<1> QED BY <1>1, <1>2 DEF LatestOr, Entries

LEMMA BlankTyped == Blank \in Snapshots /\ NoBase \notin Snapshots
BY LabelsAssumption DEF Snapshots

LEMMA RowIs ==
    ASSUME NEW t \in Nat, NEW source \in Sources, NEW label \in Snapshots,
           NEW base \in Snapshots \cup {NoBase}
    PROVE  /\ Row(t, source, label, base) \in Entries
           /\ Row(t, source, label, base).at = t
           /\ Row(t, source, label, base).source = source
           /\ Row(t, source, label, base).label = label
<1>1. PICK c \in BOOLEAN : c = Differs(base, label) BY DEF Differs
<1>2. Row(t, source, label, base) = [at |-> t, source |-> source, by |-> 0, label |-> label,
                                     base |-> base, changed |-> c]
  BY <1>1 DEF Row
<1> QED BY <1>2 DEF Entries

LEMMA TicksOn ==
    ASSUME Known, Ticks
    PROVE  now' = now + 2 /\ now' \in Nat /\ now' % 2 = 0 /\ now' \notin Captures
<1>1. now \in Nat /\ now % 2 = 0 /\ now' = now + 2 BY DEF Known, TypeOK, Dated, Ticks
<1>2. now' \in Nat /\ now' % 2 = 0 BY <1>1
<1>3. ASSUME now' \in Captures PROVE FALSE
  <2>1. now' % 2 = 1 BY <1>3, CapturesAssumption, Zenon
  <2>2. 0 = 1 BY <1>2, <2>1, Zenon
  <2> QED BY <2>2
<1> QED BY <1>1, <1>2, <1>3

\* What a scrape's transaction does.
LEMMA LandsIs ==
    ASSUME Known, NEW w \in Scrapes, Lands(w)
    PROVE  \/ rows' = rows /\ app' = app
           \/ /\ rows' = rows \cup {Row(w.at, "live", w.label, w.base)}
              /\ app' \in AppRows
              /\ app'.label = w.label
              /\ app'.ackAt \in {0, app.ackAt}
              /\ app'.snoozed => app.snoozed
<1>0. app \in AppRows BY DEF Known, TypeOK, AppRows
<1>1. CASE w.isNew = app.here BY <1>1 DEF Lands
<1>2. CASE w.isNew # app.here
  <2>1. rows' = rows \cup {Row(w.at, "live", w.label, w.base)} BY <1>2 DEF Lands
  <2>2. w.label \in Snapshots BY DEF Scrapes, Snapshots
  <2>3. CASE w.isNew
    <3>1. app' = [Untracked EXCEPT !.here = TRUE, !.label = w.label] BY <1>2, <2>3 DEF Lands
    <3>2. app' \in AppRows /\ app'.label = w.label /\ app'.ackAt = 0 /\ app'.snoozed = FALSE
      BY <3>1, <2>2 DEF Untracked, AppRows
    <3> QED BY <2>1, <3>2
  <2>4. CASE ~w.isNew
    <3>1. app' = [app EXCEPT !.label = w.label,
                             !.count = IF Differs(w.base, w.label) THEN @ + 1 ELSE @]
      BY <1>2, <2>4 DEF Lands
    <3> DEFINE n == IF Differs(w.base, w.label) THEN app.count + 1 ELSE app.count
    <3>0. n \in Nat BY <1>0 DEF AppRows
    <3>3. app' = [app EXCEPT !.label = w.label, !.count = n] BY <3>1, <1>0 DEF AppRows
    <3> HIDE DEF n
    <3>2. app' \in AppRows /\ app'.label = w.label /\ app'.ackAt = app.ackAt /\ app'.snoozed = app.snoozed
      BY <3>0, <3>3, <2>2, <1>0 DEF AppRows
    <3> QED BY <2>1, <3>2
  <2> QED BY <2>3, <2>4
<1> QED BY <1>1, <1>2

\* The scrape that is compared now.
LEMMA ScrapeIs ==
    ASSUME Known, NEW label \in Labels, Ticks
    PROVE  [at |-> now', isNew |-> ~app.here, label |-> label, base |-> Base] \in Scrapes
<1>1. app \in AppRows /\ now' \in Nat BY TicksOn DEF Known, TypeOK, AppRows
<1>2. Base \in Snapshots \cup {NoBase} BY <1>1, LatestIs DEF Base, AppRows
<1> QED BY <1>1, <1>2 DEF Scrapes, AppRows

\* What repairing does: nothing, or the oldest row after t, a capture, gets a
\* new comparison.
RepairedAt(R, t, label) ==
    \E o \in After(t) :
       /\ o.source = "wayback"
       /\ \A s \in After(t) : o.at <= s.at
       /\ \E base \in Snapshots \cup {NoBase}, changed \in BOOLEAN :
             /\ base = label
             /\ Repaired(R, t, label) = (R \ {o}) \cup {[o EXCEPT !.base = base, !.changed = changed]}

LEMMA RepairIs ==
    ASSUME rows \subseteq Entries, NEW R, NEW t, NEW label \in Snapshots
    PROVE  \/ /\ Repaired(R, t, label) = R
              /\ \/ After(t) = {}
                 \/ \E o \in After(t) : o.source # "wayback" /\ \A s \in After(t) : o.at <= s.at
           \/ RepairedAt(R, t, label)
<1> DEFINE o == Oldest(After(t))
<1>1. CASE After(t) = {} BY <1>1 DEF Repaired
<1>2. CASE After(t) # {}
  <2>1. After(t) \subseteq Entries BY DEF After
  <2>2. o \in After(t) /\ \A s \in After(t) : o.at <= s.at BY <2>1, <1>2, OldestIs
  <2>3. CASE o.source # "wayback"
    <3>1. Repaired(R, t, label) = R BY <2>3 DEF Repaired
    <3> QED BY <3>1, <2>2, <2>3
  <2>4. CASE o.source = "wayback"
    <3>1. Repaired(R, t, label)
             = (R \ {o}) \cup {[o EXCEPT !.base = label, !.changed = Differs(label, o.label)]}
      BY <1>2, <2>4 DEF Repaired
    <3>2. Differs(label, o.label) \in BOOLEAN BY DEF Differs
    <3> HIDE DEF o
    <3> QED BY <3>1, <3>2, <2>2, <2>4 DEF RepairedAt
  <2> QED BY <2>3, <2>4
<1> QED BY <1>1, <1>2

\* Repairing the capture after a new one leaves every scrape where it is.
LEMMA RepairKeepsScrapes ==
    ASSUME NEW R, NEW t, NEW label, NEW r \in R, r.source = "live"
    PROVE  r \in Repaired(R, t, label)
  <1>1. CASE After(t) # {} /\ Oldest(After(t)).source = "wayback"
    <2>1. r # Oldest(After(t)) BY <1>1
    <2> QED BY <1>1, <2>1 DEF Repaired
  <1>2. CASE ~(After(t) # {} /\ Oldest(After(t)).source = "wayback") BY <1>2 DEF Repaired
  <1> QED BY <1>1, <1>2

-----------------------------------------------------------------------------
LEMMA KnownInit == Init => Known
<1> SUFFICES ASSUME Init PROVE Known OBVIOUS
<1>1. TypeOK
  <2>1. Untracked \in AppRows BY BlankTyped DEF Untracked, AppRows
  <2> QED BY <2>1 DEF Init, TypeOK, AppRows
<1>2. Dated BY DEF Init, Dated
<1> QED BY <1>1, <1>2 DEF Known

\* What an import of a capture does to the timeline.
Incoming(i, t, base) ==
    [Row(t, "wayback", archive[t], base) EXCEPT !.by = i]

LEMMA IncomingIs ==
    ASSUME Known, NEW i \in Importers, NEW t \in Captures, NEW base \in Snapshots \cup {NoBase}
    PROVE  /\ Incoming(i, t, base) \in Entries
           /\ Incoming(i, t, base).at = t
           /\ Incoming(i, t, base).source = "wayback"
           /\ Incoming(i, t, base).by = i
           /\ Incoming(i, t, base).label = archive[t]
           /\ Incoming(i, t, base).base = base
<1>1. archive[t] \in Snapshots /\ t \in Nat BY CapturesAssumption DEF Known, TypeOK, Snapshots
<1>2. PICK c \in BOOLEAN : c = Differs(base, archive[t]) BY DEF Differs
<1>3. Incoming(i, t, base) = [at |-> t, source |-> "wayback", by |-> i, label |-> archive[t],
                              base |-> base, changed |-> c]
  BY <1>2 DEF Incoming, Row
<1> QED BY <1>1, <1>3 DEF Entries, Sources

LEMMA ImportIs ==
    ASSUME Known, NEW i \in Importers, NEW t \in Captures, Import(i, t)
    PROVE  \E base \in Snapshots \cup {NoBase} :
              /\ rows' = Repaired(rows \cup {Incoming(i, t, base)}, t, archive[t])
              /\ Before(t) = {} => base = NoBase
              /\ Before(t) # {} => \E b \in Before(t) : base = b.label /\ \A s \in Before(t) : s.at <= b.at
<1> DEFINE base == IF Before(t) = {} THEN NoBase ELSE Newest(Before(t)).label
<1>1. rows' = Repaired(rows \cup {Incoming(i, t, base)}, t, archive[t])
  BY DEF Import, Incoming
<1>2. Before(t) \subseteq Entries /\ now \in Nat /\ \A r \in Before(t) : r.at <= now
  BY DEF Before, Known, TypeOK, Dated, Entries
<1>3. Before(t) # {} => Newest(Before(t)) \in Before(t) /\ \A s \in Before(t) : s.at <= Newest(Before(t)).at
  BY <1>2, NewestIs
<1>4. base \in Snapshots \cup {NoBase} BY <1>2, <1>3 DEF Entries
<1>5. Before(t) # {} => base = Newest(Before(t)).label OBVIOUS
<1>6. Before(t) = {} => base = NoBase OBVIOUS
<1> HIDE DEF base
<1>7. Before(t) # {} => \E b \in Before(t) : base = b.label /\ \A s \in Before(t) : s.at <= b.at
  BY <1>3, <1>5
<1> QED BY <1>1, <1>4, <1>6, <1>7

\* A row repaired keeps all but what it is compared with.
LEMMA RebasedIs ==
    ASSUME NEW o \in Entries, NEW base \in Snapshots \cup {NoBase}, NEW changed \in BOOLEAN
    PROVE  LET p == [o EXCEPT !.base = base, !.changed = changed] IN
              /\ p \in Entries
              /\ p.at = o.at /\ p.source = o.source /\ p.by = o.by /\ p.label = o.label
              /\ p.base = base
BY DEF Entries

LEMMA RepairTyped ==
    ASSUME rows \subseteq Entries, NEW R, rows \subseteq R, R \subseteq Entries, NEW t, NEW label \in Snapshots
    PROVE  Repaired(R, t, label) \subseteq Entries
<1>1. CASE Repaired(R, t, label) = R BY <1>1
<1>2. CASE RepairedAt(R, t, label)
  <2>1. PICK o \in After(t), base \in Snapshots \cup {NoBase}, changed \in BOOLEAN :
           Repaired(R, t, label) = (R \ {o}) \cup {[o EXCEPT !.base = base, !.changed = changed]}
    BY <1>2 DEF RepairedAt
  <2>2. o \in Entries BY DEF After
  <2> QED BY <2>1, <2>2, RebasedIs
<1> QED BY <1>1, <1>2, RepairIs

Typed ==
    /\ inline \in BOOLEAN /\ archive \in [Captures -> Labels] /\ now \in Nat
    /\ app \in AppRows /\ rows \subseteq Entries /\ reviews \subseteq Reviews
    /\ posted \in Seq(Scrapes) /\ importing \subseteq Importers
    /\ known \in [Importers -> SUBSET Captures]

LEMMA TypedIs == Typed <=> TypeOK
BY DEF Typed, TypeOK, AppRows, Entries, Reviews, Actions, Scrapes

LEMMA TypeNext == Known /\ [Next]_vars => TypeOK'
<1> SUFFICES ASSUME Known, [Next]_vars PROVE TypeOK' OBVIOUS
<1>0. Typed BY TypedIs DEF Known
<1>1. Typed'
  <2>1. ASSUME NEW label \in Labels, Scrape(label) PROVE Typed'
    <3> DEFINE w == [at |-> now', isNew |-> ~app.here, label |-> label, base |-> Base]
    <3>1. Ticks /\ UNCHANGED <<env, reviews, imports>>
          /\ (\/ Lands(w) /\ posted' = posted
              \/ posted' = Append(posted, w) /\ app' = app /\ rows' = rows)
      BY <2>1 DEF Scrape
    <3>2. w \in Scrapes BY <3>1, ScrapeIs
    <3> HIDE DEF w
    <3>3. w.at \in Nat /\ w.label \in Snapshots /\ w.base \in Snapshots \cup {NoBase}
      BY <3>2 DEF Scrapes, Snapshots
    <3>4. Row(w.at, "live", w.label, w.base) \in Entries BY <3>3, RowIs DEF Sources
    <3>5. now' \in Nat BY <3>1, TicksOn
    <3>6. CASE Lands(w) /\ posted' = posted
      <4>1. app' \in AppRows /\ rows' \subseteq Entries BY <3>2, <3>4, <3>6, <1>0, LandsIs DEF Typed
      <4> QED BY <4>1, <3>1, <3>5, <3>6, <1>0 DEF env, imports, Typed
    <3>7. CASE posted' = Append(posted, w) /\ app' = app /\ rows' = rows
      BY <3>1, <3>2, <3>5, <3>7, <1>0 DEF env, imports, Typed
    <3> QED BY <3>1, <3>6, <3>7
  <2>2. CASE Commit
    <3>1. posted # <<>> /\ Lands(Head(posted)) /\ posted' = Tail(posted) /\ UNCHANGED <<env, now, reviews, imports>>
      BY <2>2 DEF Commit
    <3>2. Head(posted) \in Scrapes /\ posted' \in Seq(Scrapes) BY <3>1, <1>0 DEF Typed
    <3> DEFINE w == Head(posted)
    <3>3. w \in Scrapes /\ Lands(w) BY <3>1, <3>2
    <3> HIDE DEF w
    <3>4. w.at \in Nat /\ w.label \in Snapshots /\ w.base \in Snapshots \cup {NoBase}
      BY <3>3 DEF Scrapes, Snapshots
    <3>5. Row(w.at, "live", w.label, w.base) \in Entries BY <3>4, RowIs DEF Sources
    <3>6. app' \in AppRows /\ rows' \subseteq Entries BY <3>3, <3>5, <1>0, LandsIs DEF Typed
    <3> QED BY <3>1, <3>2, <3>6, <1>0 DEF env, imports, Typed
  <2>3. ASSUME NEW flagged \in BOOLEAN, Ticks,
               rows' = rows \cup {[Row(now', "policy", LatestOr(Blank), NoBase) EXCEPT !.changed = flagged]},
               UNCHANGED <<env, app, reviews, posted, imports>>
        PROVE  Typed'
    <3> DEFINE row == Row(now', "policy", LatestOr(Blank), NoBase)
    <3>1. now' \in Nat /\ LatestOr(Blank) \in Snapshots BY <2>3, TicksOn, LatestIs, BlankTyped
    <3>2. row \in Entries BY <3>1, RowIs DEF Sources
    <3> HIDE DEF row
    <3>3. [row EXCEPT !.changed = flagged] \in Entries BY <3>2 DEF Entries
    <3>4. rows' \subseteq Entries BY <2>3, <3>3, <1>0 DEF row, Typed
    <3> QED BY <2>3, <3>1, <3>4, <1>0 DEF env, imports, Typed
  <2>4. ASSUME NEW i \in Importers, OpenImport(i) PROVE Typed'
    <3>1. {r.at : r \in {r \in rows : r.source = "wayback"}} \subseteq Captures
      BY DEF Known, Dated
    <3> QED BY <2>4, <3>1, <1>0 DEF OpenImport, env, Typed
  <2>5. ASSUME NEW i \in Importers, CloseImport(i) PROVE Typed'
    <3>1. importing' \subseteq Importers /\ known' \in [Importers -> SUBSET Captures]
      BY <2>5, <1>0 DEF CloseImport, Closed, Typed
    <3>2. CASE now' = now /\ rows' = rows BY <2>5, <3>1, <3>2, <1>0 DEF CloseImport, env, Typed
    <3>3. CASE Ticks /\ rows' = rows \cup {Row(now', "savenow", LatestOr(Blank), NoBase)}
      <4>1. now' \in Nat /\ LatestOr(Blank) \in Snapshots BY <3>3, TicksOn, LatestIs, BlankTyped
      <4>2. Row(now', "savenow", LatestOr(Blank), NoBase) \in Entries BY <4>1, RowIs DEF Sources
      <4> QED BY <2>5, <3>1, <3>3, <4>1, <4>2, <1>0 DEF CloseImport, env, Typed
    <3> QED BY <2>5, <3>2, <3>3 DEF CloseImport
  <2>6. ASSUME NEW i \in Importers, NEW t \in Captures, Import(i, t) PROVE Typed'
    <3>1. PICK base \in Snapshots \cup {NoBase} :
             rows' = Repaired(rows \cup {Incoming(i, t, base)}, t, archive[t])
      BY <2>6, ImportIs
    <3>2. Incoming(i, t, base) \in Entries /\ archive[t] \in Snapshots
      BY IncomingIs, <1>0 DEF Snapshots, Typed
    <3>3. rows' \subseteq Entries BY <3>1, <3>2, <1>0, RepairTyped DEF Typed
    <3>4. known' \in [Importers -> SUBSET Captures] BY <2>6, <1>0 DEF Import, Typed
    <3> QED BY <2>6, <3>3, <3>4, <1>0 DEF Import, env, Typed
  <2>7. CASE RemoveHistory BY <2>7, <1>0 DEF RemoveHistory, env, imports, Typed
  <2>8. ASSUME NEW tab \in Tabs, Undo(tab) PROVE Typed'
    <3>1. PICK v \in reviews : reviews' = reviews \ {v} /\ app' = Restored(v) BY <2>8 DEF Undo
    <3>2. app' \in AppRows BY <3>1, <1>0 DEF Restored, AppRows, Reviews, Typed
    <3> QED BY <2>8, <3>1, <3>2, <1>0 DEF Undo, env, imports, Typed
  <2>9. ASSUME NEW tab \in Tabs, NEW action \in Actions, Review(tab, action) PROVE Typed'
    <3>1. now' \in Nat BY <2>9, TicksOn DEF Review
    <3>2. Acted(action) \in AppRows BY <1>0, <3>1 DEF Acted, Actions, AppRows, Typed
    <3>3. [at |-> now', tab |-> tab, action |-> action, count |-> app.count,
           ackAt |-> app.ackAt, snoozed |-> app.snoozed] \in Reviews
      BY <1>0, <3>1 DEF Reviews, AppRows, Typed
    <3> QED BY <2>9, <3>1, <3>2, <3>3, <1>0 DEF Review, env, imports, Typed
  <2>10. CASE SnoozeElapses BY <2>10, <1>0 DEF SnoozeElapses, env, imports, AppRows, Typed
  <2>11. CASE DeleteApp
    <3>1. Untracked \in AppRows BY BlankTyped DEF Untracked, AppRows
    <3> QED BY <2>11, <3>1, <1>0 DEF DeleteApp, env, imports, Typed
  <2>12. CASE ResetChangelog BY <2>12, <1>0 DEF ResetChangelog, ResetApp, env, imports, AppRows, Typed
  <2>13. CASE Crash BY <2>13, <1>0 DEF Crash, env, Typed
  <2>14. CASE UNCHANGED vars BY <2>14, <1>0 DEF vars, env, imports, Typed
  <2> QED BY <2>1, <2>2, <2>3, <2>4, <2>5, <2>6, <2>7, <2>8, <2>9, <2>10, <2>11, <2>12, <2>13, <2>14
          DEF Next, PolicyNote, Actions
<1> QED BY <1>1 DEF Typed, TypeOK, AppRows, Entries, Reviews, Actions, Scrapes

-----------------------------------------------------------------------------
LEMMA PostedDates == Known => \A n \in DOMAIN posted : posted[n].at \in Nat
<1> SUFFICES ASSUME Known, NEW n \in DOMAIN posted PROVE posted[n].at \in Nat OBVIOUS
<1>1. posted \in Seq(Scrapes) BY TypedIs DEF Known, Typed
<1>2. posted[n] \in Scrapes BY <1>1
<1> QED BY <1>2 DEF Scrapes

\* Steps that add no row and post no scrape.
LEMMA DatedStays ==
    ASSUME Known, inline' = inline, now' = now, rows' \subseteq rows, posted' \in {posted, <<>>}
    PROVE  Dated'
<1>1. CASE posted' = posted BY <1>1 DEF Known, Dated
<1>2. CASE posted' = <<>>
  <2>1. DOMAIN posted' = {} BY <1>2
  <2> QED BY <2>1, <1>2 DEF Known, Dated
<1> QED BY <1>1, <1>2

\* A row of this tick, a scrape only if none waits for the worker.
LEMMA DatedRow ==
    ASSUME Known, Ticks, inline' = inline, posted' = posted,
           NEW row, row.at = now', row.source # "wayback", row.source = "live" => posted = <<>>,
           rows' = rows \cup {row}
    PROVE  Dated'
<1>1. /\ now \in Nat /\ now' = now + 2 /\ now' % 2 = 0 /\ now' \notin Captures
      /\ rows \subseteq Entries /\ posted \in Seq(Scrapes)
  BY TicksOn, TypedIs DEF Known, Typed
<1>2. \A r \in rows : r.at \in Nat /\ r.at <= now BY <1>1 DEF Known, Dated, Entries
<1>3. \A n \in DOMAIN posted : posted[n].at \in Nat /\ posted[n].at <= now
  BY PostedDates DEF Known, Dated
<1>4. row.source = "live" => DOMAIN posted = {} OBVIOUS
<1>5. /\ now' % 2 = 0
      /\ inline' => posted' = <<>>
      /\ \A n \in DOMAIN posted' : posted'[n].at <= now' /\ posted'[n].at \notin Captures
      /\ \A m, n \in DOMAIN posted' : m < n => posted'[m].at < posted'[n].at
  BY <1>1, <1>3 DEF Known, Dated
<1>6. ASSUME NEW r \in rows' PROVE
         /\ r.at <= now'
         /\ r.source = "wayback" <=> r.at \in Captures
         /\ \A n \in DOMAIN posted' : r.at # posted'[n].at
         /\ r.source \in {"live", "wayback"} => \A n \in DOMAIN posted' : r.at < posted'[n].at
  <2>1. CASE r \in rows BY <2>1, <1>1, <1>2 DEF Known, Dated
  <2>2. CASE r = row BY <2>2, <1>1, <1>3, <1>4
  <2> QED BY <2>1, <2>2
<1>7. ASSUME NEW r \in rows', NEW s \in rows', r.at = s.at, r.source # "wayback" PROVE r = s
  <2>1. \A q \in rows : q.at # now' BY <1>1, <1>2
  <2> QED BY <1>7, <2>1 DEF Known, Dated
<1> QED BY <1>5, <1>6, <1>7 DEF Dated

LEMMA DatedPost ==
    ASSUME Known, Ticks, ~inline, inline' = inline, rows' = rows,
           NEW w \in Scrapes, w.at = now', posted' = Append(posted, w)
    PROVE  Dated'
<1>1. /\ now \in Nat /\ now' = now + 2 /\ now' % 2 = 0 /\ now' \notin Captures
      /\ rows \subseteq Entries /\ posted \in Seq(Scrapes)
  BY TicksOn, TypedIs DEF Known, Typed
<1>2. \A r \in rows : r.at \in Nat /\ r.at <= now BY <1>1 DEF Known, Dated, Entries
<1>3. \A n \in DOMAIN posted : posted[n].at \in Nat /\ posted[n].at <= now
  BY PostedDates DEF Known, Dated
<1>4. /\ DOMAIN posted = 1..Len(posted) /\ DOMAIN posted' = 1..(Len(posted) + 1) /\ Len(posted) \in Nat
      /\ \A n \in DOMAIN posted : posted'[n] = posted[n]
      /\ posted'[Len(posted) + 1] = w
  BY <1>1
<1>5. \A n \in DOMAIN posted' : n \in DOMAIN posted \/ n = Len(posted) + 1 BY <1>4
<1>6. \A n \in DOMAIN posted' : posted'[n].at <= now' /\ posted'[n].at \notin Captures
  BY <1>1, <1>3, <1>4, <1>5 DEF Known, Dated
<1>7. ASSUME NEW m \in DOMAIN posted', NEW n \in DOMAIN posted', m < n
      PROVE  posted'[m].at < posted'[n].at
  <2>1. CASE n \in DOMAIN posted
    <3>1. m \in DOMAIN posted BY <2>1, <1>4, <1>7
    <3> QED BY <2>1, <3>1, <1>4, <1>7 DEF Known, Dated
  <2>2. CASE n = Len(posted) + 1
    <3>1. m \in DOMAIN posted BY <2>2, <1>4, <1>7
    <3>2. posted'[m].at \in Nat /\ posted'[m].at <= now BY <3>1, <1>3, <1>4
    <3>3. posted'[n].at = now + 2 BY <2>2, <1>1, <1>4
    <3> QED BY <3>2, <3>3, <1>1
  <2> QED BY <2>1, <2>2, <1>5
<1>8. ASSUME NEW r \in rows PROVE
         /\ r.at <= now'
         /\ r.source = "wayback" <=> r.at \in Captures
         /\ \A n \in DOMAIN posted' : r.at # posted'[n].at
         /\ r.source \in {"live", "wayback"} => \A n \in DOMAIN posted' : r.at < posted'[n].at
  <2>1. r.at \in Nat /\ r.at <= now /\ r.at < now' BY <1>1, <1>2
  <2>2. r.source = "wayback" <=> r.at \in Captures BY DEF Known, Dated
  <2>3. \A n \in DOMAIN posted : r.at # posted[n].at BY DEF Known, Dated
  <2>4. r.source \in {"live", "wayback"} => \A n \in DOMAIN posted : r.at < posted[n].at BY DEF Known, Dated
  <2>5. \A n \in DOMAIN posted' : n \in DOMAIN posted => posted'[n].at = posted[n].at BY <1>4
  <2>6. \A n \in DOMAIN posted' : n \notin DOMAIN posted => posted'[n].at = now' BY <1>4, <1>5
  <2> QED BY <2>1, <2>2, <2>3, <2>4, <2>5, <2>6, <1>1
<1>9. inline' => posted' = <<>> OBVIOUS
<1>10. \A r, s \in rows : r.at = s.at /\ r.source # "wayback" => r = s BY DEF Known, Dated
<1> QED BY <1>1, <1>6, <1>7, <1>8, <1>9, <1>10 DEF Dated

\* The worker's transaction puts in the scrape that is first in the mailbox.
LEMMA DatedCommit ==
    ASSUME Known, posted # <<>>, posted' = Tail(posted), inline' = inline, now' = now,
           NEW row, row.at = posted[1].at, row.source = "live",
           rows' \in {rows, rows \cup {row}}
    PROVE  Dated'
<1>1. now \in Nat /\ rows \subseteq Entries /\ posted \in Seq(Scrapes) BY TypedIs DEF Known, Typed
<1>2. 1 \in DOMAIN posted /\ DOMAIN posted = 1..Len(posted) /\ Len(posted) \in Nat BY <1>1
<1>3. \A n \in DOMAIN posted' : n \in Nat /\ 1 < n + 1 /\ n + 1 \in DOMAIN posted /\ posted'[n] = posted[n + 1]
  BY <1>1, <1>2
<1>4. \A n \in DOMAIN posted' : posted'[n].at <= now' /\ posted'[n].at \notin Captures /\ row.at < posted'[n].at
  BY <1>2, <1>3 DEF Known, Dated
<1>5. \A m, n \in DOMAIN posted' : m < n => posted'[m].at < posted'[n].at
  <2> SUFFICES ASSUME NEW m \in DOMAIN posted', NEW n \in DOMAIN posted', m < n
               PROVE  posted'[m].at < posted'[n].at OBVIOUS
  <2>1. m + 1 < n + 1 BY <1>3
  <2> QED BY <2>1, <1>3 DEF Known, Dated
<1>6. posted[1].at \in Nat BY <1>2, PostedDates
<1>7. \A n \in DOMAIN posted' : row.at # posted'[n].at
  BY <1>3, <1>4, <1>6, PostedDates
<1>8. ASSUME NEW r \in rows' PROVE
         /\ r.at <= now'
         /\ r.source = "wayback" <=> r.at \in Captures
         /\ \A n \in DOMAIN posted' : r.at # posted'[n].at
         /\ r.source \in {"live", "wayback"} => \A n \in DOMAIN posted' : r.at < posted'[n].at
  <2>1. CASE r \in rows BY <2>1, <1>3 DEF Known, Dated
  <2>2. CASE r = row BY <2>2, <1>2, <1>4, <1>7 DEF Known, Dated
  <2> QED BY <2>1, <2>2
<1>9. \A r, s \in rows' : r.at = s.at /\ r.source # "wayback" => r = s
  BY <1>2 DEF Known, Dated
<1>10. inline' => posted' = <<>> BY DEF Known, Dated
<1> QED BY <1>4, <1>5, <1>8, <1>9, <1>10 DEF Known, Dated

\* Each row after an import was there before, but for what it is compared with,
\* or is the capture imported.
LEMMA ImportedRows ==
    ASSUME Known, NEW t, NEW label \in Snapshots, NEW row \in Entries
    PROVE  \A r \in Repaired(rows \cup {row}, t, label) :
              \/ r = row
              \/ r \in rows
              \/ /\ r.source = "wayback"
                 /\ \E o \in rows : o.source = "wayback" /\ o.at = r.at /\ o.label = r.label /\ o.by = r.by
<1>0. rows \subseteq Entries BY TypedIs DEF Known, Typed
<1>1. CASE Repaired(rows \cup {row}, t, label) = rows \cup {row} BY <1>1
<1>2. CASE RepairedAt(rows \cup {row}, t, label)
  <2>1. PICK o \in After(t), base \in Snapshots \cup {NoBase}, changed \in BOOLEAN :
           /\ o.source = "wayback"
           /\ Repaired(rows \cup {row}, t, label)
                = ((rows \cup {row}) \ {o}) \cup {[o EXCEPT !.base = base, !.changed = changed]}
    BY <1>2 DEF RepairedAt
  <2>2. o \in rows /\ o \in Entries BY <1>0 DEF After
  <2>3. PICK p : p = [o EXCEPT !.base = base, !.changed = changed] OBVIOUS
  <2>4. p.at = o.at /\ p.source = o.source /\ p.label = o.label /\ p.by = o.by
    BY <2>2, <2>3 DEF Entries
  <2> QED BY <2>1, <2>2, <2>3, <2>4
<1> QED BY <1>0, <1>1, <1>2, RepairIs

LEMMA DatedImport ==
    ASSUME Known, NEW i \in Importers, NEW t \in Captures, Import(i, t)
    PROVE  Dated'
<1>1. /\ now \in Nat /\ rows \subseteq Entries /\ posted \in Seq(Scrapes) /\ t \in Nat
      /\ archive[t] \in Snapshots
  BY TypedIs, CapturesAssumption DEF Known, Typed, Snapshots
<1>2. inline' = inline /\ now' = now /\ posted' = posted /\ t < now /\ \A n \in DOMAIN posted : t < posted[n].at
  BY DEF Import, Reaches, env
<1>3. PICK base \in Snapshots \cup {NoBase} : rows' = Repaired(rows \cup {Incoming(i, t, base)}, t, archive[t])
  BY ImportIs
<1>4. PICK row \in Entries : row = Incoming(i, t, base) /\ row.at = t /\ row.source = "wayback"
  BY IncomingIs
<1>5. \A r \in rows' :
         \/ r = row
         \/ r \in rows
         \/ r.source = "wayback" /\ \E o \in rows : o.source = "wayback" /\ o.at = r.at
  BY <1>1, <1>3, <1>4, ImportedRows
<1>6. \A r \in rows' : \/ r.at = t /\ r.source = "wayback"
                       \/ \E o \in rows : o.at = r.at /\ o.source = r.source
  BY <1>4, <1>5
<1>7. \A n \in DOMAIN posted : posted[n].at \in Nat BY PostedDates
<1>8. ASSUME NEW r \in rows' PROVE
         /\ r.at <= now'
         /\ r.source = "wayback" <=> r.at \in Captures
         /\ \A n \in DOMAIN posted' : r.at # posted'[n].at
         /\ r.source \in {"live", "wayback"} => \A n \in DOMAIN posted' : r.at < posted'[n].at
  <2>1. CASE r.at = t /\ r.source = "wayback" BY <2>1, <1>1, <1>2, <1>7
  <2>2. CASE \E o \in rows : o.at = r.at /\ o.source = r.source
    BY <2>2, <1>2 DEF Known, Dated
  <2> QED BY <1>6, <2>1, <2>2
<1>9. ASSUME NEW r \in rows', NEW s \in rows', r.at = s.at, r.source # "wayback" PROVE r = s
  <2>1. r \in rows BY <1>4, <1>5, <1>9
  <2>2. r.at \notin Captures BY <1>8, <1>9
  <2>3. s.source # "wayback" BY <1>8, <1>9, <2>2
  <2>4. s \in rows BY <1>4, <1>5, <2>3
  <2> QED BY <2>1, <2>4, <1>9 DEF Known, Dated
<1> QED BY <1>2, <1>8, <1>9 DEF Known, Dated

LEMMA DatedNext == Known /\ [Next]_vars => Dated'
<1> SUFFICES ASSUME Known, [Next]_vars PROVE Dated' OBVIOUS
<1>0. rows \subseteq Entries /\ posted \in Seq(Scrapes) /\ now \in Nat BY TypedIs DEF Known, Typed
<1>1. ASSUME NEW label \in Labels, Scrape(label) PROVE Dated'
  <2> DEFINE w == [at |-> now', isNew |-> ~app.here, label |-> label, base |-> Base]
  <2>1. Ticks /\ inline' = inline
        /\ (\/ inline /\ Lands(w) /\ posted' = posted
            \/ ~inline /\ posted' = Append(posted, w) /\ rows' = rows)
    BY <1>1 DEF Scrape, env
  <2>2. w \in Scrapes BY <2>1, ScrapeIs
  <2>3. w.at = now' OBVIOUS
  <2> HIDE DEF w
  <2>4. CASE inline /\ Lands(w) /\ posted' = posted
    <3>1. posted = <<>> BY <2>4 DEF Known, Dated
    <3>2. w.at \in Nat /\ w.label \in Snapshots /\ w.base \in Snapshots \cup {NoBase}
      BY <2>2 DEF Scrapes, Snapshots
    <3>3. PICK row : row = Row(w.at, "live", w.label, w.base) OBVIOUS
    <3>4. row.at = now' /\ row.source = "live" BY <2>3, <3>2, <3>3, RowIs DEF Sources
    <3>5. CASE rows' = rows
      <4>1. now' = now + 2 /\ now' % 2 = 0 BY <2>1, TicksOn
      <4>2. \A r \in rows : r.at \in Nat /\ r.at <= now' BY <4>1, <1>0 DEF Known, Dated, Entries
      <4>3. DOMAIN posted = {} BY <3>1
      <4> QED BY <2>1, <2>4, <3>1, <3>5, <4>1, <4>2, <4>3 DEF Known, Dated
    <3>6. CASE rows' = rows \cup {row} BY <2>1, <2>4, <3>1, <3>4, <3>6, DatedRow
    <3> QED BY <2>2, <2>4, <3>3, <3>5, <3>6, LandsIs
  <2>5. CASE ~inline /\ posted' = Append(posted, w) /\ rows' = rows
    BY <2>1, <2>2, <2>3, <2>5, DatedPost
  <2> QED BY <2>1, <2>4, <2>5
<1>2. CASE Commit
  <2>1. posted # <<>> /\ Lands(Head(posted)) /\ posted' = Tail(posted) /\ inline' = inline /\ now' = now
    BY <1>2 DEF Commit, env
  <2> DEFINE w == Head(posted)
  <2>2. w \in Scrapes /\ w = posted[1] /\ Lands(w) BY <2>1, <1>0
  <2> HIDE DEF w
  <2>3. w.at \in Nat /\ w.label \in Snapshots /\ w.base \in Snapshots \cup {NoBase}
    BY <2>2 DEF Scrapes, Snapshots
  <2>4. PICK row : row = Row(w.at, "live", w.label, w.base) OBVIOUS
  <2>5. row.at = posted[1].at /\ row.source = "live" BY <2>2, <2>3, <2>4, RowIs DEF Sources
  <2>6. rows' \in {rows, rows \cup {row}} BY <2>2, <2>4, LandsIs
  <2> QED BY <2>1, <2>5, <2>6, DatedCommit
<1>3. ASSUME NEW flagged \in BOOLEAN, Ticks, UNCHANGED <<env, posted>>,
             rows' = rows \cup {[Row(now', "policy", LatestOr(Blank), NoBase) EXCEPT !.changed = flagged]}
      PROVE  Dated'
  <2>1. now' \in Nat /\ LatestOr(Blank) \in Snapshots BY <1>3, TicksOn, LatestIs, BlankTyped
  <2>2. PICK q : q = Row(now', "policy", LatestOr(Blank), NoBase) OBVIOUS
  <2>3. q \in Entries /\ q.at = now' /\ q.source = "policy" BY <2>1, <2>2, RowIs DEF Sources
  <2>4. PICK row : row = [q EXCEPT !.changed = flagged] OBVIOUS
  <2>5. row.at = now' /\ row.source = "policy" BY <2>3, <2>4 DEF Entries
  <2> QED BY <1>3, <2>2, <2>4, <2>5, DatedRow DEF env
<1>4. ASSUME NEW i \in Importers, OpenImport(i) PROVE Dated' BY <1>4, DatedStays DEF OpenImport, env
<1>5. ASSUME NEW i \in Importers, CloseImport(i) PROVE Dated'
  <2>0. inline' = inline /\ posted' = posted BY <1>5 DEF CloseImport, env
  <2>1. CASE now' = now /\ rows' = rows BY <2>0, <2>1, DatedStays
  <2>2. CASE Ticks /\ rows' = rows \cup {Row(now', "savenow", LatestOr(Blank), NoBase)}
    <3>1. now' \in Nat /\ LatestOr(Blank) \in Snapshots BY <2>2, TicksOn, LatestIs, BlankTyped
    <3>2. PICK row : row = Row(now', "savenow", LatestOr(Blank), NoBase) OBVIOUS
    <3>3. row.at = now' /\ row.source = "savenow" BY <3>1, <3>2, RowIs DEF Sources
    <3> QED BY <2>0, <2>2, <3>2, <3>3, DatedRow
  <2> QED BY <1>5, <2>1, <2>2 DEF CloseImport
<1>6. ASSUME NEW i \in Importers, NEW t \in Captures, Import(i, t) PROVE Dated' BY <1>6, DatedImport
<1>7. CASE RemoveHistory BY <1>7, DatedStays DEF RemoveHistory, env
<1>8. ASSUME NEW tab \in Tabs, Undo(tab) PROVE Dated' BY <1>8, DatedStays DEF Undo, env
<1>9. ASSUME NEW tab \in Tabs, NEW action \in Actions, Review(tab, action) PROVE Dated'
  <2>1. Ticks /\ UNCHANGED <<env, rows, posted>> BY <1>9 DEF Review
  <2>2. now' = now + 2 /\ now' % 2 = 0 BY <2>1, TicksOn
  <2>3. \A r \in rows : r.at \in Nat /\ r.at <= now' BY <2>2, <1>0 DEF Known, Dated, Entries
  <2>4. \A n \in DOMAIN posted : posted[n].at \in Nat /\ posted[n].at <= now'
    BY <2>2, <1>0, PostedDates DEF Known, Dated
  <2> QED BY <2>1, <2>2, <2>3, <2>4 DEF Known, Dated, env
<1>10. CASE SnoozeElapses BY <1>10, DatedStays DEF SnoozeElapses, env
<1>11. CASE DeleteApp BY <1>11, DatedStays DEF DeleteApp, env
<1>12. CASE ResetChangelog BY <1>12, DatedStays DEF ResetChangelog, env
<1>13. CASE Crash BY <1>13, DatedStays DEF Crash, env
<1>14. CASE UNCHANGED vars BY <1>14, DatedStays DEF vars, env
<1> QED BY <1>1, <1>2, <1>3, <1>4, <1>5, <1>6, <1>7, <1>8, <1>9, <1>10, <1>11, <1>12, <1>13, <1>14
        DEF Next, PolicyNote, Actions

LEMMA SpecKnown == Spec => []Known
<1>1. Known /\ [Next]_vars => Known' BY TypeNext, DatedNext DEF Known
<1> QED BY <1>1, KnownInit, PTL DEF Spec

\* The variables of the history stay within their types.
THEOREM HistoryTypeCorrect == Spec => []TypeOK
BY SpecKnown, PTL DEF Known

-----------------------------------------------------------------------------
(***************************************************************************)
(* The badge has its scrape.                                               *)
(***************************************************************************)
\* A scrape in R still to be reviewed, for one who last reviewed at time ackAt.
ScrapeSince(R, ackAt) == \E r \in R : r.source = "live" /\ r.changed /\ r.at > ackAt

\* A state of the badge, now or kept for undo, that has its scrape in R.
Backed(R, s) == s.ackAt \in Nat /\ s.ackAt <= now /\ (s.count > 0 => ScrapeSince(R, s.ackAt))

\* What undo may bring back has to be backed as well as what is there, and a
\* scrape that is compared must land after every review there has been.
BadgeInv ==
    inline =>
        /\ posted = <<>>
        /\ now \in Nat
        /\ app = [here |-> app.here, label |-> app.label, count |-> app.count,
                  ackAt |-> app.ackAt, snoozed |-> app.snoozed]
        /\ Backed(rows, app)
        /\ \A v \in reviews : Backed(rows, v)

-----------------------------------------------------------------------------
\* Time that passes and rows that come leave a badge backed, as long as no
\* changed scrape goes.
LEMMA BackedStays ==
    ASSUME NEW R, NEW S, NEW s, now \in Nat, now' \in Nat, now <= now',
           \A r \in R : r.source = "live" => r \in S,
           Backed(R, s)
    PROVE  s.ackAt \in Nat /\ s.ackAt <= now' /\ (s.count > 0 => ScrapeSince(S, s.ackAt))
  <1>1. s.ackAt \in Nat /\ s.ackAt <= now' BY DEF Backed
  <1>2. ASSUME s.count > 0 PROVE ScrapeSince(S, s.ackAt) BY <1>2 DEF Backed, ScrapeSince
  <1> QED BY <1>1, <1>2

-----------------------------------------------------------------------------
LEMMA BadgeInit == Init => BadgeInv
  <1> SUFFICES ASSUME Init, inline PROVE BadgeInv BY DEF BadgeInv
  <1>1. app = Untracked /\ now = 0 /\ reviews = {} /\ posted = <<>> BY DEF Init
  <1>2. Backed(rows, app) BY <1>1 DEF Backed, Untracked
  <1> QED BY <1>1, <1>2 DEF BadgeInv, Untracked

\* A step that leaves the app and its reviews alone and takes no scrape away.
LEMMA BadgeStaysBacked ==
    ASSUME BadgeInv, inline, app' = app, reviews' \subseteq reviews, posted' = posted,
           now' \in {now, now + 2},
           \A r \in rows : r.source = "live" => r \in rows'
    PROVE  BadgeInv'
  <1>0. now \in Nat /\ now' \in Nat /\ now <= now' BY DEF BadgeInv
  <1>1. Backed(rows, app)' BY <1>0, BackedStays DEF BadgeInv, Backed
  <1>2. \A v \in reviews : v.ackAt \in Nat /\ v.ackAt <= now' /\ (v.count > 0 => ScrapeSince(rows', v.ackAt))
    BY <1>0, BackedStays DEF BadgeInv
  <1>3. \A v \in reviews' : Backed(rows, v)' BY <1>2 DEF Backed
  <1> QED BY <1>0, <1>1, <1>3 DEF BadgeInv

LEMMA BadgeNext == BadgeInv /\ [Next]_vars => BadgeInv'
  <1> SUFFICES ASSUME BadgeInv, [Next]_vars, inline' PROVE BadgeInv' BY DEF BadgeInv
  <1> inline' = inline BY DEF Next, vars, env, Scrape, Commit, PolicyNote, OpenImport, CloseImport, Import,
                             RemoveHistory, Undo, Review, SnoozeElapses, DeleteApp, ResetChangelog, Crash
  <1> inline OBVIOUS
  <1>0. posted = <<>> /\ now \in Nat BY DEF BadgeInv
  <1>1. ASSUME NEW label \in Labels, Scrape(label) PROVE BadgeInv'
    <2> DEFINE w == [at |-> now', isNew |-> ~app.here, label |-> label, base |-> Base]
    <2>1. Lands(w) /\ posted' = posted /\ reviews' = reviews /\ now' = now + 2
      BY <1>1 DEF Scrape, Ticks
    <2>2. w.at = now' /\ w.isNew = ~app.here /\ w.label = label OBVIOUS
    <2> HIDE DEF w
    <2>3. now' \in Nat /\ now <= now' BY <1>0, <2>1
    <2>4. w.isNew # app.here BY <2>2
    <2>5. rows' = rows \cup {Row(w.at, "live", w.label, w.base)} BY <2>1, <2>4 DEF Lands
    <2>6. \A r \in rows : r \in rows' BY <2>5
    <2>7. \A v \in reviews : v.ackAt \in Nat /\ v.ackAt <= now' /\ (v.count > 0 => ScrapeSince(rows', v.ackAt))
      BY <2>3, <2>6, <1>0, BackedStays DEF BadgeInv
    <2>8. \A v \in reviews' : Backed(rows, v)' BY <2>7, <2>1 DEF Backed
    <2>9. CASE w.isNew
      <3>1. app' = [Untracked EXCEPT !.here = TRUE, !.label = w.label] BY <2>1, <2>4, <2>9 DEF Lands
      <3>2. app'.count = 0 /\ app'.ackAt = 0 BY <3>1 DEF Untracked
      <3>3. Backed(rows, app)' BY <3>2, <2>3 DEF Backed
      <3> QED BY <3>1, <3>3, <2>8, <2>3, <2>1, <1>0 DEF BadgeInv, Untracked
    <2>10. CASE ~w.isNew /\ Differs(w.base, w.label)
      <3>1. app' = [app EXCEPT !.label = w.label, !.count = @ + 1] BY <2>1, <2>4, <2>10 DEF Lands
      <3>2. app'.ackAt = app.ackAt BY <3>1 DEF BadgeInv
      <3>3. LET r == Row(w.at, "live", w.label, w.base) IN r.source = "live" /\ r.changed /\ r.at = now'
        BY <2>10, <2>2 DEF Row
      <3>4. app.ackAt \in Nat /\ app.ackAt <= now BY DEF BadgeInv, Backed
      <3>5. ScrapeSince(rows', app.ackAt) BY <3>3, <3>4, <2>5, <2>1, <1>0 DEF ScrapeSince
      <3>6. Backed(rows, app)' BY <3>2, <3>4, <3>5, <2>3, <1>0 DEF Backed
      <3> QED BY <3>1, <3>6, <2>8, <2>3, <2>1, <1>0 DEF BadgeInv
    <2>11. CASE ~w.isNew /\ ~Differs(w.base, w.label)
      <3>1. app' = [app EXCEPT !.label = w.label, !.count = @] BY <2>1, <2>4, <2>11 DEF Lands
      <3>2. app'.ackAt = app.ackAt /\ app'.count = app.count BY <3>1 DEF BadgeInv
      <3>3. app.ackAt \in Nat /\ app.ackAt <= now' /\ (app.count > 0 => ScrapeSince(rows', app.ackAt))
        BY <2>3, <2>6, <1>0, BackedStays DEF BadgeInv
      <3>4. Backed(rows, app)' BY <3>2, <3>3 DEF Backed
      <3> QED BY <3>1, <3>4, <2>8, <2>3, <2>1, <1>0 DEF BadgeInv
    <2> QED BY <2>9, <2>10, <2>11
  <1>2. CASE Commit BY <1>2, <1>0 DEF Commit
  <1>3. CASE PolicyNote BY <1>3, <1>0, BadgeStaysBacked DEF PolicyNote, Ticks
  <1>4. ASSUME NEW i \in Importers, OpenImport(i) PROVE BadgeInv'
    BY <1>4, <1>0, BadgeStaysBacked DEF OpenImport
  <1>5. ASSUME NEW i \in Importers, CloseImport(i) PROVE BadgeInv'
    BY <1>5, <1>0, BadgeStaysBacked DEF CloseImport, Ticks
  <1>6. ASSUME NEW i \in Importers, NEW t \in Captures, Import(i, t) PROVE BadgeInv'
    <2>1. \E row : rows' = Repaired(rows \cup {row}, t, archive[t]) BY <1>6 DEF Import
    <2>2. \A r \in rows : r.source = "live" => r \in rows' BY <2>1, RepairKeepsScrapes
    <2> QED BY <1>6, <2>2, <1>0, BadgeStaysBacked DEF Import
  <1>7. CASE RemoveHistory BY <1>7, <1>0, BadgeStaysBacked DEF RemoveHistory
  <1>8. ASSUME NEW tab \in Tabs, NEW action \in {"reviewed", "snoozed", "unsnoozed"}, Review(tab, action)
        PROVE BadgeInv'
    <2> DEFINE v == [at |-> now', tab |-> tab, action |-> action, count |-> app.count,
                     ackAt |-> app.ackAt, snoozed |-> app.snoozed]
    <2>1. now' = now + 2 /\ rows' = rows /\ posted' = posted /\ reviews' = reviews \cup {v} /\ app' = Acted(action)
      BY <1>8 DEF Review, Ticks
    <2>2. v.count = app.count /\ v.ackAt = app.ackAt OBVIOUS
    <2> HIDE DEF v
    <2>3. now' \in Nat /\ now <= now' BY <1>0, <2>1
    <2>4. \A s \in reviews \cup {app} :
             s.ackAt \in Nat /\ s.ackAt <= now' /\ (s.count > 0 => ScrapeSince(rows', s.ackAt))
      BY <2>1, <2>3, <1>0, BackedStays DEF BadgeInv
    <2>5. \A s \in reviews' : Backed(rows, s)' BY <2>1, <2>2, <2>4 DEF Backed
    <2>6. CASE action = "reviewed"
      <3>1. app' = [app EXCEPT !.count = 0, !.ackAt = now', !.snoozed = FALSE] BY <2>1, <2>6 DEF Acted
      <3>2. app'.count = 0 /\ app'.ackAt = now' BY <3>1 DEF BadgeInv
      <3>3. Backed(rows, app)' BY <3>2, <2>3 DEF Backed
      <3> QED BY <3>1, <3>3, <2>5, <2>3, <2>1, <1>0 DEF BadgeInv
    <2>7. CASE action \in {"snoozed", "unsnoozed"}
      <3>1. \E b \in BOOLEAN : app' = [app EXCEPT !.snoozed = b] BY <2>1, <2>7 DEF Acted
      <3>2. app'.count = app.count /\ app'.ackAt = app.ackAt BY <3>1 DEF BadgeInv
      <3>3. Backed(rows, app)' BY <3>2, <2>4 DEF Backed
      <3> QED BY <3>1, <3>3, <2>5, <2>3, <2>1, <1>0 DEF BadgeInv
    <2> QED BY <2>6, <2>7
  <1>9. ASSUME NEW tab \in Tabs, Undo(tab) PROVE BadgeInv'
    <2>1. PICK v \in reviews : reviews' = reviews \ {v} /\ app' = Restored(v) BY <1>9 DEF Undo
    <2>2. rows' = rows /\ now' = now /\ posted' = posted BY <1>9 DEF Undo
    <2>3. app'.count = v.count /\ app'.ackAt = v.ackAt BY <2>1 DEF Restored, BadgeInv
    <2>4. Backed(rows, app)' BY <2>2, <2>3 DEF BadgeInv, Backed
    <2>5. \A s \in reviews' : Backed(rows, s)' BY <2>1, <2>2 DEF BadgeInv, Backed
    <2> QED BY <2>1, <2>2, <2>4, <2>5, <1>0 DEF BadgeInv, Restored
  <1>10. CASE SnoozeElapses
    <2>1. app' = [app EXCEPT !.snoozed = FALSE] /\ rows' = rows /\ now' = now /\ posted' = posted /\ reviews' = reviews
      BY <1>10 DEF SnoozeElapses
    <2>2. app'.count = app.count /\ app'.ackAt = app.ackAt BY <2>1 DEF BadgeInv
    <2> QED BY <2>1, <2>2 DEF BadgeInv, Backed
  <1>11. CASE DeleteApp
    <2>1. app' = Untracked /\ now' = now /\ posted' = posted /\ reviews' = {} BY <1>11 DEF DeleteApp
    <2> QED BY <2>1, <1>0 DEF BadgeInv, Backed, Untracked
  <1>12. CASE ResetChangelog
    <2>1. app' = ResetApp /\ now' = now /\ posted' = posted /\ reviews' = {} BY <1>12 DEF ResetChangelog
    <2>2. app'.count = 0 /\ app'.ackAt = 0 BY <2>1 DEF ResetApp, BadgeInv
    <2>3. app' = [here |-> app'.here, label |-> app'.label, count |-> app'.count,
                  ackAt |-> app'.ackAt, snoozed |-> app'.snoozed]
      BY <2>1 DEF ResetApp, BadgeInv
    <2>4. Backed(rows, app)' BY <2>1, <2>2, <1>0 DEF Backed
    <2> QED BY <2>1, <2>3, <2>4, <1>0 DEF BadgeInv
  <1>13. CASE Crash BY <1>13, <1>0, BadgeStaysBacked DEF Crash
  <1>14. CASE UNCHANGED vars BY <1>14, <1>0, BadgeStaysBacked DEF vars, env
  <1> QED BY <1>1, <1>2, <1>3, <1>4, <1>5, <1>6, <1>7, <1>8, <1>9, <1>10, <1>11, <1>12, <1>13, <1>14 DEF Next

\* A badge always stands for a scrape to review, also after any undo.
THEOREM BadgeHasPendingAlways == Spec => []BadgeHasPending
  <1>1. BadgeInv => BadgeHasPending BY DEF BadgeInv, BadgeHasPending, Backed, ScrapeSince, Pending
  <1> QED BY <1>1, BadgeInit, BadgeNext, PTL DEF Spec

-----------------------------------------------------------------------------
(***************************************************************************)
(* The grid shows the newest scrape.                                       *)
(***************************************************************************)
Lives(R) == {r \in R : r.source = "live"}

\* A newest scrape on file has the labels of the app's row.
Shown == Lives(rows) # {} => \E r \in Lives(rows) : r.label = app.label /\ \A s \in Lives(rows) : s.at <= r.at

LEMMA ShownStays ==
    ASSUME Shown, Lives(rows') = Lives(rows), app'.label = app.label
    PROVE  Shown'
BY DEF Shown

\* A scrape lands after every other.
LEMMA ShownLands ==
    ASSUME Known, Shown, NEW w \in Scrapes, Lands(w), \A r \in Lives(rows) : r.at < w.at
    PROVE  Shown'
<1>0. rows \subseteq Entries BY TypedIs DEF Known, Typed
<1>1. w.at \in Nat /\ w.label \in Snapshots /\ w.base \in Snapshots \cup {NoBase}
  BY DEF Scrapes, Snapshots
<1>2. PICK row : row = Row(w.at, "live", w.label, w.base) OBVIOUS
<1>3. row.at = w.at /\ row.source = "live" /\ row.label = w.label BY <1>1, <1>2, RowIs DEF Sources
<1>4. CASE rows' = rows /\ app' = app BY <1>4, ShownStays
<1>5. CASE rows' = rows \cup {row} /\ app'.label = w.label
  <2>1. Lives(rows') = Lives(rows) \cup {row} BY <1>3, <1>5 DEF Lives
  <2>2. \A s \in Lives(rows) : s.at \in Nat BY <1>0 DEF Lives, Entries
  <2>3. \A s \in Lives(rows') : s.at <= row.at BY <2>1, <2>2, <1>1, <1>3
  <2> QED BY <2>1, <2>3, <1>3, <1>5 DEF Shown
<1> QED BY <1>2, <1>4, <1>5, LandsIs

LEMMA ShownNext == Known /\ Shown /\ [Next]_vars => Shown'
<1> SUFFICES ASSUME Known, Shown, [Next]_vars PROVE Shown' OBVIOUS
<1>0. /\ rows \subseteq Entries /\ posted \in Seq(Scrapes) /\ now \in Nat /\ app \in AppRows
      /\ reviews \subseteq Reviews
  BY TypedIs DEF Known, Typed
<1>1. ASSUME NEW label \in Labels, Scrape(label) PROVE Shown'
  <2> DEFINE w == [at |-> now', isNew |-> ~app.here, label |-> label, base |-> Base]
  <2>1. Ticks /\ (Lands(w) \/ UNCHANGED <<app, rows>>) BY <1>1 DEF Scrape
  <2>2. w \in Scrapes /\ w.at = now' BY <2>1, ScrapeIs
  <2> HIDE DEF w
  <2>3. \A r \in Lives(rows) : r.at < w.at
    BY <2>1, <2>2, <1>0, TicksOn DEF Known, Dated, Entries, Lives
  <2> QED BY <2>1, <2>2, <2>3, ShownLands, ShownStays
<1>2. CASE Commit
  <2>1. posted # <<>> /\ Lands(Head(posted)) BY <1>2 DEF Commit
  <2> DEFINE w == Head(posted)
  <2>2. w \in Scrapes /\ w = posted[1] /\ 1 \in DOMAIN posted BY <2>1, <1>0
  <2>3. Lands(w) BY <2>1
  <2> HIDE DEF w
  <2>4. \A r \in Lives(rows) : r.at < w.at BY <2>2 DEF Known, Dated, Lives
  <2> QED BY <2>2, <2>3, <2>4, ShownLands
<1>3. ASSUME NEW flagged \in BOOLEAN, Ticks, app' = app,
             rows' = rows \cup {[Row(now', "policy", LatestOr(Blank), NoBase) EXCEPT !.changed = flagged]}
      PROVE  Shown'
  <2>1. now' \in Nat /\ LatestOr(Blank) \in Snapshots BY <1>3, TicksOn, LatestIs, BlankTyped
  <2>2. PICK q : q = Row(now', "policy", LatestOr(Blank), NoBase) OBVIOUS
  <2>3. q \in Entries /\ q.source = "policy" BY <2>1, <2>2, RowIs DEF Sources
  <2>4. PICK row : row = [q EXCEPT !.changed = flagged] OBVIOUS
  <2>5. row.source = "policy" BY <2>3, <2>4 DEF Entries
  <2>6. Lives(rows') = Lives(rows) BY <1>3, <2>2, <2>4, <2>5 DEF Lives
  <2> QED BY <1>3, <2>6, ShownStays
<1>4. ASSUME NEW i \in Importers, OpenImport(i) PROVE Shown' BY <1>4, ShownStays DEF OpenImport
<1>5. ASSUME NEW i \in Importers, CloseImport(i) PROVE Shown'
  <2>1. CASE rows' = rows BY <1>5, <2>1, ShownStays DEF CloseImport
  <2>2. CASE Ticks /\ rows' = rows \cup {Row(now', "savenow", LatestOr(Blank), NoBase)}
    <3>1. now' \in Nat /\ LatestOr(Blank) \in Snapshots BY <2>2, TicksOn, LatestIs, BlankTyped
    <3>2. PICK row : row = Row(now', "savenow", LatestOr(Blank), NoBase) OBVIOUS
    <3>3. row.source = "savenow" BY <3>1, <3>2, RowIs DEF Sources
    <3>4. Lives(rows') = Lives(rows) BY <2>2, <3>2, <3>3 DEF Lives
    <3> QED BY <1>5, <3>4, ShownStays DEF CloseImport
  <2> QED BY <1>5, <2>1, <2>2 DEF CloseImport
<1>6. ASSUME NEW i \in Importers, NEW t \in Captures, Import(i, t) PROVE Shown'
  <2>0. archive[t] \in Snapshots BY DEF Known, TypeOK, Snapshots
  <2>1. PICK base \in Snapshots \cup {NoBase} : rows' = Repaired(rows \cup {Incoming(i, t, base)}, t, archive[t])
    BY <1>6, ImportIs
  <2>2. PICK row \in Entries : row = Incoming(i, t, base) /\ row.source = "wayback" BY IncomingIs
  <2>3. \A r \in rows' : r = row \/ r \in rows \/ r.source = "wayback" BY <2>0, <2>1, <2>2, ImportedRows
  <2>4. \A r \in rows : r.source = "live" => r \in rows' BY <2>1, RepairKeepsScrapes
  <2>5. Lives(rows') = Lives(rows) BY <2>2, <2>3, <2>4 DEF Lives
  <2> QED BY <1>6, <2>5, ShownStays DEF Import
<1>7. CASE RemoveHistory
  <2>1. Lives(rows') = Lives(rows) BY <1>7 DEF RemoveHistory, Lives
  <2> QED BY <1>7, <2>1, ShownStays DEF RemoveHistory
<1>8. ASSUME NEW tab \in Tabs, Undo(tab) PROVE Shown'
  <2>1. PICK v \in reviews : app' = Restored(v) BY <1>8 DEF Undo
  <2>2. app'.label = app.label BY <2>1, <1>0 DEF Restored, AppRows
  <2> QED BY <1>8, <2>2, ShownStays DEF Undo
<1>9. ASSUME NEW tab \in Tabs, NEW action \in Actions, Review(tab, action) PROVE Shown'
  <2>1. app'.label = app.label BY <1>9, <1>0 DEF Review, Acted, AppRows, Actions
  <2> QED BY <1>9, <2>1, ShownStays DEF Review
<1>10. CASE SnoozeElapses
  <2>1. app'.label = app.label BY <1>10, <1>0 DEF SnoozeElapses, AppRows
  <2> QED BY <1>10, <2>1, ShownStays DEF SnoozeElapses
<1>11. CASE DeleteApp BY <1>11 DEF DeleteApp, Shown, Lives
<1>12. CASE ResetChangelog BY <1>12 DEF ResetChangelog, Shown, Lives
<1>13. CASE Crash BY <1>13, ShownStays DEF Crash
<1>14. CASE UNCHANGED vars BY <1>14, ShownStays DEF vars
<1> QED BY <1>1, <1>2, <1>3, <1>4, <1>5, <1>6, <1>7, <1>8, <1>9, <1>10, <1>11, <1>12, <1>13, <1>14
        DEF Next, PolicyNote, Actions

\* The labels the grid shows are those of the newest scrape in the timeline,
\* through the captures, notes, late writes, undos and resets around it.
THEOREM GridAlwaysMatches == Spec => []GridMatchesHistory
<1>1. Init => Shown BY DEF Init, Shown, Lives
<1>2. Known /\ Shown => GridMatchesHistory
  <2> SUFFICES ASSUME Known, Shown, Lives(rows) # {} PROVE app.label = Newest(Lives(rows)).label
    BY DEF GridMatchesHistory, Lives
  <2>0. rows \subseteq Entries BY TypedIs DEF Known, Typed
  <2>1. PICK r \in Lives(rows) : r.label = app.label /\ \A s \in Lives(rows) : s.at <= r.at
    BY DEF Shown
  <2>2. Newest(Lives(rows)) \in Lives(rows) /\ \A s \in Lives(rows) : s.at <= Newest(Lives(rows)).at
    BY <2>1 DEF Newest
  <2>3. Newest(Lives(rows)).at = r.at
    <3>1. Newest(Lives(rows)).at \in Nat /\ r.at \in Nat BY <2>0, <2>2 DEF Lives, Entries
    <3> QED BY <3>1, <2>1, <2>2
  <2>4. Newest(Lives(rows)) = r BY <2>2, <2>3 DEF Known, Dated, Lives
  <2> QED BY <2>1, <2>4
<1> QED BY <1>1, <1>2, ShownNext, SpecKnown, PTL DEF Spec

-----------------------------------------------------------------------------
(***************************************************************************)
(* What is hidden is on record.                                            *)
(***************************************************************************)

\* A state of the app, now or kept for undo, that actions before t have made.
Recorded(R, s, t) ==
    /\ s.ackAt > 0 => \E r \in R : r.action = "reviewed" /\ r.at = s.ackAt /\ r.at < t
    /\ s.snoozed => \E r \in R : r.action = "snoozed" /\ r.at < t

\* With one tab undo takes back the newest action there is, so that the state it
\* brings back stands on the actions that remain.
OnRecord ==
    (\A t, u \in Tabs : t = u) =>
        /\ Recorded(reviews, app, now + 1)
        /\ \A v \in reviews : v.at <= now /\ Recorded(reviews, v, v.at)

LEMMA OnRecordStays ==
    ASSUME Known, OnRecord, reviews' = reviews, now' \in {now, now + 2},
           app'.ackAt \in {0, app.ackAt}, app'.snoozed => app.snoozed
    PROVE  OnRecord'
<1> SUFFICES ASSUME \A t, u \in Tabs : t = u
             PROVE  Recorded(reviews', app', now' + 1) /\ \A v \in reviews : v.at <= now' /\ Recorded(reviews', v, v.at)
  BY DEF OnRecord
<1>0. now \in Nat /\ reviews \subseteq Reviews BY TypedIs DEF Known, Typed
<1>1. now' \in Nat /\ now <= now' BY <1>0
<1>2. \A v \in reviews : v.at \in Nat /\ v.at <= now /\ v.at <= now' BY <1>0, <1>1 DEF OnRecord, Reviews
<1>3. \A v \in reviews : Recorded(reviews', v, v.at) BY DEF OnRecord, Recorded
<1>4. \A v \in reviews : v.at < now' + 1 BY <1>1, <1>2
<1>5. Recorded(reviews', app', now' + 1) BY <1>4 DEF OnRecord, Recorded
<1> QED BY <1>2, <1>3, <1>5

LEMMA OnRecordNext == Known /\ OnRecord /\ [Next]_vars => OnRecord'
<1> SUFFICES ASSUME Known, OnRecord, [Next]_vars PROVE OnRecord' OBVIOUS
<1>0. /\ posted \in Seq(Scrapes) /\ now \in Nat /\ app \in AppRows /\ reviews \subseteq Reviews
  BY TypedIs DEF Known, Typed
<1>1. ASSUME NEW label \in Labels, Scrape(label) PROVE OnRecord'
  <2> DEFINE w == [at |-> now', isNew |-> ~app.here, label |-> label, base |-> Base]
  <2>1. Ticks /\ reviews' = reviews /\ (Lands(w) \/ app' = app) BY <1>1 DEF Scrape
  <2>2. w \in Scrapes /\ now' = now + 2 BY <2>1, ScrapeIs, TicksOn
  <2> HIDE DEF w
  <2>3. app'.ackAt \in {0, app.ackAt} /\ (app'.snoozed => app.snoozed) BY <2>1, <2>2, LandsIs
  <2> QED BY <2>1, <2>2, <2>3, OnRecordStays
<1>2. CASE Commit
  <2>1. posted # <<>> /\ Lands(Head(posted)) /\ reviews' = reviews /\ now' = now BY <1>2 DEF Commit
  <2>2. Head(posted) \in Scrapes BY <2>1, <1>0
  <2>3. app'.ackAt \in {0, app.ackAt} /\ (app'.snoozed => app.snoozed) BY <2>1, <2>2, LandsIs
  <2> QED BY <2>1, <2>3, OnRecordStays
<1>3. CASE PolicyNote BY <1>3, OnRecordStays DEF PolicyNote, Ticks
<1>4. ASSUME NEW i \in Importers, OpenImport(i) PROVE OnRecord' BY <1>4, OnRecordStays DEF OpenImport
<1>5. ASSUME NEW i \in Importers, CloseImport(i) PROVE OnRecord'
  BY <1>5, OnRecordStays DEF CloseImport, Ticks
<1>6. ASSUME NEW i \in Importers, NEW t \in Captures, Import(i, t) PROVE OnRecord'
  BY <1>6, OnRecordStays DEF Import
<1>7. CASE RemoveHistory BY <1>7, OnRecordStays DEF RemoveHistory
<1>8. ASSUME NEW tab \in Tabs, Undo(tab) PROVE OnRecord'
  <2> SUFFICES ASSUME \A t, u \in Tabs : t = u
               PROVE  Recorded(reviews', app', now' + 1) /\ \A v \in reviews' : v.at <= now' /\ Recorded(reviews', v, v.at)
    BY DEF OnRecord
  <2>1. PICK r \in reviews : /\ r.tab = tab
                             /\ \A s \in reviews : s.tab = tab => s.at <= r.at
                             /\ reviews' = reviews \ {r}
                             /\ app' = Restored(r)
    BY <1>8 DEF Undo
  <2>2. now' = now BY <1>8 DEF Undo
  <2>3. \A s \in reviews : s.tab = tab /\ s.at \in Nat BY <1>0 DEF Reviews
  <2>4. \A s \in reviews : s.at <= r.at /\ s.at <= now BY <2>1, <2>3 DEF OnRecord
  <2>5. \A v, q \in reviews : q.at < v.at => q \in reviews' BY <2>1, <2>3, <2>4
  <2>6. \A v \in reviews : Recorded(reviews, v, v.at) BY DEF OnRecord
  <2>7. \A v \in reviews : Recorded(reviews', v, v.at) BY <2>5, <2>6 DEF Recorded
  <2>8. app'.ackAt = r.ackAt /\ app'.snoozed = r.snoozed BY <2>1, <1>0 DEF Restored, AppRows
  <2>9. \A q \in reviews : q.at < now' + 1 BY <2>2, <2>3, <2>4, <1>0
  <2>10. Recorded(reviews', app', now' + 1) BY <2>5, <2>6, <2>8, <2>9 DEF Recorded
  <2> QED BY <2>1, <2>2, <2>4, <2>7, <2>10
<1>9. ASSUME NEW tab \in Tabs, NEW action \in Actions, Review(tab, action) PROVE OnRecord'
  <2> SUFFICES ASSUME \A t, u \in Tabs : t = u
               PROVE  Recorded(reviews', app', now' + 1) /\ \A v \in reviews' : v.at <= now' /\ Recorded(reviews', v, v.at)
    BY DEF OnRecord
  <2> DEFINE v == [at |-> now', tab |-> tab, action |-> action, count |-> app.count,
                   ackAt |-> app.ackAt, snoozed |-> app.snoozed]
  <2>1. now' = now + 2 /\ reviews' = reviews \cup {v} /\ app' = Acted(action)
    BY <1>9 DEF Review, Ticks
  <2>2. v.at = now' /\ v.action = action /\ v.ackAt = app.ackAt /\ v.snoozed = app.snoozed OBVIOUS
  <2> HIDE DEF v
  <2>3. now < now' /\ now' \in Nat BY <2>1, <1>0
  <2>4. \A r \in reviews : r.at \in Nat /\ r.at <= now /\ r.at < now' /\ r.at < now' + 1 /\ r.at <= now'
    BY <2>3, <1>0 DEF OnRecord, Reviews
  <2>5. \A r \in reviews : Recorded(reviews', r, r.at) BY <2>1 DEF OnRecord, Recorded
  <2>6. Recorded(reviews', v, v.at)
    <3>1. Recorded(reviews, app, now + 1) BY DEF OnRecord
    <3>2. \A r \in reviews : r \in reviews' /\ r.at < v.at BY <2>1, <2>2, <2>4
    <3> QED BY <2>2, <3>1, <3>2 DEF Recorded
  <2>7. now' < now' + 1
    <3>1. \A k \in Nat : k < k + 1 OBVIOUS
    <3> QED BY <2>3, <3>1, Zenon
  <2>8. \A q \in reviews' : q.at <= now' /\ Recorded(reviews', q, q.at)
    <3>1. now' <= now' BY <2>3
    <3>2. \A q \in reviews' : q \in reviews \/ q = v BY <2>1
    <3> QED BY <3>1, <3>2, <2>2, <2>4, <2>5, <2>6
  <2>9. CASE action = "reviewed"
    <3>1. app'.ackAt = now' /\ app'.snoozed = FALSE BY <2>1, <2>9, <1>0 DEF Acted, AppRows
    <3>2. v \in reviews' /\ v.action = "reviewed" /\ v.at < now' + 1 BY <2>1, <2>2, <2>7, <2>9
    <3>3. Recorded(reviews', app', now' + 1) BY <2>2, <3>1, <3>2 DEF Recorded
    <3> QED BY <3>3, <2>8
  <2>10. CASE action \in {"snoozed", "unsnoozed"}
    <3>1. app'.ackAt = app.ackAt /\ (app'.snoozed => action = "snoozed")
      BY <2>1, <2>10, <1>0 DEF Acted, AppRows
    <3>2. Recorded(reviews', app', now' + 1) BY <3>1, <2>1, <2>2, <2>4, <2>7 DEF OnRecord, Recorded
    <3> QED BY <3>2, <2>8
  <2> QED BY <2>9, <2>10 DEF Actions
<1>10. CASE SnoozeElapses
  <2>1. app'.ackAt = app.ackAt /\ app'.snoozed = FALSE BY <1>10, <1>0 DEF SnoozeElapses, AppRows
  <2> QED BY <1>10, <2>1, OnRecordStays DEF SnoozeElapses
<1>11. CASE DeleteApp
  <2>1. app'.ackAt = 0 /\ app'.snoozed = FALSE /\ reviews' = {} BY <1>11 DEF DeleteApp, Untracked
  <2> QED BY <2>1 DEF OnRecord, Recorded
<1>12. CASE ResetChangelog
  <2>1. app'.ackAt = 0 /\ app'.snoozed = FALSE /\ reviews' = {}
    BY <1>12, <1>0 DEF ResetChangelog, ResetApp, AppRows
  <2> QED BY <2>1 DEF OnRecord, Recorded
<1>13. CASE Crash BY <1>13, OnRecordStays DEF Crash
<1>14. CASE UNCHANGED vars BY <1>14, OnRecordStays DEF vars
<1> QED BY <1>1, <1>2, <1>3, <1>4, <1>5, <1>6, <1>7, <1>8, <1>9, <1>10, <1>11, <1>12, <1>13, <1>14
        DEF Next, Actions

\* With one tab, changes are hidden as acknowledged or snoozed only by an action
\* on record, however the user acts and undoes.
THEOREM ReviewIsAlwaysOnRecord == Spec => []ReviewIsOnRecord
<1>1. Init => OnRecord BY DEF Init, OnRecord, Recorded, Untracked
<1>2. OnRecord => ReviewIsOnRecord
  <2>1. ASSUME Cardinality(Tabs) = 1 PROVE \A t, u \in Tabs : t = u
    <3>1. \E x : Tabs = {x} BY <2>1, TabsAssumption, FS_Singleton
    <3> QED BY <3>1
  <2> QED BY <2>1 DEF OnRecord, Recorded, ReviewIsOnRecord
<1> QED BY <1>1, <1>2, OnRecordNext, SpecKnown, PTL DEF Spec

-----------------------------------------------------------------------------
(***************************************************************************)
(* The archive is chained.                                                 *)
(***************************************************************************)

\* An import under way knows of every capture it has put on file itself, so that
\* it puts none in twice.
Kept ==
    /\ \A r \in Archived : r.by \in importing => r.at \in known[r.by]
    /\ \A r, s \in Archived : r.at = s.at /\ r.by = s.by => r = s

\* r is compared with the newest row of R before it.
ComparedIn(R, r) ==
    /\ (\A s \in R : ~ (s.at < r.at)) => r.base = NoBase
    /\ \A p \in R : p.at < r.at /\ (\A s \in R : s.at < r.at => s.at <= p.at) => r.base = p.label

Chained == CaptureStoredOnce => \A r \in Archived : ComparedIn(rows, r)

Archive == Known /\ Kept /\ Chained

\* The timeline after an import, row by row.
LEMMA ImportShape ==
    ASSUME Known, NEW i \in Importers, NEW t \in Captures, Import(i, t)
    PROVE  \E row \in Entries :
              /\ row.at = t /\ row.source = "wayback" /\ row.by = i /\ row.label = archive[t]
              /\ Before(t) = {} => row.base = NoBase
              /\ Before(t) # {} => \E b \in Before(t) : row.base = b.label /\ \A s \in Before(t) : s.at <= b.at
              /\ \/ /\ rows' = rows \cup {row}
                    /\ \/ After(t) = {}
                       \/ \E o \in After(t) : o.source # "wayback" /\ \A s \in After(t) : o.at <= s.at
                 \/ \E o \in After(t), p \in Entries :
                       /\ o.source = "wayback"
                       /\ \A s \in After(t) : o.at <= s.at
                       /\ p.at = o.at /\ p.source = o.source /\ p.by = o.by /\ p.label = o.label
                       /\ p.base = archive[t]
                       /\ rows' = ((rows \cup {row}) \ {o}) \cup {p}
<1>0. rows \subseteq Entries /\ archive[t] \in Snapshots BY TypedIs DEF Known, Typed, Snapshots
<1>1. PICK base \in Snapshots \cup {NoBase} :
         /\ rows' = Repaired(rows \cup {Incoming(i, t, base)}, t, archive[t])
         /\ Before(t) = {} => base = NoBase
         /\ Before(t) # {} => \E b \in Before(t) : base = b.label /\ \A s \in Before(t) : s.at <= b.at
  BY ImportIs
<1>2. PICK row \in Entries :
         /\ row = Incoming(i, t, base)
         /\ row.at = t /\ row.source = "wayback" /\ row.by = i /\ row.label = archive[t] /\ row.base = base
  BY IncomingIs
<1>3. CASE /\ rows' = rows \cup {row}
           /\ \/ After(t) = {}
              \/ \E o \in After(t) : o.source # "wayback" /\ \A s \in After(t) : o.at <= s.at
  BY <1>1, <1>2, <1>3
<1>4. CASE RepairedAt(rows \cup {row}, t, archive[t])
  <2>1. PICK o \in After(t), b \in Snapshots \cup {NoBase}, changed \in BOOLEAN :
           /\ o.source = "wayback"
           /\ \A s \in After(t) : o.at <= s.at
           /\ b = archive[t]
           /\ Repaired(rows \cup {row}, t, archive[t])
                = ((rows \cup {row}) \ {o}) \cup {[o EXCEPT !.base = b, !.changed = changed]}
    BY <1>4 DEF RepairedAt
  <2>2. o \in Entries BY <1>0 DEF After
  <2>3. PICK p : p = [o EXCEPT !.base = b, !.changed = changed] OBVIOUS
  <2>4. p \in Entries /\ p.at = o.at /\ p.source = o.source /\ p.by = o.by /\ p.label = o.label
        /\ p.base = archive[t]
    BY <2>1, <2>2, <2>3 DEF Entries
  <2>5. rows' = ((rows \cup {row}) \ {o}) \cup {p} BY <1>1, <1>2, <2>1, <2>3
  <2>6. \E q \in After(t), s \in Entries :
           /\ q.source = "wayback"
           /\ \A x \in After(t) : q.at <= x.at
           /\ s.at = q.at /\ s.source = q.source /\ s.by = q.by /\ s.label = q.label
           /\ s.base = archive[t]
           /\ rows' = ((rows \cup {row}) \ {q}) \cup {s}
    BY <2>1, <2>4, <2>5
  <2> QED BY <1>1, <1>2, <2>6
<1> QED BY <1>0, <1>1, <1>2, <1>3, <1>4, RepairIs

\* Rows that are no captures come after all captures on file.
LEMMA ArchiveStays ==
    ASSUME Kept, Chained, importing' \subseteq importing, \A i \in importing' : known'[i] = known[i],
           rows \subseteq rows',
           \A x \in rows' : x \in rows \/ (x.source # "wayback" /\ \A r \in Archived : ~ (x.at < r.at))
    PROVE  Kept' /\ Chained'
<1>1. Archived' = Archived BY DEF Archived
<1>2. Kept' BY <1>1 DEF Kept
<1>3. CaptureStoredOnce' => CaptureStoredOnce BY <1>1 DEF CaptureStoredOnce
<1>4. ASSUME NEW r \in Archived, ComparedIn(rows, r) PROVE ComparedIn(rows', r)
  <2>1. \A s \in rows' : s.at < r.at => s \in rows OBVIOUS
  <2> QED BY <1>4, <2>1 DEF ComparedIn
<1> QED BY <1>1, <1>2, <1>3, <1>4 DEF Chained

\* Steps that leave no capture.
LEMMA ArchiveClears ==
    ASSUME \A r \in rows' : r.source # "wayback"
    PROVE  Kept' /\ Chained'
BY DEF Kept, Chained, Archived

LEMMA KeptImport ==
    ASSUME Known, Kept, NEW i \in Importers, NEW t \in Captures, Import(i, t)
    PROVE  Kept' /\ (CaptureStoredOnce' => CaptureStoredOnce)
<1>0. rows \subseteq Entries /\ importing \subseteq Importers /\ known \in [Importers -> SUBSET Captures]
      /\ t \in Nat
  BY TypedIs, CapturesAssumption DEF Known, Typed
<1>1. /\ importing' = importing /\ i \in importing /\ t \notin known[i]
      /\ known' = [known EXCEPT ![i] = @ \cup {t}]
  BY DEF Import, Reaches
<1>2. \A j \in importing : known[j] \subseteq known'[j] BY <1>0, <1>1
<1>3. t \in known'[i] BY <1>0, <1>1
<1>4. PICK row \in Entries :
         /\ row.at = t /\ row.source = "wayback" /\ row.by = i
         /\ \/ rows' = rows \cup {row}
            \/ \E o \in After(t), p \in Entries :
                  /\ o.source = "wayback"
                  /\ p.at = o.at /\ p.source = o.source /\ p.by = o.by
                  /\ rows' = ((rows \cup {row}) \ {o}) \cup {p}
  BY ImportShape
<1>5. \A r \in Archived : ~ (r.at = t /\ r.by = i) BY <1>1 DEF Kept
<1>6. CASE rows' = rows \cup {row}
  <2>1. Archived' = Archived \cup {row} BY <1>4, <1>6 DEF Archived
  <2>2. Kept' BY <2>1, <1>1, <1>2, <1>3, <1>4, <1>5 DEF Kept
  <2>3. CaptureStoredOnce' => CaptureStoredOnce BY <2>1 DEF CaptureStoredOnce
  <2> QED BY <2>2, <2>3
<1>7. CASE \E o \in After(t), p \in Entries :
              /\ o.source = "wayback"
              /\ p.at = o.at /\ p.source = o.source /\ p.by = o.by
              /\ rows' = ((rows \cup {row}) \ {o}) \cup {p}
  <2>1. PICK o \in After(t), p \in Entries :
              /\ o.source = "wayback"
              /\ p.at = o.at /\ p.source = o.source /\ p.by = o.by
              /\ rows' = ((rows \cup {row}) \ {o}) \cup {p}
    BY <1>7
  <2>2. o \in Archived BY <2>1 DEF After, Archived
  <2>3. Archived' = ((Archived \cup {row}) \ {o}) \cup {p} BY <2>1, <1>4 DEF Archived
  <2>4. \A r \in Archived' : \/ r = row
                             \/ r \in Archived /\ r # o
                             \/ r = p
    BY <2>3
  <2>5. ASSUME NEW r \in Archived', r.by \in importing' PROVE r.at \in known'[r.by]
    BY <2>1, <2>2, <2>4, <2>5, <1>1, <1>2, <1>3, <1>4 DEF Kept
  <2>6. ASSUME NEW r \in Archived', NEW s \in Archived', r.at = s.at, r.by = s.by PROVE r = s
    BY <2>1, <2>2, <2>4, <2>6, <1>4, <1>5 DEF Kept
  <2>7. Kept' BY <2>5, <2>6 DEF Kept
  <2>8. ASSUME CaptureStoredOnce', NEW r \in Archived, NEW s \in Archived, r.at = s.at PROVE r = s
    <3>1. CASE r # o /\ s # o BY <3>1, <2>3, <2>8 DEF CaptureStoredOnce
    <3>2. ASSUME NEW q \in Archived, q # o, q.at = o.at PROVE FALSE
      <4>1. q \in Archived' /\ p \in Archived' BY <2>3, <3>2
      <4>2. q = p BY <4>1, <3>2, <2>1, <2>8 DEF CaptureStoredOnce
      <4> QED BY <4>2, <3>2, <2>1, <2>2 DEF Kept
    <3> QED BY <3>1, <3>2, <2>8
  <2> QED BY <2>7, <2>8 DEF CaptureStoredOnce
<1> QED BY <1>4, <1>6, <1>7

LEMMA ChainedImport ==
    ASSUME Archive, NEW i \in Importers, NEW t \in Captures, Import(i, t), CaptureStoredOnce',
           NEW r \in Archived'
    PROVE  ComparedIn(rows', r)
<1>0. rows \subseteq Entries /\ t \in Nat /\ Known /\ Kept
  BY TypedIs, CapturesAssumption DEF Archive, Known, Typed
<1>1. CaptureStoredOnce /\ \A q \in Archived : ComparedIn(rows, q)
  BY <1>0, KeptImport DEF Archive, Chained
<1>2. \A q, s \in rows : q.at = s.at => q = s
  BY <1>0, <1>1 DEF Known, Dated, CaptureStoredOnce, Archived
<1>3. \A q \in rows : q.at \in Nat BY <1>0 DEF Entries
<1>4. PICK row \in Entries :
         /\ row.at = t /\ row.source = "wayback" /\ row.label = archive[t]
         /\ Before(t) = {} => row.base = NoBase
         /\ Before(t) # {} => \E b \in Before(t) : row.base = b.label /\ \A s \in Before(t) : s.at <= b.at
         /\ \/ /\ rows' = rows \cup {row}
               /\ \/ After(t) = {}
                  \/ \E o \in After(t) : o.source # "wayback" /\ \A s \in After(t) : o.at <= s.at
            \/ \E o \in After(t), p \in Entries :
                  /\ o.source = "wayback"
                  /\ \A s \in After(t) : o.at <= s.at
                  /\ p.at = o.at /\ p.source = o.source /\ p.label = o.label
                  /\ p.base = archive[t]
                  /\ rows' = ((rows \cup {row}) \ {o}) \cup {p}
  BY <1>0, ImportShape
\* Every row has the date and labels of an old one, or is the capture imported.
<1>5. /\ row \in rows'
      /\ \A q \in rows' : q = row \/ \E s \in rows : s.at = q.at /\ s.label = q.label
      /\ \A s \in rows : \E q \in rows' : s.at = q.at /\ s.label = q.label
      /\ \A s \in rows : s.at <= t => s \in rows'
  <2>1. CASE rows' = rows \cup {row} BY <2>1
  <2>2. CASE \E o \in After(t), p \in Entries :
                p.at = o.at /\ p.label = o.label /\ rows' = ((rows \cup {row}) \ {o}) \cup {p}
    <3>1. PICK o \in After(t), p \in Entries :
                p.at = o.at /\ p.label = o.label /\ rows' = ((rows \cup {row}) \ {o}) \cup {p}
      BY <2>2
    <3>2. o \in rows /\ ~ (o.at <= t) /\ o # row BY <1>0, <1>3, <1>4 DEF After
    <3> QED BY <3>1, <3>2
  <2> QED BY <1>4, <2>1, <2>2
<1>6. \A q \in rows' : q.at \in Nat BY <1>0, <1>3, <1>4, <1>5
<1>7. r \in rows' /\ r.source = "wayback" BY DEF Archived
\* The capture imported.
<1>8. CASE r.at = t
  <2>1. r = row BY <1>4, <1>5, <1>7, <1>8 DEF CaptureStoredOnce, Archived
  <2>2. ASSUME \A s \in rows' : ~ (s.at < t) PROVE r.base = NoBase
    <3>1. \A s \in rows : ~ (s.at < t) BY <2>2, <1>5
    <3> QED BY <3>1, <2>1, <1>4 DEF Before
  <2>3. ASSUME NEW p \in rows', p.at < t, \A s \in rows' : s.at < t => s.at <= p.at
        PROVE  r.base = p.label
    <3>1. p # row BY <2>3, <1>4, <1>0
    <3>2. PICK q \in rows : q.at = p.at /\ q.label = p.label BY <3>1, <1>5
    <3>3. q \in Before(t) BY <3>2, <2>3 DEF Before
    <3>4. PICK b \in Before(t) : row.base = b.label /\ \A s \in Before(t) : s.at <= b.at
      BY <3>3, <1>4
    <3>5. b \in rows /\ b.at < t BY <3>4 DEF Before
    <3>6. b.at <= p.at BY <3>5, <2>3, <1>5
    <3>7. q.at <= b.at BY <3>3, <3>4
    <3>8. b.at = q.at BY <3>2, <3>5, <3>6, <3>7, <1>3
    <3>9. b = q BY <3>5, <3>8, <1>2
    <3> QED BY <3>2, <3>4, <3>9, <2>1
  <2> QED BY <2>2, <2>3, <1>8 DEF ComparedIn
\* A row of before, compared as before with a row that is still there.
<1>9. ASSUME r \in rows, r.at # t,
             r.at > t => \E o \in rows' : t < o.at /\ o.at < r.at
      PROVE  ComparedIn(rows', r)
  <2>1. ComparedIn(rows, r) BY <1>1, <1>7, <1>9 DEF Archived
  <2>2. ASSUME \A s \in rows' : ~ (s.at < r.at) PROVE r.base = NoBase
    <3>1. \A s \in rows : ~ (s.at < r.at) BY <2>2, <1>5
    <3> QED BY <3>1, <2>1 DEF ComparedIn
  <2>3. ASSUME NEW p \in rows', p.at < r.at, \A s \in rows' : s.at < r.at => s.at <= p.at
        PROVE  r.base = p.label
    <3>1. p # row
      <4>1. CASE r.at > t
        <5>1. PICK o \in rows' : t < o.at /\ o.at < r.at BY <1>9, <4>1
        <5>2. o.at <= p.at BY <5>1, <2>3
        <5> QED BY <5>1, <5>2, <1>0, <1>4, <1>6
      <4>2. CASE r.at < t BY <4>2, <2>3, <1>0, <1>4, <1>6, <1>7
      <4> QED BY <4>1, <4>2, <1>0, <1>3, <1>9
    <3>2. PICK q \in rows : q.at = p.at /\ q.label = p.label BY <3>1, <1>5
    <3>3. \A s \in rows : s.at < r.at => s.at <= q.at BY <2>3, <3>2, <1>5
    <3> QED BY <2>1, <2>3, <3>2, <3>3 DEF ComparedIn
  <2> QED BY <2>2, <2>3 DEF ComparedIn
<1>10. CASE /\ r.at # t
            /\ rows' = rows \cup {row}
            /\ After(t) = {} \/ \E o \in After(t) : o.source # "wayback" /\ \A s \in After(t) : o.at <= s.at
  <2>1. r \in rows BY <1>4, <1>7, <1>10
  <2>2. ASSUME r.at > t PROVE \E o \in rows' : t < o.at /\ o.at < r.at
    <3>1. r \in After(t) BY <2>1, <2>2 DEF After
    <3>2. PICK o \in After(t) : o.source # "wayback" /\ \A s \in After(t) : o.at <= s.at BY <1>10, <3>1
    <3>3. o \in rows /\ o.at > t /\ o.at <= r.at BY <3>1, <3>2 DEF After
    <3>4. o.at # r.at BY <3>2, <3>3, <2>1, <1>2, <1>7
    <3>5. t < o.at /\ o.at < r.at BY <3>3, <3>4, <2>1, <1>0, <1>3
    <3> QED BY <3>3, <3>5, <1>10
  <2> QED BY <2>1, <2>2, <1>9, <1>10
<1>11. ASSUME NEW o \in After(t), NEW p \in Entries,
              r.at # t,
              o.source = "wayback",
              \A s \in After(t) : o.at <= s.at,
              p.at = o.at, p.base = archive[t],
              rows' = ((rows \cup {row}) \ {o}) \cup {p}
       PROVE  ComparedIn(rows', r)
  <2>0. o \in rows /\ t < o.at /\ o.at \in Nat /\ p \in rows' BY <1>0, <1>3, <1>11 DEF After
  <2>1. CASE r = p
    <3>1. \E s \in rows' : s.at < r.at BY <1>4, <1>5, <2>0, <2>1, <1>11
    <3>2. ASSUME NEW q \in rows', q.at < r.at, \A s \in rows' : s.at < r.at => s.at <= q.at
          PROVE  r.base = q.label
      <4>1. t <= q.at BY <3>2, <1>4, <1>5, <2>0, <2>1, <1>11
      <4>2. CASE q = row BY <4>2, <2>1, <1>4, <1>11
      <4>3. ASSUME q # row PROVE FALSE
        <5>1. PICK s \in rows : s.at = q.at /\ s.label = q.label BY <4>3, <1>5
        <5>2. ~ (s.at > t)
          <6>1. ASSUME s.at > t PROVE FALSE
            <7>1. o.at <= s.at BY <6>1, <1>11 DEF After
            <7>2. s.at < o.at BY <5>1, <3>2, <2>1, <1>11
            <7> QED BY <7>1, <7>2, <2>0, <1>3
          <6> QED BY <6>1
        <5>3. s.at = t BY <5>1, <5>2, <4>1, <1>0, <1>3
        <5>4. s \in rows' /\ s.source = "wayback" BY <5>3, <1>0, <1>5 DEF Known, Dated
        <5>5. s = row BY <5>3, <5>4, <1>4, <1>5 DEF CaptureStoredOnce, Archived
        <5>6. (q \in rows /\ q.at = t) \/ q = p BY <1>11, <4>3, <5>1, <5>3
        <5>7. q # p BY <3>2, <2>1, <1>6
        <5> QED BY <5>3, <5>5, <5>6, <5>7, <1>2, <4>3
      <4> QED BY <4>2, <4>3
    <3> QED BY <3>1, <3>2 DEF ComparedIn
  <2>2. CASE r # p
    <3>1. r \in rows /\ r # o BY <2>2, <1>4, <1>7, <1>11
    <3>2. ASSUME r.at > t PROVE \E q \in rows' : t < q.at /\ q.at < r.at
      <4>1. o.at <= r.at BY <3>1, <3>2, <1>11 DEF After
      <4>2. o.at # r.at BY <3>1, <2>0, <1>2
      <4>3. o.at < r.at BY <4>1, <4>2, <3>1, <2>0, <1>3
      <4> QED BY <4>3, <2>0, <1>11
    <3> QED BY <3>1, <3>2, <1>9, <1>11
  <2> QED BY <2>1, <2>2
<1> QED BY <1>4, <1>8, <1>10, <1>11

LEMMA ArchiveNext == Archive /\ [Next]_vars => Kept' /\ Chained'
<1> SUFFICES ASSUME Archive, [Next]_vars PROVE Kept' /\ Chained' OBVIOUS
<1>0. /\ Known /\ Kept /\ Chained
      /\ rows \subseteq Entries /\ posted \in Seq(Scrapes) /\ now \in Nat
      /\ importing \subseteq Importers /\ known \in [Importers -> SUBSET Captures]
  BY TypedIs DEF Archive, Known, Typed
<1>1. ASSUME UNCHANGED <<rows, imports>> PROVE Kept' /\ Chained'
  BY <1>0, <1>1 DEF Kept, Chained, Archived, CaptureStoredOnce, imports
<1>2. ASSUME Ticks, NEW row, row.at = now', row.source # "wayback", rows' = rows \cup {row},
             importing' \subseteq importing, \A i \in importing' : known'[i] = known[i]
      PROVE  Kept' /\ Chained'
  <2>1. now' = now + 2 BY <1>0, <1>2, TicksOn
  <2>2. \A r \in Archived : ~ (row.at < r.at)
    BY <1>0, <1>2, <2>1 DEF Known, Dated, Archived, Entries
  <2> QED BY <1>0, <1>2, <2>2, ArchiveStays
<1>3. ASSUME NEW w \in Scrapes, Lands(w), UNCHANGED imports, \A r \in Archived : ~ (w.at < r.at)
      PROVE  Kept' /\ Chained'
  <2>1. w.at \in Nat /\ w.label \in Snapshots /\ w.base \in Snapshots \cup {NoBase}
    BY DEF Scrapes, Snapshots
  <2>2. PICK row : row = Row(w.at, "live", w.label, w.base) OBVIOUS
  <2>3. row.at = w.at /\ row.source = "live" BY <2>1, <2>2, RowIs DEF Sources
  <2>4. CASE rows' = rows BY <1>1, <1>3, <2>4
  <2>5. CASE rows' = rows \cup {row} BY <1>0, <1>3, <2>3, <2>5, ArchiveStays DEF imports
  <2> QED BY <1>0, <1>3, <2>2, <2>4, <2>5, LandsIs
<1>4. ASSUME NEW label \in Labels, Scrape(label) PROVE Kept' /\ Chained'
  <2> DEFINE w == [at |-> now', isNew |-> ~app.here, label |-> label, base |-> Base]
  <2>1. Ticks /\ UNCHANGED imports /\ (Lands(w) \/ rows' = rows) BY <1>4 DEF Scrape
  <2>2. w \in Scrapes /\ w.at = now' /\ now' = now + 2 BY <1>0, <2>1, ScrapeIs, TicksOn
  <2> HIDE DEF w
  <2>3. \A r \in Archived : ~ (w.at < r.at) BY <1>0, <2>2 DEF Known, Dated, Archived, Entries
  <2> QED BY <2>1, <2>2, <2>3, <1>1, <1>3
<1>5. CASE Commit
  <2>1. posted # <<>> /\ Lands(Head(posted)) /\ UNCHANGED imports BY <1>5 DEF Commit
  <2> DEFINE w == Head(posted)
  <2>2. w \in Scrapes /\ w = posted[1] /\ 1 \in DOMAIN posted BY <1>0, <2>1
  <2>3. Lands(w) BY <2>1
  <2> HIDE DEF w
  <2>4. w.at \in Nat BY <2>2 DEF Scrapes
  <2>5. \A r \in Archived : r.at \in Nat /\ r.at < w.at BY <1>0, <2>2 DEF Known, Dated, Archived, Entries
  <2>6. \A r \in Archived : ~ (w.at < r.at) BY <2>4, <2>5
  <2> QED BY <2>1, <2>2, <2>3, <2>6, <1>3
<1>6. ASSUME NEW flagged \in BOOLEAN, Ticks, UNCHANGED imports,
             rows' = rows \cup {[Row(now', "policy", LatestOr(Blank), NoBase) EXCEPT !.changed = flagged]}
      PROVE  Kept' /\ Chained'
  <2>1. now' \in Nat /\ LatestOr(Blank) \in Snapshots BY <1>0, <1>6, TicksOn, LatestIs, BlankTyped
  <2>2. PICK q : q = Row(now', "policy", LatestOr(Blank), NoBase) OBVIOUS
  <2>3. q \in Entries /\ q.at = now' /\ q.source = "policy" BY <2>1, <2>2, RowIs DEF Sources
  <2>4. PICK row : row = [q EXCEPT !.changed = flagged] OBVIOUS
  <2>5. row.at = now' /\ row.source = "policy" BY <2>3, <2>4 DEF Entries
  <2> QED BY <1>6, <2>2, <2>4, <2>5, <1>2 DEF imports
<1>7. ASSUME NEW i \in Importers, OpenImport(i) PROVE Kept' /\ Chained'
  <2>1. /\ rows' = rows /\ importing' = importing \cup {i}
        /\ known' = [known EXCEPT ![i] = {r.at : r \in {r \in rows : r.source = "wayback"}}]
    BY <1>7 DEF OpenImport
  <2>2. Archived' = Archived BY <2>1 DEF Archived
  <2>3. Kept' BY <1>0, <2>1, <2>2 DEF Kept, Archived
  <2> QED BY <1>0, <2>1, <2>2, <2>3 DEF Chained, CaptureStoredOnce
<1>8. ASSUME NEW i \in Importers, CloseImport(i) PROVE Kept' /\ Chained'
  <2>1. importing' \subseteq importing /\ \A j \in importing' : known'[j] = known[j]
    BY <1>0, <1>8 DEF CloseImport, Closed
  <2>2. CASE rows' = rows BY <1>0, <2>1, <2>2, ArchiveStays
  <2>3. CASE Ticks /\ rows' = rows \cup {Row(now', "savenow", LatestOr(Blank), NoBase)}
    <3>1. now' \in Nat /\ LatestOr(Blank) \in Snapshots BY <1>0, <2>3, TicksOn, LatestIs, BlankTyped
    <3>2. PICK row : row = Row(now', "savenow", LatestOr(Blank), NoBase) OBVIOUS
    <3>3. row.at = now' /\ row.source = "savenow" BY <3>1, <3>2, RowIs DEF Sources
    <3> QED BY <2>1, <2>3, <3>2, <3>3, <1>2
  <2> QED BY <1>8, <2>2, <2>3 DEF CloseImport
<1>9. ASSUME NEW i \in Importers, NEW t \in Captures, Import(i, t) PROVE Kept' /\ Chained'
  BY <1>0, <1>9, KeptImport, ChainedImport DEF Chained
<1>10. CASE RemoveHistory BY <1>10, ArchiveClears DEF RemoveHistory
<1>11. CASE DeleteApp BY <1>11, ArchiveClears DEF DeleteApp
<1>12. CASE ResetChangelog BY <1>12, ArchiveClears DEF ResetChangelog
<1>13. CASE Crash
  <2>1. importing' = {} /\ rows' = rows BY <1>13 DEF Crash
  <2> QED BY <1>0, <2>1, ArchiveStays
<1> QED BY <1>1, <1>4, <1>5, <1>6, <1>7, <1>8, <1>9, <1>10, <1>11, <1>12, <1>13
        DEF Next, PolicyNote, Undo, Review, SnoozeElapses, vars, imports, Actions

\* Whatever order captures come in, and whatever scrapes, notes and removals come
\* between, each is compared with the row just before it and with no other, as
\* long as overlapping imports have not stored one twice.
THEOREM ArchiveAlwaysChained == Spec => []ArchiveIsChained
<1>1. Init => Kept /\ Chained BY DEF Init, Kept, Chained, Archived
<1>2. Archive => ArchiveIsChained
  <2> SUFFICES ASSUME Archive, CaptureStoredOnce, NEW r \in Archived
               PROVE  r.base = IF Before(r.at) = {} THEN NoBase ELSE Newest(Before(r.at)).label
    BY DEF ArchiveIsChained
  <2>1. ComparedIn(rows, r) BY DEF Archive, Chained
  <2>2. Before(r.at) \subseteq Entries /\ now \in Nat /\ \A s \in Before(r.at) : s.at <= now
    BY TypedIs DEF Archive, Known, Typed, Dated, Before
  <2>3. CASE Before(r.at) = {} BY <2>1, <2>3 DEF ComparedIn, Before
  <2>4. CASE Before(r.at) # {}
    <3>1. PICK p \in Before(r.at) : p = Newest(Before(r.at)) /\ \A s \in Before(r.at) : s.at <= p.at
      BY <2>2, <2>4, NewestIs
    <3> QED BY <3>1, <2>1, <2>4 DEF ComparedIn, Before
  <2> QED BY <2>3, <2>4
<1>3. Archive /\ [Next]_vars => Archive' BY TypeNext, DatedNext, ArchiveNext DEF Archive, Known
<1>4. Init => Archive BY <1>1, KnownInit DEF Archive
<1> QED BY <1>2, <1>3, <1>4, PTL DEF Spec

-----------------------------------------------------------------------------
(***************************************************************************)
(* Imports one after the other store no capture twice.                     *)
(***************************************************************************)
InTurn == \A i, j \in importing : i = j

\* An import under way knows of every capture on file, whoever stored it.
AllKnown == \A r \in Archived, i \in importing : r.at \in known[i]

Single == Archive /\ CaptureStoredOnce /\ AllKnown

\* Steps that store no capture and open no import.
LEMMA SingleStays ==
    ASSUME CaptureStoredOnce, AllKnown, Archived' \subseteq Archived,
           importing' \subseteq importing, \A i \in importing' : known'[i] = known[i]
    PROVE  CaptureStoredOnce' /\ AllKnown'
BY DEF CaptureStoredOnce, AllKnown

LEMMA SingleImport ==
    ASSUME Single, InTurn, NEW i \in Importers, NEW t \in Captures, Import(i, t)
    PROVE  CaptureStoredOnce' /\ AllKnown'
<1>0. /\ Known /\ CaptureStoredOnce /\ AllKnown
      /\ importing \subseteq Importers /\ known \in [Importers -> SUBSET Captures]
  BY TypedIs DEF Single, Archive, Known, Typed
<1>1. /\ importing' = importing /\ i \in importing /\ t \notin known[i]
      /\ known' = [known EXCEPT ![i] = @ \cup {t}]
  BY DEF Import, Reaches
<1>2. \A j \in importing' : known'[j] = known[j] \cup {t} BY <1>0, <1>1 DEF InTurn
<1>3. \A r \in Archived : r.at # t BY <1>0, <1>1 DEF AllKnown
<1>4. PICK row \in Entries :
         /\ row.at = t /\ row.source = "wayback"
         /\ \/ rows' = rows \cup {row}
            \/ \E o \in After(t), p \in Entries :
                  /\ o.source = "wayback"
                  /\ p.at = o.at /\ p.source = o.source
                  /\ rows' = ((rows \cup {row}) \ {o}) \cup {p}
  BY <1>0, ImportShape
<1>5. CASE rows' = rows \cup {row}
  <2>1. Archived' = Archived \cup {row} BY <1>4, <1>5 DEF Archived
  <2> QED BY <2>1, <1>0, <1>1, <1>2, <1>3, <1>4 DEF CaptureStoredOnce, AllKnown
<1>6. ASSUME NEW o \in After(t), NEW p \in Entries, o.source = "wayback",
             p.at = o.at, p.source = o.source, rows' = ((rows \cup {row}) \ {o}) \cup {p}
      PROVE  CaptureStoredOnce' /\ AllKnown'
  <2>1. o \in Archived BY <1>6 DEF After, Archived
  <2>2. Archived' = ((Archived \cup {row}) \ {o}) \cup {p} BY <1>4, <1>6 DEF Archived
  <2>3. \A r \in Archived' : r = row \/ (r \in Archived /\ r # o) \/ r = p BY <2>2
  <2>4. \A r \in Archived' : r.at = t \/ \E s \in Archived : s.at = r.at BY <2>1, <2>3, <1>4, <1>6
  <2>5. AllKnown' BY <2>4, <1>0, <1>1, <1>2 DEF AllKnown
  <2>6. ASSUME NEW r \in Archived', NEW s \in Archived', r.at = s.at PROVE r = s
    BY <2>1, <2>3, <2>6, <1>0, <1>3, <1>4, <1>6 DEF CaptureStoredOnce
  <2> QED BY <2>5, <2>6 DEF CaptureStoredOnce
<1> QED BY <1>4, <1>5, <1>6

LEMMA SingleNext == Single /\ InTurn /\ [Next]_vars => CaptureStoredOnce' /\ AllKnown'
<1> SUFFICES ASSUME Single, InTurn, [Next]_vars PROVE CaptureStoredOnce' /\ AllKnown' OBVIOUS
<1>0. /\ Known /\ CaptureStoredOnce /\ AllKnown
      /\ posted \in Seq(Scrapes) /\ now \in Nat
      /\ importing \subseteq Importers /\ known \in [Importers -> SUBSET Captures]
  BY TypedIs DEF Single, Archive, Known, Typed
<1>1. ASSUME UNCHANGED imports, Archived' \subseteq Archived PROVE CaptureStoredOnce' /\ AllKnown'
  BY <1>0, <1>1, SingleStays DEF imports
<1>2. ASSUME UNCHANGED imports, rows' = rows PROVE CaptureStoredOnce' /\ AllKnown'
  BY <1>1, <1>2 DEF Archived
<1>3. ASSUME NEW row, row.source # "wayback", rows' = rows \cup {row} PROVE Archived' = Archived
  BY <1>3 DEF Archived
<1>4. ASSUME NEW w \in Scrapes, Lands(w) PROVE Archived' = Archived
  <2>1. w.at \in Nat /\ w.label \in Snapshots /\ w.base \in Snapshots \cup {NoBase}
    BY DEF Scrapes, Snapshots
  <2>2. PICK row : row = Row(w.at, "live", w.label, w.base) OBVIOUS
  <2>3. row.source = "live" BY <2>1, <2>2, RowIs DEF Sources
  <2>4. rows' = rows \/ rows' = rows \cup {row} BY <1>0, <1>4, <2>2, LandsIs
  <2> QED BY <2>3, <2>4, <1>3 DEF Archived
<1>5. ASSUME NEW label \in Labels, Scrape(label) PROVE CaptureStoredOnce' /\ AllKnown'
  <2> DEFINE w == [at |-> now', isNew |-> ~app.here, label |-> label, base |-> Base]
  <2>1. Ticks /\ UNCHANGED imports /\ (Lands(w) \/ rows' = rows) BY <1>5 DEF Scrape
  <2>2. w \in Scrapes BY <1>0, <2>1, ScrapeIs, TicksOn
  <2> HIDE DEF w
  <2> QED BY <2>1, <2>2, <1>1, <1>2, <1>4
<1>6. CASE Commit
  <2>1. posted # <<>> /\ Lands(Head(posted)) /\ UNCHANGED imports BY <1>6 DEF Commit
  <2>2. Head(posted) \in Scrapes BY <1>0, <2>1
  <2> QED BY <2>1, <2>2, <1>1, <1>4
<1>7. CASE PolicyNote
  <2>1. PICK flagged \in BOOLEAN :
           rows' = rows \cup {[Row(now', "policy", LatestOr(Blank), NoBase) EXCEPT !.changed = flagged]}
    BY <1>7 DEF PolicyNote
  <2>2. now' \in Nat /\ LatestOr(Blank) \in Snapshots
    BY <1>0, <1>7, TicksOn, LatestIs, BlankTyped DEF PolicyNote
  <2>3. PICK q : q = Row(now', "policy", LatestOr(Blank), NoBase) OBVIOUS
  <2>4. q \in Entries /\ q.source = "policy" BY <2>2, <2>3, RowIs DEF Sources
  <2>5. PICK row : row = [q EXCEPT !.changed = flagged] OBVIOUS
  <2>6. row.source = "policy" BY <2>4, <2>5 DEF Entries
  <2>7. rows' = rows \cup {row} BY <2>1, <2>3, <2>5
  <2>8. UNCHANGED imports BY <1>7 DEF PolicyNote
  <2> QED BY <2>6, <2>7, <2>8, <1>1, <1>3
<1>8. ASSUME NEW i \in Importers, OpenImport(i) PROVE CaptureStoredOnce' /\ AllKnown'
  <2>1. /\ rows' = rows /\ importing' = importing \cup {i}
        /\ known' = [known EXCEPT ![i] = {r.at : r \in {r \in rows : r.source = "wayback"}}]
    BY <1>8 DEF OpenImport
  <2>2. Archived' = Archived BY <2>1 DEF Archived
  <2>3. known'[i] = {r.at : r \in Archived} BY <1>0, <2>1 DEF Archived
  <2>4. \A j \in importing : j # i => known'[j] = known[j] BY <1>0, <2>1
  <2> QED BY <1>0, <2>1, <2>2, <2>3, <2>4 DEF CaptureStoredOnce, AllKnown
<1>9. ASSUME NEW i \in Importers, CloseImport(i) PROVE CaptureStoredOnce' /\ AllKnown'
  <2>1. importing' \subseteq importing /\ \A j \in importing' : known'[j] = known[j]
    BY <1>0, <1>9 DEF CloseImport, Closed
  <2>2. CASE rows' = rows BY <1>0, <2>1, <2>2, SingleStays DEF Archived
  <2>3. CASE Ticks /\ rows' = rows \cup {Row(now', "savenow", LatestOr(Blank), NoBase)}
    <3>1. now' \in Nat /\ LatestOr(Blank) \in Snapshots BY <1>0, <2>3, TicksOn, LatestIs, BlankTyped
    <3>2. PICK row : row = Row(now', "savenow", LatestOr(Blank), NoBase) OBVIOUS
    <3>3. row.source = "savenow" BY <3>1, <3>2, RowIs DEF Sources
    <3>4. Archived' = Archived BY <2>3, <3>2, <3>3, <1>3
    <3> QED BY <1>0, <2>1, <3>4, SingleStays
  <2> QED BY <1>9, <2>2, <2>3 DEF CloseImport
<1>10. ASSUME NEW i \in Importers, NEW t \in Captures, Import(i, t) PROVE CaptureStoredOnce' /\ AllKnown'
  BY <1>10, SingleImport
<1>11. CASE RemoveHistory BY <1>11, <1>1 DEF RemoveHistory, Archived
<1>12. CASE DeleteApp BY <1>12, <1>1 DEF DeleteApp, Archived
<1>13. CASE ResetChangelog BY <1>13, <1>1 DEF ResetChangelog, Archived
<1>14. CASE Crash
  <2>1. importing' = {} /\ Archived' = Archived BY <1>14 DEF Crash, Archived
  <2> QED BY <1>0, <2>1, SingleStays
<1> QED BY <1>2, <1>5, <1>6, <1>7, <1>8, <1>9, <1>10, <1>11, <1>12, <1>13, <1>14
        DEF Next, Undo, Review, SnoozeElapses, vars, Actions

\* As long as imports of an app come one after the other, no capture is stored
\* twice ("skip if this exact Wayback capture is already stored"), whatever is
\* removed, reset or crashes in between.
THEOREM ImportsInTurnStoreOnce == Spec /\ []InTurn => []CaptureStoredOnce
<1>1. Init => Single
  BY KnownInit DEF Init, Single, Archive, Kept, Chained, Archived, CaptureStoredOnce, AllKnown
<1>2. Single /\ InTurn /\ [Next]_vars => Single'
  BY SingleNext, TypeNext, DatedNext, ArchiveNext DEF Single, Archive, Known
<1>3. Single => CaptureStoredOnce BY DEF Single
<1> QED BY <1>1, <1>2, <1>3, PTL DEF Spec
=============================================================================
