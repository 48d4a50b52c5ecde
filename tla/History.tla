------------------------------- MODULE History -------------------------------
(***************************************************************************)
(* The change history of one tracked app in privacytracker: its row in     *)
(* apps, the timeline of privacy_snapshots, and the review panel over it.  *)
(*                                                                         *)
(* Four writers share the timeline.  A scrape compares the App Store page  *)
(* with the newest snapshot and hands its writes to the write worker (or,  *)
(* with the worker disabled, writes on the spot).  A Wayback import puts   *)
(* archive captures in at their own dates and repairs the comparison of    *)
(* the capture that follows.  A policy fetch and a "save this page"        *)
(* request append notes that repeat the newest labels.  The user reviews   *)
(* or snoozes what changed, undoes it, removes the imported history or the *)
(* app, and the process dies.                                              *)
(*                                                                         *)
(* Main-thread actions are synchronous slices; between posting a scrape    *)
(* and the worker's transaction other slices run.  Timestamps are numbers: *)
(* the program's clock moves by two at each write, captures have odd       *)
(* dates.  A row's list of changes is kept as the labels it was compared   *)
(* with.  Accessibility, age-rating and version changes, the bell and the  *)
(* activity log are left out.                                              *)
(*                                                                         *)
(* A definition whose name extends the next one's (RepairedNever, then     *)
(* Repaired) is that definition with a plausible mistake in it; no action  *)
(* uses it.                                                                *)
(***************************************************************************)
EXTENDS Integers, Sequences, FiniteSets

CONSTANTS
    Labels,      \* privacy labels a page can show
    Blank,       \* no labels at all: the empty snapshot
    NoBase,      \* a row with nothing to compare with
    Importers,   \* Wayback imports of the app that may overlap
    Captures,    \* dates of archive captures
    Tabs,        \* browser tabs with a review panel, each with its undo stack
    MaxNow,      \* bound: the clock
    MaxPosted,   \* bound: scrapes of the app waiting for the worker
    MaxReviews   \* bound: review actions on record

ASSUME LabelsAssumption == Blank \notin Labels /\ NoBase \notin Labels \cup {Blank}
ASSUME CapturesAssumption == \A t \in Captures : t \in Nat /\ t % 2 = 1
ASSUME TabsAssumption == IsFiniteSet(Tabs)
ASSUME BoundsAssumption == {MaxNow, MaxPosted, MaxReviews} \subseteq Nat

VARIABLES
    inline,    \* the write worker is disabled (WORKER_DISABLED, or it failed to spawn)
    archive,   \* the labels each capture shows
    now,       \* Date.now()
    app,       \* the row of apps
    rows,      \* privacy_snapshots of the app
    reviews,   \* change_review_actions, with what the tab that acted keeps for undo
    posted,    \* scrapes in the write worker's mailbox
    importing, \* imports under way
    known      \* the captures each import found stored when it began

env == <<inline, archive>>
imports == <<importing, known>>
vars == <<env, now, app, rows, reviews, posted, imports>>

Snapshots == Labels \cup {Blank}
Sources == {"live", "policy", "savenow", "wayback"}

Untracked == [here |-> FALSE, label |-> Blank, count |-> 0, ackAt |-> 0, snoozed |-> FALSE]

TypeOK ==
    /\ inline \in BOOLEAN
    /\ archive \in [Captures -> Labels]
    /\ now \in Nat
    /\ app \in [here : BOOLEAN, label : Snapshots, count : Nat, ackAt : Nat, snoozed : BOOLEAN]
    /\ rows \subseteq [at : Nat, source : Sources, by : Importers \cup {0},
                       label : Snapshots, base : Snapshots \cup {NoBase}, changed : BOOLEAN]
    /\ reviews \subseteq [at : Nat, tab : Tabs, action : {"reviewed", "snoozed", "unsnoozed"},
                          count : Nat, ackAt : Nat, snoozed : BOOLEAN]
    /\ posted \in Seq([at : Nat, isNew : BOOLEAN, label : Labels, base : Snapshots \cup {NoBase}])
    /\ importing \subseteq Importers
    /\ known \in [Importers -> SUBSET Captures]

-----------------------------------------------------------------------------
(***************************************************************************)
(* The timeline.                                                           *)
(***************************************************************************)
Before(t) == {r \in rows : r.at < t}
After(t) == {r \in rows : r.at > t}
Newest(R) == CHOOSE r \in R : \A s \in R : s.at <= r.at
Oldest(R) == CHOOSE r \in R : \A s \in R : r.at <= s.at

\* getLatestSnapshot, with what stands in when there is no snapshot.
LatestOr(default) == IF rows = {} THEN default ELSE Newest(rows).label

\* diffSnapshots is empty just when both show the same labels.
Differs(base, label) == base \notin {NoBase, label}

Row(t, source, label, base) ==
    [at |-> t, source |-> source, by |-> 0, label |-> label, base |-> base,
     changed |-> Differs(base, label)]

Ticks == now < MaxNow /\ now' = now + 2

-----------------------------------------------------------------------------
(***************************************************************************)
(* A scrape.                                                               *)
(***************************************************************************)
\* What a scrape is compared with, read before anything is written.
Base == IF app.here THEN LatestOr(app.label) ELSE NoBase

\* The transaction of a scrape: INSERT of a new app fails if it has come, the
\* snapshot of a known one fails if it has gone.
LandsRelabellingChangesOnly(w) ==
    IF w.isNew = app.here THEN UNCHANGED <<app, rows>>
    ELSE /\ rows' = rows \cup {Row(w.at, "live", w.label, w.base)}
         /\ app' = IF w.isNew THEN [Untracked EXCEPT !.here = TRUE, !.label = w.label]
                   ELSE IF Differs(w.base, w.label)
                   THEN [app EXCEPT !.label = w.label, !.count = @ + 1] ELSE app

Lands(w) ==
    IF w.isNew = app.here THEN UNCHANGED <<app, rows>>
    ELSE /\ rows' = rows \cup {Row(w.at, "live", w.label, w.base)}
         /\ app' = IF w.isNew THEN [Untracked EXCEPT !.here = TRUE, !.label = w.label]
                   ELSE [app EXCEPT !.label = w.label,
                                    !.count = IF Differs(w.base, w.label) THEN @ + 1 ELSE @]

\* A page, however long ago it was fetched, is compared and its writes are handed
\* over, in one slice.
Scrape(label) ==
    /\ Ticks
    /\ Len(posted) < MaxPosted
    /\ LET w == [at |-> now', isNew |-> ~app.here, label |-> label, base |-> Base] IN
       IF inline THEN Lands(w) /\ UNCHANGED posted
                 ELSE posted' = Append(posted, w) /\ UNCHANGED <<app, rows>>
    /\ UNCHANGED <<env, reviews, imports>>

\* The write worker takes its messages in order.
Commit ==
    /\ posted # <<>>
    /\ Lands(Head(posted))
    /\ posted' = Tail(posted)
    /\ UNCHANGED <<env, now, reviews, imports>>

-----------------------------------------------------------------------------
(***************************************************************************)
(* Notes, and imported history.                                            *)
(***************************************************************************)

\* appendPolicyChangeEntry: changed text is flagged if the user asked for it.
PolicyNote ==
    /\ app.here
    /\ Ticks
    /\ \E flagged \in BOOLEAN :
          rows' = rows \cup {[Row(now', "policy", LatestOr(Blank), NoBase) EXCEPT !.changed = flagged]}
    /\ UNCHANGED <<env, app, reviews, posted, imports>>

OpenImport(i) ==
    /\ app.here
    /\ i \notin importing
    /\ importing' = importing \cup {i}
    /\ known' = [known EXCEPT ![i] = {r.at : r \in {r \in rows : r.source = "wayback"}}]
    /\ UNCHANGED <<env, now, app, rows, reviews, posted>>

Closed(i) ==
    /\ importing' = importing \ {i}
    /\ known' = [known EXCEPT ![i] = {}]

\* requestFreshCapture leaves a note when the archive took the page; throttled
\* and aborted imports end without.
CloseImport(i) ==
    /\ i \in importing
    /\ Closed(i)
    /\ \/ UNCHANGED <<now, rows>>
       \/ /\ app.here
          /\ Ticks
          /\ rows' = rows \cup {Row(now', "savenow", LatestOr(Blank), NoBase)}
    /\ UNCHANGED <<env, app, reviews, posted>>

RepairedNever(R, t, label) == R

\* repairSuccessorWaybackDiff: the row after the new one is compared with it, if
\* it is a capture too.
Repaired(R, t, label) ==
    IF After(t) # {} /\ Oldest(After(t)).source = "wayback"
    THEN LET next == Oldest(After(t)) IN
         (R \ {next}) \cup {[next EXCEPT !.base = label, !.changed = Differs(label, next.label)]}
    ELSE R

\* The import picks, fetches and parses a capture it does not know to be stored.
\* A capture in the archive's index is older than any scrape in the mailbox.
Reaches(i, t) ==
    /\ i \in importing
    /\ t \notin known[i]
    /\ t < now /\ \A n \in DOMAIN posted : t < posted[n].at

\* writeWaybackSnapshot, in one transaction.
Import(i, t) ==
    /\ Reaches(i, t)
    /\ app.here
    /\ LET base == IF Before(t) = {} THEN NoBase ELSE Newest(Before(t)).label
           row == [Row(t, "wayback", archive[t], base) EXCEPT !.by = i]
       IN rows' = Repaired(rows \cup {row}, t, archive[t])
    /\ known' = [known EXCEPT ![i] = @ \cup {t}]
    /\ UNCHANGED <<env, now, app, reviews, posted, importing>>

\* removeImportedHistory: captures and the notes of their requests.
RemoveHistory ==
    /\ rows' = {r \in rows : r.source \notin {"wayback", "savenow"}}
    /\ rows' # rows
    /\ UNCHANGED <<env, now, app, reviews, posted, imports>>

-----------------------------------------------------------------------------
(***************************************************************************)
(* Reviewing.                                                              *)
(***************************************************************************)

\* getUnacknowledgedChanges.
Pending == {r \in rows : r.changed /\ r.at > app.ackAt}

Acted(action) ==
    CASE action = "reviewed" -> [app EXCEPT !.count = 0, !.ackAt = now', !.snoozed = FALSE]
      [] action = "snoozed" -> [app EXCEPT !.snoozed = TRUE]
      [] action = "unsnoozed" -> [app EXCEPT !.snoozed = FALSE]

\* recordReviewAction; "dismissed" does to this state what "reviewed" does.  The
\* tab keeps the state it replaced.
Review(tab, action) ==
    /\ app.here
    /\ Cardinality(reviews) < MaxReviews
    /\ Ticks
    /\ reviews' = reviews \cup {[at |-> now', tab |-> tab, action |-> action, count |-> app.count,
                                 ackAt |-> app.ackAt, snoozed |-> app.snoozed]}
    /\ app' = Acted(action)
    /\ UNCHANGED <<env, rows, posted, imports>>

RestoredBadgeOnly(r) == [app EXCEPT !.count = r.count, !.snoozed = r.snoozed]

Restored(r) == [app EXCEPT !.count = r.count, !.ackAt = r.ackAt, !.snoozed = r.snoozed]

\* Undo takes back the tab's own newest action that is still on record.
Undo(tab) ==
    /\ \E r \in reviews :
          /\ r.tab = tab
          /\ \A s \in reviews : s.tab = tab => s.at <= r.at
          /\ reviews' = reviews \ {r}
          /\ app' = Restored(r)
    /\ UNCHANGED <<env, now, rows, posted, imports>>

SnoozeElapses ==
    /\ app.snoozed
    /\ app' = [app EXCEPT !.snoozed = FALSE]
    /\ UNCHANGED <<env, now, rows, reviews, posted, imports>>

-----------------------------------------------------------------------------
\* The delete cascades to the timeline and the reviews.
DeleteApp ==
    /\ app.here
    /\ app' = Untracked
    /\ rows' = {}
    /\ reviews' = {}
    /\ UNCHANGED <<env, now, posted, imports>>

ResetKeepingBadge == app

ResetApp == [app EXCEPT !.count = 0, !.ackAt = 0, !.snoozed = FALSE]

\* The developer's "reset changelog": the history goes, the app stays.
ResetChangelog ==
    /\ rows' = {}
    /\ rows # {}
    /\ reviews' = {}
    /\ app' = ResetApp
    /\ UNCHANGED <<env, now, posted, imports>>

\* The process dies: what is not in the database is gone.
Crash ==
    /\ posted' = <<>>
    /\ importing' = {}
    /\ known' = [i \in Importers |-> {}]
    /\ <<posted, imports>>' # <<posted, imports>>
    /\ UNCHANGED <<env, now, app, rows, reviews>>

Next ==
    \/ \E label \in Labels : Scrape(label)
    \/ Commit
    \/ PolicyNote
    \/ \E i \in Importers : OpenImport(i) \/ CloseImport(i) \/ \E t \in Captures : Import(i, t)
    \/ RemoveHistory
    \/ \E tab \in Tabs : Undo(tab)
    \/ \E tab \in Tabs, action \in {"reviewed", "snoozed", "unsnoozed"} : Review(tab, action)
    \/ SnoozeElapses
    \/ DeleteApp
    \/ ResetChangelog
    \/ Crash

Init ==
    /\ inline \in BOOLEAN
    /\ archive \in [Captures -> Labels]
    /\ now = 0
    /\ app = Untracked
    /\ rows = {}
    /\ reviews = {}
    /\ posted = <<>>
    /\ importing = {}
    /\ known = [i \in Importers |-> {}]

Spec == Init /\ [][Next]_vars

-----------------------------------------------------------------------------
Archived == {r \in rows : r.source = "wayback"}

\* historical-import.ts: "skip if this exact Wayback capture is already stored".
CaptureStoredOnce == \A r, s \in Archived : r.at = s.at => r = s

\* Whatever order captures come in, each is compared with the row just before it
\* and with no other (writeWaybackSnapshot: "keep the diff chain consistent"), as
\* long as overlapping imports have not stored one twice.
ArchiveIsChained ==
    CaptureStoredOnce =>
        \A r \in Archived :
            r.base = IF Before(r.at) = {} THEN NoBase ELSE Newest(Before(r.at)).label

\* The labels the grid shows are those of the newest scrape in the timeline, for
\* all the captures, notes, late writes and resets around it.
GridMatchesHistory ==
    LET live == {r \in rows : r.source = "live"} IN
    live # {} => app.label = Newest(live).label

\* A badge on the app means there is a scrape to review, also after undo.  With
\* the worker a review can overtake a scrape: see the README.
BadgeHasPending ==
    inline /\ app.count > 0 => \E r \in Pending : r.source = "live"

\* With one tab, what is acknowledged or snoozed has its action on record: undo
\* never leaves changes hidden that no action of the user hides.
ReviewIsOnRecord ==
    Cardinality(Tabs) = 1 =>
        /\ app.ackAt > 0 => \E r \in reviews : r.action = "reviewed" /\ r.at = app.ackAt
        /\ app.snoozed => \E r \in reviews : r.action = "snoozed"

\* changelog.ts on the timeline's bridge: "imported history must never re-raise
\* 'changes to review'".
ImportedIsNotPending == \A r \in Pending : r.source # "wayback"
=============================================================================
