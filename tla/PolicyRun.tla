------------------------------ MODULE PolicyRun ------------------------------
(***************************************************************************)
(* The privacy policy of one app: its row in privacy_policy_analyses, the  *)
(* captured texts in privacy_policy_versions, what the History timeline    *)
(* said of each fetch, and the runs of syncPrivacyPolicyAnalysis over      *)
(* them.  Nothing keeps two runs of one app apart: the bulk runner and the *)
(* AI Policy tab may each have one in flight, and each writes back the row *)
(* it read before it awaited the page, the archive or the AI provider.     *)
(*                                                                         *)
(* A text stands for its hash, and a summary for the text it was made      *)
(* from.  The clock counts the started runs: every run stamps what it      *)
(* stores with the time it began.                                          *)
(*                                                                         *)
(* A definition whose name extends the next one's is that definition with  *)
(* a plausible mistake in it; no action uses it.                           *)
(***************************************************************************)
EXTENDS Integers, FiniteSets

CONSTANTS
    Runs,        \* calls of syncPrivacyPolicyAnalysis one process may hold
    Texts,       \* policy texts the developer's page may serve
    NoRow,       \* the app has no analysis row
    NoText,      \* a column that is null
    Keep,        \* POLICY_VERSION_KEEP_COUNT
    MaxRuns,     \* bound: runs started
    MaxCrashes,  \* bound: process deaths
    MaxFaults    \* bound: SQLite writes that throw

ASSUME TextsAssumption == NoText \notin Texts
ASSUME KeepAssumption == Keep \in Nat \ {0}
ASSUME BoundsAssumption == {MaxRuns, MaxCrashes, MaxFaults} \subseteq Nat

VARIABLES
    off,       \* app_settings.policy_scrape_disabled = "true"
    row,       \* the app's privacy_policy_analyses row
    versions,  \* the app's privacy_policy_versions rows
    clock,
    up,        \* the process runs
    pc,        \* where each run is
    req,       \* what each run was asked for
    now,       \* when each run began
    read,      \* the row each run read and will write back from
    text,      \* the text each run fetched
    event,     \* how each run classed that text
    recorded,  \* history: the text of the newest History entry that has one
    solo,      \* history: no other run has been live beside this one
    apart,     \* history: a run was overlapped or cut short and no
               \* undisturbed fetch has been stored since
    crashes, faults

flow == <<pc, req, now, read, text, event>>
bounds == <<crashes, faults>>
vars == <<off, row, versions, clock, up, flow, recorded, solo, apart, bounds>>

Requests == [phase : {"fetch", "summarise", "all"}, force : BOOLEAN, bypass : BOOLEAN]

Statuses == {"pending", "ready", "source_ready", "fetch_error", "needs_ai_config",
             "analysis_error"}

OrNone(S) == S \cup {NoText}

Rows == [status : Statuses, text : OrNone(Texts), summary : OrNone(Texts),
         at : Nat, running : BOOLEAN]

ASSUME NoRowAssumption == NoRow \notin Rows

Versions == [text : Texts, first : Nat, last : Nat]

Awaiting == {"fetching", "archiving", "summarising"}

TypeOK ==
    /\ off \in BOOLEAN
    /\ row \in Rows \cup {NoRow}
    /\ versions \subseteq Versions
    /\ \A v, w \in versions : v.text = w.text => v = w
    /\ clock \in Nat
    /\ up \in BOOLEAN
    /\ pc \in [Runs -> {"idle", "entered", "storing", "deciding", "ending"} \cup Awaiting]
    /\ req \in [Runs -> Requests]
    /\ now \in [Runs -> Nat]
    /\ read \in [Runs -> Rows \cup {NoRow}]
    /\ text \in [Runs -> OrNone(Texts)]
    /\ event \in [Runs -> {"none", "first", "same", "changed"}]
    /\ recorded \in OrNone(Texts)
    /\ solo \in [Runs -> BOOLEAN]
    /\ apart \in BOOLEAN
    /\ crashes \in Nat
    /\ faults \in Nat

-----------------------------------------------------------------------------
Live == {r \in Runs : pc[r] # "idle"}
Yielded == up /\ \A r \in Runs : pc[r] \in {"idle"} \cup Awaiting
Continues(r) == pc[r] \in Awaiting => Yielded

Placeholder == [status |-> "pending", text |-> NoText, summary |-> NoText,
                at |-> 0, running |-> TRUE]

\* persistPolicyAnalysis: every column but the run mark.
Persist(status, body, summary, at) ==
    row' = [status |-> status, text |-> body, summary |-> summary, at |-> at,
            running |-> row # NoRow /\ row.running]

DropPlaceholder ==
    IF row.status = "pending" THEN row' = NoRow ELSE UNCHANGED row

\* What an insert may leave: the newest Keep rows, of the same instant any of
\* them, and the row just written.
Prunings(V, body) ==
    LET newest == {T \in SUBSET V : /\ Cardinality(T) = Keep
                                    /\ \A v \in T, w \in V \ T : w.first <= v.first} IN
    IF Cardinality(V) <= Keep THEN {V} ELSE {T \cup {v \in V : v.text = body} : T \in newest}

Inserts(V, body, at) ==
    Prunings(V \cup {[text |-> body, first |-> at, last |-> at]}, body)

\* upsertPolicyVersion: the tables it may leave.
UpsertsKeepingDate(V, body, at) ==
    IF \E v \in V : v.text = body THEN {V} ELSE Inserts(V, body, at)

Upserts(V, body, at) ==
    IF \E v \in V : v.text = body
    THEN {{IF v.text = body THEN [v EXCEPT !.last = at] ELSE v : v \in V}}
    ELSE Inserts(V, body, at)

\* The version rows that getCurrentPolicyVersion may answer with.
Current == {v \in versions : \A w \in versions : w.last <= v.last}

CanSummarise(force) ==
    /\ row.text # NoText
    /\ \/ row.status \in {"source_ready", "needs_ai_config", "analysis_error"}
       \/ force /\ row.status = "ready"

Goto(r, l) == pc' = [pc EXCEPT ![r] = l]

Leave(r) == Goto(r, "ending") /\ UNCHANGED <<req, now, read, text, event>>

\* A fetch that stored no new text ends the run, unless it asked for all and
\* the row's text still waits for its summary.
AfterFetch(r, status) ==
    /\ Goto(r, IF req[r].phase = "all" /\ status = "source_ready"
               THEN "deciding" ELSE "ending")
    /\ UNCHANGED <<req, now, read, text, event>>

-----------------------------------------------------------------------------
\* What the bulk runner asks for: a forced run passes both flags, and a run of
\* all phases rebuilds its summaries.  An import's request is the last of them.
Background ==
    {[phase |-> "fetch", force |-> f, bypass |-> f] : f \in BOOLEAN}
    \cup {[phase |-> "all", force |-> TRUE, bypass |-> f] : f \in BOOLEAN}
    \cup {[phase |-> "all", force |-> FALSE, bypass |-> FALSE]}

\* The regenerate route always forces; while scraping is off it only summarises,
\* where there is nothing to bypass.
Regenerate ==
    {q \in Requests : /\ q.force
                      /\ q.phase = "summarise" => ~q.bypass
                      /\ off => q.phase = "summarise"}

\* The run's mark goes on the row, or on a placeholder, and the row is read.
Start(r, q) ==
    /\ Yielded
    /\ pc[r] = "idle"
    /\ clock < MaxRuns
    /\ clock' = clock + 1
    /\ row' = IF row = NoRow THEN Placeholder ELSE [row EXCEPT !.running = TRUE]
    /\ Goto(r, IF q.phase = "summarise" THEN "deciding" ELSE "entered")
    /\ req' = [req EXCEPT ![r] = q]
    /\ now' = [now EXCEPT ![r] = clock']
    /\ read' = [read EXCEPT ![r] = row']
    /\ solo' = [s \in Runs |-> IF s = r THEN Live = {} ELSE solo[s] /\ s \notin Live]
    /\ apart' = (apart \/ Live # {})
    /\ UNCHANGED <<off, versions, up, text, event, recorded, bounds>>

\* Scraping is disabled and the run does not override it.
GateOff(r) ==
    /\ pc[r] = "entered"
    /\ off
    /\ ~req[r].bypass
    /\ DropPlaceholder
    /\ AfterFetch(r, row.status)
    /\ UNCHANGED <<off, versions, clock, up, recorded, solo, apart, bounds>>

\* The last fetch of a ready row is recent enough.
Throttle(r) ==
    /\ pc[r] = "entered"
    /\ ~off
    /\ ~req[r].bypass
    /\ row.status = "ready"
    /\ AfterFetch(r, row.status)
    /\ UNCHANGED <<off, row, versions, clock, up, recorded, solo, apart, bounds>>

\* The page is asked for; nothing reads the bypass flag after this.
Fetch(r) ==
    /\ pc[r] = "entered"
    /\ off => req[r].bypass
    /\ Goto(r, "fetching")
    /\ req' = [req EXCEPT ![r].bypass = FALSE]
    /\ UNCHANGED <<off, row, versions, clock, up, now, read, text, event, recorded,
                   solo, apart, bounds>>

\* The page could not be fetched, or what came back is not a policy.
FetchFailsForgetting(r) ==
    /\ pc[r] = "fetching"
    /\ Yielded
    /\ Persist("fetch_error", NoText, NoText, now[r])
    /\ Leave(r)
    /\ UNCHANGED <<off, versions, clock, up, recorded, solo, apart, bounds>>

FetchFails(r) ==
    /\ pc[r] = "fetching"
    /\ Yielded
    /\ Persist("fetch_error", read[r].text, read[r].summary, now[r])
    /\ Leave(r)
    /\ UNCHANGED <<off, versions, clock, up, recorded, solo, apart, bounds>>

Classified(was, body) ==
    IF versions = {} /\ was = NoText THEN "first"
    ELSE IF was = body THEN "same" ELSE "changed"

\* A policy came back: it is classed against the row as read, and that row's
\* text and the new one are made sure to be among the versions.
FetchOk(r, body) ==
    LET was == read[r].text
        seeded == IF was \in {NoText, body} THEN {versions}
                  ELSE Upserts(versions, was, read[r].at) IN
    /\ pc[r] = "fetching"
    /\ Yielded
    /\ event' = [event EXCEPT ![r] = Classified(was, body)]
    /\ text' = [text EXCEPT ![r] = body]
    /\ \E V \in seeded : versions' \in Upserts(V, body, now[r])
    /\ Goto(r, "archiving")
    /\ UNCHANGED <<off, row, clock, up, req, now, read, recorded, solo, apart, bounds>>

\* The archive lookup returned; the History entry is written.
Record(r) ==
    /\ pc[r] = "archiving"
    /\ Yielded
    /\ recorded' = text[r]
    /\ Goto(r, "storing")
    /\ UNCHANGED <<off, row, versions, clock, up, req, now, read, text, event, solo,
                   apart, bounds>>

\* The fetched text goes on the row: with its summary when that was made from
\* the same text and no new one is forced, else to be summarised.
Store(r) ==
    LET hit == /\ ~req[r].force
               /\ read[r].text = text[r]
               /\ read[r].summary # NoText IN
    /\ pc[r] = "storing"
    /\ IF hit THEN Persist("ready", text[r], read[r].summary, now[r])
              ELSE Persist("source_ready", text[r], NoText, now[r])
    /\ apart' = (apart /\ ~solo[r])
    /\ AfterFetch(r, IF hit THEN "ready" ELSE "source_ready")
    /\ UNCHANGED <<off, versions, clock, up, recorded, solo, bounds>>

-----------------------------------------------------------------------------
\* Nothing was ever fetched: there is nothing to summarise.
SummariseNothing(r) ==
    /\ pc[r] = "deciding"
    /\ row.status = "pending"
    /\ DropPlaceholder
    /\ Leave(r)
    /\ UNCHANGED <<off, versions, clock, up, recorded, solo, apart, bounds>>

SummaryIsCurrent(force) == ~force /\ row.status = "ready" /\ row.summary # NoText

SummariseSkips(r) ==
    /\ pc[r] = "deciding"
    /\ row.status # "pending"
    /\ SummaryIsCurrent(req[r].force) \/ ~CanSummarise(req[r].force)
    /\ Leave(r)
    /\ UNCHANGED <<off, row, versions, clock, up, recorded, solo, apart, bounds>>

MaySummarise(r) ==
    /\ pc[r] = "deciding"
    /\ ~SummaryIsCurrent(req[r].force)
    /\ CanSummarise(req[r].force)

NeedsConfig(r) ==
    /\ MaySummarise(r)
    /\ Persist("needs_ai_config", row.text, row.summary, row.at)
    /\ Leave(r)
    /\ UNCHANGED <<off, versions, clock, up, recorded, solo, apart, bounds>>

Summarise(r) ==
    /\ MaySummarise(r)
    /\ read' = [read EXCEPT ![r] = row]
    /\ Goto(r, "summarising")
    /\ UNCHANGED <<off, row, versions, clock, up, req, now, text, event, recorded, solo,
                   apart, bounds>>

\* A summarise write leaves the stored fetch time alone.
StoredAt == IF row = NoRow THEN 0 ELSE row.at

\* The summary is stored with the text it was made from, whatever the row now
\* holds.
SummarisedOntoRow(r) ==
    /\ pc[r] = "summarising"
    /\ Yielded
    /\ Persist("ready", IF row = NoRow THEN NoText ELSE row.text, read[r].text, StoredAt)
    /\ Leave(r)
    /\ UNCHANGED <<off, versions, clock, up, recorded, solo, apart, bounds>>

Summarised(r) ==
    /\ pc[r] = "summarising"
    /\ Yielded
    /\ Persist("ready", read[r].text, read[r].text, StoredAt)
    /\ Leave(r)
    /\ UNCHANGED <<off, versions, clock, up, recorded, solo, apart, bounds>>

SummaryFails(r) ==
    /\ pc[r] = "summarising"
    /\ Yielded
    /\ Persist("analysis_error", read[r].text, read[r].summary, StoredAt)
    /\ Leave(r)
    /\ UNCHANGED <<off, versions, clock, up, recorded, solo, apart, bounds>>

-----------------------------------------------------------------------------
\* A write of the row throws out of the run.
Throw(r) ==
    /\ pc[r] \in {"fetching", "storing", "summarising"}
    /\ Continues(r)
    /\ faults < MaxFaults
    /\ faults' = faults + 1
    /\ apart' = (apart \/ pc[r] = "storing")
    /\ Leave(r)
    /\ UNCHANGED <<off, row, versions, clock, up, recorded, solo, crashes>>

\* What every run forgets when it ends.
Forgotten(S) ==
    /\ pc' = [r \in Runs |-> IF r \in S THEN "idle" ELSE pc[r]]
    /\ req' = [r \in Runs |-> IF r \in S THEN [phase |-> "all", force |-> FALSE, bypass |-> FALSE]
                              ELSE req[r]]
    /\ now' = [r \in Runs |-> IF r \in S THEN 0 ELSE now[r]]
    /\ read' = [r \in Runs |-> IF r \in S THEN NoRow ELSE read[r]]
    /\ text' = [r \in Runs |-> IF r \in S THEN NoText ELSE text[r]]
    /\ event' = [r \in Runs |-> IF r \in S THEN "none" ELSE event[r]]
    /\ solo' = [r \in Runs |-> solo[r] /\ r \notin S]

\* The finally block clears the mark, also when another run is live.
End(r) ==
    /\ pc[r] = "ending"
    /\ row' = IF row = NoRow THEN NoRow ELSE [row EXCEPT !.running = FALSE]
    /\ Forgotten({r})
    /\ UNCHANGED <<off, versions, clock, up, recorded, apart, bounds>>

Crash ==
    /\ up
    /\ crashes < MaxCrashes
    /\ crashes' = crashes + 1
    /\ up' = FALSE
    /\ apart' = (apart \/ \E r \in Runs : pc[r] \in {"archiving", "storing"})
    /\ Forgotten(Runs)
    /\ UNCHANGED <<off, row, versions, clock, recorded, faults>>

\* Opening the database clears a stale mark and stores the row's text as a
\* version if it is not one.
BootSeedingTwice ==
    /\ ~up
    /\ up' = TRUE
    /\ row' = IF row = NoRow THEN NoRow ELSE [row EXCEPT !.running = FALSE]
    /\ versions' = versions \cup
           {[text |-> s.text, first |-> s.at, last |-> s.at] :
              s \in {s \in {row} \ {NoRow} : s.text # NoText}}
    /\ UNCHANGED <<off, clock, flow, recorded, solo, apart, bounds>>

Boot ==
    /\ ~up
    /\ up' = TRUE
    /\ row' = IF row = NoRow THEN NoRow ELSE [row EXCEPT !.running = FALSE]
    /\ versions' = versions \cup
           {[text |-> s.text, first |-> s.at, last |-> s.at] :
              s \in {s \in {row} \ {NoRow} :
                       s.text \notin {NoText} \cup {v.text : v \in versions}}}
    /\ UNCHANGED <<off, clock, flow, recorded, solo, apart, bounds>>

\* The user flips "Disable policy scraping".
Switch ==
    /\ Yielded
    /\ off' = ~off
    /\ UNCHANGED <<row, versions, clock, up, flow, recorded, solo, apart, bounds>>

-----------------------------------------------------------------------------
Init ==
    /\ off = FALSE
    /\ row = NoRow
    /\ versions = {}
    /\ clock = 0
    /\ up = TRUE
    /\ pc = [r \in Runs |-> "idle"]
    /\ req = [r \in Runs |-> [phase |-> "all", force |-> FALSE, bypass |-> FALSE]]
    /\ now = [r \in Runs |-> 0]
    /\ read = [r \in Runs |-> NoRow]
    /\ text = [r \in Runs |-> NoText]
    /\ event = [r \in Runs |-> "none"]
    /\ recorded = NoText
    /\ solo = [r \in Runs |-> FALSE]
    /\ apart = FALSE
    /\ crashes = 0
    /\ faults = 0

Fetches(r) ==
    \/ GateOff(r)
    \/ Throttle(r)
    \/ Fetch(r)
    \/ FetchFails(r)
    \/ \E body \in Texts : FetchOk(r, body)
    \/ Record(r)
    \/ Store(r)

Summarises(r) ==
    \/ SummariseNothing(r)
    \/ SummariseSkips(r)
    \/ NeedsConfig(r)
    \/ Summarise(r)
    \/ Summarised(r)
    \/ SummaryFails(r)

Next ==
    \/ \E r \in Runs :
         \/ \E q \in Background \cup Regenerate : Start(r, q)
         \/ Fetches(r)
         \/ Summarises(r)
         \/ Throw(r)
         \/ End(r)
    \/ Crash
    \/ Boot
    \/ Switch

Spec == Init /\ [][Next]_vars

-----------------------------------------------------------------------------
\* A stored summary is always one of the text stored beside it, whichever of
\* two overlapping runs wrote last (lib/privacy-policy.ts:1797: the AI answer
\* is written back with the text it was asked about, not onto the text a fetch
\* stored meanwhile).
SummaryMatchesText ==
    row # NoRow => row.summary \in {NoText, row.text}

\* The version that is the newest by last_fetched_at, which the history, the
\* diff and the "policy changed" banner show, is the text of the row, whenever
\* no run is live, unless a run was overlapped or cut short and no
\* undisturbed fetch has been stored since: one such fetch repairs it.
Shown == row # NoRow /\ row.text # NoText

CurrentVersionIsShown ==
    (~apart /\ up /\ Live = {} /\ Shown) => \A v \in Current : v.text = row.text

\* The same without the exception, as getCurrentPolicyVersion's comment says
\* (lib/policy-versions.ts:197).
CurrentVersionIsShownAlways ==
    (up /\ Live = {} /\ Shown) => \A v \in Current : v.text = row.text

\* Of a run nobody disturbed, History says "changed" exactly when its text is
\* not the one that the entry before it captured, and "first" exactly when
\* there is none, however many failed fetches, summaries, prunings and
\* restarts came between (lib/privacy-policy.ts:1276).
ChangedMeansChanged ==
    [][\A r \in Runs :
         (Record(r) /\ solo[r] /\ ~apart) =>
           event[r] = IF recorded = NoText THEN "first"
                      ELSE IF recorded = text[r] THEN "same" ELSE "changed"]_vars
=============================================================================
