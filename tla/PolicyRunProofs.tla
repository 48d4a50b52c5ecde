-------------------------- MODULE PolicyRunProofs --------------------------
(***************************************************************************)
(* Proofs about the policy runs of one app, for any number of runs, texts, *)
(* kept versions, crashes and failing writes: what a run holds and is left *)
(* with, then what the History timeline and the version history tell of the *)
(* app's policy.                                                           *)
(***************************************************************************)
EXTENDS PolicyRun, TLAPS

Steps == {"idle", "entered", "storing", "deciding", "ending"} \cup Awaiting

\* Where a run stands between two slices of the event loop.
Quiet == {"idle"} \cup Awaiting

\* JavaScript runs one slice at a time.
OneAtATime ==
    \A r, s \in Runs : pc[r] \notin Quiet /\ pc[s] \notin Quiet => r = s

\* What a run holds in its variables at each step: the row it will write back
\* from has a summary of its own text, a fetched text is there once the page
\* came back, and a row that a run has just looked at has not gone.
Holding ==
    \A r \in Runs :
        /\ pc[r] \in {"entered", "fetching", "archiving", "storing", "summarising"} =>
              read[r] \in Rows /\ read[r].summary \in {NoText, read[r].text}
        /\ pc[r] \in {"archiving", "storing"} => text[r] \in Texts
        /\ pc[r] \in {"entered", "deciding"} => row # NoRow

Inv == TypeOK /\ OneAtATime /\ Holding /\ SummaryMatchesText

\* A table of versions, no two of one text.
Tables == {V \in SUBSET Versions : \A v, w \in V : v.text = w.text => v = w}

-----------------------------------------------------------------------------
\* Pruning takes rows away.
LEMMA PruningsOK ==
    ASSUME NEW V \in Tables, NEW body \in Texts, NEW W \in Prunings(V, body)
    PROVE  W \in Tables /\ W \subseteq V
<1>1. W \subseteq V
  <2> DEFINE newest == {T \in SUBSET V : /\ Cardinality(T) = Keep
                                         /\ \A v \in T, w \in V \ T : w.first <= v.first}
  <2>1. CASE Cardinality(V) <= Keep
    BY <2>1 DEF Prunings
  <2>2. CASE ~(Cardinality(V) <= Keep)
    <3>1. W \in {T \cup {v \in V : v.text = body} : T \in newest}
      BY <2>2 DEF Prunings
    <3>2. PICK T \in newest : W = T \cup {v \in V : v.text = body}
      BY <3>1
    <3> QED BY <3>2
  <2> QED BY <2>1, <2>2
<1> QED BY <1>1 DEF Tables

\* An upsert leaves a table in which no text comes twice.
LEMMA UpsertsOK ==
    ASSUME NEW V \in Tables, NEW body \in Texts, NEW at \in Nat,
           NEW W \in Upserts(V, body, at)
    PROVE  W \in Tables
<1>1. CASE \E v \in V : v.text = body
  <2> DEFINE New(v) == IF v.text = body THEN [v EXCEPT !.last = at] ELSE v
  <2>1. W = {New(v) : v \in V}
    BY <1>1 DEF Upserts
  <2>2. ASSUME NEW v \in V PROVE New(v) \in Versions /\ New(v).text = v.text
    BY DEF Tables, Versions
  <2>3. \A v, w \in V : New(v).text = New(w).text => v = w
    BY <2>2 DEF Tables
  <2> HIDE DEF New
  <2> QED BY <2>1, <2>2, <2>3 DEF Tables
<1>2. CASE ~\E v \in V : v.text = body
  <2> DEFINE new == [text |-> body, first |-> at, last |-> at]
  <2>1. new \in Versions /\ new.text = body
    BY DEF Versions
  <2>2. W \in Prunings(V \cup {new}, body)
    BY <1>2 DEF Upserts, Inserts
  <2> HIDE DEF new
  <2>3. V \cup {new} \in Tables
    BY <1>2, <2>1 DEF Tables
  <2> QED BY <2>2, <2>3, PruningsOK
<1> QED BY <1>1, <1>2

\* What a stored row looks like.
LEMMA PersistOK ==
    ASSUME NEW status \in Statuses, NEW body \in OrNone(Texts), NEW summary \in OrNone(Texts),
           NEW at \in Nat, Persist(status, body, summary, at)
    PROVE  /\ row' \in Rows
           /\ row' # NoRow
           /\ row'.status = status
           /\ row'.text = body
           /\ row'.summary = summary
           /\ row'.at = at
<1> DEFINE mark == row # NoRow /\ row.running
<1>1. mark \in BOOLEAN
  OBVIOUS
<1>2. row' = [status |-> status, text |-> body, summary |-> summary, at |-> at,
              running |-> mark]
  BY DEF Persist
<1> HIDE DEF mark
<1>3. row' \in Rows
  BY <1>1, <1>2 DEF Rows
<1> QED BY <1>2, <1>3, NoRowAssumption

\* A run takes a step: it was the one that was running, or nobody was.
LEMMA GotoOK ==
    ASSUME Inv, NEW r \in Runs, NEW l \in Steps, Goto(r, l),
           pc[r] \notin Quiet \/ \A s \in Runs : pc[s] \in Quiet
    PROVE  /\ pc' \in [Runs -> Steps]
           /\ pc'[r] = l
           /\ \A s \in Runs : s # r => pc'[s] = pc[s] /\ pc[s] \in Quiet
           /\ OneAtATime'
<1>1. pc \in [Runs -> Steps]
  BY DEF Inv, TypeOK, Steps
<1>2. pc' = [pc EXCEPT ![r] = l]
  BY DEF Goto
<1>3. \A s \in Runs : s # r => pc[s] \in Quiet
  BY DEF Inv, OneAtATime
<1>4. /\ pc' \in [Runs -> Steps]
      /\ pc'[r] = l
      /\ \A s \in Runs : s # r => pc'[s] = pc[s]
  BY <1>1, <1>2
<1> QED BY <1>3, <1>4 DEF OneAtATime

\* A run goes on with what it holds.
LEMMA HoldingOK ==
    ASSUME Inv, NEW r \in Runs,
           \A s \in Runs : s # r => pc'[s] = pc[s] /\ pc[s] \in Quiet,
           \A s \in Runs : s # r => read'[s] = read[s] /\ text'[s] = text[s],
           pc'[r] \in {"entered", "fetching", "archiving", "storing", "summarising"} =>
              read'[r] \in Rows /\ read'[r].summary \in {NoText, read'[r].text},
           pc'[r] \in {"archiving", "storing"} => text'[r] \in Texts,
           pc'[r] \in {"entered", "deciding"} => row' # NoRow
    PROVE  Holding'
<1> SUFFICES ASSUME NEW s \in Runs
    PROVE /\ pc'[s] \in {"entered", "fetching", "archiving", "storing", "summarising"} =>
               read'[s] \in Rows /\ read'[s].summary \in {NoText, read'[s].text}
          /\ pc'[s] \in {"archiving", "storing"} => text'[s] \in Texts
          /\ pc'[s] \in {"entered", "deciding"} => row' # NoRow
  BY DEF Holding
<1>1. CASE s = r
  BY <1>1
<1>2. CASE s # r
  <2>1. pc'[s] = pc[s] /\ pc[s] \in Quiet /\ read'[s] = read[s] /\ text'[s] = text[s]
    BY <1>2
  <2>2. pc'[s] \notin {"entered", "deciding"}
    BY <2>1 DEF Quiet, Awaiting
  <2> QED BY <2>1, <2>2 DEF Inv, Holding
<1> QED BY <1>1, <1>2

\* The slice of a run ends it, or goes on to the summary, with what is stored.
LEMMA StepOK ==
    ASSUME Inv, NEW r \in Runs, NEW l \in {"ending", "deciding"},
           Goto(r, l), UNCHANGED <<req, now, read, text, event>>,
           pc[r] \notin Quiet \/ \A s \in Runs : pc[s] \in Quiet,
           row' \in Rows \cup {NoRow}, l = "deciding" => row' # NoRow,
           row' # NoRow => row'.summary \in {NoText, row'.text},
           UNCHANGED <<versions, clock>>,
           off' \in BOOLEAN, up' \in BOOLEAN, recorded' \in OrNone(Texts),
           solo' \in [Runs -> BOOLEAN], apart' \in BOOLEAN, crashes' \in Nat, faults' \in Nat
    PROVE  Inv'
<1>1. l \in Steps /\ l \notin Awaiting /\ l \notin {"entered", "storing"}
  BY DEF Steps, Awaiting
<1>2. /\ pc' \in [Runs -> Steps]
      /\ pc'[r] = l
      /\ \A s \in Runs : s # r => pc'[s] = pc[s] /\ pc[s] \in Quiet
      /\ OneAtATime'
  BY <1>1, GotoOK
<1>3. Holding'
  BY <1>1, <1>2, HoldingOK DEF Awaiting
<1>4. TypeOK'
  BY <1>2 DEF Inv, TypeOK, Steps
<1> QED BY <1>2, <1>3, <1>4 DEF Inv, SummaryMatchesText
-----------------------------------------------------------------------------
\* A run begins on the row it reads.
LEMMA StartInv ==
    ASSUME Inv, NEW r \in Runs, NEW q \in Requests, Start(r, q)
    PROVE  Inv'
<1> DEFINE l == IF q.phase = "summarise" THEN "deciding" ELSE "entered"
<1>1. l \in Steps
  BY DEF Steps
<1>2. Goto(r, l) /\ \A s \in Runs : pc[s] \in Quiet
  BY DEF Start, Yielded, Quiet
<1>3. /\ pc' \in [Runs -> Steps]
      /\ pc'[r] = l
      /\ \A s \in Runs : s # r => pc'[s] = pc[s] /\ pc[s] \in Quiet
      /\ OneAtATime'
  BY <1>1, <1>2, GotoOK
<1>4. row' \in Rows /\ row' # NoRow /\ row'.summary \in {NoText, row'.text}
  <2>1. CASE row = NoRow
    <3>1. Placeholder \in Rows /\ Placeholder.summary = NoText
      BY DEF Placeholder, Rows, Statuses, OrNone
    <3> QED BY <2>1, <3>1, NoRowAssumption DEF Start
  <2>2. CASE row # NoRow
    <3>1. row \in Rows /\ row.summary \in {NoText, row.text}
      BY <2>2 DEF Inv, TypeOK, SummaryMatchesText
    <3>2. row' = [row EXCEPT !.running = TRUE]
      BY <2>2 DEF Start
    <3> QED BY <3>1, <3>2, NoRowAssumption DEF Rows
  <2> QED BY <2>1, <2>2
<1>5. read' = [read EXCEPT ![r] = row'] /\ UNCHANGED text
  BY DEF Start
<1>6. read' \in [Runs -> Rows \cup {NoRow}] /\ read'[r] = row'
  BY <1>4, <1>5 DEF Inv, TypeOK
<1>7. \A s \in Runs : s # r => read'[s] = read[s] /\ text'[s] = text[s]
  BY <1>5 DEF Inv, TypeOK
<1>8. Holding'
  BY <1>3, <1>4, <1>6, <1>7, HoldingOK
<1>9. TypeOK'
  <2>1. clock' \in Nat /\ now' \in [Runs -> Nat] /\ req' \in [Runs -> Requests]
    BY DEF Start, Inv, TypeOK
  <2>2. solo' \in [Runs -> BOOLEAN] /\ apart' \in BOOLEAN
    <3>1. ASSUME NEW s \in Runs
          PROVE  (IF s = r THEN Live = {} ELSE solo[s] /\ s \notin Live) \in BOOLEAN
      <4>1. CASE s = r
        BY <4>1
      <4>2. CASE s # r
        BY <4>2
      <4> QED BY <4>1, <4>2
    <3>2. solo' = [s \in Runs |-> IF s = r THEN Live = {} ELSE solo[s] /\ s \notin Live]
      BY DEF Start
    <3>3. solo' \in [Runs -> BOOLEAN]
      BY <3>1, <3>2
    <3>4. apart' \in BOOLEAN
      BY DEF Start
    <3> QED BY <3>3, <3>4
  <2>3. UNCHANGED <<off, versions, up, text, event, recorded, crashes, faults>>
    BY DEF Start, bounds
  <2> QED BY <1>3, <1>4, <1>6, <2>1, <2>2, <2>3 DEF Inv, TypeOK, Steps
<1> QED BY <1>3, <1>4, <1>8, <1>9 DEF Inv, SummaryMatchesText

\* Nothing is fetched: a placeholder goes, another row stays.
LEMMA TurnedAwayInv ==
    ASSUME Inv, NEW r \in Runs,
           GateOff(r) \/ Throttle(r) \/ SummariseNothing(r) \/ SummariseSkips(r)
    PROVE  Inv'
<1>1. pc[r] \notin Quiet /\ row \in Rows /\ row # NoRow
  BY DEF GateOff, Throttle, SummariseNothing, SummariseSkips, Quiet, Awaiting, Inv, Holding,
     TypeOK
<1>2. PICK l \in {"ending", "deciding"} :
        /\ Goto(r, l)
        /\ l = "deciding" => row.status \in {"source_ready", "ready"}
  BY DEF GateOff, Throttle, SummariseNothing, SummariseSkips, AfterFetch, Leave
<1>3. UNCHANGED <<req, now, read, text, event>>
  BY DEF GateOff, Throttle, SummariseNothing, SummariseSkips, AfterFetch, Leave
<1>4. /\ row' = row \/ (row.status = "pending" /\ row' = NoRow)
      /\ UNCHANGED <<off, versions, clock, up, recorded, solo, apart, crashes, faults>>
  BY DEF GateOff, Throttle, SummariseNothing, SummariseSkips, DropPlaceholder, bounds
<1>5. /\ row' \in Rows \cup {NoRow}
      /\ l = "deciding" => row' # NoRow
      /\ row' # NoRow => row'.summary \in {NoText, row'.text}
  BY <1>1, <1>2, <1>4 DEF Inv, SummaryMatchesText
<1> QED BY <1>1, <1>2, <1>3, <1>4, <1>5, StepOK DEF Inv, TypeOK

\* What every write of a run stores: a text and, if any, its own summary.
LEMMA WriteInv ==
    ASSUME Inv, NEW r \in Runs,
           FetchFails(r) \/ Store(r) \/ NeedsConfig(r) \/ Summarised(r) \/ SummaryFails(r)
    PROVE  Inv'
<1>1. pc[r] \notin Quiet \/ \A s \in Runs : pc[s] \in Quiet
  BY DEF FetchFails, Store, NeedsConfig, MaySummarise, Summarised, SummaryFails, Yielded,
     Quiet, Awaiting
<1>2. PICK l \in {"ending", "deciding"} : Goto(r, l)
  BY DEF FetchFails, Store, NeedsConfig, Summarised, SummaryFails, AfterFetch, Leave
<1>3. UNCHANGED <<req, now, read, text, event>>
  BY DEF FetchFails, Store, NeedsConfig, Summarised, SummaryFails, AfterFetch, Leave
<1>4. UNCHANGED <<off, versions, clock, up, recorded, solo, crashes, faults>>
  BY DEF FetchFails, Store, NeedsConfig, Summarised, SummaryFails, bounds
<1>5. apart' \in BOOLEAN
  BY DEF FetchFails, Store, NeedsConfig, Summarised, SummaryFails, Inv, TypeOK
<1>6. now[r] \in Nat /\ StoredAt \in Nat
  BY DEF Inv, TypeOK, StoredAt, Rows
<1>7. PICK status \in Statuses, body \in OrNone(Texts), summary \in OrNone(Texts), at \in Nat :
        Persist(status, body, summary, at) /\ summary \in {NoText, body}
  <2>1. CASE FetchFails(r)
    <3>1. read[r] \in Rows /\ read[r].summary \in {NoText, read[r].text}
      BY <2>1 DEF FetchFails, Inv, Holding
    <3> QED BY <2>1, <3>1, <1>6 DEF FetchFails, Rows, Statuses
  <2>2. CASE Store(r)
    <3>1. /\ read[r] \in Rows /\ read[r].summary \in {NoText, read[r].text}
          /\ text[r] \in Texts
      BY <2>2 DEF Store, Inv, Holding
    <3> DEFINE hit == /\ ~req[r].force
                      /\ read[r].text = text[r]
                      /\ read[r].summary # NoText
    <3>2. CASE hit
      BY <2>2, <3>1, <3>2, <1>6 DEF Store, Rows, Statuses, OrNone
    <3>3. CASE ~hit
      BY <2>2, <3>1, <3>3, <1>6 DEF Store, Rows, Statuses, OrNone
    <3> QED BY <3>2, <3>3
  <2>3. CASE NeedsConfig(r)
    <3>1. row \in Rows /\ row.summary \in {NoText, row.text}
      BY <2>3 DEF NeedsConfig, MaySummarise, Inv, Holding, TypeOK, SummaryMatchesText
    <3> QED BY <2>3, <3>1 DEF NeedsConfig, Rows, Statuses
  <2>4. CASE Summarised(r) \/ SummaryFails(r)
    <3>1. read[r] \in Rows /\ read[r].summary \in {NoText, read[r].text}
      BY <2>4 DEF Summarised, SummaryFails, Inv, Holding
    <3> QED BY <2>4, <3>1, <1>6 DEF Summarised, SummaryFails, Rows, Statuses
  <2> QED BY <2>1, <2>2, <2>3, <2>4
<1>8. row' \in Rows /\ row' # NoRow /\ row'.summary \in {NoText, row'.text}
  BY <1>7, PersistOK
<1> QED BY <1>1, <1>2, <1>3, <1>4, <1>5, <1>8, StepOK DEF Inv, TypeOK

\* The page is asked for.
LEMMA FetchInv ==
    ASSUME Inv, NEW r \in Runs, Fetch(r)
    PROVE  Inv'
<1>1. pc[r] = "entered" /\ Goto(r, "fetching") /\ "fetching" \in Steps
  BY DEF Fetch, Steps, Awaiting
<1>2. /\ pc' \in [Runs -> Steps]
      /\ pc'[r] = "fetching"
      /\ \A s \in Runs : s # r => pc'[s] = pc[s] /\ pc[s] \in Quiet
      /\ OneAtATime'
  BY <1>1, GotoOK DEF Quiet, Awaiting
<1>3. /\ UNCHANGED <<off, row, versions, clock, up, now, read, text, event, recorded,
                     solo, apart, crashes, faults>>
      /\ req' = [req EXCEPT ![r].bypass = FALSE]
  BY DEF Fetch, bounds
<1>4. Holding'
  BY <1>1, <1>2, <1>3, HoldingOK DEF Inv, Holding
<1>5. req' \in [Runs -> Requests]
  <2>1. req \in [Runs -> Requests]
    BY DEF Inv, TypeOK
  <2>2. [req[r] EXCEPT !.bypass = FALSE] \in Requests
    BY <2>1 DEF Requests
  <2> QED BY <1>3, <2>1, <2>2
<1> QED BY <1>2, <1>3, <1>4, <1>5 DEF Inv, TypeOK, Steps, SummaryMatchesText

\* The versions after a fetch, and what the run holds then.
LEMMA FetchOkInv ==
    ASSUME Inv, NEW r \in Runs, NEW body \in Texts, FetchOk(r, body)
    PROVE  Inv'
<1>1. pc[r] = "fetching" /\ Goto(r, "archiving") /\ "archiving" \in Steps
  BY DEF FetchOk, Steps, Awaiting
<1>2. /\ pc' \in [Runs -> Steps]
      /\ pc'[r] = "archiving"
      /\ \A s \in Runs : s # r => pc'[s] = pc[s] /\ pc[s] \in Quiet
      /\ OneAtATime'
  BY <1>1, GotoOK DEF FetchOk, Yielded, Quiet
<1>3. /\ UNCHANGED <<off, row, clock, up, req, now, read, recorded, solo, apart, crashes, faults>>
      /\ text' = [text EXCEPT ![r] = body]
      /\ event' = [event EXCEPT ![r] = Classified(read[r].text, body)]
  BY DEF FetchOk, bounds
<1>4. read[r] \in Rows /\ read[r].summary \in {NoText, read[r].text}
  BY <1>1 DEF Inv, Holding
<1>5. text' \in [Runs -> OrNone(Texts)] /\ text'[r] = body
  BY <1>3 DEF Inv, TypeOK, OrNone
<1>6. \A s \in Runs : s # r => text'[s] = text[s]
  BY <1>3 DEF Inv, TypeOK
<1>7. Holding'
  BY <1>2, <1>3, <1>4, <1>5, <1>6, HoldingOK
<1>8. event' \in [Runs -> {"none", "first", "same", "changed"}]
  BY <1>3 DEF Inv, TypeOK, Classified
<1>9. versions' \in Tables
  <2> DEFINE was == read[r].text
             seeded == IF was \in {NoText, body} THEN {versions}
                       ELSE Upserts(versions, was, read[r].at)
  <2>1. versions \in Tables
    BY DEF Inv, TypeOK, Tables
  <2>2. PICK V \in seeded : versions' \in Upserts(V, body, now[r])
    BY DEF FetchOk
  <2>3. V \in Tables
    <3>1. CASE was \in {NoText, body}
      BY <2>1, <3>1
    <3>2. CASE was \notin {NoText, body}
      <4>1. was \in Texts /\ read[r].at \in Nat
        BY <1>4, <3>2 DEF Rows, OrNone
      <4>2. V \in Upserts(versions, was, read[r].at)
        BY <3>2
      <4> HIDE DEF was
      <4> QED BY <2>1, <4>1, <4>2, UpsertsOK
    <3> QED BY <3>1, <3>2
  <2>4. now[r] \in Nat
    BY DEF Inv, TypeOK
  <2> QED BY <2>2, <2>3, <2>4, UpsertsOK
<1>10. versions' \subseteq Versions /\ \A v, w \in versions' : v.text = w.text => v = w
  BY <1>9 DEF Tables
<1> QED BY <1>2, <1>3, <1>5, <1>7, <1>8, <1>10 DEF Inv, TypeOK, Steps, SummaryMatchesText

\* The History entry is written.
LEMMA RecordInv ==
    ASSUME Inv, NEW r \in Runs, Record(r)
    PROVE  Inv'
<1>1. pc[r] = "archiving" /\ Goto(r, "storing") /\ "storing" \in Steps
  BY DEF Record, Steps
<1>2. /\ pc' \in [Runs -> Steps]
      /\ pc'[r] = "storing"
      /\ \A s \in Runs : s # r => pc'[s] = pc[s] /\ pc[s] \in Quiet
      /\ OneAtATime'
  BY <1>1, GotoOK DEF Record, Yielded, Quiet
<1>3. /\ UNCHANGED <<off, row, versions, clock, up, req, now, read, text, event, solo,
                     apart, crashes, faults>>
      /\ recorded' = text[r]
  BY DEF Record, bounds
<1>4. Holding'
  BY <1>1, <1>2, <1>3, HoldingOK DEF Inv, Holding
<1>5. recorded' \in OrNone(Texts)
  BY <1>3 DEF Inv, TypeOK
<1> QED BY <1>2, <1>3, <1>4, <1>5 DEF Inv, TypeOK, Steps, SummaryMatchesText

\* The AI provider is asked about the row as it stands.
LEMMA SummariseInv ==
    ASSUME Inv, NEW r \in Runs, Summarise(r)
    PROVE  Inv'
<1>1. pc[r] = "deciding" /\ Goto(r, "summarising") /\ "summarising" \in Steps
  BY DEF Summarise, MaySummarise, Steps, Awaiting
<1>2. /\ pc' \in [Runs -> Steps]
      /\ pc'[r] = "summarising"
      /\ \A s \in Runs : s # r => pc'[s] = pc[s] /\ pc[s] \in Quiet
      /\ OneAtATime'
  BY <1>1, GotoOK DEF Quiet, Awaiting
<1>3. /\ UNCHANGED <<off, row, versions, clock, up, req, now, text, event, recorded, solo,
                     apart, crashes, faults>>
      /\ read' = [read EXCEPT ![r] = row]
  BY DEF Summarise, bounds
<1>4. row \in Rows /\ row.summary \in {NoText, row.text}
  BY <1>1 DEF Inv, Holding, TypeOK, SummaryMatchesText
<1>5. read' \in [Runs -> Rows \cup {NoRow}] /\ read'[r] = row
  BY <1>3, <1>4 DEF Inv, TypeOK
<1>6. \A s \in Runs : s # r => read'[s] = read[s] /\ text'[s] = text[s]
  BY <1>3 DEF Inv, TypeOK
<1>7. Holding'
  BY <1>2, <1>4, <1>5, <1>6, HoldingOK
<1> QED BY <1>2, <1>3, <1>5, <1>7 DEF Inv, TypeOK, Steps, SummaryMatchesText

\* A write that throws leaves the row alone.
LEMMA ThrowInv ==
    ASSUME Inv, NEW r \in Runs, Throw(r)
    PROVE  Inv'
<1>1. pc[r] \notin Quiet \/ \A s \in Runs : pc[s] \in Quiet
  BY DEF Throw, Continues, Yielded, Quiet, Awaiting
<1>2. /\ Goto(r, "ending")
      /\ UNCHANGED <<req, now, read, text, event>>
      /\ UNCHANGED <<off, row, versions, clock, up, recorded, solo, crashes>>
      /\ apart' \in BOOLEAN /\ faults' \in Nat
  BY DEF Throw, Leave, Inv, TypeOK
<1> QED BY <1>1, <1>2, StepOK DEF Inv, TypeOK, SummaryMatchesText
\* Runs that end leave nothing held.
LEMMA ForgottenOK ==
    ASSUME Inv, NEW S \in SUBSET Runs, Forgotten(S), \A s \in Runs \ S : pc[s] \in Quiet
    PROVE  /\ pc' \in [Runs -> Steps]
           /\ req' \in [Runs -> Requests]
           /\ now' \in [Runs -> Nat]
           /\ read' \in [Runs -> Rows \cup {NoRow}]
           /\ text' \in [Runs -> OrNone(Texts)]
           /\ event' \in [Runs -> {"none", "first", "same", "changed"}]
           /\ solo' \in [Runs -> BOOLEAN]
           /\ OneAtATime'
           /\ Holding'
<1>1. /\ pc' \in [Runs -> Steps]
      /\ now' \in [Runs -> Nat]
      /\ read' \in [Runs -> Rows \cup {NoRow}]
      /\ text' \in [Runs -> OrNone(Texts)]
      /\ event' \in [Runs -> {"none", "first", "same", "changed"}]
  BY DEF Forgotten, Inv, TypeOK, Steps, OrNone
<1>2. req' \in [Runs -> Requests]
  <2>1. [phase |-> "all", force |-> FALSE, bypass |-> FALSE] \in Requests
    BY DEF Requests
  <2> QED BY <2>1 DEF Forgotten, Inv, TypeOK
<1>3. solo' \in [Runs -> BOOLEAN]
  <2>1. \A s \in Runs : (solo[s] /\ s \notin S) \in BOOLEAN
    OBVIOUS
  <2> QED BY <2>1 DEF Forgotten
<1>4. \A s \in Runs : pc'[s] \in Quiet
  BY DEF Forgotten, Quiet
<1>5. \A s \in Runs : s \notin S => pc'[s] = pc[s] /\ read'[s] = read[s] /\ text'[s] = text[s]
  BY DEF Forgotten
<1>6. \A s \in Runs : s \in S => pc'[s] = "idle"
  BY DEF Forgotten
<1>7. Holding'
  <2> SUFFICES ASSUME NEW s \in Runs
      PROVE /\ pc'[s] \in {"entered", "fetching", "archiving", "storing", "summarising"} =>
                 read'[s] \in Rows /\ read'[s].summary \in {NoText, read'[s].text}
            /\ pc'[s] \in {"archiving", "storing"} => text'[s] \in Texts
            /\ pc'[s] \in {"entered", "deciding"} => row' # NoRow
    BY DEF Holding
  <2>1. pc'[s] \notin {"entered", "deciding"}
    BY <1>4 DEF Quiet, Awaiting
  <2>2. CASE s \in S
    BY <1>6, <2>2
  <2>3. CASE s \notin S
    BY <1>5, <2>1, <2>3 DEF Inv, Holding
  <2> QED BY <2>2, <2>3
<1> QED BY <1>1, <1>2, <1>3, <1>4, <1>7 DEF OneAtATime

LEMMA UnmarkedOK ==
    ASSUME Inv, row' = IF row = NoRow THEN NoRow ELSE [row EXCEPT !.running = FALSE]
    PROVE  /\ row' \in Rows \cup {NoRow}
           /\ SummaryMatchesText'
           /\ row' = NoRow <=> row = NoRow
           /\ row # NoRow => /\ row'.status = row.status
                             /\ row'.text = row.text
                             /\ row'.at = row.at
<1>1. CASE row = NoRow
  BY <1>1 DEF SummaryMatchesText
<1>2. CASE row # NoRow
  <2>1. row \in Rows /\ row.summary \in {NoText, row.text}
    BY <1>2 DEF Inv, TypeOK, SummaryMatchesText
  <2>2. row' = [row EXCEPT !.running = FALSE]
    BY <1>2
  <2> QED BY <1>2, <2>1, <2>2, NoRowAssumption DEF Rows, SummaryMatchesText
<1> QED BY <1>1, <1>2

\* The finally block.
LEMMA EndInv ==
    ASSUME Inv, NEW r \in Runs, End(r)
    PROVE  Inv'
<1>1. \A s \in Runs \ {r} : pc[s] \in Quiet
  BY DEF End, Inv, OneAtATime, Quiet, Awaiting
<1>2. Forgotten({r}) /\ row' \in Rows \cup {NoRow} /\ SummaryMatchesText'
  BY UnmarkedOK DEF End
<1>3. UNCHANGED <<off, versions, clock, up, recorded, apart, crashes, faults>>
  BY DEF End, bounds
<1> QED BY <1>1, <1>2, <1>3, ForgottenOK DEF Inv, TypeOK, Steps

LEMMA CrashInv ==
    ASSUME Inv, Crash
    PROVE  Inv'
<1>1. Forgotten(Runs)
  BY DEF Crash
<1>2. /\ UNCHANGED <<off, row, versions, clock, recorded, faults>>
      /\ up' = FALSE /\ crashes' \in Nat /\ apart' \in BOOLEAN
  BY DEF Crash, Inv, TypeOK
<1>3. SummaryMatchesText'
  BY <1>2 DEF Inv, SummaryMatchesText
<1> QED BY <1>1, <1>2, <1>3, ForgottenOK DEF Inv, TypeOK, Steps

\* The boot seeds a text that has no version yet.
LEMMA BootInv ==
    ASSUME Inv, Boot
    PROVE  Inv'
<1>1. /\ row' \in Rows \cup {NoRow}
      /\ SummaryMatchesText'
      /\ row' = NoRow <=> row = NoRow
  BY UnmarkedOK DEF Boot
<1>2. versions' \in Tables
  <2>1. versions \in Tables
    BY DEF Inv, TypeOK, Tables
  <2>2. CASE versions' = versions
    BY <2>1, <2>2
  <2>3. CASE versions' # versions
    <3>1. versions' = versions \cup
             {[text |-> s.text, first |-> s.at, last |-> s.at] :
                s \in {s \in {row} \ {NoRow} :
                         s.text \notin {NoText} \cup {v.text : v \in versions}}}
      BY DEF Boot
    <3> DEFINE seed == [text |-> row.text, first |-> row.at, last |-> row.at]
    <3>2. /\ row # NoRow /\ row.text # NoText
          /\ \A v \in versions : v.text # row.text
          /\ versions' = versions \cup {seed}
      BY <2>3, <3>1
    <3>3. seed \in Versions /\ seed.text = row.text
      BY <3>2 DEF Inv, TypeOK, Rows, Versions, OrNone
    <3> HIDE DEF seed
    <3> QED BY <2>1, <3>2, <3>3 DEF Tables
  <2> QED BY <2>2, <2>3
<1>3. /\ UNCHANGED <<off, clock, pc, req, now, read, text, event, recorded, solo, apart,
                     crashes, faults>>
      /\ up' = TRUE
  BY DEF Boot, flow, bounds
<1>4. OneAtATime' /\ Holding'
  BY <1>1, <1>3 DEF Inv, OneAtATime, Holding
<1> QED BY <1>1, <1>2, <1>3, <1>4 DEF Inv, TypeOK, Tables

LEMMA SwitchInv ==
    ASSUME Inv, Switch \/ UNCHANGED vars
    PROVE  Inv'
<1>1. /\ off' \in BOOLEAN
      /\ UNCHANGED <<row, versions, clock, up, pc, req, now, read, text, event, recorded,
                     solo, apart, crashes, faults>>
  BY DEF Inv, TypeOK, Switch, vars, flow, bounds
<1>2. TypeOK'
  BY <1>1 DEF Inv, TypeOK
<1>3. OneAtATime' /\ Holding' /\ SummaryMatchesText'
  BY <1>1 DEF Inv, OneAtATime, Holding, SummaryMatchesText
<1> QED BY <1>2, <1>3 DEF Inv

-----------------------------------------------------------------------------
\* What is asked for.
LEMMA RequestsOK == Background \cup Regenerate \subseteq Requests
<1>1. \A f \in BOOLEAN :
        /\ [phase |-> "fetch", force |-> f, bypass |-> f] \in Requests
        /\ [phase |-> "all", force |-> TRUE, bypass |-> f] \in Requests
        /\ [phase |-> "all", force |-> FALSE, bypass |-> FALSE] \in Requests
  BY DEF Requests
<1>2. Background \subseteq Requests
  BY <1>1 DEF Background
<1>3. Regenerate \subseteq Requests
  BY DEF Regenerate
<1> QED BY <1>2, <1>3

\* Every step keeps the invariant.
LEMMA NextInv == Inv /\ [Next]_vars => Inv'
<1> SUFFICES ASSUME Inv, [Next]_vars PROVE Inv'
  OBVIOUS
<1>1. ASSUME NEW r \in Runs, NEW q \in Background \cup Regenerate, Start(r, q) PROVE Inv'
  BY <1>1, RequestsOK, StartInv
<1>2. ASSUME NEW r \in Runs, Fetches(r) PROVE Inv'
  BY <1>2, TurnedAwayInv, FetchInv, WriteInv, FetchOkInv, RecordInv DEF Fetches
<1>3. ASSUME NEW r \in Runs, Summarises(r) PROVE Inv'
  BY <1>3, TurnedAwayInv, WriteInv, SummariseInv DEF Summarises
<1>4. ASSUME NEW r \in Runs, Throw(r) \/ End(r) PROVE Inv'
  BY <1>4, ThrowInv, EndInv
<1>5. CASE Crash \/ Boot \/ Switch \/ UNCHANGED vars
  BY <1>5, CrashInv, BootInv, SwitchInv
<1> QED BY <1>1, <1>2, <1>3, <1>4, <1>5 DEF Next

LEMMA InitInv == Init => Inv
<1> SUFFICES ASSUME Init PROVE Inv
  OBVIOUS
<1>1. TypeOK
  BY DEF Init, TypeOK, Requests, OrNone
<1>2. OneAtATime /\ Holding /\ SummaryMatchesText
  BY DEF Init, OneAtATime, Holding, SummaryMatchesText, Quiet
<1> QED BY <1>1, <1>2 DEF Inv

\* Types, the one slice at a time and what each run holds, in every state.
THEOREM RunInvariant == Spec => []Inv
<1>1. Init => Inv
  BY InitInv
<1>2. Inv /\ [Next]_vars => Inv'
  BY NextInv
<1> QED BY <1>1, <1>2, PTL DEF Spec

\* Every variable has its type, and no two versions are of one text.
THEOREM RunTypeCorrect == Spec => []TypeOK
<1>1. Inv => TypeOK
  BY DEF Inv
<1> QED BY <1>1, RunInvariant, PTL

\* A stored summary is one of the text beside it, because every run writes
\* back a text and a summary that it read or made together.
THEOREM RunSummaryMatchesText == Spec => []SummaryMatchesText
<1>1. Inv => SummaryMatchesText
  BY DEF Inv
<1> QED BY <1>1, RunInvariant, PTL

-----------------------------------------------------------------------------
(***************************************************************************)
(* What History and the version history tell: the row, the newest History  *)
(* entry and the newest version keep telling of one text.                  *)
(***************************************************************************)

\* The stored text, if any.
Body == IF row = NoRow THEN NoText ELSE row.text

\* A text has a version, fetched later than every other.
Leads(t) == \E m \in versions :
    m.text = t /\ \A v \in versions : v.text # t => v.last < m.last

\* An undisturbed run is the only one, and a dead process has none.
Alone ==
    /\ ~up => \A r \in Runs : pc[r] = "idle"
    /\ \A r \in Runs : solo[r] => \A s \in Runs : (pc[s] # "idle") <=> (s = r)
    /\ ~apart => \A r \in Runs : pc[r] # "idle" => solo[r]

\* No stamp is of the future, and a placeholder has no text.
Past ==
    /\ \A v \in versions : v.last <= clock
    /\ row # NoRow => row.at <= clock /\ (row.status = "pending" => row.text = NoText)
    /\ \A r \in Runs : now[r] <= clock /\ (read[r] # NoRow => read[r].at <= clock)

\* What an undisturbed run stamps is later than all that is stored.
Timely ==
    \A r \in Runs : solo[r] =>
        /\ now[r] = clock
        /\ pc[r] \in {"entered", "fetching"} =>
              read[r].at < clock /\ \A v \in versions : v.last < clock
        /\ pc[r] \in {"archiving", "storing"} => Leads(text[r])

\* What History should say of a text.
Truth(t) == IF recorded = NoText THEN "first" ELSE IF recorded = t THEN "same" ELSE "changed"

\* Between fetches the row, the newest History entry and the newest version
\* are of one text, and an undisturbed run read that text.
Told ==
    /\ \A r \in Runs : pc[r] = "storing" => recorded = text[r]
    /\ ~apart =>
         /\ (\A r \in Runs : pc[r] # "storing") => Body = recorded
         /\ (\A r \in Runs : pc[r] \notin {"archiving", "storing"}) =>
               IF recorded = NoText THEN versions = {} ELSE Leads(recorded)
         /\ \A r \in Runs :
              /\ pc[r] \in {"entered", "fetching", "archiving", "summarising"} =>
                    read[r].text = recorded
              /\ pc[r] = "archiving" => event[r] = Truth(text[r])

Story == Alone /\ Past /\ Timely /\ Told

-----------------------------------------------------------------------------
\* Pruning never takes the row just written.
LEMMA PruningsKeep ==
    ASSUME NEW V \in Tables, NEW body \in Texts, NEW W \in Prunings(V, body),
           NEW v \in V, v.text = body
    PROVE  v \in W
<1> DEFINE newest == {T \in SUBSET V : /\ Cardinality(T) = Keep
                                       /\ \A x \in T, w \in V \ T : w.first <= x.first}
<1>1. CASE Cardinality(V) <= Keep
  BY <1>1 DEF Prunings
<1>2. CASE ~(Cardinality(V) <= Keep)
  <2>1. W \in {T \cup {x \in V : x.text = body} : T \in newest}
    BY <1>2 DEF Prunings
  <2>2. PICK T \in newest : W = T \cup {x \in V : x.text = body}
    BY <2>1
  <2> QED BY <2>2
<1> QED BY <1>1, <1>2

\* An upsert stamps the row of its text, and leaves every other as it was or
\* prunes it.
LEMMA UpsertsStamp ==
    ASSUME NEW V \in Tables, NEW body \in Texts, NEW at \in Nat,
           NEW W \in Upserts(V, body, at)
    PROVE  /\ \A w \in W : w \in V \/ w.last = at
           /\ \A w \in W : w.text # body => w \in V
           /\ \E m \in W : m.text = body /\ m.last = at
<1>1. CASE \E v \in V : v.text = body
  <2> DEFINE New(v) == IF v.text = body THEN [v EXCEPT !.last = at] ELSE v
  <2>1. W = {New(v) : v \in V}
    BY <1>1 DEF Upserts
  <2>2. ASSUME NEW v \in V
        PROVE  /\ New(v).text = v.text
               /\ v.text = body => New(v).last = at
               /\ v.text # body => New(v) = v
    BY DEF Tables, Versions
  <2> HIDE DEF New
  <2>3. \A w \in W : w \in V \/ w.last = at
    BY <2>1, <2>2
  <2>4. \A w \in W : w.text # body => w \in V
    BY <2>1, <2>2
  <2>5. \E m \in W : m.text = body /\ m.last = at
    BY <1>1, <2>1, <2>2
  <2> QED BY <2>3, <2>4, <2>5
<1>2. CASE ~\E v \in V : v.text = body
  <2> DEFINE new == [text |-> body, first |-> at, last |-> at]
  <2>1. new \in Versions /\ new.text = body /\ new.last = at
    BY DEF Versions
  <2>2. W \in Prunings(V \cup {new}, body)
    BY <1>2 DEF Upserts, Inserts
  <2> HIDE DEF new
  <2>3. V \cup {new} \in Tables
    BY <1>2, <2>1 DEF Tables
  <2>4. W \subseteq V \cup {new}
    BY <2>2, <2>3, PruningsOK
  <2>5. new \in W
    BY <2>1, <2>2, <2>3, PruningsKeep
  <2> QED BY <2>1, <2>4, <2>5
<1> QED BY <1>1, <1>2

-----------------------------------------------------------------------------
\* A step of a live run, as far as being alone goes.
LEMMA AloneStep ==
    ASSUME Inv, Alone, NEW r \in Runs, pc[r] # "idle", pc'[r] # "idle",
           \A s \in Runs : s # r => pc'[s] = pc[s],
           UNCHANGED <<up, solo>>, ~apart' => ~apart \/ solo[r]
    PROVE  Alone'
<1>1. \A s \in Runs : pc'[s] # "idle" <=> pc[s] # "idle"
  OBVIOUS
<1>2. ~apart' => \A s \in Runs : pc'[s] # "idle" => solo'[s]
  BY <1>1 DEF Alone
<1> QED BY <1>1, <1>2 DEF Alone

\* A live run that is undisturbed is the only live one.
LEMMA OnlyOne ==
    ASSUME Alone, NEW r \in Runs, pc[r] # "idle", ~apart
    PROVE  solo[r] /\ \A s \in Runs : s # r => pc[s] = "idle"
  BY DEF Alone

\* A step that leaves versions and History alone: the row is as told, or it
\* is the undisturbed run that stores what it told.
LEMMA SettledStep ==
    ASSUME Inv, Story, NEW r \in Runs, pc[r] # "idle",
           pc'[r] \in {"fetching", "summarising", "deciding", "ending"},
           \A s \in Runs : s # r => pc'[s] = pc[s] /\ pc[s] \in Quiet,
           \A s \in Runs : s # r => read'[s] = read[s],
           UNCHANGED <<versions, clock, now, text, event, solo, recorded, up>>,
           row' # NoRow => row'.at <= clock /\ (row'.status = "pending" => row'.text = NoText),
           read'[r] # NoRow => read'[r].at <= clock,
           pc'[r] = "fetching" => pc[r] = "entered" /\ read'[r] = read[r],
           pc'[r] = "summarising" => (~apart' => read'[r].text = recorded),
           ~apart' => /\ Body' = recorded
                      /\ \/ ~apart /\ pc[r] \notin {"archiving", "storing"}
                         \/ solo[r] /\ pc[r] = "storing"
    PROVE  Story'
<1>1. Alone'
  BY AloneStep DEF Story
<1>2. Past'
  <2>1. \A s \in Runs : now'[s] <= clock /\ (read'[s] # NoRow => read'[s].at <= clock)
    BY DEF Story, Past
  <2> QED BY <2>1 DEF Story, Past
<1>3. Timely'
  <2> SUFFICES ASSUME NEW s \in Runs, solo'[s]
      PROVE /\ now'[s] = clock'
            /\ pc'[s] \in {"entered", "fetching"} =>
                  read'[s].at < clock' /\ \A v \in versions' : v.last < clock'
            /\ pc'[s] \in {"archiving", "storing"} => Leads(text[s])'
    BY DEF Timely
  <2>1. s = r
    BY DEF Story, Alone
  <2>2. now'[s] = clock'
    BY DEF Story, Timely
  <2>3. pc'[s] = "fetching" => read'[s].at < clock' /\ \A v \in versions' : v.last < clock'
    BY <2>1 DEF Story, Timely
  <2> QED BY <2>1, <2>2, <2>3
<1>4. Told'
  <2>1. \A s \in Runs : pc'[s] # "storing"
    BY DEF Quiet, Awaiting
  <2>2. ASSUME ~apart'
        PROVE  /\ IF recorded = NoText THEN versions = {} ELSE Leads(recorded)
               /\ \A s \in Runs : s # r => pc'[s] = "idle"
               /\ pc'[r] \in {"entered", "fetching", "archiving", "summarising"} =>
                      read'[r].text = recorded
    <3>1. CASE ~apart /\ pc[r] \notin {"archiving", "storing"}
      <4>1. \A s \in Runs : s # r => pc[s] = "idle"
        BY <3>1, OnlyOne DEF Story
      <4>2. IF recorded = NoText THEN versions = {} ELSE Leads(recorded)
        BY <3>1, <4>1 DEF Story, Told
      <4>3. pc'[r] = "fetching" => read'[r].text = recorded
        BY <3>1 DEF Story, Told
      <4> QED BY <2>2, <4>1, <4>2, <4>3
    <3>2. CASE solo[r] /\ pc[r] = "storing"
      <4>1. recorded = text[r] /\ Leads(text[r]) /\ text[r] \in Texts
        BY <3>2 DEF Story, Told, Timely, Inv, Holding
      <4>2. \A s \in Runs : s # r => pc[s] = "idle"
        BY <3>2 DEF Story, Alone
      <4> QED BY <2>2, <3>2, <4>1, <4>2, TextsAssumption
    <3> QED BY <2>2, <3>1, <3>2
  <2>3. ASSUME ~apart', NEW s \in Runs
        PROVE  /\ pc'[s] \in {"entered", "fetching", "archiving", "summarising"} =>
                    read'[s].text = recorded'
               /\ pc'[s] = "archiving" => event'[s] = Truth(text[s])'
    BY <2>2, <2>3
  <2>4. ~apart' => IF recorded' = NoText THEN versions' = {} ELSE Leads(recorded)'
    BY <2>2 DEF Leads
  <2> QED BY <2>1, <2>3, <2>4 DEF Told
<1> QED BY <1>1, <1>2, <1>3, <1>4 DEF Story
-----------------------------------------------------------------------------
\* Nothing is fetched: only a placeholder goes, and it has no text.
LEMMA TurnedAwayStory ==
    ASSUME Inv, Story, NEW r \in Runs,
           GateOff(r) \/ Throttle(r) \/ SummariseNothing(r) \/ SummariseSkips(r)
    PROVE  Story'
<1>1. pc[r] \in {"entered", "deciding"} /\ row # NoRow
  BY DEF GateOff, Throttle, SummariseNothing, SummariseSkips, Inv, Holding
<1>2. PICK l \in {"ending", "deciding"} : Goto(r, l)
  BY DEF GateOff, Throttle, SummariseNothing, SummariseSkips, AfterFetch, Leave
<1>3. /\ UNCHANGED <<now, read, text, event, versions, clock, solo, recorded, up, apart>>
      /\ row' = row \/ (row.status = "pending" /\ row' = NoRow)
  BY DEF GateOff, Throttle, SummariseNothing, SummariseSkips, AfterFetch, Leave, DropPlaceholder
<1>4. /\ pc'[r] = l
      /\ \A s \in Runs : s # r => pc'[s] = pc[s] /\ pc[s] \in Quiet
  BY <1>1, <1>2, GotoOK DEF Steps, Quiet, Awaiting
<1>5. Body' = Body
  BY <1>1, <1>3 DEF Body, Story, Past
<1>6. ~apart => Body = recorded
  BY <1>1, OnlyOne DEF Story, Told
<1>7. row' # NoRow => row'.at <= clock /\ (row'.status = "pending" => row'.text = NoText)
  BY <1>1, <1>3 DEF Story, Past
<1> QED BY <1>1, <1>3, <1>4, <1>5, <1>6, <1>7, SettledStep DEF Story, Past

\* A fetch that fails, a summary and its failure write back the text they
\* read; a store writes the text that was told.
LEMMA WriteStory ==
    ASSUME Inv, Story, NEW r \in Runs,
           FetchFails(r) \/ Store(r) \/ NeedsConfig(r) \/ Summarised(r) \/ SummaryFails(r)
    PROVE  Story'
<1>1. /\ pc[r] \in {"fetching", "storing", "deciding", "summarising"}
      /\ pc[r] \notin Quiet \/ \A s \in Runs : pc[s] \in Quiet
  BY DEF FetchFails, Store, NeedsConfig, MaySummarise, Summarised, SummaryFails, Yielded,
     Quiet, Awaiting
<1>2. PICK l \in {"ending", "deciding"} : Goto(r, l)
  BY DEF FetchFails, Store, NeedsConfig, Summarised, SummaryFails, AfterFetch, Leave
<1>3. UNCHANGED <<now, read, text, event, versions, clock, solo, recorded, up>>
  BY DEF FetchFails, Store, NeedsConfig, Summarised, SummaryFails, AfterFetch, Leave
<1>4. /\ pc'[r] = l
      /\ \A s \in Runs : s # r => pc'[s] = pc[s] /\ pc[s] \in Quiet
  BY <1>1, <1>2, GotoOK DEF Steps
<1>5. /\ now[r] \in Nat /\ now[r] <= clock
      /\ StoredAt \in Nat /\ StoredAt <= clock
  BY DEF Inv, TypeOK, StoredAt, Rows, Story, Past
<1>6. PICK status \in Statuses \ {"pending"}, body \in OrNone(Texts),
           summary \in OrNone(Texts), at \in Nat :
        /\ Persist(status, body, summary, at)
        /\ at <= clock
        /\ ~apart' => /\ body = recorded
                      /\ \/ ~apart /\ pc[r] \notin {"archiving", "storing"}
                         \/ solo[r] /\ pc[r] = "storing"
  <2>1. CASE FetchFails(r)
    <3>1. read[r] \in Rows /\ pc[r] = "fetching" /\ apart' = apart
      BY <2>1 DEF FetchFails, Inv, Holding
    <3>2. ~apart' => read[r].text = recorded
      BY <3>1 DEF Story, Told
    <3> QED BY <2>1, <3>1, <3>2, <1>5 DEF FetchFails, Rows, Statuses
  <2>2. CASE Store(r)
    <3>1. read[r] \in Rows /\ text[r] \in Texts /\ pc[r] = "storing" /\ recorded = text[r]
      BY <2>2 DEF Store, Inv, Holding, Story, Told
    <3>2. ~apart' => solo[r]
      BY <2>2, <3>1 DEF Store, Story, Alone
    <3> DEFINE hit == /\ ~req[r].force
                      /\ read[r].text = text[r]
                      /\ read[r].summary # NoText
    <3>3. CASE hit
      BY <2>2, <3>1, <3>2, <3>3, <1>5 DEF Store, Rows, Statuses, OrNone
    <3>4. CASE ~hit
      BY <2>2, <3>1, <3>2, <3>4, <1>5 DEF Store, Rows, Statuses, OrNone
    <3> QED BY <3>3, <3>4
  <2>3. CASE NeedsConfig(r)
    <3>1. row \in Rows /\ row # NoRow /\ pc[r] = "deciding" /\ apart' = apart
      BY <2>3 DEF NeedsConfig, MaySummarise, Inv, Holding, TypeOK
    <3>2. ~apart' => row.text = recorded
      BY <3>1, OnlyOne DEF Story, Told, Body
    <3>3. row.at <= clock
      BY <3>1 DEF Story, Past
    <3> QED BY <2>3, <3>1, <3>2, <3>3 DEF NeedsConfig, Rows, Statuses
  <2>4. CASE Summarised(r) \/ SummaryFails(r)
    <3>1. read[r] \in Rows /\ pc[r] = "summarising" /\ apart' = apart
      BY <2>4 DEF Summarised, SummaryFails, Inv, Holding
    <3>2. ~apart' => read[r].text = recorded
      BY <3>1 DEF Story, Told
    <3> QED BY <2>4, <3>1, <3>2, <1>5 DEF Summarised, SummaryFails, Rows, Statuses
  <2> QED BY <2>1, <2>2, <2>3, <2>4
<1>7. row' # NoRow /\ row'.status = status /\ row'.text = body /\ row'.at = at
  BY <1>6, PersistOK
<1>8. Body' = body
  BY <1>7 DEF Body
<1>9. read'[r] # NoRow => read'[r].at <= clock
  BY <1>3 DEF Story, Past
<1> QED BY <1>1, <1>3, <1>4, <1>6, <1>7, <1>8, <1>9, SettledStep

\* The page is asked for, or a write throws.
LEMMA LeavingAloneStory ==
    ASSUME Inv, Story, NEW r \in Runs, Fetch(r) \/ Throw(r)
    PROVE  Story'
<1>1. /\ pc[r] \in {"entered", "fetching", "storing", "summarising"}
      /\ pc[r] \notin Quiet \/ \A s \in Runs : pc[s] \in Quiet
  BY DEF Fetch, Throw, Continues, Yielded, Quiet, Awaiting
<1>2. PICK l \in {"fetching", "ending"} : Goto(r, l) /\ (l = "fetching" => pc[r] = "entered")
  BY DEF Fetch, Throw, Leave
<1>3. UNCHANGED <<row, now, read, text, event, versions, clock, solo, recorded, up>>
  BY DEF Fetch, Throw, Leave
<1>4. /\ pc'[r] = l
      /\ \A s \in Runs : s # r => pc'[s] = pc[s] /\ pc[s] \in Quiet
  BY <1>1, <1>2, GotoOK DEF Steps, Awaiting
<1>5. ~apart' => ~apart /\ pc[r] # "storing"
  BY DEF Fetch, Throw
<1>6. ~apart' => Body' = recorded
  <2>1. Body' = Body
    BY <1>3 DEF Body
  <2> QED BY <1>1, <1>5, <2>1, OnlyOne DEF Story, Told
<1>7. /\ row' # NoRow => row'.at <= clock /\ (row'.status = "pending" => row'.text = NoText)
      /\ read'[r] # NoRow => read'[r].at <= clock
  BY <1>3 DEF Story, Past
<1> QED BY <1>1, <1>2, <1>3, <1>4, <1>5, <1>6, <1>7, SettledStep

LEMMA SummariseStory ==
    ASSUME Inv, Story, NEW r \in Runs, Summarise(r)
    PROVE  Story'
<1>1. pc[r] = "deciding" /\ row # NoRow /\ Goto(r, "summarising")
  BY DEF Summarise, MaySummarise, Inv, Holding
<1>2. UNCHANGED <<row, now, text, event, versions, clock, solo, recorded, up, apart>>
  BY DEF Summarise
<1>3. read'[r] = row /\ \A s \in Runs : s # r => read'[s] = read[s]
  BY DEF Summarise, Inv, TypeOK
<1>4. /\ pc'[r] = "summarising"
      /\ \A s \in Runs : s # r => pc'[s] = pc[s] /\ pc[s] \in Quiet
  BY <1>1, GotoOK DEF Steps, Quiet, Awaiting
<1>5. ~apart' => Body' = recorded /\ row.text = recorded
  BY <1>1, <1>2, OnlyOne DEF Story, Told, Body
<1>6. row.at <= clock /\ (row.status = "pending" => row.text = NoText)
  BY <1>1 DEF Story, Past
<1> QED BY <1>1, <1>2, <1>3, <1>4, <1>5, <1>6, SettledStep

-----------------------------------------------------------------------------
\* A run begins: later than all there is, and alone or not.
LEMMA StartStory ==
    ASSUME Inv, Story, NEW r \in Runs, NEW q \in Requests, Start(r, q)
    PROVE  Story'
<1>0. clock \in Nat /\ pc \in [Runs -> Steps] /\ up
  BY DEF Inv, TypeOK, Steps, Start, Yielded
<1>1. /\ pc[r] = "idle" /\ \A s \in Runs : pc[s] \in Quiet
      /\ clock' = clock + 1
      /\ UNCHANGED <<versions, up, text, event, recorded>>
      /\ apart' = (apart \/ Live # {})
  BY DEF Start, Yielded, Quiet
<1>2. pc'[r] \in {"entered", "deciding"} /\ \A s \in Runs : s # r => pc'[s] = pc[s]
  BY <1>0 DEF Start, Goto
<1>3. /\ now'[r] = clock' /\ read'[r] = row'
      /\ \A s \in Runs : s # r => now'[s] = now[s] /\ read'[s] = read[s]
  <2>1. now \in [Runs -> Nat] /\ read \in [Runs -> Rows \cup {NoRow}]
    BY DEF Inv, TypeOK
  <2>2. now' = [now EXCEPT ![r] = clock'] /\ read' = [read EXCEPT ![r] = row']
    BY DEF Start
  <2> QED BY <2>1, <2>2
<1>4. /\ solo'[r] <=> Live = {}
      /\ \A s \in Runs : s # r => (solo'[s] <=> solo[s] /\ s \notin Live)
  BY DEF Start
<1>5. \A s \in Runs : s # r => ~solo'[s]
  <2>1. \A s \in Runs : solo[s] => s \in Live
    BY DEF Story, Alone, Live
  <2> QED BY <1>4, <2>1
<1>6. /\ row' # NoRow /\ row'.at <= clock /\ row'.text = Body
      /\ row'.status = "pending" => row'.text = NoText
  <2>1. CASE row = NoRow
    <3>1. row' = Placeholder
      BY <2>1 DEF Start
    <3>2. Placeholder \in Rows /\ Placeholder.at = 0 /\ Placeholder.text = NoText
      BY DEF Placeholder, Rows, Statuses, OrNone
    <3>3. Body = NoText
      BY <2>1 DEF Body
    <3>4. Placeholder # NoRow
      BY <3>2, NoRowAssumption
    <3> QED BY <3>1, <3>2, <3>3, <3>4, <1>0
  <2>2. CASE row # NoRow
    <3>1. row \in Rows /\ row' = [row EXCEPT !.running = TRUE]
      BY <2>2 DEF Start, Inv, TypeOK
    <3>2. /\ row' \in Rows /\ row'.at = row.at /\ row'.text = row.text
          /\ row'.status = row.status
      BY <3>1 DEF Rows
    <3> QED BY <2>2, <3>2, NoRowAssumption DEF Body, Story, Past
  <2> QED BY <2>1, <2>2
<1>7. \A v \in versions : v.last <= clock /\ v.last \in Nat
  BY DEF Inv, TypeOK, Versions, Story, Past
<1>8. row' \in Rows
  BY <1>6, StartInv DEF Inv, TypeOK
<1>9. Alone'
  <2>1. \A s \in Runs : Live = {} => pc[s] = "idle"
    BY DEF Live
  <2>2. \A s \in Runs : solo'[s] => \A u \in Runs : (pc'[u] # "idle") <=> (u = s)
    BY <1>2, <1>4, <1>5, <2>1
  <2>3. ~apart' => \A s \in Runs : pc'[s] # "idle" => solo'[s]
    BY <1>1, <1>2, <1>4, <2>1
  <2> QED BY <1>0, <1>1, <2>2, <2>3 DEF Alone
<1>10. Past'
  <2>1. ASSUME NEW s \in Runs
        PROVE  now'[s] <= clock' /\ (read'[s] # NoRow => read'[s].at <= clock')
    <3>1. CASE s = r
      BY <3>1, <1>0, <1>1, <1>3, <1>6, <1>8 DEF Rows
    <3>2. CASE s # r
      <4>1. now[s] \in Nat /\ now[s] <= clock
        BY DEF Inv, TypeOK, Story, Past
      <4>2. read[s] # NoRow => read[s].at \in Nat /\ read[s].at <= clock
        BY DEF Inv, TypeOK, Rows, Story, Past
      <4> QED BY <3>2, <1>0, <1>1, <1>3, <4>1, <4>2
    <3> QED BY <3>1, <3>2
  <2>2. \A v \in versions' : v.last <= clock'
    BY <1>0, <1>1, <1>7
  <2>3. row'.at <= clock'
    BY <1>0, <1>1, <1>6, <1>8 DEF Rows
  <2> QED BY <2>1, <2>2, <2>3, <1>6 DEF Past
<1>11. Timely'
  <2>1. row'.at < clock' /\ \A v \in versions' : v.last < clock'
    BY <1>0, <1>1, <1>6, <1>7, <1>8 DEF Rows
  <2> QED BY <1>2, <1>3, <1>5, <2>1 DEF Timely
<1>12. Told'
  <2>1. \A s \in Runs : pc'[s] # "storing"
    BY <1>1, <1>2 DEF Quiet, Awaiting
  <2>2. Body' = Body
    BY <1>6 DEF Body
  <2>3. ASSUME ~apart'
        PROVE  /\ Body = recorded
               /\ IF recorded = NoText THEN versions = {} ELSE Leads(recorded)
               /\ \A s \in Runs : s # r => pc'[s] = "idle"
    <3>1. ~apart /\ \A s \in Runs : pc[s] = "idle"
      BY <1>1, <2>3 DEF Live
    <3> QED BY <1>2, <3>1 DEF Story, Told
  <2>4. ~apart' => IF recorded' = NoText THEN versions' = {} ELSE Leads(recorded)'
    BY <1>1, <2>3 DEF Leads
  <2>5. ASSUME ~apart', NEW s \in Runs
        PROVE  /\ pc'[s] \in {"entered", "fetching", "archiving", "summarising"} =>
                    read'[s].text = recorded'
               /\ pc'[s] = "archiving" => event'[s] = Truth(text[s])'
    BY <1>1, <1>2, <1>3, <1>6, <2>3, <2>5
  <2> QED BY <1>1, <2>1, <2>2, <2>3, <2>4, <2>5 DEF Told
<1> QED BY <1>9, <1>10, <1>11, <1>12 DEF Story
\* The archive answered and the entry is written.
LEMMA RecordStory ==
    ASSUME Inv, Story, NEW r \in Runs, Record(r)
    PROVE  Story'
<1>1. /\ pc[r] = "archiving" /\ Goto(r, "storing") /\ \A s \in Runs : pc[s] \in Quiet
      /\ UNCHANGED <<row, versions, clock, up, now, read, text, event, solo, apart>>
      /\ recorded' = text[r]
  BY DEF Record, Yielded, Quiet
<1>2. /\ pc'[r] = "storing"
      /\ \A s \in Runs : s # r => pc'[s] = pc[s]
  BY <1>1, GotoOK DEF Steps
<1>3. Alone'
  BY <1>1, <1>2, AloneStep DEF Story
<1>4. Past'
  BY <1>1 DEF Story, Past
<1>5. Timely'
  <2>1. \A s \in Runs : solo[s] => s = r
    BY <1>1 DEF Story, Alone
  <2>2. solo[r] => now[r] = clock /\ Leads(text[r])
    BY <1>1 DEF Story, Timely
  <2>3. solo[r] => Leads(text[r])'
    BY <1>1, <2>2 DEF Leads
  <2> QED BY <1>1, <1>2, <2>1, <2>2, <2>3 DEF Timely
<1>6. Told'
  <2>1. \A s \in Runs : pc'[s] = "storing" => s = r
    BY <1>1, <1>2 DEF Quiet, Awaiting
  <2>2. ~apart' => \A s \in Runs : s # r => pc'[s] = "idle"
    BY <1>1, <1>2, OnlyOne DEF Story
  <2> QED BY <1>1, <1>2, <2>1, <2>2 DEF Told
<1> QED BY <1>3, <1>4, <1>5, <1>6 DEF Story

\* A fetched text is classed by what was told, and its version is the newest.
LEMMA FetchOkStory ==
    ASSUME Inv, Story, NEW r \in Runs, NEW body \in Texts, FetchOk(r, body)
    PROVE  Story'
<1> DEFINE was == read[r].text
<1>1. /\ pc[r] = "fetching" /\ Goto(r, "archiving") /\ \A s \in Runs : pc[s] \in Quiet
      /\ UNCHANGED <<row, clock, up, now, read, solo, apart, recorded>>
      /\ text' = [text EXCEPT ![r] = body]
      /\ event' = [event EXCEPT ![r] = Classified(was, body)]
  BY DEF FetchOk, Yielded, Quiet
<1>2. /\ pc'[r] = "archiving"
      /\ \A s \in Runs : s # r => pc'[s] = pc[s]
  BY <1>1, GotoOK DEF Steps, Awaiting
<1>3. text'[r] = body /\ event'[r] = Classified(was, body)
  BY <1>1 DEF Inv, TypeOK
<1>4. /\ read[r] \in Rows /\ read[r].at \in Nat /\ read[r].at <= clock
      /\ now[r] \in Nat /\ now[r] <= clock /\ clock \in Nat
  <2>1. read[r] \in Rows
    BY <1>1 DEF Inv, Holding
  <2>2. read[r].at <= clock /\ now[r] <= clock
    BY <2>1, NoRowAssumption DEF Story, Past
  <2> QED BY <2>1, <2>2 DEF Rows, Inv, TypeOK
<1>5. PICK V \in Tables :
        /\ \A v \in V : v.last <= clock
        /\ solo[r] => \A v \in V : v.last < clock
        /\ versions' \in Upserts(V, body, now[r])
  <2> DEFINE seeded == IF was \in {NoText, body} THEN {versions}
                       ELSE Upserts(versions, was, read[r].at)
  <2>1. /\ versions \in Tables
        /\ \A v \in versions : v.last <= clock
        /\ solo[r] => /\ \A v \in versions : v.last < clock
                      /\ read[r].at < clock
    BY <1>1 DEF Inv, TypeOK, Tables, Story, Past, Timely
  <2>2. PICK V \in seeded : versions' \in Upserts(V, body, now[r])
    BY DEF FetchOk
  <2>3. CASE was \in {NoText, body}
    BY <2>1, <2>2, <2>3
  <2>4. CASE was \notin {NoText, body}
    <3>1. was \in Texts
      BY <1>4, <2>4 DEF Rows, OrNone
    <3>2. V \in Upserts(versions, was, read[r].at)
      BY <2>2, <2>4
    <3> HIDE DEF was
    <3>3. V \in Tables
      BY <1>4, <2>1, <3>1, <3>2, UpsertsOK
    <3>4. \A v \in V : v \in versions \/ v.last = read[r].at
      BY <1>4, <2>1, <3>1, <3>2, UpsertsStamp
    <3> QED BY <1>4, <2>1, <2>2, <3>3, <3>4
  <2> QED BY <2>3, <2>4
<1>6. /\ \A w \in versions' : w \in V \/ w.last = now[r]
      /\ \A w \in versions' : w.text # body => w \in V
      /\ \E m \in versions' : m.text = body /\ m.last = now[r]
  BY <1>4, <1>5, UpsertsStamp
<1>7. Alone'
  BY <1>1, <1>2, AloneStep DEF Story
<1>8. Past'
  <2>1. \A v \in versions' : v.last <= clock'
    BY <1>1, <1>4, <1>5, <1>6
  <2> QED BY <1>1, <2>1 DEF Story, Past
<1>9. Timely'
  <2>1. \A s \in Runs : solo[s] => s = r
    BY <1>1 DEF Story, Alone
  <2>2. solo[r] => now[r] = clock
    BY DEF Story, Timely
  <2>3. ASSUME solo[r]
        PROVE  \E m \in versions' : m.text = body /\ \A v \in versions' : v.text # body => v.last < m.last
    BY <1>5, <1>6, <2>2, <2>3
  <2>4. solo[r] => Leads(text[r])'
    BY <1>3, <2>3 DEF Leads
  <2> QED BY <1>1, <1>2, <2>1, <2>2, <2>4 DEF Timely
<1>10. Told'
  <2>1. \A s \in Runs : pc'[s] # "storing"
    BY <1>1, <1>2 DEF Quiet, Awaiting
  <2>2. ASSUME ~apart'
        PROVE  /\ Body' = recorded'
               /\ was = recorded
               /\ event'[r] = Truth(text[r])'
               /\ \A s \in Runs : s # r => pc'[s] = "idle"
    <3>1. ~apart /\ \A s \in Runs : s # r => pc[s] = "idle"
      BY <1>1, <2>2, OnlyOne DEF Story
    <3>2. was = recorded /\ Body = recorded /\ (recorded = NoText => versions = {})
      BY <1>1, <3>1 DEF Story, Told
    <3>3. Body' = Body
      BY <1>1 DEF Body
    <3>4. Classified(was, body) = Truth(body)
      BY <3>2, TextsAssumption DEF Classified, Truth
    <3>5. Truth(text[r])' = Truth(body)
      BY <1>1, <1>3 DEF Truth
    <3> QED BY <1>1, <1>2, <1>3, <3>1, <3>2, <3>3, <3>4, <3>5
  <2>3. ASSUME ~apart', NEW s \in Runs
        PROVE  /\ pc'[s] \in {"entered", "fetching", "archiving", "summarising"} =>
                    read'[s].text = recorded'
               /\ pc'[s] = "archiving" => event'[s] = Truth(text[s])'
    <3>1. CASE s = r
      BY <3>1, <1>1, <2>2, <2>3
    <3>2. CASE s # r
      BY <3>2, <2>2, <2>3
    <3> QED BY <3>1, <3>2
  <2> QED BY <1>2, <2>1, <2>2, <2>3 DEF Told
<1> QED BY <1>7, <1>8, <1>9, <1>10 DEF Story

-----------------------------------------------------------------------------
\* Runs that end, or die with the process, leave what was told.
LEMMA ForgottenStory ==
    ASSUME Inv, Story, NEW S \in SUBSET Runs, Forgotten(S),
           UNCHANGED <<versions, clock, recorded>>,
           row' = NoRow <=> row = NoRow,
           row # NoRow => row'.status = row.status /\ row'.text = row.text /\ row'.at = row.at,
           ~up' => S = Runs \/ ~up,
           ~apart' => ~apart /\ \A s \in S : pc[s] \notin {"archiving", "storing"},
           \A s \in Runs \ S : pc[s] # "storing"
    PROVE  Story'
<1>1. /\ \A s \in Runs : s \in S =>
            pc'[s] = "idle" /\ ~solo'[s] /\ now'[s] = 0 /\ read'[s] = NoRow
      /\ \A s \in Runs : s \notin S =>
            /\ pc'[s] = pc[s] /\ (solo'[s] <=> solo[s]) /\ now'[s] = now[s]
            /\ read'[s] = read[s] /\ text'[s] = text[s] /\ event'[s] = event[s]
  BY DEF Forgotten
<1>2. Body' = Body
  BY DEF Body
<1>3. Alone'
  <2>1. ~up' => \A s \in Runs : pc'[s] = "idle"
    BY <1>1 DEF Story, Alone
  <2>2. ASSUME NEW s \in Runs, solo'[s], NEW u \in Runs
        PROVE  pc'[u] # "idle" <=> u = s
    <3>1. s \notin S /\ solo[s]
      BY <1>1, <2>2
    <3>2. pc[u] # "idle" <=> u = s
      BY <3>1 DEF Story, Alone
    <3> QED BY <1>1, <3>1, <3>2
  <2>3. ~apart' => \A s \in Runs : pc'[s] # "idle" => solo'[s]
    BY <1>1 DEF Story, Alone
  <2> QED BY <2>1, <2>2, <2>3 DEF Alone
<1>4. Past'
  <2>1. clock \in Nat
    BY DEF Inv, TypeOK
  <2>2. ASSUME NEW s \in Runs
        PROVE  now'[s] <= clock' /\ (read'[s] # NoRow => read'[s].at <= clock')
    BY <1>1, <2>1 DEF Story, Past
  <2>3. row' # NoRow => row'.at <= clock' /\ (row'.status = "pending" => row'.text = NoText)
    BY DEF Story, Past
  <2> QED BY <2>2, <2>3 DEF Story, Past
<1>5. Timely'
  <2> SUFFICES ASSUME NEW s \in Runs, solo'[s]
      PROVE /\ now'[s] = clock'
            /\ pc'[s] \in {"entered", "fetching"} =>
                  read'[s].at < clock' /\ \A v \in versions' : v.last < clock'
            /\ pc'[s] \in {"archiving", "storing"} => Leads(text[s])'
    BY DEF Timely
  <2>1. s \notin S /\ solo[s]
    BY <1>1
  <2>2. Leads(text[s])' <=> Leads(text[s])
    BY <1>1, <2>1 DEF Leads
  <2> QED BY <1>1, <2>1, <2>2 DEF Story, Timely
<1>6. Told'
  <2>1. \A s \in Runs : pc'[s] # "storing"
    BY <1>1
  <2>2. ASSUME ~apart'
        PROVE  /\ Body = recorded
               /\ (\A s \in Runs : pc'[s] \notin {"archiving", "storing"}) =>
                     IF recorded = NoText THEN versions = {} ELSE Leads(recorded)
               /\ \A s \in Runs :
                    /\ pc'[s] \in {"entered", "fetching", "archiving", "summarising"} =>
                          s \notin S /\ read[s].text = recorded
                    /\ pc'[s] = "archiving" => s \notin S /\ event[s] = Truth(text[s])
    BY <1>1, <2>2 DEF Story, Told
  <2>3. ~apart' /\ (\A s \in Runs : pc'[s] \notin {"archiving", "storing"}) =>
            IF recorded' = NoText THEN versions' = {} ELSE Leads(recorded)'
    BY <2>2 DEF Leads
  <2>4. ASSUME NEW s \in Runs, s \notin S
        PROVE  Truth(text[s])' = Truth(text[s])
    BY <1>1, <2>4 DEF Truth
  <2> QED BY <1>1, <1>2, <2>1, <2>2, <2>3, <2>4 DEF Told
<1> QED BY <1>3, <1>4, <1>5, <1>6 DEF Story

LEMMA EndStory ==
    ASSUME Inv, Story, NEW r \in Runs, End(r)
    PROVE  Story'
<1>1. \A s \in Runs \ {r} : pc[s] # "storing"
  BY DEF End, Inv, OneAtATime, Quiet, Awaiting
<1>2. /\ Forgotten({r}) /\ pc[r] = "ending"
      /\ UNCHANGED <<versions, clock, recorded, up, apart>>
  BY DEF End
<1>3. /\ row' = NoRow <=> row = NoRow
      /\ row # NoRow => row'.status = row.status /\ row'.text = row.text /\ row'.at = row.at
  BY UnmarkedOK DEF End
<1> QED BY <1>1, <1>2, <1>3, ForgottenStory DEF Story, Alone

\* Only a run between its upsert and its store is cut short, and that is
\* marked.
LEMMA CrashStory ==
    ASSUME Inv, Story, Crash
    PROVE  Story'
<1>1. /\ Forgotten(Runs)
      /\ UNCHANGED <<row, versions, clock, recorded>>
      /\ apart' = (apart \/ \E r \in Runs : pc[r] \in {"archiving", "storing"})
  BY DEF Crash
<1> QED BY <1>1, ForgottenStory

\* What is told has a version, so the boot seeds only what is not.
LEMMA BootStory ==
    ASSUME Inv, Story, Boot
    PROVE  Story'
<1>1. /\ row' = NoRow <=> row = NoRow
      /\ row # NoRow => row'.status = row.status /\ row'.text = row.text /\ row'.at = row.at
  BY UnmarkedOK DEF Boot
<1>2. /\ UNCHANGED <<clock, pc, now, read, text, event, recorded, solo, apart>>
      /\ \A r \in Runs : pc[r] = "idle"
      /\ versions' = versions \cup
             {[text |-> s.text, first |-> s.at, last |-> s.at] :
                s \in {s \in {row} \ {NoRow} :
                         s.text \notin {NoText} \cup {v.text : v \in versions}}}
  BY DEF Boot, flow, Story, Alone
<1>3. \A v \in versions' : v \in versions \/ (row # NoRow /\ v.last = row.at)
  BY <1>2
<1>4. ~apart => versions' = versions
  <2>1. ASSUME ~apart, row # NoRow, row.text # NoText
        PROVE  \E v \in versions : v.text = row.text
    <3>1. recorded = row.text /\ Leads(recorded)
      BY <1>2, <2>1 DEF Story, Told, Body
    <3> QED BY <3>1 DEF Leads
  <2> QED BY <1>2, <2>1
<1>5. Alone'
  BY <1>2 DEF Story, Alone
<1>6. Past'
  <2>1. \A v \in versions' : v.last <= clock'
    BY <1>2, <1>3 DEF Story, Past
  <2> QED BY <1>1, <1>2, <2>1 DEF Story, Past
<1>7. Timely'
  BY <1>2 DEF Story, Alone, Timely
<1>8. Told'
  <2>1. Body' = Body
    BY <1>1 DEF Body
  <2>2. ASSUME ~apart PROVE IF recorded' = NoText THEN versions' = {} ELSE Leads(recorded)'
    <3>1. IF recorded = NoText THEN versions = {} ELSE Leads(recorded)
      BY <1>2, <2>2 DEF Story, Told
    <3> QED BY <1>2, <1>4, <2>2, <3>1 DEF Leads
  <2>3. ~apart => Body = recorded
    BY <1>2 DEF Story, Told
  <2> QED BY <1>2, <2>1, <2>2, <2>3 DEF Told
<1> QED BY <1>5, <1>6, <1>7, <1>8 DEF Story

LEMMA SwitchStory ==
    ASSUME Inv, Story, Switch \/ UNCHANGED vars
    PROVE  Story'
<1>1. UNCHANGED <<row, versions, clock, up, pc, now, read, text, event, recorded, solo, apart>>
  BY DEF Switch, vars, flow
<1>2. Alone' /\ Past'
  BY <1>1 DEF Story, Alone, Past
<1>3. Timely' /\ Told'
  BY <1>1 DEF Story, Timely, Told, Leads, Truth, Body
<1> QED BY <1>2, <1>3 DEF Story

-----------------------------------------------------------------------------
\* Every step keeps the story.
LEMMA NextStory == Inv /\ Story /\ [Next]_vars => Story'
<1> SUFFICES ASSUME Inv, Story, [Next]_vars PROVE Story'
  OBVIOUS
<1>1. ASSUME NEW r \in Runs, NEW q \in Background \cup Regenerate, Start(r, q) PROVE Story'
  BY <1>1, RequestsOK, StartStory
<1>2. ASSUME NEW r \in Runs, Fetches(r) PROVE Story'
  BY <1>2, TurnedAwayStory, LeavingAloneStory, WriteStory, FetchOkStory, RecordStory DEF Fetches
<1>3. ASSUME NEW r \in Runs, Summarises(r) PROVE Story'
  BY <1>3, TurnedAwayStory, WriteStory, SummariseStory DEF Summarises
<1>4. ASSUME NEW r \in Runs, Throw(r) \/ End(r) PROVE Story'
  BY <1>4, LeavingAloneStory, EndStory
<1>5. CASE Crash \/ Boot \/ Switch \/ UNCHANGED vars
  BY <1>5, CrashStory, BootStory, SwitchStory
<1> QED BY <1>1, <1>2, <1>3, <1>4, <1>5 DEF Next

LEMMA InitStory == Init => Story
<1> SUFFICES ASSUME Init PROVE Story
  OBVIOUS
<1>1. Alone /\ Past /\ Timely
  BY DEF Init, Alone, Past, Timely
<1>2. Told
  BY DEF Init, Told, Body
<1> QED BY <1>1, <1>2 DEF Story

\* What is told of a policy, in every state.
THEOREM StoryInvariant == Spec => [](Inv /\ Story)
<1>1. Init => Inv /\ Story
  BY InitInv, InitStory
<1>2. Inv /\ Story /\ [Next]_vars => (Inv /\ Story)'
  BY NextInv, NextStory
<1> QED BY <1>1, <1>2, PTL DEF Spec

\* Outside of overlaps and cut-short runs, the newest version is the row's
\* text: a failed fetch, a summary, a pruning or a restart never shows another.
THEOREM RunCurrentVersionIsShown == Spec => []CurrentVersionIsShown
<1>1. ASSUME Inv, Story PROVE CurrentVersionIsShown
  <2> SUFFICES ASSUME ~apart, \A r \in Runs : pc[r] = "idle", Shown, NEW v \in Current
               PROVE  v.text = row.text
    BY DEF CurrentVersionIsShown, Live
  <2>1. recorded = row.text /\ recorded # NoText
    BY <1>1 DEF Shown, Story, Told, Body
  <2>2. PICK m \in versions : m.text = recorded /\ \A w \in versions : w.text # recorded => w.last < m.last
    BY <1>1, <2>1 DEF Story, Told, Leads
  <2>3. v \in versions /\ m.last <= v.last /\ v.last \in Nat /\ m.last \in Nat
    BY <1>1 DEF Current, Inv, TypeOK, Versions
  <2> QED BY <2>1, <2>2, <2>3
<1>2. Inv /\ Story => CurrentVersionIsShown
  BY <1>1
<1> QED BY <1>2, StoryInvariant, PTL

\* History says "changed" of an undisturbed run exactly when the text is not
\* the one of the entry before.
THEOREM RunChangedMeansChanged == Spec => ChangedMeansChanged
<1> DEFINE Says(r) ==
        (Record(r) /\ solo[r] /\ ~apart) =>
           event[r] = IF recorded = NoText THEN "first"
                      ELSE IF recorded = text[r] THEN "same" ELSE "changed"
<1>1. Inv /\ Story => \A r \in Runs : Says(r)
  BY DEF Record, Story, Told, Truth
<1>2. Inv /\ Story /\ [Next]_vars => [\A r \in Runs : Says(r)]_vars
  BY <1>1
<1> QED BY <1>2, StoryInvariant, PTL DEF Spec, ChangedMeansChanged
============================================================================
