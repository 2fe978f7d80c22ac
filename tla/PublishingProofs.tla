-------------------------- MODULE PublishingProofs --------------------------
(***************************************************************************)
(* Theorems about the season tables of Pipeline: what a run that succeeds  *)
(* has published, and that neither refreshing nor archiving loses rows.    *)
(* What is kept for good holds however runs overlap; what is served, and   *)
(* that the tables are those of SeasonTables, is about runs that come one  *)
(* after the other, which is how the weekly job starts them.  Last: when   *)
(* the documentation is right that an archived season is frozen.           *)
(***************************************************************************)
EXTENDS PipelineProofs, SumTheorems

-----------------------------------------------------------------------------
(* The steps                                                               *)

\* Which steps touch the rows of events and the two season tables.
LEMMA TableSteps ==
    ASSUME TypeOK, [Next]_vars
    PROVE  \/ UNCHANGED <<results, summary, history>>
           \/ \E r \in Runs : RecordEventResults(r)
           \/ \E r \in Runs : RefreshTeamSeasonSummary(r)
           \/ ArchiveSeasons
<1>1. CASE Tick \/ ArchiveCommand \/ UNCHANGED vars
  BY <1>1 DEF Tick, ArchiveCommand, vars, tables
<1>2. ASSUME NEW r \in Runs, StartIncremental(r) \/ StartBackfill(r)
      PROVE  UNCHANGED <<results, summary, history>>
  BY <1>2 DEF StartIncremental, StartBackfill, StartRefreshRun, tables
<1>3. ASSUME NEW r \in Runs, FailRefreshRun(r) \/ Crash(r)
      PROVE  UNCHANGED <<results, summary, history>>
  BY <1>3 DEF FailRefreshRun, Crash, Exit, tables
<1>4. ASSUME NEW r \in Runs, Step(r), ~RecordEventResults(r),
             ~RefreshTeamSeasonSummary(r), ~ArchiveCompletedSeasons(r)
      PROVE  UNCHANGED <<results, summary, history>>
  BY <1>4
  DEF Step, GetProcessedEventIds, GetInProgressEventIds, GetLastUpdatedEventStart,
      GetOldestInProgressEventStart, FetchEvents, FetchBatch,
      FetchMissingTeamProfiles, UpdateRefreshRunProgress, CompleteRefreshRun,
      Exit, tables
<1>5. ASSUME NEW r \in Runs, ArchiveCompletedSeasons(r) PROVE ArchiveSeasons
  BY <1>5 DEF ArchiveCompletedSeasons
<1> QED BY <1>1, <1>2, <1>3, <1>4, <1>5 DEF Next

\* A step of a run that neither fetches, records, ends nor writes a season
\* table; the list of events is the only one that may skip to the end.
Quiet(r) ==
    \/ GetProcessedEventIds(r) \/ GetInProgressEventIds(r)
    \/ GetLastUpdatedEventStart(r) \/ GetOldestInProgressEventStart(r)
    \/ FetchEvents(r) \/ FetchMissingTeamProfiles(r) \/ UpdateRefreshRunProgress(r)

\* What a quiet step leaves alone.
LEMMA QuietEffect ==
    ASSUME TypeOK, NEW r \in Runs, Quiet(r)
    PROVE  /\ local'[r].batch = local[r].batch
           /\ local'[r].scored = local[r].scored
           /\ local'[r].fetched = local[r].fetched
           /\ local'[r].season = local[r].season
           /\ local'[r].entire = local[r].entire
           /\ UNCHANGED tables
           /\ pc[r] \notin AfterLoop \cup {"new", "exited"}
           /\ pc'[r] \notin {"archive", "new", "exited"}
           /\ pc'[r] = "complete" => pc[r] = "fetch_events"
<1> USE LocalSetsOf
<1>1. CASE GetProcessedEventIds(r) \/ GetInProgressEventIds(r)
  BY <1>1 DEF GetProcessedEventIds, GetInProgressEventIds, TypeOK, LocalState, AfterLoop
<1>2. CASE GetLastUpdatedEventStart(r) \/ GetOldestInProgressEventStart(r)
  <2>1. PICK start : local'[r] = [local[r] EXCEPT !.start = start]
    BY <1>2 DEF GetLastUpdatedEventStart, GetOldestInProgressEventStart, TypeOK
  <2>2. /\ UNCHANGED tables
        /\ pc[r] \in {"last_updated", "oldest"}
        /\ pc'[r] \in {"oldest", "fetch_events"}
    BY <1>2 DEF GetLastUpdatedEventStart, GetOldestInProgressEventStart, TypeOK
  <2> QED BY <2>1, <2>2 DEF LocalState, AfterLoop
<1>3. CASE FetchEvents(r)
  <2>1. PICK todo : local'[r] = [local[r] EXCEPT !.todo = todo]
    BY <1>3 DEF FetchEvents, TypeOK
  <2>2. /\ UNCHANGED tables
        /\ pc[r] = "fetch_events" /\ pc'[r] \in {"complete", "fetch_batch"}
    BY <1>3 DEF FetchEvents, TypeOK
  <2> QED BY <2>1, <2>2 DEF LocalState, AfterLoop
<1>4. CASE FetchMissingTeamProfiles(r)
  <2>1. PICK n : local'[r] = [local[r] EXCEPT !.events_processed = n]
    BY <1>4 DEF FetchMissingTeamProfiles, TypeOK
  <2>2. UNCHANGED tables /\ pc[r] = "profiles" /\ pc'[r] = "progress"
    BY <1>4 DEF FetchMissingTeamProfiles, TypeOK
  <2> QED BY <2>1, <2>2 DEF LocalState, AfterLoop
<1>5. CASE UpdateRefreshRunProgress(r)
  BY <1>5 DEF UpdateRefreshRunProgress, TypeOK, AfterLoop
<1> QED BY <1>1, <1>2, <1>3, <1>4, <1>5 DEF Quiet

\* What fetching a batch does to a run.
LEMMA BatchEffect ==
    ASSUME TypeOK, NEW r \in Runs, FetchBatch(r)
    PROVE  /\ local'[r].batch \subseteq local[r].todo
           /\ local'[r].todo = local[r].todo \ local'[r].batch
           /\ local'[r].fetched =
                 [e \in Events |-> IF e \in local'[r].batch THEN VexData[e][now] ELSE 0]
           /\ local'[r].scored = local[r].scored
           /\ local'[r].season = local[r].season
           /\ local'[r].entire = local[r].entire
           /\ local'[r].now = local[r].now
           /\ local'[r].processed = local[r].processed
           /\ UNCHANGED <<now, tables>>
           /\ pc[r] = "fetch_batch" /\ pc'[r] = "record"
<1>1. PICK b \in FirstBatches(local[r].todo) :
          local' = [local EXCEPT ![r] = [@ EXCEPT
                      !.batch = b, !.todo = local[r].todo \ b,
                      !.fetched = [e \in Events |-> IF e \in b THEN VexData[e][now]
                                                               ELSE 0]]]
  BY DEF FetchBatch, FetchEventData
<1> DEFINE f == [e \in Events |-> IF e \in b THEN VexData[e][now] ELSE 0]
           rest == local[r].todo \ b
<1>2. local'[r] = [local[r] EXCEPT !.batch = b, !.todo = rest, !.fetched = f]
  BY <1>1 DEF TypeOK
<1> HIDE DEF f, rest
<1>3. /\ local'[r].batch = b
      /\ local'[r].todo = rest
      /\ local'[r].fetched = f
      /\ local'[r].scored = local[r].scored
      /\ local'[r].season = local[r].season
      /\ local'[r].entire = local[r].entire
      /\ local'[r].now = local[r].now
      /\ local'[r].processed = local[r].processed
  BY <1>2, LocalSetsOf DEF LocalState
<1>4. b \subseteq local[r].todo
  BY DEF FirstBatches
<1>5. pc[r] = "fetch_batch" /\ pc'[r] = "record" /\ UNCHANGED <<now, tables>>
  BY DEF FetchBatch, TypeOK
<1> QED BY <1>3, <1>4, <1>5 DEF f, rest

\* What recording the next event does to a run and to the rows of events.
LEMMA RecordEffect ==
    ASSUME TypeOK, NEW r \in Runs, RecordEventResults(r)
    PROVE  \E e \in Events :
              /\ e \in Pending(r)
              /\ events' = events \cup {e}
              /\ results' = IF local[r].fetched[e] = 0 THEN results
                            ELSE [results EXCEPT ![e] = local[r].fetched[e]]
              /\ local[r].fetched[e] \in Nat
              /\ local'[r].scored = local[r].scored \cup {e}
              /\ local'[r].batch = local[r].batch
              /\ local'[r].todo = local[r].todo
              /\ local'[r].fetched = local[r].fetched
              /\ local'[r].season = local[r].season
              /\ local'[r].entire = local[r].entire
              /\ local'[r].now = local[r].now
              /\ local'[r].processed = local[r].processed
              /\ UNCHANGED <<now, summary, history>>
              /\ pc[r] = "record" /\ pc'[r] \in {"record", "profiles"}
<1>1. PICK e \in Pending(r) :
          /\ events' = events \cup {e}
          /\ results' = ProcessMatches(e, local[r].fetched[e])
          /\ local' = [local EXCEPT ![r].scored = @ \cup {e}]
  BY DEF RecordEventResults
<1>2. e \in Events /\ local[r].fetched[e] \in Nat
  BY LocalSetsOf DEF Pending, LocalState, Versions
<1>3. /\ local'[r].scored = local[r].scored \cup {e}
      /\ local'[r].batch = local[r].batch
      /\ local'[r].todo = local[r].todo
      /\ local'[r].fetched = local[r].fetched
      /\ local'[r].season = local[r].season
      /\ local'[r].entire = local[r].entire
      /\ local'[r].now = local[r].now
      /\ local'[r].processed = local[r].processed
  BY <1>1, LocalSetsOf DEF LocalState, TypeOK
<1>4. /\ pc[r] = "record" /\ pc'[r] \in {"record", "profiles"}
      /\ UNCHANGED <<now, summary, history>>
  BY DEF RecordEventResults, TypeOK
<1> QED BY <1>1, <1>2, <1>3, <1>4 DEF ProcessMatches

\* The tables hold natural numbers, and a season's row set at most the rows.
LEMMA StoredNumbers ==
    ASSUME TypeOK, NEW s \in Seasons, NEW e \in Events
    PROVE  /\ summary[s][e] \in Nat /\ history[s][e] \in Nat /\ results[e] \in Nat
           /\ Results(s)[e] = IF EventSeason[e] = s THEN results[e] ELSE 0
BY DEF TypeOK, Versions, Results

\* Refreshing replaces the summary of the run's season by its rows.
LEMMA RefreshEffect ==
    ASSUME TypeOK, NEW r \in Runs, RefreshTeamSeasonSummary(r)
    PROVE  /\ \A s \in Seasons :
                 summary'[s] = IF s = local[r].season THEN Results(s) ELSE summary[s]
           /\ UNCHANGED <<now, events, results, history, local>>
           /\ pc[r] = "refresh" /\ pc'[r] = "archive"
BY DEF RefreshTeamSeasonSummary, TypeOK

\* Archiving moves the stale seasons, and afterwards none is stale.
LEMMA ArchiveEffect ==
    ASSUME TypeOK, ArchiveSeasons
    PROVE  /\ \A s \in Seasons :
                 \/ /\ Stale(s) /\ HasRows(summary[s])
                    /\ history'[s] = summary[s] /\ summary'[s] = NoVersions
                 \/ /\ ~Stale(s)
                    /\ history'[s] = history[s] /\ summary'[s] = summary[s]
           /\ \A s \in Seasons : ~Stale(s)'
           /\ UNCHANGED <<events, results>>
<1>1. \A s \in Seasons : Stale(s) => HasRows(summary[s])
  BY DEF Stale
<1>2. \A s \in Seasons :
          /\ history'[s] = IF Stale(s) THEN summary[s] ELSE history[s]
          /\ summary'[s] = IF Stale(s) THEN NoVersions ELSE summary[s]
  BY DEF ArchiveSeasons
<1>3. ~HasRows(NoVersions)
  BY DEF HasRows, NoVersions
<1>4. ASSUME NEW s \in Seasons, Stale(s)' PROVE FALSE
  <2>1. PICK t \in Seasons :
            t > s /\ HasRows(summary'[s]) /\ HasRows(summary'[t])
    BY <1>4 DEF Stale, HasRows
  <2>2. summary'[s] = summary[s] /\ ~Stale(s)
    BY <1>2, <1>3, <2>1
  <2>3. summary'[t] = summary[t]
    BY <1>2, <1>3, <2>1
  <2> QED BY <2>1, <2>2, <2>3 DEF Stale
<1>5. UNCHANGED <<events, results>>
  BY DEF ArchiveSeasons
<1> QED BY <1>1, <1>2, <1>4, <1>5

-----------------------------------------------------------------------------
(* Nothing stored is lost, however runs overlap                            *)

\* The rows of a season count an event, in one table or the other.
Stored(s, e) == summary[s][e] > 0 \/ history[s][e] > 0

\* A season table only counts events that have rows, under their own season.
StoredRecorded ==
    \A s \in Seasons, e \in Events :
        Stored(s, e) => results[e] > 0 /\ EventSeason[e] = s

\* While a season has a summary, it counts all its history does: archiving may
\* overwrite the history.
SummaryFirst ==
    \A s \in Seasons, e \in Events :
        HasRows(summary[s]) /\ history[s][e] > 0 => summary[s][e] > 0

\* What a run scored has rows, and belongs to the season of the run.
ScoredHasRows(r) ==
    \A e \in local[r].scored : local[r].fetched[e] > 0 =>
        results[e] > 0 /\ EventSeason[e] = local[r].season

\* Once refreshed, the season counts what the run scored.
Kept(r) ==
    pc[r] \in {"archive", "complete"} =>
        \A e \in local[r].scored : local[r].fetched[e] > 0 =>
            Stored(local[r].season, e)

KeepInv ==
    /\ CountInv
    /\ StoredRecorded
    /\ SummaryFirst
    /\ \A r \in Runs : ScoredHasRows(r) /\ Kept(r)

\* The row versions and the tables under an event never return to nothing.
LEMMA NothingLost ==
    ASSUME TypeOK, StoredRecorded, SummaryFirst, [Next]_vars, NEW e \in Events
    PROVE  /\ results[e] > 0 => results'[e] > 0
           /\ \A s \in Seasons : Stored(s, e) => Stored(s, e)'
<1>1. CASE UNCHANGED <<results, summary, history>>
  BY <1>1 DEF Stored
<1>2. ASSUME NEW r \in Runs, RecordEventResults(r)
      PROVE  /\ results[e] > 0 => results'[e] > 0
             /\ \A s \in Seasons : Stored(s, e) => Stored(s, e)'
  <2>1. PICK x \in Events :
            /\ results' = IF local[r].fetched[x] = 0 THEN results
                          ELSE [results EXCEPT ![x] = local[r].fetched[x]]
            /\ local[r].fetched[x] \in Nat
            /\ UNCHANGED <<summary, history>>
    BY <1>2, RecordEffect
  <2>2. results[e] > 0 => results'[e] > 0
    BY <2>1 DEF TypeOK, Versions
  <2> QED BY <2>1, <2>2 DEF Stored
<1>3. ASSUME NEW r \in Runs, RefreshTeamSeasonSummary(r), NEW s \in Seasons,
             Stored(s, e)
      PROVE  results' = results /\ Stored(s, e)'
  <2>1. results[e] > 0 /\ EventSeason[e] = s
    BY <1>3 DEF StoredRecorded
  <2>2. /\ summary'[s] = Results(s) \/ summary'[s] = summary[s]
        /\ results' = results /\ history' = history
    BY <1>3, RefreshEffect
  <2> QED BY <1>3, <2>1, <2>2, StoredNumbers DEF Stored
<1>4. ASSUME ArchiveSeasons, NEW s \in Seasons, Stored(s, e)
      PROVE  results' = results /\ Stored(s, e)'
  BY <1>4, ArchiveEffect DEF Stored, SummaryFirst
<1>5. ASSUME NEW r \in Runs, RefreshTeamSeasonSummary(r) PROVE results' = results
  BY <1>5, RefreshEffect
<1>6. ASSUME ArchiveSeasons PROVE results' = results
  BY <1>6, ArchiveEffect
<1> QED BY <1>1, <1>2, <1>3, <1>4, <1>5, <1>6, TableSteps

\* The season tables stay about recorded rows, and the summary ahead of the
\* history, one case per kind of step.
LEMMA TablesStep ==
    ASSUME TypeOK, StoredRecorded, SummaryFirst, [Next]_vars
    PROVE  StoredRecorded' /\ SummaryFirst'
<1>1. CASE UNCHANGED <<results, summary, history>>
  BY <1>1 DEF StoredRecorded, SummaryFirst, Stored, HasRows
<1>2. ASSUME NEW r \in Runs, RecordEventResults(r)
      PROVE  StoredRecorded' /\ SummaryFirst'
  <2>1. summary' = summary /\ history' = history
    BY <1>2, RecordEffect
  <2> QED BY <2>1, NothingLost DEF StoredRecorded, SummaryFirst, Stored, HasRows
<1>3. ASSUME NEW r \in Runs, RefreshTeamSeasonSummary(r)
      PROVE  StoredRecorded' /\ SummaryFirst'
  <2>1. /\ \A s \in Seasons : summary'[s] = Results(s) \/ summary'[s] = summary[s]
        /\ results' = results /\ history' = history
    BY <1>3, RefreshEffect
  <2>2. ASSUME NEW s \in Seasons, NEW e \in Events, Stored(s, e)'
        PROVE  results[e] > 0 /\ EventSeason[e] = s
    <3>1. CASE summary'[s] = Results(s)
      BY <2>1, <2>2, <3>1, StoredNumbers DEF Stored, StoredRecorded
    <3>2. CASE summary'[s] = summary[s]
      BY <2>1, <2>2, <3>2 DEF Stored, StoredRecorded
    <3> QED BY <2>1, <3>1, <3>2
  <2>3. ASSUME NEW s \in Seasons, NEW e \in Events,
               HasRows(summary'[s]), history'[s][e] > 0
        PROVE  summary'[s][e] > 0
    <3>1. results[e] > 0 /\ EventSeason[e] = s
      BY <2>1, <2>3 DEF StoredRecorded, Stored
    <3>2. CASE summary'[s] = Results(s)
      BY <3>1, <3>2, StoredNumbers
    <3>3. CASE summary'[s] = summary[s]
      BY <2>1, <2>3, <3>3 DEF SummaryFirst
    <3> QED BY <2>1, <3>2, <3>3
  <2> QED BY <2>1, <2>2, <2>3 DEF StoredRecorded, SummaryFirst, HasRows
<1>4. CASE ArchiveSeasons
  <2>1. /\ \A s \in Seasons :
              \/ history'[s] = summary[s] /\ summary'[s] = NoVersions
              \/ history'[s] = history[s] /\ summary'[s] = summary[s]
        /\ results' = results
    BY <1>4, ArchiveEffect
  <2>2. \A e \in Events : ~(NoVersions[e] > 0)
    BY DEF NoVersions
  <2>3. ASSUME NEW s \in Seasons, NEW e \in Events, Stored(s, e)'
        PROVE  results[e] > 0 /\ EventSeason[e] = s
    BY <2>1, <2>2, <2>3 DEF StoredRecorded, Stored
  <2>4. ASSUME NEW s \in Seasons, NEW e \in Events,
               HasRows(summary'[s]), history'[s][e] > 0
        PROVE  summary'[s][e] > 0
    <3>1. summary'[s] # NoVersions
      BY <2>2, <2>4 DEF HasRows
    <3> QED BY <2>1, <2>4, <3>1 DEF SummaryFirst
  <2> QED BY <2>1, <2>3, <2>4 DEF StoredRecorded, SummaryFirst, HasRows
<1> QED BY <1>1, <1>2, <1>3, <1>4, TableSteps

\* A run's own steps: what it scores has rows, and is stored from the refresh on.
LEMMA KeepOwnStep ==
    ASSUME KeepInv, [Next]_vars, NEW r \in Runs,
           Step(r) \/ Crash(r) \/ FailRefreshRun(r)
    PROVE  ScoredHasRows(r)' /\ Kept(r)'
<1> USE DEF KeepInv, CountInv, OrderInv
<1>t. /\ RunOrder(r) /\ Counted(r) /\ ScoredHasRows(r) /\ Kept(r)
      /\ local[r].scored \subseteq Events /\ local[r].batch \subseteq Events
  BY LocalSetsOf
<1>1. CASE Quiet(r)
  <2>1. /\ local'[r].scored = local[r].scored
        /\ local'[r].fetched = local[r].fetched
        /\ local'[r].season = local[r].season
        /\ results' = results
        /\ pc'[r] # "archive"
        /\ pc'[r] = "complete" => pc[r] = "fetch_events"
    BY <1>1, QuietEffect DEF tables
  <2>2. pc'[r] = "complete" => local[r].scored = {}
    BY <1>t, <2>1 DEF RunOrder, Fresh, BeforeLoop
  <2> QED BY <1>t, <2>1, <2>2 DEF ScoredHasRows, Kept
<1>2. CASE FetchBatch(r)
  <2>1. ASSUME NEW e \in local'[r].scored PROVE ~(local'[r].fetched[e] > 0)
    <3>1. /\ local'[r].batch \subseteq local[r].todo
          /\ local'[r].scored = local[r].scored
          /\ local'[r].fetched =
                [x \in Events |-> IF x \in local'[r].batch THEN VexData[x][now] ELSE 0]
      BY <1>2, BatchEffect
    <3>2. e \in Events /\ e \notin local'[r].batch
      BY <1>t, <2>1, <3>1 DEF Counted
    <3> QED BY <3>1, <3>2
  <2>2. pc'[r] = "record"
    BY <1>2, BatchEffect
  <2> QED BY <2>1, <2>2 DEF ScoredHasRows, Kept
<1>3. CASE RecordEventResults(r)
  <2>1. PICK e \in Events :
            /\ e \in Pending(r)
            /\ results' = IF local[r].fetched[e] = 0 THEN results
                          ELSE [results EXCEPT ![e] = local[r].fetched[e]]
            /\ local[r].fetched[e] \in Nat
            /\ local'[r].scored = local[r].scored \cup {e}
            /\ local'[r].fetched = local[r].fetched
            /\ local'[r].season = local[r].season
            /\ pc'[r] \in {"record", "profiles"}
    BY <1>3, RecordEffect
  <2>2. EventSeason[e] = local[r].season
    BY <1>t, <2>1 DEF RunOrder, Handled
  <2>3. local[r].fetched[e] > 0 => results'[e] > 0
    BY <2>1 DEF TypeOK, Versions
  <2>4. \A x \in local[r].scored : results[x] > 0 => results'[x] > 0
    BY <1>t, NothingLost
  <2> QED BY <1>t, <2>1, <2>2, <2>3, <2>4 DEF ScoredHasRows, Kept
<1>4. CASE RefreshTeamSeasonSummary(r)
  <2>1. local' = local /\ results' = results
    BY <1>4, RefreshEffect
  <2>2. ASSUME NEW e \in local[r].scored, local[r].fetched[e] > 0
        PROVE  summary'[local[r].season][e] > 0
    <3>1. e \in Events /\ results[e] > 0 /\ EventSeason[e] = local[r].season
      BY <1>t, <2>2 DEF ScoredHasRows
    <3>2. local[r].season \in Seasons
      BY <3>1, EventsAssumption
    <3>3. summary'[local[r].season] = Results(local[r].season)
      BY <1>4, <3>2, RefreshEffect
    <3> QED BY <3>1, <3>2, <3>3, StoredNumbers
  <2> QED BY <1>t, <2>1, <2>2 DEF ScoredHasRows, Kept, Stored
<1>5. CASE ArchiveCompletedSeasons(r)
  <2>1. local' = local /\ results' = results /\ pc[r] = "archive"
    BY <1>5 DEF ArchiveCompletedSeasons, ArchiveSeasons
  <2>2. ASSUME NEW e \in local[r].scored, local[r].fetched[e] > 0
        PROVE  Stored(local[r].season, e)'
    <3>1. /\ e \in Events /\ EventSeason[e] = local[r].season
          /\ Stored(local[r].season, e)
      BY <1>t, <2>1, <2>2 DEF ScoredHasRows, Kept
    <3>2. local[r].season \in Seasons
      BY <3>1, EventsAssumption
    <3>3. Stored(local[r].season, e)
             => summary'[local[r].season][e] > 0 \/ history'[local[r].season][e] > 0
      BY <3>1, <3>2, NothingLost DEF Stored
    <3> QED BY <2>1, <3>1, <3>3 DEF Stored
  <2> QED BY <1>t, <2>1, <2>2 DEF ScoredHasRows, Kept
<1>6. CASE CompleteRefreshRun(r) \/ FailRefreshRun(r) \/ Crash(r)
  <2>1. local'[r].scored = {}
    BY <1>6 DEF CompleteRefreshRun, FailRefreshRun, Crash, Exit, TypeOK, NoLocal
  <2> QED BY <2>1 DEF ScoredHasRows, Kept
<1> QED BY <1>1, <1>2, <1>3, <1>4, <1>5, <1>6 DEF Step, Quiet

\* What is known of a run that does not take the step, whoever takes it.
LEMMA KeepFrame ==
    ASSUME KeepInv, [Next]_vars, NEW q \in Runs,
           local'[q] = local[q], pc'[q] = pc[q]
    PROVE  ScoredHasRows(q)' /\ Kept(q)'
<1> USE DEF KeepInv, CountInv, OrderInv
<1>1. local[q].scored \subseteq Events
  BY LocalSetsOf
<1>2. ScoredHasRows(q)'
  BY <1>1, NothingLost DEF ScoredHasRows
<1>3. ASSUME pc[q] \in {"archive", "complete"}, NEW e \in local[q].scored,
             local[q].fetched[e] > 0
      PROVE  Stored(local[q].season, e)'
  <2>1. e \in Events /\ local[q].season = EventSeason[e] /\ Stored(local[q].season, e)
    BY <1>1, <1>3 DEF ScoredHasRows, Kept
  <2>2. local[q].season \in Seasons
    BY <2>1, EventsAssumption
  <2>3. summary'[local[q].season][e] > 0 \/ history'[local[q].season][e] > 0
    BY <2>1, <2>2, NothingLost DEF Stored
  <2> QED BY <2>3 DEF Stored
<1> QED BY <1>2, <1>3 DEF Kept

\* The inductive step for what is kept.
LEMMA KeepStep == KeepInv /\ [Next]_vars => KeepInv'
<1> SUFFICES ASSUME KeepInv, [Next]_vars
             PROVE  \A q \in Runs : ScoredHasRows(q)' /\ Kept(q)'
  BY CountStep, TablesStep DEF KeepInv, CountInv, OrderInv
<1>t. TypeOK
  BY DEF KeepInv, CountInv, OrderInv
<1>1. CASE Tick \/ ArchiveCommand \/ UNCHANGED vars
  BY <1>1, KeepFrame DEF Tick, ArchiveCommand, vars
<1>2. ASSUME NEW r \in Runs,
             \/ StartIncremental(r) \/ StartBackfill(r) \/ Step(r)
             \/ FailRefreshRun(r) \/ Crash(r)
      PROVE  \A q \in Runs : ScoredHasRows(q)' /\ Kept(q)'
  <2>1. CASE StartIncremental(r) \/ StartBackfill(r)
    <3>1. local'[r].scored = {}
      BY <1>t, <2>1 DEF StartIncremental, StartBackfill, StartRefreshRun, NoLocal, TypeOK
    <3>2. ScoredHasRows(r)' /\ Kept(r)'
      BY <3>1 DEF ScoredHasRows, Kept
    <3> QED BY <1>t, <1>2, <3>2, OthersUnchanged, KeepFrame
  <2>2. CASE Step(r) \/ FailRefreshRun(r) \/ Crash(r)
    BY <1>t, <1>2, <2>2, KeepOwnStep, OthersUnchanged, KeepFrame
  <2> QED BY <1>2, <2>1, <2>2
<1> QED BY <1>1, <1>2 DEF Next

\* The season tables are empty and nothing is scored at first.
LEMMA KeepInit == Init => KeepInv
<1> SUFFICES ASSUME Init PROVE KeepInv
  OBVIOUS
<1>1. StoredRecorded /\ SummaryFirst
  BY DEF Init, EmptySeasonTable, NoVersions, StoredRecorded, SummaryFirst, Stored
<1>2. \A r \in Runs : ScoredHasRows(r) /\ Kept(r)
  BY DEF Init, NoLocal, ScoredHasRows, Kept
<1> QED BY <1>1, <1>2, CountInit DEF KeepInv

\* Whatever other runs record, refresh, backfill or archive in between, the
\* rows of a season count what a run of that season scored when it succeeds
\* (refresh_team_season_summary(), archive_completed_seasons()).
THEOREM SuccessKeeps == Spec => SuccessKeepsScored
<1>1. ASSUME KeepInv, [Next]_vars
      PROVE  \A r \in Runs : Succeeds(r) =>
                \A e \in local[r].scored :
                    local[r].fetched[e] > 0 =>
                        \/ summary[local[r].season][e] > 0
                        \/ history[local[r].season][e] > 0
  <2>1. ASSUME NEW r \in Runs, Succeeds(r) PROVE pc[r] = "complete"
    BY <1>1, <2>1, OnlyCompleteSucceeds
    DEF KeepInv, CountInv, OrderInv, CompleteRefreshRun
  <2> QED BY <1>1, <2>1 DEF KeepInv, Kept, Stored
<1> QED BY <1>1, KeepInit, KeepStep, PTL DEF Spec, SuccessKeepsScored

-----------------------------------------------------------------------------
(* Runs that come one after the other                                      *)

\* At most one run executes, it has chosen its season, and no run has read
\* the clock in the future.
Serial ==
    /\ \A r, q \in Active : r = q
    /\ \A r \in Active : local[r].season \in Seasons
    /\ \A r \in Runs : local[r].now <= now

\* A run that is not executing has nothing in its hands.
LEMMA IdleRun ==
    ASSUME OrderInv, NEW q \in Runs, pc[q] \in {"new", "exited"}
    PROVE  local[q].batch = {} /\ local[q].todo = {} /\ local[q].scored = {}
BY DEF OrderInv, RunOrder, Fresh, BeforeLoop

\* The run that takes a step is executing, or was the first to start; either
\* way no other run is executing.
LEMMA OthersIdle ==
    ASSUME MaxActive = 1, TypeOK, Serial, NEW r \in Runs, NEW q \in Runs, q # r,
           \/ StartIncremental(r) \/ StartBackfill(r) \/ Step(r)
           \/ FailRefreshRun(r) \/ Crash(r)
    PROVE  pc[q] \in {"new", "exited"}
<1>1. CASE StartIncremental(r) \/ StartBackfill(r)
  <2>1. Cardinality(Active) < 1
    BY <1>1 DEF StartIncremental, StartBackfill, StartRefreshRun
  <2>2. ASSUME NEW a \in Active PROVE FALSE
    <3>1. Active = {a}
      BY DEF Serial
    <3> QED BY <2>1, <3>1, FS_Singleton
  <2> QED BY <2>2 DEF Active
<1>2. CASE Step(r) \/ FailRefreshRun(r) \/ Crash(r)
  <2>1. pc[r] \notin {"new", "exited"}
    BY <1>2
    DEF Step, GetProcessedEventIds, GetInProgressEventIds, GetLastUpdatedEventStart,
        GetOldestInProgressEventStart, FetchEvents, FetchBatch, RecordEventResults,
        FetchMissingTeamProfiles, UpdateRefreshRunProgress, RefreshTeamSeasonSummary,
        ArchiveCompletedSeasons, CompleteRefreshRun, FailRefreshRun, Crash, InTry
  <2> QED BY <2>1 DEF Serial, Active
<1> QED BY <1>1, <1>2

\* A step of a run keeps its season, or ends it; its clock is never ahead.
LEMMA SerialOwnStep ==
    ASSUME TypeOK, Serial, NEW r \in Runs, Step(r) \/ FailRefreshRun(r) \/ Crash(r)
    PROVE  /\ now' = now
           /\ local'[r].now <= now
           /\ pc'[r] \notin {"new", "exited"} => local'[r].season \in Seasons
<1>t. /\ local[r] \in LocalState /\ local[r].now <= now
      /\ now \in 0..MaxTime /\ local[r].now \in 0..MaxTime
      /\ pc[r] \notin {"new", "exited"} => local[r].season \in Seasons
  BY DEF Serial, TypeOK, LocalState, Active
<1>1. CASE GetProcessedEventIds(r)
  <2>1. /\ local'[r] = [local[r] EXCEPT !.now = now, !.processed = events]
        /\ pc[r] = "processed_ids" /\ now' = now
    BY <1>1 DEF GetProcessedEventIds, TypeOK
  <2> QED BY <1>t, <2>1 DEF LocalState
<1>2. CASE Quiet(r) /\ ~GetProcessedEventIds(r)
  <2>1. local'[r].now = local[r].now
    <3>1. CASE \E start : local'[r] = [local[r] EXCEPT !.start = start]
      BY <1>t, <3>1 DEF LocalState
    <3>2. CASE \E S : local'[r] = [local[r] EXCEPT !.inProgress = S]
      BY <1>t, <3>2 DEF LocalState
    <3>3. CASE \E S : local'[r] = [local[r] EXCEPT !.todo = S]
      BY <1>t, <3>3 DEF LocalState
    <3>4. CASE \E n : local'[r] = [local[r] EXCEPT !.events_processed = n]
      BY <1>t, <3>4 DEF LocalState
    <3>5. CASE UpdateRefreshRunProgress(r)
      BY <3>5 DEF UpdateRefreshRunProgress
    <3>6. CASE GetInProgressEventIds(r)
      BY <3>2, <3>6 DEF GetInProgressEventIds, TypeOK
    <3>7. CASE GetLastUpdatedEventStart(r) \/ GetOldestInProgressEventStart(r)
      BY <3>1, <3>7 DEF GetLastUpdatedEventStart, GetOldestInProgressEventStart, TypeOK
    <3>8. CASE FetchEvents(r)
      BY <3>3, <3>8 DEF FetchEvents, TypeOK
    <3>9. CASE FetchMissingTeamProfiles(r)
      BY <3>4, <3>9 DEF FetchMissingTeamProfiles, TypeOK
    <3> QED BY <1>2, <3>5, <3>6, <3>7, <3>8, <3>9 DEF Quiet
  <2>2. /\ now' = now /\ local'[r].season = local[r].season
        /\ pc[r] \notin {"new", "exited"}
    <3>1. now' = now
      BY <1>2 DEF Quiet, GetInProgressEventIds, GetLastUpdatedEventStart,
         GetOldestInProgressEventStart, FetchEvents, FetchMissingTeamProfiles,
         UpdateRefreshRunProgress
    <3> QED BY <1>2, <3>1, QuietEffect
  <2> QED BY <1>t, <2>1, <2>2
<1>3. CASE FetchBatch(r)
  BY <1>t, <1>3, BatchEffect
<1>4. CASE RecordEventResults(r)
  BY <1>t, <1>4, RecordEffect
<1>5. CASE RefreshTeamSeasonSummary(r)
  BY <1>t, <1>5, RefreshEffect
<1>6. CASE ArchiveCompletedSeasons(r)
  BY <1>t, <1>6 DEF ArchiveCompletedSeasons
<1>7. CASE CompleteRefreshRun(r) \/ FailRefreshRun(r) \/ Crash(r)
  <2>1. local'[r] = NoLocal /\ pc'[r] = "exited" /\ now' = now
    BY <1>7 DEF CompleteRefreshRun, FailRefreshRun, Crash, Exit, TypeOK
  <2> QED BY <1>t, <2>1, BoundsAssumption DEF NoLocal
<1> QED BY <1>1, <1>2, <1>3, <1>4, <1>5, <1>6, <1>7 DEF Step, Quiet

\* Starting the only run.
LEMMA SerialStart ==
    ASSUME TypeOK, NEW r \in Runs, StartIncremental(r) \/ StartBackfill(r)
    PROVE  /\ now' = now
           /\ local'[r].season \in Seasons
           /\ local'[r] = [NoLocal EXCEPT !.season = local'[r].season,
                                          !.entire = local'[r].entire]
           /\ local'[r].now = 0
           /\ pc'[r] = "processed_ids"
           /\ UNCHANGED tables
<1>1. PICK s \in Seasons, entire \in BOOLEAN : StartRefreshRun(r, s, entire)
  BY SeasonsAssumption DEF StartIncremental, StartBackfill
<1>2. local'[r] = [NoLocal EXCEPT !.season = s, !.entire = entire]
  BY <1>1 DEF StartRefreshRun, TypeOK
<1>3. local'[r].season = s /\ local'[r].entire = entire /\ local'[r].now = 0
  BY <1>2 DEF NoLocal
<1>4. now' = now /\ pc'[r] = "processed_ids" /\ UNCHANGED tables
  BY <1>1 DEF StartRefreshRun, TypeOK
<1> QED BY <1>2, <1>3, <1>4

\* The inductive step for runs that come one after the other.
LEMMA SerialStep ==
    ASSUME MaxActive = 1, TypeOK, Serial, [Next]_vars
    PROVE  Serial'
<1>t. /\ now \in 0..MaxTime
      /\ \A r \in Runs : local[r].now \in 0..MaxTime
  BY DEF TypeOK, LocalState
<1>1. CASE Tick \/ ArchiveCommand \/ UNCHANGED vars
  <2>1. UNCHANGED <<pc, local>> /\ (now' = now \/ now' = now + 1)
    BY <1>1 DEF Tick, ArchiveCommand, vars
  <2>2. \A r \in Runs : local[r].now <= now'
    BY <1>t, <2>1 DEF Serial
  <2> QED BY <2>1, <2>2 DEF Serial, Active
<1>2. ASSUME NEW r \in Runs,
             \/ StartIncremental(r) \/ StartBackfill(r) \/ Step(r)
             \/ FailRefreshRun(r) \/ Crash(r)
      PROVE  Serial'
  <2>1. \A q \in Runs : q # r =>
            pc'[q] \in {"new", "exited"} /\ local'[q].now = local[q].now
    BY <1>2, OthersIdle, OthersUnchanged
  <2>2. /\ now' = now
        /\ local'[r].now <= now
        /\ pc'[r] \notin {"new", "exited"} => local'[r].season \in Seasons
    <3>1. CASE StartIncremental(r) \/ StartBackfill(r)
      <4>1. now' = now /\ local'[r].now = 0 /\ local'[r].season \in Seasons
        BY <3>1, SerialStart
      <4> QED BY <1>t, <4>1, BoundsAssumption
    <3>2. CASE Step(r) \/ FailRefreshRun(r) \/ Crash(r)
      BY <3>2, SerialOwnStep
    <3> QED BY <1>2, <3>1, <3>2
  <2>3. Active' \subseteq {r}
    BY <2>1 DEF Active
  <2>4. \A q \in Runs : local'[q].now <= now'
    BY <2>1, <2>2 DEF Serial
  <2> QED BY <2>2, <2>3, <2>4 DEF Serial, Active
<1> QED BY <1>1, <1>2 DEF Next

-----------------------------------------------------------------------------
(* The rows of an event only get newer                                     *)

\* No row is newer than what VEX shows.
Known == \A e \in Events : results[e] <= VexData[e][now]

\* Neither is what a run has fetched, and it is not older than the row it is
\* about to replace: no other run records in between.
Current(r) ==
    /\ \A e \in Events : local[r].fetched[e] <= VexData[e][now]
    /\ \A e \in Pending(r) : results[e] <= local[r].fetched[e]

\* The season tables are computed from rows, the summary after the history.
TablesBehind ==
    \A s \in Seasons, e \in Events :
        /\ summary[s][e] <= Results(s)[e]
        /\ history[s][e] <= Results(s)[e]
        /\ HasRows(summary[s]) => history[s][e] <= summary[s][e]

RowsInv ==
    /\ OrderInv
    /\ Serial
    /\ Known
    /\ \A r \in Runs : Current(r)
    /\ TablesBehind

\* The numbers the comparisons are about.
LEMMA DataNumbers ==
    ASSUME TypeOK, NEW e \in Events
    PROVE  /\ results[e] \in Nat /\ now \in 0..MaxTime
           /\ \A t \in 0..MaxTime : VexData[e][t] \in Nat
           /\ \A t, u \in 0..MaxTime : t <= u => VexData[e][t] <= VexData[e][u]
           /\ \A r \in Runs : local[r].fetched[e] \in Nat
<1>1. results[e] \in Nat /\ now \in 0..MaxTime
  BY DEF TypeOK, Versions
<1>2. \A t \in 0..MaxTime : VexData[e][t] \in Nat
  BY VexDataAssumption
<1>3. \A t, u \in 0..MaxTime : t <= u => VexData[e][t] <= VexData[e][u]
  BY VexDataAssumption
<1>4. ASSUME NEW r \in Runs PROVE local[r].fetched[e] \in Nat
  BY LocalSetsOf DEF LocalState, Versions
<1> QED BY <1>1, <1>2, <1>3, <1>4

\* A row is only ever replaced by one that is not older.
LEMMA ResultsGrow ==
    ASSUME RowsInv, [Next]_vars, NEW e \in Events
    PROVE  results[e] <= results'[e]
<1>t. TypeOK
  BY DEF RowsInv, OrderInv
<1>1. CASE results' = results
  BY <1>t, <1>1, DataNumbers
<1>2. ASSUME NEW r \in Runs, RecordEventResults(r) PROVE results[e] <= results'[e]
  <2>1. PICK x \in Events :
            /\ x \in Pending(r)
            /\ results' = IF local[r].fetched[x] = 0 THEN results
                          ELSE [results EXCEPT ![x] = local[r].fetched[x]]
    BY <1>t, <1>2, RecordEffect
  <2>2. results[x] <= local[r].fetched[x]
    BY <2>1 DEF RowsInv, Current
  <2> QED BY <1>t, <2>1, <2>2, DataNumbers DEF TypeOK, Versions
<1> QED BY <1>t, <1>1, <1>2, TableSteps, RefreshEffect, ArchiveEffect

\* What VEX shows grows with the clock.
LEMMA VexGrows ==
    ASSUME TypeOK, [Next]_vars, TypeOK', NEW e \in Events
    PROVE  VexData[e][now] <= VexData[e][now']
<1>1. now \in 0..MaxTime /\ now' \in 0..MaxTime
  BY DEF TypeOK
<1>2. CASE now' = now
  BY <1>2, DataNumbers
<1>3. CASE Tick
  <2>1. now <= now'
    BY <1>1, <1>3 DEF Tick
  <2> QED BY <1>1, <2>1, DataNumbers
<1>4. ASSUME NEW r \in Runs,
             \/ StartIncremental(r) \/ StartBackfill(r) \/ FailRefreshRun(r) \/ Crash(r)
      PROVE  now' = now
  BY <1>4 DEF StartIncremental, StartBackfill, StartRefreshRun, FailRefreshRun,
              Crash, Exit
<1>5. ASSUME NEW r \in Runs, Step(r) PROVE now' = now
  BY <1>5
  DEF Step, GetProcessedEventIds, GetInProgressEventIds, GetLastUpdatedEventStart,
      GetOldestInProgressEventStart, FetchEvents, FetchBatch, RecordEventResults,
      FetchMissingTeamProfiles, UpdateRefreshRunProgress, RefreshTeamSeasonSummary,
      ArchiveCompletedSeasons, CompleteRefreshRun, Exit
<1> QED BY <1>2, <1>3, <1>4, <1>5 DEF Next, ArchiveCommand, vars

\* No row gets ahead of VEX.
LEMMA KnownStep ==
    ASSUME RowsInv, [Next]_vars, TypeOK'
    PROVE  Known'
<1> SUFFICES ASSUME NEW e \in Events PROVE results'[e] <= VexData[e][now']
  BY DEF Known
<1>t. TypeOK
  BY DEF RowsInv, OrderInv
<1>1. /\ VexData[e][now] \in Nat /\ VexData[e][now'] \in Nat
      /\ results[e] \in Nat /\ results'[e] \in Nat
      /\ VexData[e][now] <= VexData[e][now']
      /\ results[e] <= VexData[e][now]
      /\ \A r \in Runs : local[r].fetched[e] \in Nat
                         /\ local[r].fetched[e] <= VexData[e][now]
  <2>1. now' \in 0..MaxTime /\ results'[e] \in Nat
    BY DEF TypeOK, Versions
  <2> QED BY <1>t, <2>1, DataNumbers, VexGrows DEF RowsInv, Known, Current
<1>2. CASE results' = results
  BY <1>1, <1>2
<1>3. ASSUME NEW r \in Runs, RecordEventResults(r) PROVE results'[e] <= VexData[e][now']
  <2>1. PICK x \in Events :
            results' = IF local[r].fetched[x] = 0 THEN results
                       ELSE [results EXCEPT ![x] = local[r].fetched[x]]
    BY <1>t, <1>3, RecordEffect
  <2>2. results'[e] = results[e] \/ results'[e] = local[r].fetched[e]
    BY <1>t, <2>1 DEF TypeOK, Versions
  <2> QED BY <1>1, <2>2
<1> QED BY <1>t, <1>2, <1>3, TableSteps, RefreshEffect, ArchiveEffect

\* A run that is not executing has nothing to compare, and fetched data stays
\* within what VEX shows.
LEMMA CurrentIdle ==
    ASSUME RowsInv, [Next]_vars, TypeOK', NEW q \in Runs, local'[q] = local[q],
           Pending(q) = {} \/ results' = results
    PROVE  Current(q)'
<1>t. TypeOK
  BY DEF RowsInv, OrderInv
<1>1. ASSUME NEW e \in Events PROVE local'[q].fetched[e] <= VexData[e][now']
  <2>1. /\ local[q].fetched[e] <= VexData[e][now]
        /\ VexData[e][now] <= VexData[e][now']
        /\ local[q].fetched[e] \in Nat
    BY <1>t, VexGrows, DataNumbers DEF RowsInv, Current
  <2>2. VexData[e][now] \in Nat /\ VexData[e][now'] \in Nat
    BY <1>t, VexDataAssumption DEF TypeOK
  <2> QED BY <2>1, <2>2
<1>2. Pending(q)' = Pending(q)
  BY DEF Pending
<1>3. ASSUME NEW e \in Pending(q)' PROVE results'[e] <= local'[q].fetched[e]
  BY <1>2, <1>3 DEF RowsInv, Current
<1> QED BY <1>1, <1>3 DEF Current

\* A run's own steps keep what it fetched current.
LEMMA CurrentOwnStep ==
    ASSUME RowsInv, [Next]_vars, TypeOK', NEW r \in Runs,
           Step(r) \/ Crash(r) \/ FailRefreshRun(r)
    PROVE  Current(r)'
<1>t. TypeOK /\ RunOrder(r) /\ Current(r) /\ now' = now
  BY SerialOwnStep DEF RowsInv, OrderInv
<1>1. CASE Quiet(r)
  <2>1. /\ local'[r].batch = local[r].batch /\ local'[r].scored = local[r].scored
        /\ local'[r].fetched = local[r].fetched /\ results' = results
    BY <1>t, <1>1, QuietEffect DEF tables
  <2> QED BY <1>t, <2>1 DEF Current, Pending
<1>2. CASE FetchBatch(r)
  <2>1. /\ local'[r].batch \subseteq local[r].todo
        /\ local'[r].fetched =
              [e \in Events |-> IF e \in local'[r].batch THEN VexData[e][now] ELSE 0]
        /\ results' = results
    BY <1>t, <1>2, BatchEffect DEF tables
  <2>2. local'[r].batch \subseteq Events
    BY <1>t, <2>1, LocalSetsOf
  <2>3. ASSUME NEW e \in Events PROVE local'[r].fetched[e] <= VexData[e][now']
    BY <1>t, <2>1, DataNumbers
  <2>4. ASSUME NEW e \in Pending(r)' PROVE results'[e] <= local'[r].fetched[e]
    <3>1. e \in local'[r].batch /\ e \in Events
      BY <2>2, <2>4 DEF Pending
    <3> QED BY <2>1, <3>1 DEF RowsInv, Known
  <2> QED BY <2>3, <2>4 DEF Current
<1>3. CASE RecordEventResults(r)
  <2>1. PICK x \in Events :
            /\ results' = IF local[r].fetched[x] = 0 THEN results
                          ELSE [results EXCEPT ![x] = local[r].fetched[x]]
            /\ local'[r].scored = local[r].scored \cup {x}
            /\ local'[r].batch = local[r].batch
            /\ local'[r].fetched = local[r].fetched
    BY <1>t, <1>3, RecordEffect
  <2>2. ASSUME NEW e \in Pending(r)'
        PROVE  e \in Pending(r) /\ results'[e] = results[e]
    BY <1>t, <2>1, <2>2 DEF Pending, TypeOK, Versions
  <2> QED BY <1>t, <2>1, <2>2 DEF Current
<1>4. CASE RefreshTeamSeasonSummary(r) \/ ArchiveCompletedSeasons(r)
  <2>1. local' = local /\ results' = results
    BY <1>4 DEF RefreshTeamSeasonSummary, ArchiveCompletedSeasons, ArchiveSeasons
  <2> QED BY <1>t, <2>1 DEF Current, Pending
<1>5. CASE CompleteRefreshRun(r) \/ FailRefreshRun(r) \/ Crash(r)
  <2>1. local'[r] = NoLocal
    BY <1>t, <1>5 DEF CompleteRefreshRun, FailRefreshRun, Crash, Exit, TypeOK
  <2>2. Pending(r)' = {} /\ \A e \in Events : local'[r].fetched[e] = 0
    BY <2>1 DEF NoLocal, NoVersions, Pending
  <2> QED BY <1>t, <2>2, DataNumbers DEF Current
<1> QED BY <1>1, <1>2, <1>3, <1>4, <1>5 DEF Step, Quiet

\* Rows get newer, a refresh catches up, and archiving moves the summary to
\* where nothing newer is.
LEMMA TablesBehindStep ==
    ASSUME RowsInv, [Next]_vars, TypeOK'
    PROVE  TablesBehind'
<1>t. TypeOK /\ TablesBehind
  BY DEF RowsInv, OrderInv
<1>n. ASSUME NEW s \in Seasons, NEW e \in Events
      PROVE  /\ Results(s)[e] \in Nat /\ Results(s)'[e] \in Nat
             /\ summary[s][e] \in Nat /\ history[s][e] \in Nat
             /\ Results(s)[e] <= Results(s)'[e]
  <2>1. /\ results[e] \in Nat /\ results'[e] \in Nat /\ results[e] <= results'[e]
        /\ summary[s][e] \in Nat /\ history[s][e] \in Nat
    BY <1>t, ResultsGrow DEF TypeOK, Versions
  <2> QED BY <2>1 DEF Results
<1>1. CASE summary' = summary /\ history' = history
  <2> SUFFICES ASSUME NEW s \in Seasons, NEW e \in Events
               PROVE  /\ summary'[s][e] <= Results(s)'[e]
                      /\ history'[s][e] <= Results(s)'[e]
                      /\ HasRows(summary[s]) => history'[s][e] <= summary'[s][e]
    BY <1>1 DEF TablesBehind, HasRows
  <2> QED BY <1>t, <1>n, <1>1 DEF TablesBehind
<1>2. ASSUME NEW r \in Runs, RefreshTeamSeasonSummary(r) PROVE TablesBehind'
  <2>1. /\ \A s \in Seasons : summary'[s] = Results(s) \/ summary'[s] = summary[s]
        /\ results' = results /\ history' = history
    BY <1>t, <1>2, RefreshEffect
  <2>2. \A s \in Seasons : Results(s)' = Results(s)
    BY <2>1 DEF Results
  <2> SUFFICES ASSUME NEW s \in Seasons, NEW e \in Events
               PROVE  /\ summary'[s][e] <= Results(s)[e]
                      /\ history[s][e] <= Results(s)[e]
                      /\ HasRows(summary'[s]) => history[s][e] <= summary'[s][e]
    BY <2>1, <2>2 DEF TablesBehind, HasRows
  <2>3. CASE summary'[s] = Results(s)
    BY <1>t, <1>n, <2>3 DEF TablesBehind
  <2>4. CASE summary'[s] = summary[s]
    BY <1>t, <1>n, <2>4 DEF TablesBehind
  <2> QED BY <2>1, <2>3, <2>4
<1>3. CASE ArchiveSeasons
  <2>1. /\ \A s \in Seasons :
              \/ history'[s] = summary[s] /\ summary'[s] = NoVersions
              \/ history'[s] = history[s] /\ summary'[s] = summary[s]
        /\ results' = results
    BY <1>t, <1>3, ArchiveEffect
  <2>2. \A s \in Seasons : Results(s)' = Results(s)
    BY <2>1 DEF Results
  <2>3. ~HasRows(NoVersions) /\ \A e \in Events : NoVersions[e] = 0
    BY DEF HasRows, NoVersions
  <2> SUFFICES ASSUME NEW s \in Seasons, NEW e \in Events
               PROVE  /\ summary'[s][e] <= Results(s)[e]
                      /\ history'[s][e] <= Results(s)[e]
                      /\ HasRows(summary'[s]) => history'[s][e] <= summary'[s][e]
    BY <2>2 DEF TablesBehind, HasRows
  <2> QED BY <1>t, <1>n, <2>1, <2>3 DEF TablesBehind
<1> QED BY <1>t, <1>1, <1>2, <1>3, TableSteps, RecordEffect

\* The inductive step for rows and tables.
LEMMA RowsStep ==
    ASSUME MaxActive = 1, RowsInv, [Next]_vars
    PROVE  RowsInv'
<1>t. OrderInv /\ OrderInv' /\ TypeOK /\ TypeOK' /\ Serial /\ Serial'
  BY OrderStep, SerialStep DEF RowsInv, OrderInv
<1>1. Known' /\ TablesBehind'
  BY <1>t, KnownStep, TablesBehindStep
<1>2. CASE Tick \/ ArchiveCommand \/ UNCHANGED vars
  <2>1. local' = local /\ results' = results
    BY <1>2 DEF Tick, ArchiveCommand, ArchiveSeasons, vars, tables
  <2> QED BY <1>t, <1>1, <2>1, CurrentIdle DEF RowsInv
<1>3. ASSUME NEW r \in Runs,
             \/ StartIncremental(r) \/ StartBackfill(r) \/ Step(r)
             \/ FailRefreshRun(r) \/ Crash(r)
      PROVE  \A q \in Runs : Current(q)'
  <2>1. ASSUME NEW q \in Runs, q # r PROVE Current(q)'
    <3>1. Pending(q) = {}
      BY <1>3, <1>t, <2>1, OthersIdle, IdleRun DEF Pending
    <3>2. local'[q] = local[q]
      BY <1>3, <1>t, <2>1, OthersUnchanged
    <3> QED BY <1>t, <3>1, <3>2, CurrentIdle
  <2>2. CASE StartIncremental(r) \/ StartBackfill(r)
    <3>1. local'[r].batch = {} /\ local'[r].fetched = NoVersions
      BY <1>t, <2>2, SerialStart DEF NoLocal
    <3>2. now' \in 0..MaxTime
      BY <1>t DEF TypeOK
    <3>3. Current(r)'
      <4>1. Pending(r)' = {}
        BY <3>1 DEF Pending
      <4>2. ASSUME NEW e \in Events
            PROVE  local'[r].fetched[e] = 0 /\ VexData[e][now'] \in Nat
        BY <3>1, <3>2, VexDataAssumption DEF NoVersions
      <4> QED BY <4>1, <4>2 DEF Current
    <3> QED BY <2>1, <3>3
  <2> QED BY <1>3, <1>t, <2>1, <2>2, CurrentOwnStep
<1> QED BY <1>t, <1>1, <1>2, <1>3 DEF Next, RowsInv

\* Nothing is stored and no run executes at first.
LEMMA RowsInit == Init => RowsInv
<1> SUFFICES ASSUME Init PROVE RowsInv
  OBVIOUS
<1>t. OrderInv /\ TypeOK
  BY OrderInit DEF OrderInv
<1>1. Serial
  BY DEF Init, Serial, Active, NoLocal
<1>2. Known /\ \A r \in Runs : Current(r)
  BY <1>t, DataNumbers DEF Init, NoLocal, NoVersions, Known, Current, Pending
<1>3. TablesBehind
  <2>1. /\ \A s \in Seasons, e \in Events : summary[s][e] = 0 /\ history[s][e] = 0
        /\ \A s \in Seasons, e \in Events : Results(s)[e] = 0
    BY DEF Init, EmptySeasonTable, NoVersions, Results
  <2> QED BY <2>1 DEF TablesBehind
<1> QED BY <1>t, <1>1, <1>2, <1>3 DEF RowsInv

\* As long as runs come one after the other, neither a refresh, nor archiving
\* at any time, nor a crash between the two, nor a backfill loses an event a
\* season's rows were computed from, or goes back to older data.
THEOREM StoredKept ==
    ASSUME MaxActive = 1
    PROVE  Spec => StoredNeverRegresses
<1>1. RowsInv /\ [Next]_vars => RowsInv'
  BY RowsStep
<1>2. ASSUME RowsInv, [Next]_vars
      PROVE  \A s \in Seasons, e \in Events :
                \/ summary'[s][e] >= summary[s][e] /\ history'[s][e] >= history[s][e]
                \/ history'[s][e] >= summary[s][e] /\ history'[s][e] >= history[s][e]
  <2> TAKE s \in Seasons, e \in Events
  <2>t. TypeOK /\ TablesBehind
    BY <1>2 DEF RowsInv, OrderInv
  <2>n. summary[s][e] \in Nat /\ history[s][e] \in Nat /\ Results(s)[e] \in Nat
    BY <2>t, StoredNumbers
  <2>1. CASE summary' = summary /\ history' = history
    BY <2>n, <2>1
  <2>2. ASSUME NEW r \in Runs, RefreshTeamSeasonSummary(r)
        PROVE  summary'[s][e] >= summary[s][e] /\ history'[s][e] >= history[s][e]
    <3>1. /\ summary'[s] = Results(s) \/ summary'[s] = summary[s]
          /\ history' = history
      BY <2>t, <2>2, RefreshEffect
    <3> QED BY <2>t, <2>n, <3>1 DEF TablesBehind
  <2>3. CASE ArchiveSeasons
    <3>1. \/ HasRows(summary[s]) /\ history'[s] = summary[s]
          \/ history'[s] = history[s] /\ summary'[s] = summary[s]
      BY <2>t, <2>3, ArchiveEffect
    <3> QED BY <2>t, <2>n, <3>1 DEF TablesBehind
  <2> QED BY <1>2, <2>t, <2>1, <2>2, <2>3, TableSteps, RecordEffect
<1> QED BY <1>1, <1>2, RowsInit, PTL DEF Spec, StoredNeverRegresses

-----------------------------------------------------------------------------
(* What a run that succeeds has published                                  *)

\* One of the season tables holds exactly the rows stored, and the API will
\* read that one unless the season is stale.
UpToDate(s) ==
    \/ summary[s] = Results(s)
    \/ ~HasRows(summary[s]) /\ history[s] = Results(s)

\* From the refresh on the season is up to date, from the archiving on it is
\* not stale; a run that had nothing to do skips both.
Published(r) ==
    /\ pc[r] = "archive" => UpToDate(local[r].season)
    /\ pc[r] = "complete" /\ local[r].scored # {} =>
          UpToDate(local[r].season) /\ ~Stale(local[r].season)

\* Archiving keeps a season up to date, in the other table if need be.
LEMMA ArchiveKeepsUpToDate ==
    ASSUME TypeOK, ArchiveSeasons, NEW s \in Seasons
    PROVE  (UpToDate(s) => UpToDate(s)') /\ ~Stale(s)'
<1>1. /\ \/ /\ HasRows(summary[s])
            /\ history'[s] = summary[s] /\ summary'[s] = NoVersions
         \/ history'[s] = history[s] /\ summary'[s] = summary[s]
      /\ results' = results
      /\ ~Stale(s)'
  BY ArchiveEffect
<1>2. Results(s)' = Results(s)
  BY <1>1 DEF Results
<1>3. ~HasRows(NoVersions)
  BY DEF HasRows, NoVersions
<1> QED BY <1>1, <1>2, <1>3 DEF UpToDate, HasRows

\* The inductive step for what is published.
LEMMA PublishedStep ==
    ASSUME MaxActive = 1, RowsInv, \A r \in Runs : Published(r), [Next]_vars
    PROVE  \A r \in Runs : Published(r)'
<1>t. TypeOK /\ OrderInv /\ Serial
  BY DEF RowsInv, OrderInv
<1>s. ASSUME NEW r \in Runs, pc[r] \notin {"new", "exited"}
      PROVE  local[r].season \in Seasons
  BY <1>t, <1>s DEF Serial, Active
<1>1. CASE Tick \/ UNCHANGED vars
  <2>1. UNCHANGED <<pc, local, results, summary, history>>
    BY <1>1 DEF Tick, vars, tables
  <2> QED BY <2>1 DEF Published, UpToDate, Stale, HasRows, Results
<1>2. CASE ArchiveCommand
  <2>1. UNCHANGED <<pc, local>> /\ ArchiveSeasons
    BY <1>2 DEF ArchiveCommand
  <2>2. ASSUME NEW r \in Runs, pc[r] \notin {"new", "exited"}
        PROVE  /\ UpToDate(local[r].season) => UpToDate(local[r].season)'
               /\ ~Stale(local[r].season)'
    <3> DEFINE s == local[r].season
    <3>1. s \in Seasons /\ s' = s
      BY <1>s, <2>1, <2>2
    <3> HIDE DEF s
    <3>2. (UpToDate(s) => UpToDate(s)') /\ ~Stale(s)'
      <4>1. ASSUME NEW t \in Seasons
            PROVE  (UpToDate(t) => UpToDate(t)') /\ ~Stale(t)'
        BY <1>t, <2>1, ArchiveKeepsUpToDate
      <4> QED BY <3>1, <4>1 DEF UpToDate, Stale, HasRows, Results
    <3> QED BY <3>2 DEF s
  <2> QED BY <2>1, <2>2 DEF Published
<1>3. ASSUME NEW r \in Runs,
             \/ StartIncremental(r) \/ StartBackfill(r) \/ Step(r)
             \/ FailRefreshRun(r) \/ Crash(r)
      PROVE  \A q \in Runs : Published(q)'
  <2>1. ASSUME NEW q \in Runs, q # r PROVE Published(q)'
    BY <1>3, <1>t, <2>1, OthersIdle, OthersUnchanged DEF Published
  <2>2. CASE StartIncremental(r) \/ StartBackfill(r)
    BY <1>t, <2>1, <2>2, SerialStart DEF Published
  <2>3. CASE Quiet(r)
    <3>1. /\ local'[r].scored = local[r].scored
          /\ pc'[r] # "archive"
          /\ pc'[r] = "complete" => pc[r] = "fetch_events"
      BY <1>t, <2>3, QuietEffect
    <3>2. pc[r] = "fetch_events" => local[r].scored = {}
      BY <1>t DEF OrderInv, RunOrder, Fresh, BeforeLoop
    <3>3. Published(r)'
      BY <3>1, <3>2 DEF Published
    <3> QED BY <2>1, <3>3
  <2>4. CASE FetchBatch(r) \/ RecordEventResults(r)
    <3>1. pc'[r] \in {"record", "profiles"}
      BY <1>t, <2>4, BatchEffect, RecordEffect
    <3> QED BY <2>1, <3>1 DEF Published
  <2>5. CASE RefreshTeamSeasonSummary(r)
    <3>1. /\ local' = local /\ results' = results
          /\ pc[r] = "refresh" /\ pc'[r] = "archive"
      BY <1>t, <2>5, RefreshEffect
    <3>2. local[r].season \in Seasons
      BY <1>s, <3>1
    <3>3. summary'[local[r].season] = Results(local[r].season)
      BY <1>t, <2>5, <3>2, RefreshEffect
    <3>4. Published(r)'
      BY <3>1, <3>3 DEF Published, UpToDate, Results
    <3> QED BY <2>1, <3>4
  <2>6. CASE ArchiveCompletedSeasons(r)
    <3>1. /\ local' = local /\ ArchiveSeasons
          /\ pc[r] = "archive" /\ pc'[r] = "complete"
      BY <1>t, <2>6 DEF ArchiveCompletedSeasons, TypeOK
    <3>2. local[r].season \in Seasons /\ UpToDate(local[r].season)
      BY <1>s, <3>1 DEF Published
    <3>3. ASSUME NEW t \in Seasons
          PROVE  (UpToDate(t) => UpToDate(t)') /\ ~Stale(t)'
      BY <1>t, <3>1, ArchiveKeepsUpToDate
    <3>4. UpToDate(local[r].season)' /\ ~Stale(local[r].season)'
      BY <3>1, <3>2, <3>3 DEF UpToDate, Stale, HasRows, Results
    <3>5. Published(r)'
      BY <3>1, <3>4 DEF Published
    <3> QED BY <2>1, <3>5
  <2>7. CASE CompleteRefreshRun(r) \/ FailRefreshRun(r) \/ Crash(r)
    <3>1. pc'[r] = "exited"
      BY <1>t, <2>7 DEF CompleteRefreshRun, FailRefreshRun, Crash, Exit, TypeOK
    <3> QED BY <2>1, <3>1 DEF Published
  <2> QED BY <1>3, <2>2, <2>3, <2>4, <2>5, <2>6, <2>7 DEF Step, Quiet
<1> QED BY <1>1, <1>2, <1>3 DEF Next

PublishInv == RowsInv /\ \A r \in Runs : Published(r)

\* As long as runs come one after the other, a run that recorded anything and
\* reports success leaves the API answering for its season from exactly the
\* rows stored, whichever table _season_model() chooses.
THEOREM SuccessIsPublished ==
    ASSUME MaxActive = 1
    PROVE  Spec => SuccessPublishes
<1>1. Init => PublishInv
  BY RowsInit DEF PublishInv, Init, Published
<1>2. PublishInv /\ [Next]_vars => PublishInv'
  BY RowsStep, PublishedStep DEF PublishInv
<1>3. ASSUME PublishInv, [Next]_vars
      PROVE  \A r \in Runs : Succeeds(r) /\ local[r].scored # {} =>
                Served(local[r].season) = Results(local[r].season)
  <2> SUFFICES ASSUME NEW r \in Runs, Succeeds(r), local[r].scored # {}
               PROVE  Served(local[r].season) = Results(local[r].season)
    OBVIOUS
  <2> DEFINE s == local[r].season
  <2>t. TypeOK /\ TablesBehind
    BY <1>3 DEF PublishInv, RowsInv, OrderInv
  <2>1. pc[r] = "complete"
    BY <1>3, <2>t, OnlyCompleteSucceeds DEF CompleteRefreshRun
  <2>2. s \in Seasons /\ UpToDate(s) /\ ~Stale(s)
    BY <1>3, <2>1 DEF PublishInv, RowsInv, Serial, Active, Published
  <2> HIDE DEF s
  <2>3. ASSUME HasRows(summary[s]) PROVE Served(s) = Results(s)
    BY <2>2, <2>3 DEF Served, UpToDate
  <2>4. ASSUME ~HasRows(summary[s]) PROVE Served(s) = Results(s)
    <3>1. Served(s) = history[s]
      BY <2>4 DEF Served
    <3>2. ASSUME summary[s] = Results(s) PROVE history[s] = Results(s)
      <4>1. ASSUME NEW e \in Events PROVE history[s][e] = Results(s)[e]
        <5>1. ~(Results(s)[e] > 0)
          BY <2>4, <3>2 DEF HasRows
        <5>2. history[s][e] \in Nat /\ Results(s)[e] \in Nat
          BY <2>t, <2>2, StoredNumbers
        <5>3. history[s][e] <= Results(s)[e]
          BY <2>t, <2>2 DEF TablesBehind
        <5> QED BY <5>1, <5>2, <5>3
      <4>2. history[s] \in [Events -> Nat]
        BY <2>t, <2>2 DEF TypeOK, Versions
      <4>3. Results(s) \in [Events -> Nat]
        BY <2>t, ResultsType DEF Versions
      <4> QED BY <4>1, <4>2, <4>3
    <3> QED BY <2>2, <3>1, <3>2 DEF UpToDate
  <2> QED BY <2>3, <2>4 DEF s
<1> QED BY <1>1, <1>2, <1>3, PTL DEF Spec, SuccessPublishes

-----------------------------------------------------------------------------
(* Events that were new or in progress when the run started                *)

NotAsked == {"new", "exited", "processed_ids"}

\* The events found processed but not over.
StillLive(r) == {e \in local[r].processed : EventEnd[e] >= local[r].now}

\* Whatever is recorded was found processed, or this run has scored it.
NothingElseRecorded(r) ==
    pc[r] \notin NotAsked => events \subseteq local[r].processed \cup local[r].scored

\* The live events are known, and the query goes back far enough for them.
LiveListed(r) ==
    /\ pc[r] \notin NotAsked \cup {"in_progress_ids"} =>
          StillLive(r) \subseteq local[r].inProgress
    /\ pc[r] = "fetch_events" /\ ~local[r].entire =>
          \A e \in StillLive(r) : EventStart[e] >= local[r].start

\* The live events of the season are in the run's hands from the list on.
LiveHandled(r) ==
    pc[r] \in InLoop \cup AfterLoop =>
        {e \in StillLive(r) : /\ EventSeason[e] = local[r].season
                              /\ EventStart[e] <= local[r].now}
            \subseteq local[r].scored \cup local[r].batch \cup local[r].todo

\* What it fetched and recorded is at least what VEX showed when it started.
AtLeastAsAtStart(r) ==
    /\ \A e \in local[r].scored : results[e] >= VexData[e][local[r].now]
    /\ \A e \in local[r].batch : local[r].fetched[e] >= VexData[e][local[r].now]

Refreshes(r) ==
    /\ NothingElseRecorded(r)
    /\ LiveListed(r)
    /\ LiveHandled(r)
    /\ AtLeastAsAtStart(r)

\* What is known of a run depends on its locals, its place and the tables.
LEMMA RefreshesFrame ==
    ASSUME NEW q \in Runs, Refreshes(q), local'[q] = local[q], pc'[q] = pc[q],
           events' = events, results' = results
    PROVE  Refreshes(q)'
BY DEF Refreshes, NothingElseRecorded, LiveListed, LiveHandled, StillLive,
       AtLeastAsAtStart

\* A run that is not executing has nothing to refresh.
LEMMA RefreshesIdle ==
    ASSUME NEW q \in Runs, pc'[q] \in {"new", "exited", "processed_ids"},
           local'[q].scored = {}, local'[q].batch = {}
    PROVE  Refreshes(q)'
BY DEF Refreshes, NothingElseRecorded, LiveListed, LiveHandled, NotAsked, InLoop,
       AfterLoop, AtLeastAsAtStart

\* The steps before the list is fetched.
LEMMA RefreshesAsk ==
    ASSUME RowsInv, NEW r \in Runs, Refreshes(r),
           \/ GetProcessedEventIds(r) \/ GetInProgressEventIds(r)
           \/ GetLastUpdatedEventStart(r) \/ GetOldestInProgressEventStart(r)
    PROVE  Refreshes(r)'
<1>t. /\ TypeOK /\ local[r] \in LocalState /\ RunOrder(r)
      /\ local[r].processed \subseteq events /\ events \subseteq Events
  BY LocalSetsOf DEF RowsInv, OrderInv, RunOrder, Handled, TypeOK
<1>1. /\ local'[r].scored = {} /\ local'[r].batch = {}
      /\ local[r].scored = {}
      /\ events' = events
      /\ local'[r].entire = local[r].entire
  <2>1. pc[r] \in BeforeLoop
    BY DEF GetProcessedEventIds, GetInProgressEventIds, GetLastUpdatedEventStart,
           GetOldestInProgressEventStart, BeforeLoop
  <2>2. local[r].scored = {} /\ local[r].batch = {}
    BY <1>t, <2>1 DEF RunOrder, Fresh
  <2> QED BY <1>t, <2>2, QuietEffect DEF Quiet, tables
<1>2. AtLeastAsAtStart(r)'
  BY <1>1 DEF AtLeastAsAtStart
<1>3. CASE GetProcessedEventIds(r)
  <2>1. /\ local'[r] = [local[r] EXCEPT !.now = now, !.processed = events]
        /\ pc'[r] = "in_progress_ids"
    BY <1>t, <1>3 DEF GetProcessedEventIds, TypeOK
  <2>2. local'[r].processed = events
    BY <1>t, <2>1 DEF LocalState
  <2> QED BY <1>1, <1>2, <2>1, <2>2
          DEF Refreshes, NothingElseRecorded, LiveListed, LiveHandled, NotAsked,
              InLoop, AfterLoop
<1>4. CASE GetInProgressEventIds(r)
  <2>1. /\ local'[r] = [local[r] EXCEPT !.inProgress = InProgress(local[r].now)]
        /\ pc[r] = "in_progress_ids"
        /\ pc'[r] = IF local[r].entire THEN "fetch_events" ELSE "last_updated"
    BY <1>t, <1>4 DEF GetInProgressEventIds, TypeOK
  <2>2. /\ local'[r].inProgress = InProgress(local[r].now)
        /\ local'[r].processed = local[r].processed
        /\ local'[r].now = local[r].now
    BY <1>t, <2>1 DEF LocalState
  <2>3. StillLive(r)' \subseteq local'[r].inProgress
    BY <1>t, <2>2 DEF StillLive, InProgress
  <2> QED BY <1>1, <1>2, <2>1, <2>2, <2>3
          DEF Refreshes, NothingElseRecorded, LiveListed, LiveHandled, NotAsked,
              InLoop, AfterLoop
<1>5. CASE GetLastUpdatedEventStart(r)
  <2>1. PICK start : local'[r] = [local[r] EXCEPT !.start = start]
    BY <1>t, <1>5 DEF GetLastUpdatedEventStart, TypeOK
  <2>2. /\ local'[r].inProgress = local[r].inProgress
        /\ local'[r].processed = local[r].processed
        /\ local'[r].now = local[r].now
    BY <1>t, <2>1 DEF LocalState
  <2>3. pc[r] = "last_updated" /\ pc'[r] = "oldest"
    BY <1>t, <1>5 DEF GetLastUpdatedEventStart, TypeOK
  <2> QED BY <1>1, <1>2, <2>2, <2>3
          DEF Refreshes, NothingElseRecorded, LiveListed, LiveHandled, StillLive,
              NotAsked, InLoop, AfterLoop
<1>6. CASE GetOldestInProgressEventStart(r)
  <2>1. PICK start \in {local[r].start} \cup
                       {EventStart[e] : e \in InProgress(local[r].now)} :
            /\ \A other \in {local[r].start} \cup
                            {EventStart[e] : e \in InProgress(local[r].now)} :
                  start <= other
            /\ local'[r] = [local[r] EXCEPT !.start = start]
    BY <1>t, <1>6 DEF GetOldestInProgressEventStart, TypeOK
  <2>2. /\ local'[r].inProgress = local[r].inProgress
        /\ local'[r].processed = local[r].processed
        /\ local'[r].now = local[r].now
        /\ local'[r].start = start
    BY <1>t, <2>1 DEF LocalState
  <2>3. pc[r] = "oldest" /\ pc'[r] = "fetch_events"
    BY <1>t, <1>6 DEF GetOldestInProgressEventStart, TypeOK
  <2>4. ASSUME NEW e \in StillLive(r)' PROVE EventStart[e] >= local'[r].start
    <3>1. e \in InProgress(local[r].now) /\ e \in Events
      BY <1>t, <2>2, <2>4 DEF StillLive, InProgress
    <3>2. start \in Nat /\ EventStart[e] \in Nat /\ start <= EventStart[e]
      BY <1>t, <2>1, <3>1, EventsAssumption, LocalSetsOf DEF InProgress
    <3> QED BY <2>2, <3>2
  <2> QED BY <1>1, <1>2, <2>2, <2>3, <2>4
          DEF Refreshes, NothingElseRecorded, LiveListed, LiveHandled, StillLive,
              NotAsked, InLoop, AfterLoop
<1> QED BY <1>3, <1>4, <1>5, <1>6

\* The list of events brings in every live event of the season.
LEMMA RefreshesList ==
    ASSUME RowsInv, NEW r \in Runs, Refreshes(r), FetchEvents(r)
    PROVE  Refreshes(r)'
<1> DEFINE todo == {e \in Listed(r) : \/ e \notin local[r].processed
                                      \/ e \in local[r].inProgress}
<1>t. /\ TypeOK /\ local[r] \in LocalState
      /\ local[r].processed \subseteq Events
  BY LocalSetsOf DEF RowsInv, OrderInv, LocalState
<1>1. local'[r] = [local[r] EXCEPT !.todo = todo]
  BY <1>t DEF FetchEvents, TypeOK
<1>2. /\ pc[r] = "fetch_events" /\ pc'[r] \in {"complete", "fetch_batch"}
      /\ UNCHANGED tables
  BY <1>t DEF FetchEvents, TypeOK
<1>3. ASSUME NEW e \in StillLive(r), EventSeason[e] = local[r].season,
             EventStart[e] <= local[r].now
      PROVE  e \in todo
  <2>1. e \in Events /\ e \in local[r].inProgress
    BY <1>t, <1>2 DEF StillLive, Refreshes, LiveListed, NotAsked
  <2>2. local[r].entire \/ EventStart[e] >= local[r].start
    BY <1>2 DEF Refreshes, LiveListed
  <2> QED BY <1>3, <2>1, <2>2 DEF Listed
<1> HIDE DEF todo
<1>4. /\ local'[r].todo = todo
      /\ local'[r].batch = local[r].batch /\ local'[r].scored = local[r].scored
      /\ local'[r].fetched = local[r].fetched /\ local'[r].now = local[r].now
      /\ local'[r].processed = local[r].processed
      /\ local'[r].inProgress = local[r].inProgress
      /\ local'[r].season = local[r].season
  BY <1>t, <1>1 DEF LocalState
<1>5. NothingElseRecorded(r)' /\ AtLeastAsAtStart(r)'
  BY <1>2, <1>4 DEF Refreshes, NothingElseRecorded, AtLeastAsAtStart, NotAsked, tables
<1>6. StillLive(r)' = StillLive(r)
  BY <1>4 DEF StillLive
<1>7. LiveListed(r)'
  BY <1>2, <1>4, <1>6 DEF Refreshes, LiveListed, NotAsked
<1>8. LiveHandled(r)'
  BY <1>3, <1>4, <1>6 DEF LiveHandled
<1> QED BY <1>5, <1>7, <1>8 DEF Refreshes

\* The batch loop keeps the live events in hand and their data recent enough.
LEMMA RefreshesLoop ==
    ASSUME RowsInv, [Next]_vars, NEW r \in Runs, Refreshes(r),
           FetchBatch(r) \/ RecordEventResults(r)
    PROVE  Refreshes(r)'
<1>t. /\ TypeOK /\ RunOrder(r) /\ local[r] \in LocalState
      /\ local[r].todo \subseteq Events /\ local[r].batch \subseteq Events
      /\ local[r].scored \subseteq Events
      /\ local[r].now \in 0..MaxTime /\ local[r].now <= now
  BY LocalSetsOf DEF RowsInv, OrderInv, Serial
<1>i. local'[r].inProgress = local[r].inProgress
  <2>1. ASSUME NEW b, NEW rest, NEW f,
               local' = [local EXCEPT ![r] = [@ EXCEPT
                            !.batch = b, !.todo = rest, !.fetched = f]]
        PROVE  local'[r].inProgress = local[r].inProgress
    BY <1>t, <2>1 DEF LocalState, TypeOK
  <2>2. ASSUME NEW e, local' = [local EXCEPT ![r].scored = @ \cup {e}]
        PROVE  local'[r].inProgress = local[r].inProgress
    BY <1>t, <2>2 DEF LocalState, TypeOK
  <2>3. CASE FetchBatch(r)
    <3>1. PICK b \in FirstBatches(local[r].todo) :
              local' = [local EXCEPT ![r] = [@ EXCEPT
                          !.batch = b, !.todo = local[r].todo \ b,
                          !.fetched = [e \in Events |-> IF e \in b THEN FetchEventData(e)
                                                                   ELSE 0]]]
      BY <2>3 DEF FetchBatch
    <3> QED BY <2>1, <3>1
  <2> QED BY <2>2, <2>3 DEF RecordEventResults
<1>1. CASE FetchBatch(r)
  <2>1. /\ local'[r].batch \subseteq local[r].todo
        /\ local'[r].todo = local[r].todo \ local'[r].batch
        /\ local'[r].fetched =
              [e \in Events |-> IF e \in local'[r].batch THEN VexData[e][now] ELSE 0]
        /\ local'[r].scored = local[r].scored
        /\ local'[r].season = local[r].season
        /\ local'[r].now = local[r].now
        /\ local'[r].processed = local[r].processed
        /\ events' = events /\ results' = results
        /\ pc[r] = "fetch_batch" /\ pc'[r] = "record"
    BY <1>t, <1>1, BatchEffect DEF tables
  <2>2. local[r].batch \subseteq local[r].scored
    BY <1>t, <2>1 DEF RunOrder, Drained, Pending
  <2>3. ASSUME NEW e \in local'[r].batch
        PROVE  local'[r].fetched[e] >= VexData[e][local'[r].now]
    <3>1. e \in Events /\ local'[r].fetched[e] = VexData[e][now]
      BY <1>t, <2>1, <2>3
    <3>2. /\ VexData[e][now] \in Nat /\ VexData[e][local[r].now] \in Nat
          /\ VexData[e][local[r].now] <= VexData[e][now]
      BY <1>t, <3>1, DataNumbers
    <3> QED BY <2>1, <3>1, <3>2
  <2>4. AtLeastAsAtStart(r)'
    BY <2>1, <2>3 DEF Refreshes, AtLeastAsAtStart
  <2>5. StillLive(r)' = StillLive(r)
    BY <2>1 DEF StillLive
  <2>6. NothingElseRecorded(r)' /\ LiveListed(r)'
    BY <1>i, <2>1, <2>5 DEF Refreshes, NothingElseRecorded, LiveListed, NotAsked
  <2>7. local[r].scored \cup local[r].batch \cup local[r].todo
           \subseteq local'[r].scored \cup local'[r].batch \cup local'[r].todo
    BY <2>1, <2>2
  <2>8. LiveHandled(r)'
    BY <2>1, <2>5, <2>7 DEF Refreshes, LiveHandled, InLoop
  <2> QED BY <2>4, <2>6, <2>8 DEF Refreshes
<1>2. CASE RecordEventResults(r)
  <2>1. PICK x \in Events :
            /\ x \in Pending(r)
            /\ events' = events \cup {x}
            /\ results' = IF local[r].fetched[x] = 0 THEN results
                          ELSE [results EXCEPT ![x] = local[r].fetched[x]]
            /\ local'[r].scored = local[r].scored \cup {x}
            /\ local'[r].batch = local[r].batch
            /\ local'[r].todo = local[r].todo
            /\ local'[r].fetched = local[r].fetched
            /\ local'[r].season = local[r].season
            /\ local'[r].now = local[r].now
            /\ local'[r].processed = local[r].processed
            /\ pc[r] = "record" /\ pc'[r] \in {"record", "profiles"}
    BY <1>t, <1>2, RecordEffect
  <2>2. ASSUME NEW e \in local'[r].scored
        PROVE  results'[e] >= VexData[e][local'[r].now]
    <3>1. /\ e \in Events /\ results[e] \in Nat /\ local[r].fetched[e] \in Nat
          /\ VexData[e][local[r].now] \in Nat
      BY <1>t, <2>1, <2>2, DataNumbers
    <3>2. CASE e = x
      <4>1. local[r].fetched[e] >= VexData[e][local[r].now]
        BY <2>1, <3>2 DEF Refreshes, AtLeastAsAtStart, Pending
      <4>2. results'[e] = IF local[r].fetched[e] = 0 THEN results[e]
                          ELSE local[r].fetched[e]
        BY <1>t, <2>1, <3>2 DEF TypeOK, Versions
      <4> QED BY <2>1, <3>1, <4>1, <4>2
    <3>3. CASE e # x
      <4>1. e \in local[r].scored /\ results'[e] = results[e]
        BY <1>t, <2>1, <2>2, <3>1, <3>3 DEF TypeOK, Versions
      <4> QED BY <2>1, <4>1 DEF Refreshes, AtLeastAsAtStart
    <3> QED BY <3>2, <3>3
  <2>3. AtLeastAsAtStart(r)'
    BY <2>1, <2>2 DEF Refreshes, AtLeastAsAtStart
  <2>4. StillLive(r)' = StillLive(r)
    BY <2>1 DEF StillLive
  <2>5. NothingElseRecorded(r)' /\ LiveListed(r)'
    BY <1>i, <2>1, <2>4 DEF Refreshes, NothingElseRecorded, LiveListed, NotAsked
  <2>6. LiveHandled(r)'
    BY <2>1, <2>4 DEF Refreshes, LiveHandled, InLoop
  <2> QED BY <2>3, <2>5, <2>6 DEF Refreshes
<1> QED BY <1>1, <1>2

\* The steps after the loop has handed out and recorded a batch.
LEMMA RefreshesRest ==
    ASSUME RowsInv, NEW r \in Runs, Refreshes(r),
           \/ FetchMissingTeamProfiles(r) \/ UpdateRefreshRunProgress(r)
           \/ RefreshTeamSeasonSummary(r) \/ ArchiveCompletedSeasons(r)
    PROVE  Refreshes(r)'
<1>t. TypeOK /\ local[r] \in LocalState
  BY LocalSetsOf DEF RowsInv, OrderInv
<1>1. /\ \/ local'[r] = local[r]
         \/ \E n : local'[r] = [local[r] EXCEPT !.events_processed = n]
      /\ events' = events /\ results' = results
  <2>1. CASE FetchMissingTeamProfiles(r)
    BY <1>t, <2>1 DEF FetchMissingTeamProfiles, TypeOK, tables
  <2>2. CASE UpdateRefreshRunProgress(r) \/ RefreshTeamSeasonSummary(r)
             \/ ArchiveCompletedSeasons(r)
    BY <2>2 DEF UpdateRefreshRunProgress, RefreshTeamSeasonSummary,
                ArchiveCompletedSeasons, ArchiveSeasons, tables
  <2> QED BY <2>1, <2>2
<1>2. /\ local'[r].batch = local[r].batch /\ local'[r].scored = local[r].scored
      /\ local'[r].fetched = local[r].fetched /\ local'[r].now = local[r].now
      /\ local'[r].processed = local[r].processed
      /\ local'[r].inProgress = local[r].inProgress
      /\ local'[r].season = local[r].season
      /\ local'[r].todo = local[r].todo
  BY <1>t, <1>1 DEF LocalState
<1>3. pc[r] \in InLoop \cup AfterLoop /\ pc'[r] \in InLoop \cup AfterLoop
  BY <1>t DEF FetchMissingTeamProfiles, UpdateRefreshRunProgress,
     RefreshTeamSeasonSummary, ArchiveCompletedSeasons, TypeOK, InLoop, AfterLoop
<1>4. StillLive(r)' = StillLive(r)
  BY <1>2 DEF StillLive
<1>5. pc[r] \notin NotAsked \cup {"in_progress_ids", "fetch_events"}
      /\ pc'[r] \notin NotAsked \cup {"in_progress_ids", "fetch_events"}
  BY <1>3 DEF NotAsked, InLoop, AfterLoop
<1> QED BY <1>1, <1>2, <1>3, <1>4, <1>5
        DEF Refreshes, NothingElseRecorded, LiveListed, LiveHandled, AtLeastAsAtStart

RefreshInv == RowsInv /\ \A r \in Runs : Refreshes(r)

\* The inductive step for what a run refreshes.
LEMMA RefreshStep ==
    ASSUME MaxActive = 1, RefreshInv, [Next]_vars
    PROVE  RefreshInv'
<1>t. RowsInv /\ RowsInv' /\ OrderInv /\ TypeOK /\ Serial
      /\ \A q \in Runs : Refreshes(q)
  BY RowsStep DEF RefreshInv, RowsInv, OrderInv
<1>1. CASE Tick \/ ArchiveCommand \/ UNCHANGED vars
  <2>1. UNCHANGED <<local, pc, events, results>>
    BY <1>1 DEF Tick, ArchiveCommand, ArchiveSeasons, vars, tables
  <2> QED BY <1>t, <2>1, RefreshesFrame DEF RefreshInv
<1>2. ASSUME NEW r \in Runs,
             \/ StartIncremental(r) \/ StartBackfill(r) \/ Step(r)
             \/ FailRefreshRun(r) \/ Crash(r)
      PROVE  \A q \in Runs : Refreshes(q)'
  <2>1. ASSUME NEW q \in Runs, q # r PROVE Refreshes(q)'
    <3>1. pc[q] \in {"new", "exited"} /\ local'[q] = local[q] /\ pc'[q] = pc[q]
      BY <1>2, <1>t, <2>1, OthersIdle, OthersUnchanged
    <3>2. local[q].batch = {} /\ local[q].scored = {}
      BY <1>t, <3>1, IdleRun
    <3> QED BY <3>1, <3>2, RefreshesIdle
  <2>2. CASE StartIncremental(r) \/ StartBackfill(r)
    <3>1. /\ local'[r].batch = {} /\ local'[r].scored = {}
          /\ pc'[r] = "processed_ids"
      BY <1>t, <2>2, SerialStart DEF NoLocal
    <3> QED BY <2>1, <3>1, RefreshesIdle
  <2>3. CASE CompleteRefreshRun(r) \/ FailRefreshRun(r) \/ Crash(r)
    <3>1. local'[r] = NoLocal /\ pc'[r] = "exited"
      BY <1>t, <2>3 DEF CompleteRefreshRun, FailRefreshRun, Crash, Exit, TypeOK
    <3> QED BY <2>1, <3>1, RefreshesIdle DEF NoLocal
  <2>4. CASE Step(r) /\ ~CompleteRefreshRun(r)
    <3>1. Refreshes(r)'
      BY <1>t, <2>4, RefreshesAsk, RefreshesList, RefreshesLoop, RefreshesRest DEF Step
    <3> QED BY <2>1, <3>1
  <2> QED BY <1>2, <2>2, <2>3, <2>4
<1> QED BY <1>t, <1>1, <1>2 DEF Next, RefreshInv

\* As long as runs come one after the other, a run that reports success has
\* brought every event of its season that was new, or still in progress when
\* it started, up to the data VEX showed then: in-progress events are fetched
\* again however many runs failed or were killed before.
THEOREM SuccessIsRefreshed ==
    ASSUME MaxActive = 1
    PROVE  Spec => SuccessRefreshesLiveEvents
<1>1. Init => RefreshInv
  <2> SUFFICES ASSUME Init PROVE RefreshInv
    OBVIOUS
  <2>1. ASSUME NEW r \in Runs PROVE Refreshes(r)
    BY DEF Init, NoLocal, Refreshes, NothingElseRecorded, LiveListed, LiveHandled,
       NotAsked, InLoop, AfterLoop, AtLeastAsAtStart
  <2> QED BY <2>1, RowsInit DEF RefreshInv
<1>2. RefreshInv /\ [Next]_vars => RefreshInv'
  BY RefreshStep
<1>3. ASSUME RefreshInv, [Next]_vars
      PROVE  \A r \in Runs : Succeeds(r) =>
                LET l == local[r]
                IN  \A e \in Events :
                        /\ EventSeason[e] = l.season
                        /\ EventStart[e] <= l.now
                        /\ e \in events
                        /\ e \notin l.processed \/ EventEnd[e] >= l.now
                        => results[e] >= VexData[e][l.now]
  <2> SUFFICES ASSUME NEW r \in Runs, Succeeds(r), NEW e \in Events,
                      EventSeason[e] = local[r].season,
                      EventStart[e] <= local[r].now,
                      e \in events,
                      e \notin local[r].processed \/ EventEnd[e] >= local[r].now
               PROVE  results[e] >= VexData[e][local[r].now]
    OBVIOUS
  <2>1. /\ OrderInv /\ RunOrder(r) /\ Refreshes(r)
        /\ pc[r] = "complete"
    BY <1>3, OnlyCompleteSucceeds
    DEF RefreshInv, RowsInv, OrderInv, CompleteRefreshRun
  <2>2. local[r].batch \subseteq local[r].scored /\ local[r].todo = {}
    BY <2>1 DEF RunOrder, Drained, Pending, AfterLoop
  <2>3. e \in local[r].scored
    <3>1. CASE e \notin local[r].processed
      BY <2>1, <3>1 DEF Refreshes, NothingElseRecorded, NotAsked
    <3>2. CASE e \in local[r].processed
      BY <2>1, <2>2, <3>2 DEF Refreshes, LiveHandled, StillLive, AfterLoop
    <3> QED BY <3>1, <3>2
  <2> QED BY <2>1, <2>3 DEF Refreshes, AtLeastAsAtStart
<1> QED BY <1>1, <1>2, <1>3, PTL DEF Spec, SuccessRefreshesLiveEvents

-----------------------------------------------------------------------------
(* From VEX to the API                                                     *)

\* What the weekly job is for, in one statement: a run of update_events() that
\* scored anything and reports success leaves the API answering for its season
\* (_season_model()) from rows in which every event that was new or in progress
\* at its start has at least the data VEX showed then, and no event is missing.
\* (An incremental run is about the newest season.)
SuccessServesSeason ==
    [][\A r \in Runs : Succeeds(r) /\ local[r].scored # {} =>
          LET l == local[r]
          IN  l.entire \/ Newest(l.season) =>
                  \A e \in InScope(l.season, l.entire, l.now) :
                      /\ e \in events
                      /\ e \notin l.processed \/ EventEnd[e] >= l.now =>
                            Served(l.season)[e] >= VexData[e][l.now]]_vars

\* Of the three properties it combines, the first needs that seasons do not
\* overlap, the other two that runs come one after the other.
THEOREM SuccessReachesTheApi ==
    ASSUME MaxActive = 1, SeasonsDisjoint
    PROVE  Spec => SuccessServesSeason
<1>1. Spec => SuccessLeavesNoGap
  BY SuccessIsComplete
<1>2. Spec => SuccessPublishes
  BY SuccessIsPublished
<1>3. Spec => SuccessRefreshesLiveEvents
  BY SuccessIsRefreshed
<1> DEFINE
      Complete == \A r \in Runs : Succeeds(r) =>
          LET l == local[r]
          IN  l.entire \/ Newest(l.season) =>
                  InScope(l.season, l.entire, l.now) \subseteq events
      Public == \A r \in Runs : Succeeds(r) /\ local[r].scored # {} =>
          Served(local[r].season) = Results(local[r].season)
      Refreshed == \A r \in Runs : Succeeds(r) =>
          LET l == local[r]
          IN  \A e \in Events :
                  /\ EventSeason[e] = l.season
                  /\ EventStart[e] <= l.now
                  /\ e \in events
                  /\ e \notin l.processed \/ EventEnd[e] >= l.now
                  => results[e] >= VexData[e][l.now]
      Serves == \A r \in Runs : Succeeds(r) /\ local[r].scored # {} =>
          LET l == local[r]
          IN  l.entire \/ Newest(l.season) =>
                  \A e \in InScope(l.season, l.entire, l.now) :
                      /\ e \in events
                      /\ e \notin l.processed \/ EventEnd[e] >= l.now =>
                            Served(l.season)[e] >= VexData[e][l.now]
<1>4. ASSUME Complete, Public, Refreshed
      PROVE  Serves
  <2> SUFFICES ASSUME NEW r \in Runs, Succeeds(r), local[r].scored # {},
                      local[r].entire \/ Newest(local[r].season),
                      NEW e \in InScope(local[r].season, local[r].entire, local[r].now)
               PROVE  /\ e \in events
                      /\ e \notin local[r].processed \/ EventEnd[e] >= local[r].now =>
                            Served(local[r].season)[e] >= VexData[e][local[r].now]
    OBVIOUS
  <2>1. e \in events
    BY <1>4
  <2>2. e \in Events /\ EventSeason[e] = local[r].season /\ EventStart[e] <= local[r].now
    BY DEF InScope
  <2>3. Served(local[r].season)[e] = results[e]
    <3>1. Served(local[r].season) = Results(local[r].season)
      BY <1>4
    <3> QED BY <2>2, <3>1 DEF Results
  <2>4. e \notin local[r].processed \/ EventEnd[e] >= local[r].now =>
            results[e] >= VexData[e][local[r].now]
    BY <1>4, <2>1, <2>2
  <2> QED BY <2>1, <2>3, <2>4
<1> QED
  BY <1>1, <1>2, <1>3, <1>4, PTL
  DEF SuccessLeavesNoGap, SuccessPublishes, SuccessRefreshesLiveEvents, SuccessServesSeason

-----------------------------------------------------------------------------
(* What the readers of the tables are promised                             *)

\* The number a row set is for the readers says whether there is a row at all,
\* and is not smaller when no row is older.
LEMMA VersionOfRows ==
    ASSUME NEW f \in Versions
    PROVE  /\ SumFunction(f) \in Nat
           /\ SumFunction(f) > 0 <=> HasRows(f)
<1>1. SumFunction(f) = SumFunctionOnSet(f, Events)
  BY DEF SumFunction, Versions
<1>2. IsFiniteSet(Events) /\ \A e \in Events : f[e] \in Nat
  BY EventsAssumption DEF Versions
<1> QED
  BY <1>1, <1>2, SumNat, SumPositive DEF HasRows

LEMMA VersionGrows ==
    ASSUME NEW f \in Versions, NEW g \in Versions, \A e \in Events : f[e] <= g[e]
    PROVE  SumFunction(f) <= SumFunction(g)
<1>1. /\ SumFunction(f) = SumFunctionOnSet(f, Events)
      /\ SumFunction(g) = SumFunctionOnSet(g, Events)
  BY DEF SumFunction, Versions
<1>2. /\ IsFiniteSet(Events)
      /\ \A e \in Events : f[e] \in Nat /\ g[e] \in Nat /\ f[e] <= g[e]
  BY EventsAssumption DEF Versions
<1> QED
  BY <1>1, <1>2, SumGrows

\* Every row set there is, is one of versions.
LEMMA RowSets ==
    ASSUME TypeOK
    PROVE  /\ NoVersions \in Versions /\ SumFunction(NoVersions) = 0
           /\ \A s \in Seasons :
                 /\ Results(s) \in Versions
                 /\ summary[s] \in Versions
                 /\ history[s] \in Versions
<1>1. NoVersions \in Versions /\ ~HasRows(NoVersions)
  BY DEF NoVersions, Versions, HasRows
<1>2. SumFunction(NoVersions) = 0
  <2>1. /\ SumFunction(NoVersions) \in Nat
        /\ SumFunction(NoVersions) > 0 <=> HasRows(NoVersions)
    BY <1>1, VersionOfRows
  <2> QED
    BY <1>1, <2>1
<1> QED
  BY <1>1, <1>2 DEF TypeOK, Versions, Results

\* Recording an event is a later version of one season, or nothing.
LEMMA RecordMaps ==
    ASSUME RowsInv, RowsInv', NEW r \in Runs, RecordEventResults(r), [Next]_vars
    PROVE  \/ \E s \in Seasons : Dataset!Record(s)
           \/ UNCHANGED Dataset!vars
<1>t. TypeOK /\ TypeOK'
  BY DEF RowsInv, OrderInv
<1>1. PICK e \in Events :
          /\ results' = IF local[r].fetched[e] = 0 THEN results
                        ELSE [results EXCEPT ![e] = local[r].fetched[e]]
          /\ UNCHANGED <<summary, history>>
  BY <1>t, RecordEffect
<1>2. PICK s \in Seasons : s = EventSeason[e]
  BY EventsAssumption
<1>3. ASSUME NEW t \in Seasons, t # s
      PROVE  Results(t)' = Results(t)
  <2>1. \A x \in Events : EventSeason[x] = t => results'[x] = results[x]
    BY <1>t, <1>1, <1>2, <1>3 DEF TypeOK, Versions
  <2> QED
    BY <2>1 DEF Results
<1>4. /\ SumFunction(Results(s)) \in Nat /\ SumFunction(Results(s)') \in Nat
      /\ SumFunction(Results(s)) <= SumFunction(Results(s)')
  <2>1. Results(s) \in Versions /\ Results(s)' \in Versions
    BY <1>t, RowSets DEF TypeOK, Versions, Results
  <2>2. \A x \in Events : Results(s)[x] <= Results(s)'[x]
    <3>1. \A x \in Events : results[x] <= results'[x]
      BY ResultsGrow
    <3> QED
      BY <3>1, <1>t DEF Results
  <2> QED
    BY <2>1, <2>2, VersionOfRows, VersionGrows
<1> DEFINE old == [t \in Seasons |-> SumFunction(Results(t))]
           new == [t \in Seasons |-> SumFunction(Results(t)')]
<1>5. /\ new = [old EXCEPT ![s] = new[s]]
      /\ new[s] = SumFunction(Results(s)')
      /\ old[s] = SumFunction(Results(s))
  BY <1>3
<1>6. CASE new[s] > old[s]
  BY <1>1, <1>4, <1>5, <1>6 DEF Dataset!Record
<1>7. CASE new[s] = old[s]
  <2>1. new = old
    BY <1>5, <1>7
  <2> QED
    BY <1>1, <2>1 DEF Dataset!vars
<1> QED
  BY <1>4, <1>5, <1>6, <1>7

\* Refreshing is the refresh of a season with results, or of one with none,
\* which had no summary.
LEMMA RefreshMaps ==
    ASSUME RowsInv, NEW r \in Runs, RefreshTeamSeasonSummary(r)
    PROVE  \/ \E s \in Seasons : Dataset!Refresh(s)
           \/ UNCHANGED Dataset!vars
<1>t. TypeOK
  BY DEF RowsInv, OrderInv
<1> DEFINE s == local[r].season
<1>1. /\ \A t \in Seasons :
            summary'[t] = IF t = s THEN Results(t) ELSE summary[t]
      /\ UNCHANGED <<results, history>>
  BY <1>t, RefreshEffect
<1>2. \A t \in Seasons : Results(t)' = Results(t)
  BY <1>1 DEF Results
<1>3. s \in Seasons
  BY <1>t, RefreshEffect DEF RowsInv, Serial, Active
<1> HIDE DEF s
<1>4. /\ Results(s) \in Versions /\ summary[s] \in Versions
      /\ SumFunction(Results(s)) \in Nat /\ SumFunction(summary[s]) \in Nat
      /\ SumFunction(Results(s)) > 0 <=> HasRows(Results(s))
      /\ SumFunction(summary[s]) > 0 <=> HasRows(summary[s])
  BY <1>t, <1>3, RowSets, VersionOfRows
<1> DEFINE old == [t \in Seasons |-> SumFunction(summary[t])]
           new == [t \in Seasons |-> SumFunction(summary'[t])]
           res == [t \in Seasons |-> SumFunction(Results(t))]
<1>5. new = [old EXCEPT ![s] = res[s]]
  BY <1>1, <1>3
<1>6. res[s] = SumFunction(Results(s)) /\ old[s] = SumFunction(summary[s])
  BY <1>3
<1>7. CASE res[s] > 0
  BY <1>1, <1>2, <1>3, <1>5, <1>7 DEF Dataset!Refresh
<1>8. CASE res[s] = 0
  <2>1. old[s] = 0
    <3>1. ~HasRows(Results(s))
      BY <1>4, <1>6, <1>8
    <3>2. \A e \in Events : summary[s][e] <= Results(s)[e]
      BY <1>3 DEF RowsInv, TablesBehind
    <3>3. \A e \in Events : Results(s)[e] \in Nat /\ summary[s][e] \in Nat
      BY <1>4 DEF Versions
    <3>4. ~HasRows(summary[s])
      BY <3>1, <3>2, <3>3 DEF HasRows
    <3> QED
      BY <1>4, <1>6, <3>4
  <2>2. new = old
    BY <1>5, <1>8, <2>1
  <2> QED
    BY <1>1, <1>2, <2>2 DEF Dataset!vars
<1> QED
  BY <1>4, <1>6, <1>7, <1>8

\* A season is stale when it has a summary and is not the latest that has one.
LEMMA StaleIsNotLatest ==
    ASSUME TypeOK, NEW s \in Seasons
    PROVE  /\ Stale(s) <=> /\ SumFunction(summary[s]) > 0 /\ ~Dataset!IsLatest(s)
           /\ ~Stale(s) /\ ~Dataset!IsLatest(s) => SumFunction(summary[s]) = 0
<1> DEFINE old == [t \in Seasons |-> SumFunction(summary[t])]
<1>1. \A t \in Seasons :
          /\ SumFunction(summary[t]) \in Nat
          /\ SumFunction(summary[t]) > 0 <=> HasRows(summary[t])
  BY RowSets, VersionOfRows
<1>2. Dataset!IsLatest(s) <=>
          /\ SumFunction(summary[s]) > 0
          /\ \A t \in Seasons : SumFunction(summary[t]) > 0 => t <= s
  BY DEF Dataset!IsLatest
<1>3. s \in Nat /\ \A t \in Seasons : t \in Nat
  BY SeasonsAssumption
<1> QED
  BY <1>1, <1>2, <1>3 DEF Stale

\* Archiving is archiving.
LEMMA ArchiveMaps ==
    ASSUME TypeOK, ArchiveSeasons
    PROVE  Dataset!Archive
<1>1. \A s \in Seasons :
          /\ history'[s] = IF Stale(s) THEN summary[s] ELSE history[s]
          /\ summary'[s] = IF Stale(s) THEN NoVersions ELSE summary[s]
  BY DEF ArchiveSeasons
<1>2. \A s \in Seasons : Results(s)' = Results(s)
  BY DEF ArchiveSeasons, Results
<1>3. \A s \in Seasons :
          /\ SumFunction(history'[s]) =
                IF SumFunction(summary[s]) > 0 /\ ~Dataset!IsLatest(s)
                THEN SumFunction(summary[s]) ELSE SumFunction(history[s])
          /\ SumFunction(summary'[s]) =
                IF Dataset!IsLatest(s) THEN SumFunction(summary[s]) ELSE 0
  BY <1>1, StaleIsNotLatest, RowSets
<1> QED
  BY <1>2, <1>3 DEF Dataset!Archive

\* As long as runs come one after the other, ingestion is what the readers of
\* the tables take it for: the results of a season only get later versions, a
\* refresh brings the summary up to them, and archiving moves every season but
\* the latest in one step (record_event_results(),
\* refresh_team_season_summary(), archive_completed_seasons()).
THEOREM PipelineImplementsSeasonTables ==
    ASSUME MaxActive = 1
    PROVE  Spec => ImplementsSeasonTables
<1>1. Init => Dataset!Init
  <2> SUFFICES ASSUME Init PROVE Dataset!Init
    OBVIOUS
  <2>1. TypeOK
    BY RowsInit DEF RowsInv, OrderInv
  <2>2. \A s \in Seasons :
            summary[s] = NoVersions /\ history[s] = NoVersions /\ Results(s) = NoVersions
    BY DEF Init, EmptySeasonTable, Results, NoVersions
  <2> QED
    BY <2>1, <2>2, RowSets DEF Dataset!Init
<1>2. RowsInv /\ [Next]_vars => RowsInv'
  BY RowsStep
<1>3. ASSUME RowsInv, RowsInv', [Next]_vars
      PROVE  [Dataset!Next]_(Dataset!vars)
  <2>t. TypeOK
    BY <1>3 DEF RowsInv, OrderInv
  <2>1. CASE UNCHANGED <<results, summary, history>>
    <3>1. \A s \in Seasons : Results(s)' = Results(s)
      BY <2>1 DEF Results
    <3> QED
      BY <2>1, <3>1 DEF Dataset!vars
  <2>2. CASE \E r \in Runs : RecordEventResults(r)
    BY <1>3, <2>2, RecordMaps DEF Dataset!Next
  <2>3. CASE \E r \in Runs : RefreshTeamSeasonSummary(r)
    BY <1>3, <2>3, RefreshMaps DEF Dataset!Next
  <2>4. CASE ArchiveSeasons
    BY <2>t, <2>4, ArchiveMaps DEF Dataset!Next
  <2> QED
    BY <1>3, <2>t, <2>1, <2>2, <2>3, <2>4, TableSteps
<1> QED
  BY <1>1, <1>2, <1>3, RowsInit, PTL
  DEF Spec, ImplementsSeasonTables, Dataset!Spec

-----------------------------------------------------------------------------
(* Nothing stored is lost, runs overlapping or not                         *)

\* Once the rows of a season count an event, in the summary or in the history,
\* they count it for ever: no order in which runs record, refresh, backfill,
\* archive, fail or are killed makes an event vanish from its season.
StoredForGood ==
    [][\A s \in Seasons, e \in Events : Stored(s, e) => Stored(s, e)']_vars

\* What of StoredNeverRegresses is left when runs overlap: the data may go back
\* (the summary of a slower run is older), the event may not go away.
THEOREM StoredIsKeptForGood == Spec => StoredForGood
<1>1. KeepInv /\ [Next]_vars => KeepInv'
  BY KeepStep
<1>2. ASSUME KeepInv, [Next]_vars
      PROVE  \A s \in Seasons, e \in Events : Stored(s, e) => Stored(s, e)'
  <2>1. TypeOK /\ StoredRecorded /\ SummaryFirst
    BY <1>2 DEF KeepInv, CountInv, OrderInv
  <2> QED
    BY <1>2, <2>1, NothingLost
<1> QED
  BY <1>1, <1>2, KeepInit, PTL DEF Spec, StoredForGood

-----------------------------------------------------------------------------
(* When the history is frozen                                              *)

\* VEX lists the seasons in the order of their ids.
SeasonsInOrder ==
    \A s, t \in Seasons : s < t => SeasonMarker[s] <= SeasonMarker[t]

\* What season an incremental run may have, now or earlier: the configured one,
\* or one that VEX lists by now.
Offered(s) == IF ConfigSeasonId # NoSeason THEN s = ConfigSeasonId
                                           ELSE SeasonListed[s] <= now

\* Every run has had a season that was offered, and while one executes no rows
\* of a later season exist.
SeasonsAdvance ==
    /\ \A e \in Events : results[e] > 0 => Offered(EventSeason[e])
    /\ \A r \in Active :
          /\ Offered(local[r].season)
          /\ \A e \in Events : results[e] > 0 => EventSeason[e] <= local[r].season

\* An archived season is in the history only, and behind one in the summary.
ArchivedAreOver ==
    \A s \in Seasons : HasRows(history[s]) =>
        /\ ~HasRows(summary[s])
        /\ \E t \in Seasons : t > s /\ HasRows(summary[t])

FrozenInv ==
    /\ KeepInv
    /\ Serial
    /\ SeasonsAdvance
    /\ ArchivedAreOver

\* A season that was offered stays so.
LEMMA OfferedForGood ==
    ASSUME TypeOK, now <= now' , TypeOK', NEW s \in Seasons, Offered(s)
    PROVE  Offered(s)'
BY SeasonsAssumption DEF Offered, TypeOK

\* The season of an incremental run is the latest of those offered so far.
LEMMA LatestIsOffered ==
    ASSUME SeasonsInOrder, TypeOK, NEW r \in Runs, StartIncremental(r)
    PROVE  /\ local'[r].season \in Seasons
           /\ Offered(local'[r].season)
           /\ \A u \in Seasons : Offered(u) => u <= local'[r].season
<1>1. PICK s \in Seasons :
          /\ IF ConfigSeasonId # NoSeason THEN s = ConfigSeasonId
                                          ELSE LatestListedSeason(s)
          /\ StartRefreshRun(r, s, FALSE)
  BY DEF StartIncremental
<1>2. local'[r].season = s
  BY <1>1 DEF StartRefreshRun, TypeOK, NoLocal
<1>3. Offered(s)
  BY <1>1 DEF Offered, LatestListedSeason
<1>4. ASSUME NEW u \in Seasons, Offered(u) PROVE u <= s
  <2>1. u \in Int /\ s \in Int /\ SeasonMarker[u] \in Int /\ SeasonMarker[s] \in Int
    BY SeasonsAssumption
  <2>2. CASE ConfigSeasonId # NoSeason
    BY <1>1, <1>4, <2>1, <2>2 DEF Offered
  <2>3. CASE ConfigSeasonId = NoSeason
    <3>1. \/ SeasonMarker[u] < SeasonMarker[s]
          \/ SeasonMarker[u] = SeasonMarker[s] /\ u <= s
      BY <1>1, <1>4, <2>3 DEF Offered, LatestListedSeason
    <3>2. s < u => SeasonMarker[s] <= SeasonMarker[u]
      BY DEF SeasonsInOrder
    <3> QED BY <2>1, <3>1, <3>2
  <2> QED BY <2>2, <2>3
<1> QED BY <1>2, <1>3, <1>4

\* What a step of a run that has started does to its season and to the rows.
LEMMA AdvanceOwnStep ==
    ASSUME KeepInv, Serial, NEW r \in Runs, Step(r) \/ FailRefreshRun(r) \/ Crash(r)
    PROVE  /\ now' = now
           /\ pc[r] \notin {"new", "exited"}
           /\ pc'[r] \notin {"new", "exited"} => local'[r].season = local[r].season
           /\ \/ results' = results
              \/ \E x \in Events :
                    /\ EventSeason[x] = local[r].season
                    /\ \A e \in Events : e # x => results'[e] = results[e]
<1>t. TypeOK /\ RunOrder(r)
  BY DEF KeepInv, CountInv, OrderInv
<1>1. now' = now
  BY <1>t, SerialOwnStep
<1>2. CASE Quiet(r)
  BY <1>t, <1>1, <1>2, QuietEffect DEF tables
<1>3. CASE FetchBatch(r)
  BY <1>t, <1>1, <1>3, BatchEffect DEF tables
<1>4. CASE RecordEventResults(r)
  <2>1. PICK x \in Events :
            /\ x \in Pending(r)
            /\ results' = IF local[r].fetched[x] = 0 THEN results
                          ELSE [results EXCEPT ![x] = local[r].fetched[x]]
            /\ local'[r].season = local[r].season
            /\ pc[r] = "record"
    BY <1>t, <1>4, RecordEffect
  <2>2. EventSeason[x] = local[r].season
    BY <1>t, <2>1 DEF RunOrder, Handled
  <2>3. \A e \in Events : e # x => results'[e] = results[e]
    BY <1>t, <2>1 DEF TypeOK, Versions
  <2> QED BY <1>1, <2>1, <2>2, <2>3
<1>5. CASE RefreshTeamSeasonSummary(r)
  BY <1>t, <1>1, <1>5, RefreshEffect
<1>6. CASE ArchiveCompletedSeasons(r)
  BY <1>1, <1>6 DEF ArchiveCompletedSeasons, ArchiveSeasons
<1>7. CASE CompleteRefreshRun(r) \/ FailRefreshRun(r) \/ Crash(r)
  <2>1. /\ pc'[r] = "exited" /\ results' = results
        /\ pc[r] \notin {"new", "exited"}
    BY <1>t, <1>7
    DEF CompleteRefreshRun, FailRefreshRun, Crash, Exit, TypeOK, InTry, tables
  <2> QED BY <1>1, <2>1
<1> QED BY <1>2, <1>3, <1>4, <1>5, <1>6, <1>7 DEF Step, Quiet

\* Without backfills, runs only ever move on to later seasons.
LEMMA AdvanceStep ==
    ASSUME MaxActive = 1, BackfillSeasons = {}, SeasonsInOrder,
           FrozenInv, TypeOK', [Next]_vars
    PROVE  SeasonsAdvance'
<1>t. TypeOK /\ KeepInv /\ Serial /\ SeasonsAdvance
  BY DEF FrozenInv, KeepInv, CountInv, OrderInv
<1>n. \A e \in Events : EventSeason[e] \in Seasons /\ EventSeason[e] \in Int
  <2>1. EventSeason \in [Events -> Seasons]
    BY EventsAssumption
  <2>2. Seasons \subseteq Int
    BY SeasonsAssumption
  <2> QED BY <2>1, <2>2
<1>1. CASE Tick \/ ArchiveCommand \/ UNCHANGED vars
  <2>1. UNCHANGED <<pc, local, results>> /\ (now' = now \/ now' = now + 1)
    BY <1>1 DEF Tick, ArchiveCommand, ArchiveSeasons, vars, tables
  <2>2. now <= now'
    BY <1>t, <2>1 DEF TypeOK
  <2>3. Active' = Active /\ \A r \in Active : local[r].season \in Seasons
    BY <1>t, <2>1 DEF Serial, Active
  <2> QED BY <1>t, <1>n, <2>1, <2>2, <2>3, OfferedForGood DEF SeasonsAdvance
<1>2. ASSUME NEW r \in Runs,
             \/ StartIncremental(r) \/ StartBackfill(r) \/ Step(r)
             \/ FailRefreshRun(r) \/ Crash(r)
      PROVE  SeasonsAdvance'
  <2>1. Active' \subseteq {r}
    BY <1>2, <1>t, OthersIdle, OthersUnchanged DEF Active
  <2>2. ~StartBackfill(r)
    BY DEF StartBackfill
  <2>3. CASE StartIncremental(r)
    <3>1. UNCHANGED <<now, results>>
      BY <2>3, <1>t, SerialStart DEF tables
    <3>2. \A s \in Seasons : Offered(s)' <=> Offered(s)
      BY <3>1 DEF Offered
    <3>3. /\ local'[r].season \in Seasons
          /\ Offered(local'[r].season)
          /\ \A u \in Seasons : Offered(u) => u <= local'[r].season
      BY <2>3, <1>t, LatestIsOffered
    <3>4. Offered(local[r].season)'
      BY <3>1, <3>3 DEF Offered
    <3> QED BY <1>t, <1>n, <2>1, <3>1, <3>2, <3>3, <3>4 DEF SeasonsAdvance
  <2>4. CASE Step(r) \/ FailRefreshRun(r) \/ Crash(r)
    <3>1. /\ now' = now
          /\ r \in Active
          /\ r \in Active' => local'[r].season = local[r].season
          /\ \/ results' = results
             \/ \E x \in Events :
                   /\ EventSeason[x] = local[r].season
                   /\ \A e \in Events : e # x => results'[e] = results[e]
      BY <1>t, <2>4, AdvanceOwnStep DEF Active
    <3>2. \A e \in Events : results'[e] > 0 =>
              results[e] > 0 \/ EventSeason[e] = local[r].season
      BY <3>1
    <3>3. \A e \in Events : results'[e] > 0 =>
              Offered(EventSeason[e]) /\ EventSeason[e] <= local[r].season
      BY <1>t, <1>n, <3>1, <3>2 DEF SeasonsAdvance
    <3>4. Offered(local[r].season)
      BY <1>t, <3>1 DEF SeasonsAdvance
    <3>5. \A s \in Seasons : Offered(s)' <=> Offered(s)
      BY <3>1 DEF Offered
    <3>6. r \in Active' => Offered(local[r].season)'
      BY <3>1, <3>4 DEF Offered
    <3> QED BY <1>n, <2>1, <3>1, <3>3, <3>5, <3>6 DEF SeasonsAdvance
  <2> QED BY <1>2, <2>2, <2>3, <2>4
<1> QED BY <1>1, <1>2 DEF Next

\* The highest season with a summary exists, if any season has one.
LEMMA HighestSeason ==
    ASSUME TypeOK, StoredRecorded, NEW s \in Seasons, HasRows(summary[s])
    PROVE  \E t \in Seasons : s <= t /\ HasRows(summary[t]) /\ ~Stale(t)
<1> DEFINE S == {e \in Events : \E u \in Seasons : summary[u][e] > 0}
<1>1. IsFiniteSet(S)
  BY EventsAssumption, FS_Subset
<1>2. \A e \in Events : EventSeason[e] \in Int
  <2>1. EventSeason \in [Events -> Seasons]
    BY EventsAssumption
  <2>2. Seasons \subseteq Int
    BY SeasonsAssumption
  <2> QED BY <2>1, <2>2
<1> DEFINE value == [e \in S |-> EventSeason[e]]
<1>3. value \in [S -> Int]
  BY <1>2
<1>4. ASSUME NEW u \in Seasons, HasRows(summary[u])
      PROVE  \E e \in S : value[e] = u
  <2>1. PICK e \in Events : summary[u][e] > 0
    BY <1>4 DEF HasRows
  <2>2. e \in S /\ EventSeason[e] = u
    BY <2>1 DEF StoredRecorded, Stored
  <2> QED BY <2>2
<1>5. \A e \in S : value[e] \in Seasons /\ HasRows(summary[value[e]])
  BY DEF StoredRecorded, Stored, HasRows
<1> HIDE DEF S, value
<1>6. S # {}
  BY <1>4
<1>7. PICK e \in S : \A f \in S : value[f] <= value[e]
  BY <1>1, <1>3, <1>6, GreatestExists
<1>8. \A u \in Seasons : HasRows(summary[u]) => u <= value[e]
  BY <1>4, <1>7
<1>9. ~Stale(value[e])
  BY <1>3, <1>5, <1>8, SeasonsAssumption DEF Stale
<1> QED BY <1>5, <1>8, <1>9

\* Archived seasons stay over.
LEMMA ArchivedStep ==
    ASSUME FrozenInv, [Next]_vars
    PROVE  ArchivedAreOver'
<1>t. /\ TypeOK /\ StoredRecorded /\ SeasonsAdvance /\ ArchivedAreOver
      /\ Seasons \subseteq Int
  BY SeasonsAssumption DEF FrozenInv, KeepInv, CountInv, OrderInv
<1>1. CASE summary' = summary /\ history' = history
  BY <1>t, <1>1 DEF ArchivedAreOver, HasRows
<1>2. ASSUME NEW r \in Runs, RefreshTeamSeasonSummary(r) PROVE ArchivedAreOver'
  <2>1. /\ \A s \in Seasons :
              summary'[s] = IF s = local[r].season THEN Results(s) ELSE summary[s]
        /\ history' = history /\ r \in Active
    BY <1>t, <1>2, RefreshEffect DEF Active
  <2>2. ASSUME NEW t \in Seasons, HasRows(summary[t])
        PROVE  HasRows(summary'[t]) /\ t <= local[r].season
    <3>1. PICK e \in Events : summary[t][e] > 0
      BY <2>2 DEF HasRows
    <3>2. results[e] > 0 /\ EventSeason[e] = t
      BY <1>t, <3>1 DEF StoredRecorded, Stored
    <3>3. t <= local[r].season
      BY <1>t, <2>1, <3>2 DEF SeasonsAdvance
    <3>4. summary'[t][e] > 0
      BY <1>t, <2>1, <3>1, <3>2, StoredNumbers
    <3> QED BY <3>3, <3>4 DEF HasRows
  <2>3. ASSUME NEW s \in Seasons, HasRows(history[s])
        PROVE  /\ ~HasRows(summary'[s])
               /\ \E t \in Seasons : t > s /\ HasRows(summary'[t])
    <3>1. PICK t \in Seasons : t > s /\ HasRows(summary[t])
      BY <1>t, <2>3 DEF ArchivedAreOver
    <3>2. s # local[r].season
      BY <1>t, <2>2, <3>1
    <3>3. summary'[s] = summary[s] /\ ~HasRows(summary[s])
      BY <1>t, <2>1, <2>3, <3>2 DEF ArchivedAreOver
    <3> QED BY <2>2, <3>1, <3>3
  <2> QED BY <2>1, <2>3 DEF ArchivedAreOver, HasRows
<1>3. CASE ArchiveSeasons
  <2>1. \A s \in Seasons :
            \/ /\ Stale(s) /\ HasRows(summary[s])
               /\ history'[s] = summary[s] /\ summary'[s] = NoVersions
            \/ /\ ~Stale(s)
               /\ history'[s] = history[s] /\ summary'[s] = summary[s]
    BY <1>t, <1>3, ArchiveEffect
  <2>2. ~HasRows(NoVersions)
    BY DEF HasRows, NoVersions
  <2>3. ASSUME NEW s \in Seasons, NEW t \in Seasons, t > s, HasRows(summary[t])
        PROVE  \E u \in Seasons : u > s /\ HasRows(summary'[u])
    <3>1. PICK u \in Seasons : t <= u /\ HasRows(summary[u]) /\ ~Stale(u)
      BY <1>t, <2>3, HighestSeason
    <3>2. u > s /\ summary'[u] = summary[u]
      BY <1>t, <2>1, <2>3, <3>1
    <3> QED BY <3>1, <3>2
  <2>4. ASSUME NEW s \in Seasons, HasRows(history'[s])
        PROVE  /\ ~HasRows(summary'[s])
               /\ \E u \in Seasons : u > s /\ HasRows(summary'[u])
    <3>1. CASE Stale(s)
      <4>1. PICK t \in Seasons : t > s /\ HasRows(summary[t])
        BY <3>1 DEF Stale
      <4> QED BY <2>1, <2>2, <2>3, <3>1, <4>1
    <3>2. CASE ~Stale(s)
      <4>1. /\ history'[s] = history[s] /\ summary'[s] = summary[s]
        BY <2>1, <3>2
      <4>2. PICK t \in Seasons : t > s /\ HasRows(summary[t])
        BY <1>t, <2>4, <4>1 DEF ArchivedAreOver
      <4> QED BY <1>t, <2>3, <2>4, <4>1, <4>2 DEF ArchivedAreOver
    <3> QED BY <3>1, <3>2
  <2> QED BY <2>4 DEF ArchivedAreOver, HasRows
<1> QED BY <1>t, <1>1, <1>2, <1>3, TableSteps, RecordEffect

\* "Frozen snapshot ... it stays stable" (TeamSeasonHistoryRecord) is true of
\* a pipeline that never backfills and never overlaps, as long as VEX lists the
\* seasons in order (and the configured season, if any, stays the same): an
\* archived season is then never written again, crashes and the archive command
\* at any time included.  Each hypothesis is needed.
THEOREM FrozenWithoutBackfill ==
    ASSUME MaxActive = 1, BackfillSeasons = {}, SeasonsInOrder
    PROVE  Spec => HistoryFrozen
<1>1. Init => FrozenInv
  <2>1. Init => SeasonsAdvance /\ ArchivedAreOver
    BY DEF Init, NoVersions, EmptySeasonTable, SeasonsAdvance, ArchivedAreOver,
           HasRows, Active
  <2> QED BY <2>1, KeepInit, RowsInit DEF FrozenInv, RowsInv
<1>2. FrozenInv /\ [Next]_vars => FrozenInv'
  <2> SUFFICES ASSUME FrozenInv, [Next]_vars PROVE FrozenInv'
    OBVIOUS
  <2>1. KeepInv'
    BY KeepStep DEF FrozenInv
  <2>2. TypeOK /\ TypeOK' /\ Serial
    BY <2>1 DEF FrozenInv, KeepInv, CountInv, OrderInv
  <2>3. Serial'
    BY <2>2, SerialStep
  <2> QED BY <2>1, <2>2, <2>3, AdvanceStep, ArchivedStep DEF FrozenInv
<1>3. ASSUME FrozenInv, [Next]_vars
      PROVE  \A s \in Seasons : HasRows(history[s]) => history'[s] = history[s]
  <2>1. TypeOK /\ ArchivedAreOver
    BY <1>3 DEF FrozenInv, KeepInv, CountInv, OrderInv
  <2> QED
    BY <1>3, <2>1, TableSteps, RecordEffect, RefreshEffect, ArchiveEffect
    DEF ArchivedAreOver
<1> QED BY <1>1, <1>2, <1>3, PTL DEF Spec, HistoryFrozen
=============================================================================
