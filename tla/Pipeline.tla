------------------------------ MODULE Pipeline ------------------------------
(***************************************************************************)
(* The ingestion pipeline of VexDex: update_events() of update_stats.py    *)
(* and the tables of db.py it reads and writes.                            *)
(*                                                                         *)
(* A process of the model is one execution of `python update_stats.py`,    *)
(* started by the weekly cron or by hand.  Every database call is a        *)
(* transaction of its own, so every call is an action; a run may raise an  *)
(* exception or be killed between (instead of) any two of them.            *)
(*                                                                         *)
(* Data: the rows of an event are abstracted to the VERSION of the event's *)
(* data they were computed from (0: no match played, hence no row), and a  *)
(* season's row set to the versions of its events.                         *)
(***************************************************************************)
EXTENDS Integers, FiniteSetsExt

CONSTANTS
    Events,             \* every event VEX will ever list
    EventStart,         \* [Events -> Nat]
    EventEnd,           \* [Events -> Nat]
    EventSeason,        \* [Events -> Seasons]
    VexData,            \* the version of an event's data VEX shows at a time
    Seasons,            \* season ids
    SeasonListed,       \* when VEX starts to list a season
    SeasonMarker,       \* the end (else start) VEX gives for a season
    Runs,               \* executions of update_stats.py
    BackfillSeasons,    \* seasons somebody asks --season-backfill for
    ConfigSeasonId,     \* VEX_SEASON_ID, or NoSeason
    ConfigEventStart,   \* VEX_EVENT_START
    EventBatchSize,     \* VEX_EVENT_BATCH_SIZE
    MaxTime,            \* bound on the clock
    MaxActive,          \* bound on the runs executing at the same time
    NoEvent             \* "no event has been recorded"

NoSeason == 0

ASSUME SeasonsAssumption ==
    /\ Seasons \subseteq Nat \ {NoSeason}
    /\ BackfillSeasons \subseteq Seasons
    /\ ConfigSeasonId \in Seasons \cup {NoSeason}
    /\ SeasonListed \in [Seasons -> Nat]
    /\ SeasonMarker \in [Seasons -> Nat]

ASSUME EventsAssumption ==
    /\ IsFiniteSet(Events)
    /\ NoEvent \notin Events
    /\ EventStart \in [Events -> Nat]
    /\ EventEnd \in [Events -> Nat]
    /\ EventSeason \in [Events -> Seasons]

\* VEX never takes results back: the data of an event only grows.
ASSUME VexDataAssumption ==
    /\ VexData \in [Events -> [0..MaxTime -> Nat]]
    /\ \A e \in Events : \A t, u \in 0..MaxTime :
          t <= u => VexData[e][t] <= VexData[e][u]

\* load_app_config() refuses a batch size that is not positive.
ASSUME ConfigAssumption ==
    /\ ConfigEventStart \in Nat
    /\ EventBatchSize \in Nat \ {0}

ASSUME BoundsAssumption == MaxTime \in Nat /\ MaxActive \in Nat

VARIABLES
    now,            \* the wall clock
    events,         \* events: the ids that have an EventRecord
    lastProcessed,  \* events: the id whose processed_at is the latest
    results,        \* team_event_results: per event, the version of its rows
    summary,        \* team_season_summary: per season, the versions summarised
    history,        \* team_season_history: likewise
    rows,           \* dataset_refresh_runs: the row of each run
    pc,             \* where each run is in update_events()
    local           \* the local variables of each run

tables == <<events, lastProcessed, results, summary, history>>
vars == <<now, tables, rows, pc, local>>

-----------------------------------------------------------------------------
(* State *)

\* The places in the try block of update_events() at which a run can be.
InTry == {"processed_ids", "in_progress_ids", "last_updated", "oldest",
          "fetch_events", "fetch_batch", "record", "profiles", "progress",
          "refresh", "archive", "complete"}

Versions == [Events -> Nat]
NoVersions == [e \in Events |-> 0]

\* team_season_summary and team_season_history have the same columns.
EmptySeasonTable == [s \in Seasons |-> NoVersions]

\* What a run keeps in memory.  `now` is the time it read once at the start;
\* `todo` are the sorted events not yet handed out in a batch; `scored` are
\* the events the TrueSkill ratings have seen since reset_state().
LocalState ==
    [season : Seasons \cup {NoSeason}, entire : BOOLEAN, now : 0..MaxTime,
     processed : SUBSET Events, inProgress : SUBSET Events, start : Nat,
     todo : SUBSET Events, batch : SUBSET Events, fetched : Versions,
     scored : SUBSET Events, events_processed : Nat]

NoLocal ==
    [season |-> NoSeason, entire |-> FALSE, now |-> 0,
     processed |-> {}, inProgress |-> {}, start |-> 0,
     todo |-> {}, batch |-> {}, fetched |-> NoVersions,
     scored |-> {}, events_processed |-> 0]

Init ==
    /\ now = 0
    /\ events = {}
    /\ lastProcessed = NoEvent
    /\ results = NoVersions
    /\ summary = EmptySeasonTable
    /\ history = EmptySeasonTable
    /\ rows = [r \in Runs |-> [status |-> "none", events_processed |-> 0]]
    /\ pc = [r \in Runs |-> "new"]
    /\ local = [r \in Runs |-> NoLocal]

Active == {r \in Runs : pc[r] \notin {"new", "exited"}}

HasRows(versions) == \E e \in Events : versions[e] > 0

\* The versions team_season_summary is computed from for a season.
Results(season) ==
    [e \in Events |-> IF EventSeason[e] = season THEN results[e] ELSE 0]

\* A season whose summary is not the one of the highest season id present.
Stale(s) ==
    /\ HasRows(summary[s])
    /\ \E t \in Seasons : t > s /\ HasRows(summary[t])

\* What the API answers for a season: _season_model() reads the summary table
\* for the highest season present there and the history table for the others.
Served(s) ==
    IF HasRows(summary[s]) /\ ~Stale(s) THEN summary[s] ELSE history[s]

\* Mutant: the events are handed out in the order VEX lists them.
FirstBatches_Unsorted(todo) ==
    {b \in SUBSET todo : /\ Cardinality(b) <= EventBatchSize
                         /\ Cardinality(b) < EventBatchSize => b = todo}

\* The chronological first batch of a set of events, ties in any order.
FirstBatches(todo) ==
    {b \in SUBSET todo :
        /\ Cardinality(b) <= EventBatchSize
        /\ Cardinality(b) < EventBatchSize => b = todo
        /\ \A x \in b, y \in todo \ b : EventStart[x] <= EventStart[y]}

-----------------------------------------------------------------------------
(* Starting a run *)

StartRefreshRun(r, season, entire) ==
    /\ pc[r] = "new"
    /\ Cardinality(Active) < MaxActive
    /\ rows' = [rows EXCEPT ![r] = [status |-> "running", events_processed |-> 0]]
    /\ local' = [local EXCEPT ![r] = [NoLocal EXCEPT !.season = season,
                                                     !.entire = entire]]
    /\ pc' = [pc EXCEPT ![r] = "processed_ids"]
    /\ UNCHANGED <<now, tables>>

\* The season VEX lists with the greatest (end or start, id).
LatestListedSeason(s) ==
    /\ SeasonListed[s] <= now
    /\ \A t \in Seasons : SeasonListed[t] <= now =>
          \/ SeasonMarker[t] < SeasonMarker[s]
          \/ SeasonMarker[t] = SeasonMarker[s] /\ t <= s

StartIncremental(r) ==
    \E s \in Seasons :
        /\ IF ConfigSeasonId # NoSeason THEN s = ConfigSeasonId
                                        ELSE LatestListedSeason(s)
        /\ StartRefreshRun(r, s, FALSE)

StartBackfill(r) == \E s \in BackfillSeasons : StartRefreshRun(r, s, TRUE)

-----------------------------------------------------------------------------
(* Choosing what to fetch *)

\* The clock is read once, just before the first query.
GetProcessedEventIds(r) ==
    /\ pc[r] = "processed_ids"
    /\ local' = [local EXCEPT ![r].now = now, ![r].processed = events]
    /\ pc' = [pc EXCEPT ![r] = "in_progress_ids"]
    /\ UNCHANGED <<now, tables, rows>>

\* The recorded events that have not ended at time t.
InProgress(t) == {e \in events : EventEnd[e] >= t}

GetInProgressEventIds(r) ==
    /\ pc[r] = "in_progress_ids"
    /\ local' = [local EXCEPT ![r].inProgress = InProgress(local[r].now)]
    /\ pc' = [pc EXCEPT ![r] = IF local[r].entire THEN "fetch_events"
                                                  ELSE "last_updated"]
    /\ UNCHANGED <<now, tables, rows>>

\* Mutant: the checkpoint is the end of the event recorded last.
GetLastUpdatedEventStart_End(r) ==
    /\ pc[r] = "last_updated"
    /\ local' = [local EXCEPT ![r].start = IF lastProcessed = NoEvent
                                           THEN ConfigEventStart
                                           ELSE EventEnd[lastProcessed]]
    /\ pc' = [pc EXCEPT ![r] = "oldest"]
    /\ UNCHANGED <<now, tables, rows>>

GetLastUpdatedEventStart(r) ==
    /\ pc[r] = "last_updated"
    /\ local' = [local EXCEPT ![r].start = IF lastProcessed = NoEvent
                                           THEN ConfigEventStart
                                           ELSE EventStart[lastProcessed]]
    /\ pc' = [pc EXCEPT ![r] = "oldest"]
    /\ UNCHANGED <<now, tables, rows>>

\* Mutant: the lower bound is not moved back.
GetOldestInProgressEventStart_Ignored(r) ==
    /\ pc[r] = "oldest"
    /\ pc' = [pc EXCEPT ![r] = "fetch_events"]
    /\ UNCHANGED <<now, tables, rows, local>>

\* The lower bound moves back to the oldest event still in progress.
GetOldestInProgressEventStart(r) ==
    LET starts == {local[r].start} \cup
                  {EventStart[e] : e \in InProgress(local[r].now)}
    IN  /\ pc[r] = "oldest"
        /\ \E start \in starts :
              /\ \A other \in starts : start <= other
              /\ local' = [local EXCEPT ![r].start = start]
        /\ pc' = [pc EXCEPT ![r] = "fetch_events"]
        /\ UNCHANGED <<now, tables, rows>>

\* The events VEX returns for the query parameters of a run.
Listed(r) ==
    {e \in Events : /\ EventSeason[e] = local[r].season
                    /\ EventStart[e] <= local[r].now
                    /\ local[r].entire \/ EventStart[e] >= local[r].start}

\* Already processed and complete events are skipped; nothing left to do
\* goes straight to the "succeeded" row, past the summary and the archive.
FetchEvents(r) ==
    LET todo == {e \in Listed(r) : \/ e \notin local[r].processed
                                   \/ e \in local[r].inProgress}
    IN  /\ pc[r] = "fetch_events"
        /\ local' = [local EXCEPT ![r].todo = todo]
        /\ pc' = [pc EXCEPT ![r] = IF todo = {} THEN "complete" ELSE "fetch_batch"]
        /\ UNCHANGED <<now, tables, rows>>

-----------------------------------------------------------------------------
(* The batch loop *)

\* fetch_event_data(): rankings, matches, skills and awards, one version of them.
FetchEventData(e) == VexData[e][now]

\* One gather() over the batch; the data is what VEX shows at this moment.
FetchBatch(r) ==
    /\ pc[r] = "fetch_batch"
    /\ \E b \in FirstBatches(local[r].todo) :
          local' = [local EXCEPT ![r] = [@ EXCEPT
                      !.batch = b, !.todo = local[r].todo \ b,
                      !.fetched = [e \in Events |-> IF e \in b THEN FetchEventData(e)
                                                               ELSE 0]]]
    /\ pc' = [pc EXCEPT ![r] = "record"]
    /\ UNCHANGED <<now, tables, rows>>

Pending(r) == local[r].batch \ local[r].scored

\* process_matches(): one row per team, or none at all when nothing was played.
ProcessMatches(e, version) ==
    IF version = 0 THEN results ELSE [results EXCEPT ![e] = version]

\* Mutant: the events of a batch are scored as their data arrives.
RecordEventResults_AnyOrder(r) ==
    /\ pc[r] = "record"
    /\ \E e \in Pending(r) :
          /\ events' = events \cup {e}
          /\ lastProcessed' = e
          /\ results' = ProcessMatches(e, local[r].fetched[e])
          /\ local' = [local EXCEPT ![r].scored = @ \cup {e}]
          /\ pc' = [pc EXCEPT ![r] = IF Pending(r) = {e} THEN "profiles" ELSE "record"]
    /\ UNCHANGED <<now, summary, history, rows>>

\* Mutant: the loop over the batch does not advance.
RecordEventResults_Repeats(r) ==
    /\ pc[r] = "record"
    /\ \E e \in Pending(r) :
          /\ \A other \in Pending(r) : EventStart[e] <= EventStart[other]
          /\ events' = events \cup {e}
          /\ lastProcessed' = e
          /\ results' = ProcessMatches(e, local[r].fetched[e])
          /\ pc' = [pc EXCEPT ![r] = IF Pending(r) = {e} THEN "profiles" ELSE "record"]
    /\ UNCHANGED <<now, summary, history, rows, local>>

\* process_matches() and record_event_results() for the next event: the
\* EventRecord is written even when no match was played and no row results.
RecordEventResults(r) ==
    /\ pc[r] = "record"
    /\ \E e \in Pending(r) :
          /\ \A other \in Pending(r) : EventStart[e] <= EventStart[other]
          /\ events' = events \cup {e}
          /\ lastProcessed' = e
          /\ results' = ProcessMatches(e, local[r].fetched[e])
          /\ local' = [local EXCEPT ![r].scored = @ \cup {e}]
          /\ pc' = [pc EXCEPT ![r] = IF Pending(r) = {e} THEN "profiles" ELSE "record"]
    /\ UNCHANGED <<now, summary, history, rows>>

\* Profiles that cannot be fetched are skipped, so only the count matters here.
FetchMissingTeamProfiles(r) ==
    /\ pc[r] = "profiles"
    /\ local' = [local EXCEPT ![r].events_processed = @ + Cardinality(local[r].batch)]
    /\ pc' = [pc EXCEPT ![r] = "progress"]
    /\ UNCHANGED <<now, tables, rows>>

\* Mutant: the heartbeat is only written after the last batch.
UpdateRefreshRunProgress_Late(r) ==
    /\ pc[r] = "progress"
    /\ rows' = IF local[r].todo # {} THEN rows
               ELSE [rows EXCEPT ![r].events_processed = local[r].events_processed]
    /\ pc' = [pc EXCEPT ![r] = IF local[r].todo = {} THEN "refresh" ELSE "fetch_batch"]
    /\ UNCHANGED <<now, tables, local>>

UpdateRefreshRunProgress(r) ==
    /\ pc[r] = "progress"
    /\ rows' = [rows EXCEPT ![r].events_processed = local[r].events_processed]
    /\ pc' = [pc EXCEPT ![r] = IF local[r].todo = {} THEN "refresh" ELSE "fetch_batch"]
    /\ UNCHANGED <<now, tables, local>>

-----------------------------------------------------------------------------
(* Publishing *)

\* Mutant: the summary is built from the events of this run.
RefreshTeamSeasonSummary_RunOnly(r) ==
    /\ pc[r] = "refresh"
    /\ summary' = [summary EXCEPT ![local[r].season] =
                      [e \in Events |-> IF e \in local[r].scored THEN results[e] ELSE 0]]
    /\ pc' = [pc EXCEPT ![r] = "archive"]
    /\ UNCHANGED <<now, events, lastProcessed, results, history, rows, local>>

RefreshTeamSeasonSummary(r) ==
    /\ pc[r] = "refresh"
    /\ summary' = [summary EXCEPT ![local[r].season] = Results(local[r].season)]
    /\ pc' = [pc EXCEPT ![r] = "archive"]
    /\ UNCHANGED <<now, events, lastProcessed, results, history, rows, local>>

\* Mutant: stale rows are deleted without being copied.
ArchiveSeasons_DeleteOnly ==
    /\ summary' = [s \in Seasons |-> IF Stale(s) THEN NoVersions ELSE summary[s]]
    /\ UNCHANGED <<history, events, lastProcessed, results>>

\* Mutant: the highest season is archived with the others.
ArchiveSeasons_Latest ==
    /\ history' = [s \in Seasons |-> IF HasRows(summary[s]) THEN summary[s] ELSE history[s]]
    /\ summary' = EmptySeasonTable
    /\ UNCHANGED <<events, lastProcessed, results>>

\* Every season but the highest moves from the summary to the history table.
ArchiveSeasons ==
    /\ history' = [s \in Seasons |-> IF Stale(s) THEN summary[s] ELSE history[s]]
    /\ summary' = [s \in Seasons |-> IF Stale(s) THEN NoVersions ELSE summary[s]]
    /\ UNCHANGED <<events, lastProcessed, results>>

ArchiveCompletedSeasons(r) ==
    /\ pc[r] = "archive"
    /\ ArchiveSeasons
    /\ pc' = [pc EXCEPT ![r] = "complete"]
    /\ UNCHANGED <<now, rows, local>>

\* The end of a run: complete_refresh_run() and the process is gone.
Exit(r, status) ==
    /\ rows' = [rows EXCEPT ![r] = [status |-> status,
                                    events_processed |-> local[r].events_processed]]
    /\ pc' = [pc EXCEPT ![r] = "exited"]
    /\ local' = [local EXCEPT ![r] = NoLocal]
    /\ UNCHANGED <<now, tables>>

\* Mutant: a status the documentation does not know.
CompleteRefreshRun_Status(r) == pc[r] = "complete" /\ Exit(r, "success")

\* dataset_fresh is true of exactly the rows that say "succeeded".
CompleteRefreshRun(r) == pc[r] = "complete" /\ Exit(r, "succeeded")

\* An exception anywhere in the try block, before the effect of that step.
FailRefreshRun(r) == pc[r] \in InTry /\ Exit(r, "failed")

\* The process is killed (CI timeout, lost runner), or the except block
\* itself fails: nothing is written any more.
Crash(r) ==
    /\ pc[r] \in InTry
    /\ pc' = [pc EXCEPT ![r] = "exited"]
    /\ local' = [local EXCEPT ![r] = NoLocal]
    /\ UNCHANGED <<now, tables, rows>>

-----------------------------------------------------------------------------
(* The environment and the specification *)

\* update_stats.py --archive-completed-seasons, run by hand at any time.
ArchiveCommand == ArchiveSeasons /\ UNCHANGED <<now, rows, pc, local>>

Tick ==
    /\ now < MaxTime
    /\ now' = now + 1
    /\ UNCHANGED <<tables, rows, pc, local>>

\* The steps a run takes when nothing goes wrong, once it has started.
Step(r) ==
    \/ GetProcessedEventIds(r) \/ GetInProgressEventIds(r)
    \/ GetLastUpdatedEventStart(r) \/ GetOldestInProgressEventStart(r)
    \/ FetchEvents(r) \/ FetchBatch(r) \/ RecordEventResults(r)
    \/ FetchMissingTeamProfiles(r) \/ UpdateRefreshRunProgress(r)
    \/ RefreshTeamSeasonSummary(r) \/ ArchiveCompletedSeasons(r)
    \/ CompleteRefreshRun(r)

Next ==
    \/ Tick
    \/ ArchiveCommand
    \/ \E r \in Runs : \/ StartIncremental(r) \/ StartBackfill(r)
                       \/ Step(r) \/ FailRefreshRun(r) \/ Crash(r)

Spec == Init /\ [][Next]_vars

\* A started run is scheduled until its process ends; that runs are started,
\* fail or are killed is never assumed.
FairSpec == Spec /\ \A r \in Runs : WF_vars(Step(r))
-----------------------------------------------------------------------------
(* Invariants *)

\* Every variable has its type (columns of db.py, locals of update_events()).
TypeOK ==
    /\ now \in 0..MaxTime
    /\ events \subseteq Events
    /\ lastProcessed \in events \cup {NoEvent}
    /\ results \in Versions
    /\ summary \in [Seasons -> Versions]
    /\ history \in [Seasons -> Versions]
    /\ rows \in [Runs -> [status : {"none", "running", "succeeded", "failed"},
                          events_processed : Nat]]
    /\ pc \in [Runs -> InTry \cup {"new", "exited"}]
    /\ local \in [Runs -> LocalState]

\* No event of a later season is recorded.
Newest(season) == \A e \in events : EventSeason[e] <= season

\* What a query from ConfigEventStart (or, for a backfill, from the start of
\* the season) up to time t has to bring in.
InScope(season, entire, t) ==
    {e \in Events : /\ EventSeason[e] = season
                    /\ EventStart[e] <= t
                    /\ entire \/ EventStart[e] >= ConfigEventStart}

\* Incremental runs fetch from the start of the event recorded last, and
\* never look before it again.  So at every moment, a run killed halfway
\* included, no event of the newest season may be missing before a recorded
\* one (db.py get_last_updated_event_start, the sort in update_events()).
NoHoleBehindCheckpoint ==
    \A e \in events : Newest(EventSeason[e]) =>
        \A x \in Events :
            /\ EventSeason[x] = EventSeason[e]
            /\ ConfigEventStart <= EventStart[x]
            /\ EventStart[x] < EventStart[e]
            => x \in events

\* TrueSkill is a running belief: across batch boundaries, nothing a run still
\* has to score starts before anything it has scored (update_events()).
ScoredInChronologicalOrder ==
    \A r \in Runs : \A x \in local[r].scored, y \in Pending(r) \cup local[r].todo :
        EventStart[x] <= EventStart[y]

\* A run killed at any point leaves a row whose progress is true and at most
\* one batch behind what it recorded (update_refresh_run_progress()).
ProgressAccurate ==
    \A r \in Active :
        /\ rows[r].events_processed <= Cardinality(local[r].scored)
        /\ Cardinality(local[r].scored) <= rows[r].events_processed + EventBatchSize

-----------------------------------------------------------------------------
(* Properties of steps *)

\* The step by which run r reports success.
Succeeds(r) == rows[r].status = "running" /\ rows'[r].status = "succeeded"

\* A run that succeeds leaves no event of its season out: whatever VEX listed
\* when it started is recorded, however earlier runs failed.  (An incremental
\* run relies on the checkpoint, hence only for the newest season.)
SuccessLeavesNoGap ==
    [][\A r \in Runs : Succeeds(r) =>
          LET l == local[r]
          IN  l.entire \/ Newest(l.season) =>
                  InScope(l.season, l.entire, l.now) \subseteq events]_vars

\* A run that succeeds has brought every event of its season that was new or
\* still in progress when it started up to the data VEX had at that time.
SuccessRefreshesLiveEvents ==
    [][\A r \in Runs : Succeeds(r) =>
          LET l == local[r]
          IN  \A e \in Events :
                  /\ EventSeason[e] = l.season
                  /\ EventStart[e] <= l.now
                  /\ e \in events
                  /\ e \notin l.processed \/ EventEnd[e] >= l.now
                  => results[e] >= VexData[e][l.now]]_vars

\* When runs do not overlap, a run that recorded anything succeeds only when
\* the API answers for its season from exactly the rows now stored
\* (refresh_team_season_summary(), archive_completed_seasons(), _season_model()).
SuccessPublishes ==
    [][\A r \in Runs : Succeeds(r) /\ local[r].scored # {} =>
          Served(local[r].season) = Results(local[r].season)]_vars

\* Overlapping runs: whatever the other run records, refreshes or archives in
\* between, the events of a run's last batch are among those its season's rows
\* were computed from, in one table or the other, when it succeeds.
SuccessKeepsScored ==
    [][\A r \in Runs : Succeeds(r) =>
          \A e \in local[r].scored :
              local[r].fetched[e] > 0 =>
                  \/ summary[local[r].season][e] > 0
                  \/ history[local[r].season][e] > 0]_vars

\* Archiving and refreshing never lose an event a season's rows were computed
\* from, nor go back to older data: neither a crash between refresh and
\* archive, nor a backfill, nor the archive command at any time.
StoredNeverRegresses ==
    [][\A s \in Seasons, e \in Events :
          \/ summary'[s][e] >= summary[s][e] /\ history'[s][e] >= history[s][e]
          \/ history'[s][e] >= summary[s][e] /\ history'[s][e] >= history[s][e]]_vars

-----------------------------------------------------------------------------
(* Liveness *)

\* A run that has started ends: the batch loop makes progress every time round.
RunsEnd == \A r \in Runs : pc[r] # "new" ~> pc[r] = "exited"

-----------------------------------------------------------------------------
(* What the documentation says and the code does not do *)

\* README: "Re-fetches events that were previously processed while still in
\* progress."  An incremental run succeeds only when every event it found
\* already processed has the data VEX showed when the run started.
SuccessLeavesNothingPartial ==
    [][\A r \in Runs : Succeeds(r) /\ Newest(local[r].season) =>
          \A e \in local[r].processed :
              EventSeason[e] = local[r].season =>
                  results[e] >= VexData[e][local[r].now]]_vars

\* README: "Writes one immutable row per team per event into
\* team_event_results, then rebuilds team_season_summary from those rows", and
\* a succeeded run marks the dataset fresh: the summary is then up to date.
FreshMeansSummaryCurrent ==
    [][\A r \in Runs : Succeeds(r) =>
          Served(local[r].season) = Results(local[r].season)]_vars

\* TeamSeasonHistoryRecord: "Frozen snapshot ... it stays stable even if a
\* past season's event results were ever revisited".
HistoryFrozen ==
    [][\A s \in Seasons : HasRows(history[s]) => history'[s] = history[s]]_vars

\* _season_model(): every season-scoped route "keeps working transparently
\* whether the season is live or archived".
SeasonAlwaysServed ==
    [][\A s \in Seasons : HasRows(Served(s)) => HasRows(Served(s)')]_vars

-----------------------------------------------------------------------------
(* Refinement *)

\* Seasons do not overlap: an event of a later season starts no earlier.  The
\* checkpoint is not filtered by season, so it is only sound under this.
SeasonsDisjoint ==
    \A x, y \in Events : EventSeason[x] < EventSeason[y] =>
        EventStart[x] <= EventStart[y]

\* The recorded events form a chronological ledger.
Ledger == INSTANCE ChronologicalLedger WITH ledger <- events,
                                            ScopeStart <- ConfigEventStart
ImplementsLedger == Ledger!Spec

\* The readers' view of the tables: the version of a season is the sum of the
\* versions of its events, which is 0 without rows and grows with any of them.
Dataset == INSTANCE SeasonTables WITH
               results <- [s \in Seasons |-> SumFunction(Results(s))],
               summary <- [s \in Seasons |-> SumFunction(summary[s])],
               history <- [s \in Seasons |-> SumFunction(history[s])]

\* What the API takes for granted of ingestion (every commit of db.py it can
\* see), as long as runs come one after the other: no refresh, archive, crash or
\* backfill takes a season's rows back or shows two seasons half moved.
ImplementsSeasonTables == Dataset!Spec
=============================================================================
