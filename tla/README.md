# A TLA+ verification of VexDex

VexDex collects VEX robotics results: a weekly job (`update_stats.py`) fetches
events from the VEX Events API, scores them and stores the results in Postgres;
a FastAPI service (`api.py`) serves them. This directory models the parts of the
program whose correctness depends on order, on failure and on concurrency,
checks the models with TLC on small instances, and proves the central
properties with TLAPS for every instance.

## 1. Inventory

| component | state | operations | interacts with | what is hard | what makes it correct |
|---|---|---|---|---|---|
| Pipeline orchestration (`update_stats.py`) | local variables of `update_events()` | pick a season, query, filter, sort, batches, publish, succeed or fail | tables (calls), HTTP client, event scoring | killed or failing at any step; cron and manual runs overlap; the set of events changes between runs | no event is left out, scoring order, honest run rows, success means fresh |
| Pipeline tables (`db.py` 311-819) | `events`, `team_event_results`, `team_season_summary`, `team_season_history`, `dataset_refresh_runs`, `teams`, `team_awards` | one transaction per helper | orchestration, API | every call commits by itself; rows are merged | nothing lost, nothing goes back, the checkpoint is sound |
| Season archive and table choice (`db.py` 688-729, `api.py` 396-403) | summary and history | move every season but the newest; choose the table to read | orchestration, API | rollover, backfill of an old season, crash between refresh and archive | a season's rows are in exactly the table that is read |
| VEX HTTP client (`fetch_vex.py`) | one Playwright driver and context, a semaphore, a lock | `get`, retry, discard, `close` | rate limiter, tokens | many coroutines find the driver dead at once; `gather()` fails early | no driver leak, recovery not undone, every request ends |
| Rate limiter (`rate_limiter.py`) | credit, time of the last refill, a lock | `acquire` | HTTP client | lock held across a sleep; late wake-ups | never above the rate, nobody starves |
| Token rotation (`tokens.py`) | cycle, cooldowns | `get_token`, `mark_rate_limited` | HTTP client | choice goes stale during the wait | a cooling token is used only when all are cooling |
| Event scoring (`tournament_stats.py`, `match.py`, `skill.py`, `award.py`, `team_stats.py`) | global TrueSkill ratings | `reset_state`, `fetch_event_data`, `process_matches` | orchestration | order; partial data; floating point | chronological order, records add up |
| Season ranks (`db.py` 535-678) | none (pure) | ranks, region ranks, percentiles, pick list | refresh | ties, one team, no region, rows kept from earlier refreshes | the columns of a leaderboard agree with the numbers and with each other |
| Team identity (`db.py` 325-418, `update_stats.py` 104-130) | `teams` | merge from results, merge from profiles | orchestration | two writers of one row | a profile, once fetched, is not lost |
| Read API (`api.py` 389-703) | none | season, team, trend, award, pick-list and run queries | tables | several statements per request | count, page and table agree |
| Response cache and API tokens (`api.py` 47-135, `db.py` 822-901, `manage_tokens.py`) | LRU with TTL; `api_tokens` | get, put, verify, mint, revoke | read API | put after an archive; revocation against a hit | bound, TTL, no answer after revocation |
| Configuration, parsing, deployment | none | | | | |

The hazards these parts are exposed to are listed, each at its line, in
`PROJECT.json` ("hazards"), with the properties that would catch them.

## 2. Modules

```
ChronologicalLedger      what ingestion promises of the recorded events (abstract)
SeasonTables             what it promises the readers of the tables (abstract)
   ^ implemented by
Pipeline      <- PipelineProofs            MCPipeline       (6 configurations)
   |              ^ EXTENDS
   |              PublishingProofs -> SumTheorems
   | an event's "version" there is, row by row, the subject of
TeamSeason    <- TeamSeasonProofs -> SumTheorems   MCTeamSeason  (1)
   | EXTENDS
SeasonRanks

RateLimiter   <- RateLimiterProofs         MCRateLimiter    (1)
FetchVex      <- FetchVexProofs            MCFetchVex       (2)
TokenRotation <- TokenRotationProofs       MCTokenRotation  (1)

Api           <- ApiProofs                 MCApi            (1)
   | its tables are
SeasonTables
```

Operators whose name ends in `_Something` right before a definition are its
mutants: the definition with one plausible bug. Each property of each run is
violated when one of them takes the place of the definition.

### Pipeline

A process is one execution of `python update_stats.py`. Every database helper
opens and commits a session of its own, so every helper call is one action, and
`Crash` (CI time limit, lost runner) or `FailRefreshRun` (an exception, caught
by the `except` of `update_events()`) may come instead of any of them.

| state | code |
|---|---|
| `events`, `lastProcessed` | ids in `events`, and the one with the greatest `processed_at` |
| `results` | `team_event_results`: per event the *version* of VEX's data its rows were computed from; 0 is "no row" (no match played: `process_matches()` returns `[]`, yet the `EventRecord` is written) |
| `summary`, `history` | the two season tables: per season the versions its rows were computed from |
| `rows` | `dataset_refresh_runs` (status and `events_processed`; `dataset_fresh` is `status == "succeeded"`) |
| `local`, `pc` | variables and place of a run in `update_events()` |
| `now` | the clock; a run reads it once |

`StartIncremental` and `StartBackfill` are the two ways to start (season choice
and `start_refresh_run()` in one step: the run touches no table before its row).
`GetProcessedEventIds` .. `GetOldestInProgressEventStart` are the four queries,
`FetchEvents` the VEX query with the filter and the early success,
`FetchBatch` / `RecordEventResults` / `FetchMissingTeamProfiles` /
`UpdateRefreshRunProgress` the batch loop (recording is one action per event,
the order of the sort, ties in any order), then `RefreshTeamSeasonSummary`,
`ArchiveCompletedSeasons` and `CompleteRefreshRun`. `ArchiveCommand` is
`--archive-completed-seasons`, at any time. `Served` is what `_season_model()`
lets the API see.

Abstractions: an event's data is one version, read at one moment when its batch
is fetched (what the rows say is module TeamSeason); team, award and profile
rows are below the abstraction (so the profile step only counts); VEX lists an event from its start on and its data
only grows (`VexDataAssumption`); a query of VEX is one step.

### ChronologicalLedger

The contract of ingestion on the recorded events alone: an event of the newest
season is recorded only when no earlier event of that season is missing. That
is exactly what makes "start from the start of the event recorded last" sound.
`Pipeline` implements it with `ledger <- events`.

### SeasonTables

The contract of ingestion with whoever reads the season tables: a season's rows
are one version, results only reach later ones, a refresh makes the summary of a
season that has results equal to them, an archive moves every season but the
latest to the history, all in one step. `Pipeline` implements it with the sum of
the versions of a season's events as the version of the season (0 exactly when
there is no row, larger when any event's is); `Api` runs beside it.

### RateLimiter

`TokenBucket`. Credit is counted in units of time (rate 1, an acquisition costs
`Cost`), time is relative, so the state space is finite without a bound on
time. `meter` is an auxiliary variable: an independent leaky bucket that says
what "within the rate" means. The environment may resume a sleeper late.

### FetchVex

`get()`, `_get_request_context()`, `_discard_request_context()`, `close()` and
the part of `main()` that calls it. Actions are the stretches between awaits.
The driver is numbered, so that "the context that failed" and "the cached
context" can differ. Crashed drivers, raised calls, 4xx, 429 and 5xx are
bounded by `MaxFailures`; drivers by `MaxDrivers` (more than the failures can
call for, so it never blocks). Durations and tokens are in TokenRotation;
the pages of `fetch_data()` are independent calls of `get()`.

| state | code |
|---|---|
| `playwright`, `context` | `_playwright`, `_request_context` |
| `running`, `started` | the driver processes |
| `pc`, `own` | a task's place in `get()`, and its `request_context` |
| `main`, `doomed` | where `main()` and `close()` are |
| `orphans`, `breakdowns` | history variables: drivers whose `new_context()` or `stop()` raised; how often a driver or its connection broke |

The response and its body are read at different awaits (`Respond`, `ReadBody`):
the body is read outside the `try`, so a driver stopped in between ends the task
with an exception. `stop()` of a dead driver may raise and is swallowed
(`StopRaises`); `dispose()` or `stop()` in `close()` may raise and the rest of
`close()` is skipped (`CloseRaises`). `Break` counts what breaks a driver apart
from other failures (`Fail`), such as a 429: `OneDriverPerBreakdown` says that only
the former ever cost a new driver process.

### TokenRotation

The retry loop of `get()` as the tokens see it, for any number of coroutines:
`GetToken` is the whole of `get_token()` (it has no await: one action), `Send`
comes any time later (the rate limiter is in between, so the choice may be stale
by then), and the answer is `RateLimited` (`mark_rate_limited()` and the sleep,
both with the larger of the server's wait and the back-off), `ServerError` or
`Return`. `Retry` doubles the back-off up to its limit.

| state | code |
|---|---|
| `next` | where `token_cycle` stands |
| `cooldown` | what is left of `_cooldown_until`, per token |
| `token`, `backoff`, `sleep` | local variables of `get()` |
| `mandated`, `rested`, `passed`, `desperate`, `late` | history variables, for the properties only |

`FallBack` leaves `next` where it was: the scan has gone around exactly once.
Time is relative, so the state space is finite without a bound on time. Tokens
are taken to be distinct, and the default back-off to be at least one tick (it
is 5 seconds; nobody passes another).

### SeasonRanks and TeamSeason

One season's rows. `SeasonRanks` has the ranking rules as operators: a place is
one more than the number of teams that sort before, and a region's places are
the places among the teams of the region. `TeamSeason` has the process that
fills the tables, one event at a time, and may die between any two calls.

| state | code |
|---|---|
| `pc`, `todo`, `seen` | place in `update_events()`, the events still to score, the teams of the batch |
| `ratings` | the dict of `tournament_stats.py`; gone with the process |
| `teams` | `team_num`, `region` and whether `profile_fetched_at` is set |
| `results` | `team_event_results`: records, skills, qualifications, rating snapshot and `created_at` per event and team |
| `summary` | `team_season_summary`: sums, bests, all ranks and the percentile |

`RecordEventResults` is `process_matches()` followed by
`record_event_results()`; `Payloads` says what VEX may answer for an event, any
of them at any fetch; a team plays on one side of a match. `Played` is `Match.from_json()` and the filter on
`played`; `QualRecord` takes the rankings at their word, `ElimRecord` counts
matches. `RefreshTeamSeasonSummary` is the whole refresh: `SkillsRank` has the
detail that a team without a skills total keeps what its row had (the columns
are not set, and `session.merge()` keeps them). Which events are to do is left
open (`Pipeline` says which), and runs do not overlap.

Abstracted: a rating is the integer it exposes and `Outcomes` what rating an
event may do to its players; team numbers are integers that sort as the strings.

### Api

One worker of the API. A place of a request (`pc`) is where it awaits: a
statement of the database, or the lock of the cache. A statement sees what is
committed at that moment (Postgres's default isolation), so ingestion may commit
between any two statements of a request. Rows are `<<season, version>>`; that is
enough to tell an empty page, an old one and the wrong table apart.

| state | code |
|---|---|
| `results`, `summary`, `history`, `runs` | the tables a route reads |
| `status` | `api_tokens`: no row, active, `revoked_at` set |
| `cache` | `_response_cache` in the order of the `OrderedDict`, each entry with the ticks it has left |
| `call` | local variables of a request; `owed` and `before` are history variables |

`CacheMiss`/`CacheHit`/`VerifyHit` are the fast path of the middleware,
`Authenticate`/`Refuse` the dependency, `Touch` the commit of `last_used_at`
(a statement of its own, hence the race with `RevokeApiToken`), `FindEvent` to
`ReadRuns` the statements of the routes (an event may be on record, and found,
before any match of it is played), `Respond` the store. Ingestion is what
the API can see of it: any step of `SeasonTables`, of any season in any order,
and new rows of refresh runs. `Pipeline` implements `SeasonTables` as long as
its runs do not overlap, so that is what the properties of the API rest on; when
two runs overlap the data of a season may go back (section 3), and then a page
may be behind its total. `Scenario` bounds a behaviour: which clients
ask for which routes with which tokens, and how often a season changes.

## 3. Runs

`MCPipeline` has four events and two seasons: `e1`, a league that stays in
progress while `e2` and `e3` are played, and `e4`, which opens the next season
at the time `e3` starts. That gives: an event before the checkpoint that is
still growing, two events to be put in order across a batch boundary (batch size
2, three events in the season), a tie between seasons, a rollover, an event with
no match played yet, and a past season to backfill. Time runs to 3, past the end
of everything. Three runs are enough for: a run that dies, one that repairs or
hides it, one that looks.

| run | instance | shows |
|---|---|---|
| PipelineSerial | 3 runs, one at a time | `TypeOK`, `NoHoleBehindCheckpoint`, `ScoredInChronologicalOrder`, `ProgressAccurate`, `SuccessLeavesNoGap`, `SuccessRefreshesLiveEvents`, `SuccessPublishes`, `StoredNeverRegresses`, `ImplementsSeasonTables` |
| PipelineOverlap | 2 runs at once, fair | `SuccessKeepsScored`, `ImplementsLedger`, `RunsEnd` |
| RateLimiter | 3 coroutines, burst of 1.5 | `TypeOK`, `Paced`, `SleepSuffices`, `EveryCallerServed` |
| FetchVex | 3 requests, 2 slots, 2 failures | `TypeOK`, `OneDriverPerBreakdown`, `DriversAccountedFor`, `FreshContextKept`, `EveryFetchEnds` |
| TokenRotation | 3 coroutines, 2 tokens | `TypeOK`, `TurnComes`, `MandatedWaitHonored`, `LimitedTokenRests`, `OncePerCooldown` |
| TeamSeason | 4 teams, 2 events, 3 recordings | `TypeOK`, `RecordsBalance`, `RanksConsistent`, `LatestSnapshot`, `PlacedForGood` |
| Api | 2 requests, 2 tokens, 2 seasons, a cache of 1 | `TypeOK`, `CacheBounded`, `RevokedTokenGetsNothing`, `ActiveTokenNotRefused`, `SeasonListComplete`, `OwedSeasonFound`, `PageNotBehindTotal`, `RevocationIsFinal`, `AnswersBecomeCurrent` |

`SuccessRefreshesLiveEvents`, `SuccessPublishes`, `StoredNeverRegresses` and
`ImplementsSeasonTables` are checked only for runs that do not overlap: with two
runs at once the older data may be written over the newer one, and nothing in
the code or its documents says otherwise. Under the hypothesis `MaxActive = 1`
they are proved for every instance; what is left of them when runs overlap is
`StoredForGood` (section 5). `SuccessLeavesNoGap`, `ScoredInChronologicalOrder`,
`ProgressAccurate` and `NoHoleBehindCheckpoint` hold for overlapping runs too:
that is proved (section 5). The runs of the model are symmetric; the symmetry
is used in every Pipeline configuration but `PipelineOverlap`, which checks
liveness, where it would not be sound.

TokenRotation: more callers than tokens, so that every token can be cooling
down while somebody still chooses; and the longest wait the server asks for (3)
exceeds the longest back-off (2), which exceeds the default (1): a cooldown can
be overwritten by a shorter and by a longer one.

TeamSeason: two payloads per event that differ in everything that matters - a
final not yet started with unfilled slots, then played to a draw; a team that
leaves the rankings, a skills run taken back, qualifications that come later;
an event with nothing played. Three recordings allow each event once and one of
them again, in the same process or a later one, before or after a refresh. Two
teams in one region, one in another and one without; ratings of 0 and 1 make
ties. The number of recordings is bounded, so deadlock is not checked there.

Api: two requests at a time are what it takes for one to store, evict or be
refused while another is on its way; a cache of one entry makes every store an
eviction; a TTL of two ticks lets an entry be hit, then age, then be hit again.
Two seasons give a rollover, a backfill of the old one and an archive; the
scenarios separate tokens, cache and season reads to keep the product small.

No run checks deadlock in the HTTP client, which stops when `close()` is done;
the pipeline, the limiter, the tokens and the API can always take a step.

### Where the code and its documents disagree

Each of these runs checks one documented statement and TLC refutes it. Details
and quotations are in `PROJECT.json` ("findings").

| run | statement | what happens |
|---|---|---|
| PipelinePartial | README: events processed while in progress are fetched again | not if they end before the next run: partial results stay for ever |
| PipelineStale | README: fresh means the summary was rebuilt | a run that died after recording, then one with nothing to do: "succeeded" over an old summary |
| PipelineFrozen | `TeamSeasonHistoryRecord`: a frozen snapshot | a backfill rewrites it |
| PipelineServed | `_season_model()`: works transparently whether live or archived | between refresh and archive of a rollover the old season is in neither place the API looks |
| FetchVexClose | `close()`: after all `fetch_data()` calls have completed | `gather()` raises with the first failure while the others go on |

Three smaller disagreements were met while modelling and have no run. A team
whose only skills run VEX takes back keeps its old skills ranks in
`team_season_summary`, which `db.py:430` calls "Purely derived" (`db.py:569`
assigns ranks only to teams with a total, and the row is merged). `team_event_results`
is described as "Never updated after insert" (`db.py:62`), and is merged over
when an event is fetched again. The comment "neutral 50 if no skills data"
(`db.py:188`) describes a pick-list score that in fact redistributes the weight
(`db.py:664`).

`PipelinePartial` and `PipelineStale` run without backfills, which would
otherwise give a second way to the same violation; `PipelineStale` lets the
clock run to 4, so that the event of the run that died is over.

## 4. Fairness

- Pipeline: weak fairness of `Step(r)`, the steps of a run that has started. The
  process is sequential; nothing is assumed about runs being started, failing,
  or about the clock. It excludes a VEX request that never returns: the HTTP
  client's own liveness is the subject of FetchVex.
- RateLimiter: weak fairness of time and of the steps of each coroutine (the
  asyncio loop runs whatever is ready); the lock is first come, first served, as
  asyncio's is. Nobody has to call `acquire()`.
- TokenRotation and TeamSeason have safety properties only.
- Api: weak fairness of the clock and of the steps of each request (the server
  runs what is ready, and a statement returns). Nobody has to ask and nothing
  has to be ingested; `AnswersBecomeCurrent` is about behaviours in which
  ingestion stops.
- FetchVex: strong fairness of each task's steps, since asyncio's lock and
  semaphore are handed out in the order of asking, which the model does not
  queue explicitly; weak fairness of `close()`. Failures are never required, and
  finitely many: with infinitely many 5xx answers `get()` retries for ever by
  design.

## 5. Proofs

The `*Proofs` modules are checked by TLAPS to the last leaf, from the named
assumptions on the constants only. For each theorem the module has the
inductive invariant, a lemma that the initial states have it, one lemma per
action (or group of actions) that it is kept, and the temporal conclusion.

**Scoring order** (`ScoringIsChronological`). `ScoredInChronologicalOrder` is not
inductive: it says nothing of the relation between the batch being scored and
the events still to come. `OrderInv` adds, for each run: nothing is in its hands
before the loop (`Fresh`), nothing is pending when a batch is taken or the loop
is left (`Drained`), scored before batch before rest (`InOrder`), and what it
handles was in its query and what it scored is recorded (`Handled`).

**Progress row** (`ProgressIsAccurate`). `CountInv` adds to `OrderInv` how the
row is related to the batch: while a batch is scored the row counts what was
scored before it, and a batch is never larger than `EventBatchSize` and disjoint
from what is left. Cardinalities are compared, never computed.

**Checkpoint and completeness** (`CheckpointIsSound`, `SuccessIsComplete`,
`PipelineImplementsLedger`). `CoversInv` adds to `OrderInv`: the lower bound a
run has computed misses nothing (`StartCovers`), and whatever is in its scope is
recorded, in the batch or in the rest (`TodoCovers`). Recording in order then
keeps `NoHoleBehindCheckpoint`, which in turn is what makes the next bound
sound: the two have to be proved together. All three theorems hold for any
number of overlapping, failing and killed runs, and assume `SeasonsDisjoint`: an
event of a later season does not start before one of an earlier season. That
assumption is needed since `get_last_updated_event_start()` looks at the events
of all seasons; it is not an ASSUME but a hypothesis of the theorems.
`LedgerIsSound` shows that the contract is worth implementing: the abstract
ledger alone leaves no hole behind the checkpoint, seasons that overlap included.

**Publishing** (`SuccessKeeps`, `StoredIsKeptForGood`, `StoredKept`,
`SuccessIsPublished`, `SuccessIsRefreshed`; module `PublishingProofs`). The first
two hold however runs overlap: what a run scored is counted when it succeeds, and
an event once counted by its season, in the summary or the history, is counted
for ever (`StoredForGood`). `KeepInv` adds to `CountInv` that the season tables count only events
that have rows, under their own season (`StoredRecorded`), and that a season
with a summary counts there all that its history does (`SummaryFirst`), so that
archiving may overwrite the history. The others have the hypothesis
`MaxActive = 1`. `RowsInv` says that what a run fetched is not older than the
row it will replace (`Current`: nobody records in between), hence that rows only
get newer, hence that summary and history never get ahead of them
(`TablesBehind`). On top of it: from the refresh on, one table has exactly the
rows stored, and from the archiving on the season is not stale (`Published`);
and an event that was live when the run started is scored or in its hands, with
data at least as new as at the start (`Refreshes`).

**When the history is frozen** (`FrozenWithoutBackfill`). The run `PipelineFrozen`
refutes "frozen snapshot" by a backfill. The theorem says how far the promise
carries: it holds if nobody backfills, runs come one after the other and VEX
lists the seasons in the order of their ids (`SeasonsInOrder`). `FrozenInv` adds
to `KeepInv` that runs only move on to later seasons (`SeasonsAdvance`), and
that an archived season has left the summary for good, behind a later one
(`ArchivedAreOver`); the latter needs that the highest season with a summary
exists, which follows from the finitely many events behind it. Dropping any of
the three hypotheses, TLC finds an archived season that is written again.

**From VEX to the API** (`SuccessReachesTheApi`). What the weekly job is for, in
one statement (`SuccessServesSeason`): a run that scored anything and reports
success leaves the API answering for its season with every event in its scope
recorded, and each that was new or in progress served at least as VEX showed it
when the run started. It combines completeness, freshness and publishing, and so
has the hypotheses of all three.

**The readers' view** (`PipelineImplementsSeasonTables`, `IngestionIsSeasonTables`,
`AnyIngestionIsCovered`). Step by step: recording an event is a later version of
its season, or a stutter when the data is the same or nothing was played; a
refresh is a refresh, or a stutter for a season without rows, whose summary was
empty by `TablesBehind`; archiving is archiving, since a season is stale exactly
when it has a summary and is not the latest; everything else stutters. In the
other module, the API's tables are always a behaviour of `SeasonTables`, and
every step of it that a scenario's bounds admit is one the API's theorems cover,
at any place of any request. Together: what is proved of the API holds beside
the pipeline, run after run.

**Rate limiter** (`PacingHolds`, `OneSleepIsEnough`, `LockIsConsistent`). `Paced`
follows from the conservation of credit (`meter + Refilled <= Capacity`):
what is metered as spent is not in the bucket.

**HTTP client** (`NoDriverLeaks`, `FreshContextSurvives`, `DriversReplacedOnce`).
`DriversAccountedFor` is not inductive: it does not say why `start()` may
overwrite `_playwright`. The invariant adds that the holder of `_init_lock` is
the only one between the check and the end of `new_context()`
(`LockHeldOnce`), that nothing is cached while it is (`NoneWhileLocked`), and so
that a driver cached without a context is either getting one or had its
`new_context()` raise (`BareDriverKnown`). `OneDriverPerBreakdown` needs a budget
(`Budget`): when no driver works, as many have broken as were started. A driver
works (`Healthy`) when its context is cached and no request has failed on it, or
it is about to get one; that stays true until it breaks, because a discard only
drops the context that failed, nobody has sent a request with a driver that is
still getting its context (`DriverIsNew`), and a task that stops a driver stops
one whose context is no longer cached (`StoppedIsDropped`).

**Tokens** (`EveryTurnComes`, `LimitedTokensRest`, `OnceDuringCooldown`,
`WaitsHonored`). Four independent strengthenings: a usable token's place ahead
in the cycle plus the choices that passed it stays below `N` (`TurnIsNear`); a
cooldown and the time since the last 429 add up to the default back-off at least
(`CooldownLasts` - this is where the floor at the back-off is needed); whoever
holds a token again that it has used during its cooldown had no other
(`LateNotAgain`); the sleep covers the wait (`SleepCovers`).

**Leaderboards** (`LeaderboardsConsistent`, `TrueSkillBoardsHaveNoGap`,
`SkillsBoardsHaveNoGap`, `SnapshotIsRating`, `PlacesKept`). Ranks are cardinalities of the sets of teams
that sort before, so a comparison of ranks is an inclusion of sets; no induction
over the sorted list is needed. That this is what the code computes is proved
too: in any list sorted by the key of `db.py:546` a team's index is its rank
(`RankIsPlaceInSortedList`), and the percentile of `db.py:622`, by the first
index of a tie, is the model's (`PercentileOfSortedList`). A board - the season,
the teams not yet qualified, or a region - is dense when its ranks are 1 to its
length, each once, between refreshes too; the order alone does not imply it,
since a row may keep ranks of an earlier refresh. The two TrueSkill columns are
dense always (`TrueSkillBoardsHaveNoGap`). The four skills columns are not: a
team whose only skills run VEX withdraws keeps its old ranks, next to the new
ranks of the others. `SkillsBoardsHaveNoGap` therefore assumes that no fetch
takes back a run (`NoRunWithdrawn`, a condition on the steps, which the
instance of the run `TeamSeason` does not satisfy) and concludes for the whole
columns. Its invariant (`NoStaleRank`) is that a team without a skills total has
no rank for the merge to keep. Without the assumption the same holds of the
teams that have a total (`BoardsDense`, the invariant both theorems rest on).
That a team's rating is in its newest row needs the row with the greatest
`created_at` to exist and to be unique: `created_at` is different for every
recording (`ResultsOK`), and a greatest value of a finite set is one with the
fewest values above it. A summary outlives the process that wrote it; so the
invariant also says that every summarised team still has results, and that one
with a region rank still has its region (`SummaryOK`).

**API** (`RevokedGetNothing`, `ActiveNotRefused`, `SeasonListsComplete`,
`OwedSeasonsFound`, `PagesNotBehindTotal`, `RevocationFinal`,
`CacheStaysBounded`). `RequestsOK` says, place by place, what holds of a request
whatever happened since its last statement: a token revoked before it came in is
still revoked, so it is never admitted (`TokenOK`); what it is owed is still in a
table (`OwedOK`); a season it is owed and has not read from the summary is in
the history, and what it has counted is not ahead of what is there now
(`ReadOK`). `TablesOK` adds that neither table is ahead of the results, nor the
history of a season ahead of its live rows. The cache is a sequence; its lemmas
(removal and eviction keep one entry per key) are first in the module.

**Totals** (`TablesTyped`, `RecordsAddUp`). The season's records are sums over a
team's events, and the balance of an event a sum over its teams: folds, whose
values an induction theorem would give, if the provers could instantiate it.
`SumTheorems` goes another way. `SumFunction()` is the value of a function on
the subsets of the summed set, which adds the member `CHOOSE` picks to the value
of the rest; such a function exists and is unique, and every fact about it
follows by looking at a least counterexample among the subsets of the set (a
finite set has a least subset in any family, by the well-foundedness of the
natural numbers). The facts are the usual ones: any member may be taken out, a
sum of sums, of multiples of four, a larger sum of larger values, and double
counting: the pairs of a relation counted by rows or by columns. With them, the
elimination wins of an event are its pairs of a match and a winner, as many as
the pairs of a match and a loser, since every match that counts has two teams on
either side (`Played`). `TInv` adds to the two properties that every row adds up by
itself. It needs the assumption that a team plays on one side of a match.

Only model-checked: the liveness properties (`RunsEnd`, `EveryCallerServed`,
`EveryFetchEnds`, `AnswersBecomeCurrent`), which are out of the prover's reach.
Every safety invariant, action property and refinement that a passing run checks
is also stated by a theorem.

## 6. Plan

Done, in this order: `Pipeline` with `ChronologicalLedger` and its proofs;
`RateLimiter`; `FetchVex`; then `FetchVexProofs` and the progress row in
`PipelineProofs`; `TokenRotation`; `SeasonRanks` and `TeamSeason`; `Api` with
the cache and the API tokens; each with its proofs; `PublishingProofs`; `SumTheorems` with the totals of
`TeamSeason`, the boards without gaps and what sorted lists have to do with them;
`SeasonTables` between `Pipeline` and `Api`.

Left, in the order of what they would add:

1. `team_awards`: what the award history says against the qualification flags
   after a re-fetch (the code does not keep them in step, see "hazards").
2. Paging: an item of VEX that moves between two pages while they are fetched.

## 7. Not modelled, and why

- TrueSkill, OPR/DPR/CCWM, field strength, schedule metrics and the pick-list
  score: floating-point numerics. A rating is an arbitrary result in
  TeamSeason, so what is shown there does not depend on the numbers.
- `team_awards`: an append-only merge, read by the award history alone.
- JSON conversion beyond what decides something, environment variables,
  logging, the leaderboard's sorting, search and pagination, HTTP headers for
  caches downstream, deployment files: stateless, or wording and I/O.
- Paging in `fetch_data()`: a fetch is one read of VEX in `Pipeline`; items that
  move between pages during a fetch are not modelled.
- The number of a team: `record_event_results()` may replace a known number by
  `str(team_id)`. TeamSeason has it, but there is no property to state: the code
  does it and no document says otherwise.
- VEX publishing an event after its start: the code has no defence against it
  (an incremental run never looks before the checkpoint), and no document
  promises one.
