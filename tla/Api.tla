--------------------------------- MODULE Api ---------------------------------
(***************************************************************************)
(* One worker of the read API, api.py: the caching middleware in front of  *)
(* the routes, the API tokens of db.py that guard both, and the statements *)
(* of each route against tables that ingestion changes meanwhile.          *)
(*                                                                         *)
(* A place of a request is where it awaits: a statement of the database,   *)
(* which sees what is committed at that moment, or a section under the     *)
(* lock of the cache.  Statements read sets of <<season, version>>: which  *)
(* rows there are is abstracted to the version of the results they were    *)
(* computed from, and no row is "not in the set".                          *)
(***************************************************************************)
EXTENDS Integers, Sequences

CONSTANTS
    Requests,       \* the clients' connections, one request at a time each
    Tokens,         \* raw tokens a client may present
    Label,          \* the label each token is created with
    Seasons,
    Scenarios,      \* what clients ask for and ingestion does in one behaviour
    TTL,            \* _CACHE_TTL_SECONDS, in ticks; 0 is no caching
    MaxEntries      \* _CACHE_MAX_ENTRIES

NoSeason == 0

ASSUME SeasonsAssumption == Seasons \subseteq Nat \ {NoSeason}
ASSUME BoundsAssumption ==
    /\ TTL \in Nat
    /\ MaxEntries \in Nat

\* Routes with the same handler but for the form of the answer are one kind:
\* a team by id or by number, in a season or in the current one.
OfSeason == {"list", "team", "pick_list", "trend", "awards"}
OfCurrent == {"current_list", "current_team"}
Other == {"seasons", "runs", "latest_run"}

Route == [kind : OfSeason, season : Seasons]
         \cup [kind : OfCurrent \cup Other, season : {NoSeason}]

\* Who asks for what with which token; the tokens that are minted and revoked
\* meanwhile (the others are active throughout); the bounds on how often the
\* results of a season are recorded and on how many refresh runs are started.
Scenario == [clients : SUBSET Requests, routes : SUBSET Route, presented : SUBSET Tokens,
             managed : SUBSET Tokens, maxVersion : [Seasons -> Nat], maxRuns : Nat]

ASSUME ScenariosAssumption == Scenarios \subseteq Scenario

VARIABLES
    results,        \* team_event_results (and events): version per season, 0 is no row
    summary,        \* team_season_summary
    history,        \* team_season_history
    runs,           \* how many rows dataset_refresh_runs has
    status,         \* api_tokens: "unknown", "active" or "revoked"
    cache,          \* _response_cache, the least recently used entry first
    scenario,       \* chosen at the start
    pc,             \* where each request is
    call            \* the local variables of each request

tables == <<results, summary, history, runs>>
vars == <<results, summary, history, runs, status, cache, scenario, pc, call>>

Versions == [Seasons -> Nat]
Rows == SUBSET ((Seasons \cup {NoSeason}) \X Nat)

\* total and rows are what the two statements of a route returned (or the
\* only one: rows).  owed and before are ghosts: the seasons the answer has
\* to show, and what the presented token was, when the request came in.
Call == [route : Route, token : Tokens, season : Seasons \cup {NoSeason},
         table : {"summary", "history"}, total : Rows, rows : Rows,
         outcome : {"none", "ok", "not_found", "unauthorized"},
         owed : SUBSET Seasons, before : {"unknown", "active", "revoked"}]

Places == {"idle", "lookup", "hit", "hit_touch", "auth", "auth_touch", "latest",
           "event", "table", "count", "rows", "respond", "reply"}

RowsOf(table, S) == {<<s, table[s]>> : s \in {t \in S : table[t] > 0}}
RunLog == IF runs > 0 THEN {<<NoSeason, runs>>} ELSE {}

\* get_latest_season_id(): the greatest season with a row in the summary.
IsLatest(s) == summary[s] > 0 /\ \A t \in Seasons : summary[t] > 0 => t <= s

HasData(s) == summary[s] > 0 \/ history[s] > 0

\* The season was archived and a later one is live.
Archived(s) == history[s] > 0 /\ \E t \in Seasons : t > s /\ summary[t] > 0

\* What a request that comes in now has to be shown.
Owed(route) ==
    CASE route.kind = "seasons" -> {s \in Seasons : HasData(s)}
      [] route.kind = "current_list" -> {s \in Seasons : IsLatest(s)}
      [] route.kind \in {"list", "team"} -> {s \in {route.season} : Archived(s)}
      [] OTHER -> {}

Init ==
    /\ results = [s \in Seasons |-> 0]
    /\ summary = [s \in Seasons |-> 0]
    /\ history = [s \in Seasons |-> 0]
    /\ runs = 0
    /\ scenario \in Scenarios
    /\ status = [t \in Tokens |-> IF t \in scenario.managed THEN "unknown" ELSE "active"]
    /\ cache = <<>>
    /\ pc = [r \in Requests |-> "idle"]
    /\ call = [r \in Requests |-> <<>>]

(* ------------------------------ the middleware --------------------------- *)

Goto(r, place) == pc' = [pc EXCEPT ![r] = place]

\* A GET of a cached path comes in.
Request(r) ==
    /\ pc[r] = "idle"
    /\ r \in scenario.clients
    /\ \E route \in scenario.routes, t \in scenario.presented :
          call' = [call EXCEPT ![r] =
                     [route |-> route, token |-> t, season |-> route.season,
                      table |-> "summary", total |-> {}, rows |-> {},
                      outcome |-> "none", owed |-> Owed(route), before |-> status[t]]]
    /\ Goto(r, "lookup")
    /\ UNCHANGED <<tables, status, cache, scenario>>

EntriesOf(route) == {i \in 1..Len(cache) : cache[i].route = route}

\* The cache without the entry of a route, if it has one.
Without(route) ==
    IF EntriesOf(route) = {} THEN cache
    ELSE LET i == CHOOSE i \in EntriesOf(route) : TRUE
         IN  SubSeq(cache, 1, i - 1) \o SubSeq(cache, i + 1, Len(cache))

\* _cache_get() finds nothing, or something too old, which it drops.
CacheMiss(r) ==
    /\ pc[r] = "lookup"
    /\ \A i \in EntriesOf(call[r].route) : cache[i].left = 0
    /\ cache' = Without(call[r].route)
    /\ Goto(r, "auth")
    /\ UNCHANGED <<tables, status, scenario, call>>

\* Mutant: a hit prolongs the life of the entry.
CacheHit_Sliding(r) ==
    /\ pc[r] = "lookup"
    /\ \E i \in EntriesOf(call[r].route) :
          /\ cache[i].left > 0
          /\ cache' = Append(Without(call[r].route), [cache[i] EXCEPT !.left = TTL])
          /\ call' = [call EXCEPT ![r].total = cache[i].total, ![r].rows = cache[i].rows,
                                  ![r].outcome = cache[i].outcome]
    /\ Goto(r, "hit")
    /\ UNCHANGED <<tables, status, scenario>>

\* _cache_get() finds the answer and makes it the most recently used.
CacheHit(r) ==
    /\ pc[r] = "lookup"
    /\ \E i \in EntriesOf(call[r].route) :
          /\ cache[i].left > 0
          /\ cache' = Append(Without(call[r].route), cache[i])
          /\ call' = [call EXCEPT ![r].total = cache[i].total, ![r].rows = cache[i].rows,
                                  ![r].outcome = cache[i].outcome]
    /\ Goto(r, "hit")
    /\ UNCHANGED <<tables, status, scenario>>

\* verify_api_token(): a row that exists and is not revoked.
Verified(r) == status[call[r].token] = "active"

\* Mutant: only requests that reach a route are verified.
VerifyHit_Trusting(r) ==
    /\ pc[r] = "hit"
    /\ Goto(r, "reply")
    /\ UNCHANGED <<tables, status, cache, scenario, call>>

\* The cached body is for a caller whose token is valid now (last_used_at may
\* be due or not); any other request goes the way of a miss, and forgets what
\* it found.
VerifyHit(r) ==
    /\ pc[r] = "hit"
    /\ IF Verified(r)
       THEN /\ \/ Goto(r, "reply") \/ Goto(r, "hit_touch")
            /\ call' = call
       ELSE /\ Goto(r, "auth")
            /\ call' = [call EXCEPT ![r].total = {}, ![r].rows = {}, ![r].outcome = "none"]
    /\ UNCHANGED <<tables, status, cache, scenario>>

\* Where a route starts once its caller is authenticated.
FirstPlace(kind) ==
    CASE kind \in OfCurrent -> "latest"
      [] kind = "pick_list" -> "event"
      [] kind \in {"list", "team"} -> "table"
      [] kind \in {"seasons", "runs"} -> "count"
      [] OTHER -> "rows"

\* require_api_token() lets the request through.
Authenticate(r) ==
    /\ pc[r] = "auth"
    /\ Verified(r)
    /\ \/ Goto(r, FirstPlace(call[r].route.kind)) \/ Goto(r, "auth_touch")
    /\ UNCHANGED <<tables, status, cache, scenario, call>>

\* require_api_token() answers 401.
Refuse(r) ==
    /\ pc[r] = "auth"
    /\ ~Verified(r)
    /\ call' = [call EXCEPT ![r].outcome = "unauthorized"]
    /\ Goto(r, "respond")
    /\ UNCHANGED <<tables, status, cache, scenario>>

AfterTouch(r) ==
    IF pc[r] = "hit_touch" THEN "reply" ELSE FirstPlace(call[r].route.kind)

\* Mutant: the row is written back as it was read, last_used_at and all.
Touch_WholeRow(r) ==
    /\ pc[r] \in {"hit_touch", "auth_touch"}
    /\ status' = [status EXCEPT ![call[r].token] = "active"]
    /\ Goto(r, AfterTouch(r))
    /\ UNCHANGED <<tables, cache, scenario, call>>

\* When last_used_at is due, verify_api_token() commits it, the only column it
\* changed of the row it read; if that fails the token is as good as before.
Touch(r) ==
    /\ pc[r] \in {"hit_touch", "auth_touch"}
    /\ Goto(r, AfterTouch(r))
    /\ UNCHANGED <<tables, status, cache, scenario, call>>

Entry(r) == [route |-> call[r].route, left |-> TTL, total |-> call[r].total,
             rows |-> call[r].rows, outcome |-> call[r].outcome]

\* Mutant: the limit is looked at before the entry is added.
Put_Late(entry) ==
    LET old == Without(entry.route)
    IN  IF Len(old) <= MaxEntries THEN Append(old, entry)
        ELSE Append(SubSeq(old, Len(old) - MaxEntries + 1, Len(old)), entry)

\* _cache_put(): the new entry is the most recently used one, the least
\* recently used ones leave until the cache is within its limit.
Put(entry) ==
    LET all == Append(Without(entry.route), entry)
    IN  IF Len(all) <= MaxEntries THEN all
        ELSE SubSeq(all, Len(all) - MaxEntries + 1, Len(all))

\* Mutant: whatever the route answered is stored.
Respond_AnyStatus(r) ==
    /\ pc[r] = "respond"
    /\ cache' = IF TTL > 0 THEN Put(Entry(r)) ELSE cache
    /\ Goto(r, "reply")
    /\ UNCHANGED <<tables, status, scenario, call>>

\* The route has answered: 200 is stored, anything else is only passed on.
Respond(r) ==
    /\ pc[r] = "respond"
    /\ cache' = IF call[r].outcome = "ok" /\ TTL > 0 THEN Put(Entry(r)) ELSE cache
    /\ Goto(r, "reply")
    /\ UNCHANGED <<tables, status, scenario, call>>

\* The client has its answer.
Reply(r) ==
    /\ pc[r] = "reply"
    /\ call' = [call EXCEPT ![r] = <<>>]
    /\ Goto(r, "idle")
    /\ UNCHANGED <<tables, status, cache, scenario>>

(* -------------------------------- the routes ----------------------------- *)

Found(r, rows) ==
    /\ call' = [call EXCEPT ![r].rows = rows, ![r].outcome = "ok"]
    /\ Goto(r, "respond")
    /\ UNCHANGED <<tables, status, cache, scenario>>

NotFound(r) ==
    /\ call' = [call EXCEPT ![r].outcome = "not_found"]
    /\ Goto(r, "respond")
    /\ UNCHANGED <<tables, status, cache, scenario>>

\* _require_latest_season_id().
RequireLatestSeason(r) ==
    /\ pc[r] = "latest"
    /\ \/ \E s \in Seasons :
             /\ IsLatest(s)
             /\ call' = [call EXCEPT ![r].season = s]
             /\ Goto(r, "table")
             /\ UNCHANGED <<tables, status, cache, scenario>>
       \/ /\ \A s \in Seasons : summary[s] = 0
          /\ NotFound(r)

\* get_event_pick_list() looks up an event, one with results if the season has
\* any.  Its row is there with them, or earlier: it is recorded even when no
\* match has been played.
FindEvent(r) ==
    /\ pc[r] = "event"
    /\ \/ /\ Goto(r, "table")
          /\ UNCHANGED <<tables, status, cache, scenario, call>>
       \/ /\ results[call[r].season] = 0
          /\ NotFound(r)

\* Mutant: any season with a row in the summary is taken to be live.
SeasonModel_AnyLive(r) ==
    /\ pc[r] = "table"
    /\ call' = [call EXCEPT ![r].table =
                  IF summary[call[r].season] > 0 THEN "summary" ELSE "history"]
    /\ Goto(r, IF call[r].route.kind \in {"list", "current_list"} THEN "count" ELSE "rows")
    /\ UNCHANGED <<tables, status, cache, scenario>>

\* _season_model(): the summary owns the latest season, the history the rest.
SeasonModel(r) ==
    /\ pc[r] = "table"
    /\ call' = [call EXCEPT ![r].table =
                  IF IsLatest(call[r].season) THEN "summary" ELSE "history"]
    /\ Goto(r, IF call[r].route.kind \in {"list", "current_list"} THEN "count" ELSE "rows")
    /\ UNCHANGED <<tables, status, cache, scenario>>

SeasonRows(r) ==
    RowsOf(IF call[r].table = "summary" THEN summary ELSE history, {call[r].season})

\* Mutant: the archived seasons are listed before the live one.
SeasonsListed_HistoryFirst(place) ==
    RowsOf(IF place = "count" THEN history ELSE summary, Seasons)

\* list_historical_seasons(): the two tables, one after the other.
SeasonsListed(place) ==
    RowsOf(IF place = "count" THEN summary ELSE history, Seasons)

\* The first of the two statements of a route with two.
CountRows(r) ==
    /\ pc[r] = "count"
    /\ call' = [call EXCEPT ![r].total =
                  CASE call[r].route.kind = "seasons" -> SeasonsListed("count")
                    [] call[r].route.kind = "runs" -> RunLog
                    [] OTHER -> SeasonRows(r)]
    /\ Goto(r, "rows")
    /\ UNCHANGED <<tables, status, cache, scenario>>

\* list_teams_for_season() and get_event_pick_list(): an empty page is fine.
ReadPage(r) ==
    /\ pc[r] = "rows"
    /\ call[r].route.kind \in {"list", "current_list", "pick_list"}
    /\ Found(r, SeasonRows(r))

\* get_team_for_season_by_id() and _by_number(): a team that has no row in
\* the table is not found.
ReadTeam(r) ==
    /\ pc[r] = "rows"
    /\ call[r].route.kind \in {"team", "current_team"}
    /\ IF SeasonRows(r) # {} THEN Found(r, SeasonRows(r)) ELSE NotFound(r)

\* get_team_trend() needs a result, get_team_award_history() needs nothing.
ReadTeamEvents(r) ==
    /\ pc[r] = "rows"
    /\ call[r].route.kind \in {"trend", "awards"}
    /\ IF call[r].route.kind = "trend" /\ results[call[r].season] = 0
       THEN NotFound(r)
       ELSE Found(r, RowsOf(results, {call[r].season}))

ReadSeasons(r) ==
    /\ pc[r] = "rows"
    /\ call[r].route.kind = "seasons"
    /\ Found(r, SeasonsListed("rows"))

\* get_refresh_runs() lists them, get_latest_refresh_run() needs one.
ReadRuns(r) ==
    /\ pc[r] = "rows"
    /\ call[r].route.kind \in {"runs", "latest_run"}
    /\ IF call[r].route.kind = "latest_run" /\ runs = 0
       THEN NotFound(r)
       ELSE Found(r, RunLog)

(* ------------------- ingestion, as the API sees its commits --------------- *)

\* What ingestion promises its readers (Pipeline implements it, as long as its
\* runs do not overlap).
Tables == INSTANCE SeasonTables

NoRequestMoves == UNCHANGED <<status, cache, scenario, pc, call>>

StartRefreshRun ==
    /\ runs < scenario.maxRuns
    /\ runs' = runs + 1
    /\ UNCHANGED <<results, summary, history>>
    /\ NoRequestMoves

\* record_event_results(): the season's results reach a later version.
RecordEventResults(s) ==
    /\ \E version \in results[s] + 1..scenario.maxVersion[s] :
          results' = [results EXCEPT ![s] = version]
    /\ UNCHANGED <<summary, history, runs>>
    /\ NoRequestMoves

\* refresh_team_season_summary(), of any season: backfills too.
RefreshTeamSeasonSummary(s) ==
    /\ results[s] > 0
    /\ summary' = [summary EXCEPT ![s] = results[s]]
    /\ UNCHANGED <<results, history, runs>>
    /\ NoRequestMoves

\* archive_completed_seasons(): one transaction moves every season below the
\* latest one.
ArchiveCompletedSeasons ==
    /\ history' = [s \in Seasons |->
                     IF summary[s] > 0 /\ ~IsLatest(s) THEN summary[s] ELSE history[s]]
    /\ summary' = [s \in Seasons |-> IF IsLatest(s) THEN summary[s] ELSE 0]
    /\ UNCHANGED <<results, runs>>
    /\ NoRequestMoves

(* --------------------- manage_tokens.py, and the clock -------------------- *)

CreateApiToken(t) ==
    /\ status[t] = "unknown"
    /\ status' = [status EXCEPT ![t] = "active"]
    /\ UNCHANGED <<tables, cache, scenario, pc, call>>

\* revoke_api_token(), by id: that token; by label: every active one with it.
RevokeApiToken(Chosen) ==
    /\ \E t \in Chosen : status[t] = "active"
    /\ status' = [t \in Tokens |->
                    IF t \in Chosen /\ status[t] = "active" THEN "revoked" ELSE status[t]]
    /\ UNCHANGED <<tables, cache, scenario, pc, call>>

RevokeById(t) == RevokeApiToken({t})
RevokeByLabel(t) == RevokeApiToken({u \in scenario.managed : Label[u] = Label[t]})

\* The entries of the cache grow older.
Tick ==
    /\ cache' = [i \in 1..Len(cache) |->
                   [cache[i] EXCEPT !.left = IF @ > 0 THEN @ - 1 ELSE 0]]
    /\ UNCHANGED <<tables, status, scenario, pc, call>>

Step(r) ==
    \/ CacheMiss(r) \/ CacheHit(r) \/ VerifyHit(r)
    \/ Authenticate(r) \/ Refuse(r) \/ Touch(r)
    \/ RequireLatestSeason(r) \/ FindEvent(r) \/ SeasonModel(r) \/ CountRows(r)
    \/ ReadPage(r) \/ ReadTeam(r) \/ ReadTeamEvents(r) \/ ReadSeasons(r) \/ ReadRuns(r)
    \/ Respond(r) \/ Reply(r)

Ingest ==
    \/ StartRefreshRun
    \/ \E s \in Seasons : RecordEventResults(s) \/ RefreshTeamSeasonSummary(s)
    \/ ArchiveCompletedSeasons

ManageTokens ==
    \E t \in scenario.managed : CreateApiToken(t) \/ RevokeById(t) \/ RevokeByLabel(t)

Next ==
    \/ \E r \in Requests : Request(r) \/ Step(r)
    \/ Ingest
    \/ ManageTokens
    \/ Tick

Spec == Init /\ [][Next]_vars

\* Requests that came in are answered, time passes.  Nobody has to ask, and
\* nothing has to be ingested.
FairSpec == Spec /\ WF_vars(Tick) /\ \A r \in Requests : WF_vars(Step(r))

(* ------------------------------- properties ------------------------------- *)

Entries == [route : Route, left : 0..TTL, total : Rows, rows : Rows, outcome : {"ok"}]

\* Type invariant: tables, tokens, requests, and a cache of good answers only.
TypeOK ==
    /\ results \in Versions /\ summary \in Versions /\ history \in Versions
    /\ runs \in Nat
    /\ status \in [Tokens -> {"unknown", "active", "revoked"}]
    /\ cache \in Seq(Entries)
    /\ scenario \in Scenarios
    /\ pc \in [Requests -> Places]
    /\ call \in [Requests -> {<<>>} \cup Call]
    /\ \A r \in Requests : pc[r] # "idle" => call[r] \in Call

\* _response_cache stays within _CACHE_MAX_ENTRIES and has one entry per key,
\* however lookups, expiries and stores of several requests interleave.
CacheBounded ==
    /\ Len(cache) <= MaxEntries
    /\ \A i, j \in 1..Len(cache) : cache[i].route = cache[j].route => i = j

Answered(r) == pc[r] = "reply"

\* A token that was revoked before a request came in gets no data: not from a
\* route and not from the cache another client has warmed ("A token with
\* revoked_at set is rejected", db.py).
RevokedTokenGetsNothing ==
    \A r \in Requests :
        Answered(r) /\ call[r].before = "revoked" => call[r].outcome = "unauthorized"

\* A token that was valid when the request came in and still is, is not
\* answered 401: no refusal of another caller is ever replayed.
ActiveTokenNotRefused ==
    \A r \in Requests :
        Answered(r) /\ call[r].before = "active" /\ status[call[r].token] = "active"
            => call[r].outcome # "unauthorized"

\* Revocation is final: the telemetry write of a verification that read the
\* row before it does not undo it.
RevocationIsFinal ==
    [][\A t \in Tokens : status[t] = "revoked" => status'[t] = "revoked"]_vars

\* The listing of seasons that a request computes misses no season that had
\* data when the request came in, though the two tables are read one after
\* the other and an archive may move the season in between.
SeasonListComplete ==
    \A r \in Requests :
        pc[r] = "respond" /\ call[r].route.kind = "seasons" /\ call[r].outcome = "ok"
            => \A s \in call[r].owed : \E row \in call[r].total \cup call[r].rows : row[1] = s

\* A season that was archived when the request came in is found by it, and so
\* is a season when the current one is asked for: refreshes, backfills and
\* archives meanwhile never leave the request without a table to read.
OwedSeasonFound ==
    \A r \in Requests :
        /\ pc[r] = "respond"
        /\ call[r].owed # {}
        /\ call[r].outcome # "unauthorized"
        => /\ call[r].outcome = "ok"
           /\ call[r].route.kind \in {"list", "team"} => call[r].rows # {}

\* A page of an archived season, or of the refresh runs, is never behind the
\* total that was counted for it a statement earlier.
PageNotBehindTotal ==
    \A r \in Requests :
        /\ pc[r] = "respond"
        /\ \/ call[r].route.kind = "list" /\ call[r].owed # {}
           \/ call[r].route.kind = "runs"
        => \A row \in call[r].total :
              \E newer \in call[r].rows : newer[1] = row[1] /\ newer[2] >= row[2]

\* What a route answers if it runs undisturbed now.
CurrentRows(route) ==
    CASE route.kind = "seasons" -> RowsOf(history, Seasons)
      [] route.kind \in OfCurrent -> RowsOf(summary, {s \in Seasons : IsLatest(s)})
      [] route.kind \in {"list", "team"} ->
            RowsOf(IF IsLatest(route.season) THEN summary ELSE history, {route.season})
      [] route.kind = "pick_list" ->
            IF results[route.season] = 0 THEN {}
            ELSE RowsOf(IF IsLatest(route.season) THEN summary ELSE history, {route.season})
      [] route.kind \in {"trend", "awards"} -> RowsOf(results, {route.season})
      [] OTHER -> RunLog

\* Once ingestion is done, every answer is about the final state of the
\* tables from some moment on, whatever was being computed, stored or
\* requested meanwhile: a stale entry, even one stored after the change it
\* misses, does not outlive its TTL, however often it is asked for.
AnswersBecomeCurrent ==
    <>[][UNCHANGED tables]_vars
        => <>[](\A r \in Requests :
                   Answered(r) /\ call[r].outcome # "unauthorized"
                       => call[r].rows = CurrentRows(call[r].route))
=============================================================================
