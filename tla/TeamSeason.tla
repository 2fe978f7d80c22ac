------------------------------ MODULE TeamSeason ------------------------------
(***************************************************************************)
(* The rows behind the versions of module Pipeline: how the payloads of an *)
(* event become one row per team (process_matches() of                     *)
(* tournament_stats.py, record_event_results() of db.py), how a team gets  *)
(* its profile, and how a season's rows become ranks                       *)
(* (refresh_team_season_summary()).  One season; one process at a time,    *)
(* which may die between any two database calls.                           *)
(*                                                                         *)
(* Data: a TrueSkill rating is the number it exposes; team numbers are     *)
(* integers that sort as the strings do; OPR, DPR, CCWM, schedule metrics, *)
(* points and the pick-list score are left out.                            *)
(***************************************************************************)
EXTENDS SeasonRanks, FiniteSetsExt

CONSTANTS
    Teams,          \* team ids
    TeamNum,        \* the number VEX prints for a team
    IdNum,          \* str(team_id), sorted among the numbers
    Regions,
    Region,         \* the region in a team's profile, or None
    Events,         \* in chronological order
    Payloads,       \* what VEX may answer for an event
    Exposures,      \* what a rating may expose
    Outcomes,       \* the ratings env.rate() may give the players of an event
    MaxRecords,     \* bound on the calls of record_event_results()
    None

ASSUME TeamsAssumption ==
    /\ IsFiniteSet(Teams)
    /\ None \notin Int /\ None \notin Regions
    /\ Region \in [Teams -> Regions \cup {None}]
    /\ TeamNum \in [Teams -> Int] /\ IdNum \in [Teams -> Int]
    /\ \A t, u \in Teams : t # u => /\ TeamNum[t] # TeamNum[u]
                                    /\ IdNum[t] # IdNum[u]
                                    /\ TeamNum[t] # IdNum[u]

\* A raw alliance may name fewer than two teams; a match that has not
\* started is listed with score 0-0.
RawMatch == [num : Nat, round : {"practice", "qual", "elim"},
             red : SUBSET Teams, blue : SUBSET Teams,
             red_score : Nat, blue_score : Nat, started : BOOLEAN]
Ranking == [wins : Nat, losses : Nat, ties : Nat]
Award == [team : Teams, qualifies : {"worlds", "regionals", "nothing"}]

\* What fetch_event_data() returns: rankings, matches, skills and awards.  A
\* team plays on one side of a match.
ASSUME PayloadsAssumption ==
    /\ Events \subseteq Nat /\ IsFiniteSet(Events)
    /\ \A e \in Events : \A p \in Payloads[e] :
          /\ p.matches \subseteq RawMatch /\ IsFiniteSet(p.matches)
          /\ \A m \in p.matches : m.red \cap m.blue = {}
          /\ DOMAIN p.rankings \subseteq Teams
          /\ \A t \in DOMAIN p.rankings : p.rankings[t] \in Ranking
          /\ \A t \in DOMAIN p.driver : p.driver[t] \in Nat
          /\ \A t \in DOMAIN p.programming : p.programming[t] \in Nat
          /\ p.awards \subseteq Award

ASSUME BoundsAssumption ==
    /\ Exposures \subseteq Int /\ 0 \in Exposures
    /\ Outcomes \subseteq [Teams -> Exposures]
    /\ MaxRecords \in Nat

VARIABLES
    pc,         \* where the process is: "none", "batches" or "refreshed"
    todo,       \* the events it still has to score
    seen,       \* the teams of the batch under way
    ratings,    \* the dict of tournament_stats.py: rated teams only
    now,        \* calls of record_event_results() so far
    teams,      \* the table teams
    results,    \* the table team_event_results
    summary     \* the table team_season_summary

process == <<pc, todo, seen, ratings>>
vars == <<process, now, teams, results, summary>>

\* A dict or table without an entry.
Empty == [t \in {} |-> None]

Init ==
    /\ pc = "none" /\ todo = {} /\ seen = {} /\ ratings = Empty
    /\ now = 0
    /\ teams = Empty
    /\ results = [e \in Events |-> Empty]
    /\ summary = Empty

-----------------------------------------------------------------------------
(* Scoring an event *)

\* Match.from_json() and the filter on `played`.
Played(p) == {m \in p.matches : /\ Cardinality(m.red) = 2
                                /\ Cardinality(m.blue) = 2
                                /\ m.started}

Players(p) == UNION {m.red \cup m.blue : m \in Played(p)}

\* calc_ts() of every played match: the players get what env.rate() says.
CalcTs(p) ==
    {[t \in DOMAIN ratings \cup Players(p) |->
        IF t \in Players(p) THEN outcome[t] ELSE ratings[t]] : outcome \in Outcomes}

\* Win-loss-draw records.
Record(matches, wins, losses, draws) ==
    [matches |-> matches, wins |-> wins, losses |-> losses, draws |-> draws]
NoRecord == Record(0, 0, 0, 0)
Plus(a, b) == [f \in DOMAIN a |-> a[f] + b[f]]

\* The authoritative record of the rankings; zeros for a team not ranked.
QualRecord(p, t) ==
    IF t \in DOMAIN p.rankings
    THEN LET row == p.rankings[t]
         IN  Record(row.wins + row.losses + row.ties, row.wins, row.losses, row.ties)
    ELSE NoRecord

\* _tally_elim_records(): the scores of the elimination matches.
ElimRecord(p, t) ==
    LET mine == {m \in Played(p) : m.round = "elim" /\ t \in m.red \cup m.blue}
        Margin(m) == IF t \in m.red THEN m.red_score - m.blue_score
                                    ELSE m.blue_score - m.red_score
    IN  Record(Cardinality(mine),
               Cardinality({m \in mine : Margin(m) > 0}),
               Cardinality({m \in mine : Margin(m) < 0}),
               Cardinality({m \in mine : Margin(m) = 0}))

\* skills_total: None when the team ran neither kind.
SkillsTotal(p, t) ==
    LET Score(runs) == IF t \in DOMAIN runs THEN runs[t] ELSE 0
    IN  IF t \in DOMAIN p.driver \cup DOMAIN p.programming
        THEN Score(p.driver) + Score(p.programming)
        ELSE None

Qualed(p, t, where) == \E a \in p.awards : a.team = t /\ a.qualifies = where

\* Mutant: only the ranked teams get a row.
Scored_RankedOnly(p) == IF Played(p) = {} THEN {} ELSE DOMAIN p.rankings

\* The teams that get a row: ranked or in a match; none when nothing is played.
Scored(p) == IF Played(p) = {} THEN {} ELSE DOMAIN p.rankings \cup Players(p)

\* The row process_matches() and record_event_results() make for a team, with
\* the snapshot of its rating (0 when it was never rated).
EventResult(p, rated, t) ==
    [qual |-> QualRecord(p, t),
     elim |-> ElimRecord(p, t),
     total |-> Plus(QualRecord(p, t), ElimRecord(p, t)),
     ts_exposed |-> Get(rated, t, 0),
     skills_total |-> SkillsTotal(p, t),
     qualed_worlds |-> Qualed(p, t, "worlds"),
     qualed_regionals |-> Qualed(p, t, "regionals"),
     created_at |-> now + 1]

\* The number record_event_results() writes: str(team_id) when not ranked.
NumAt(p, t) == IF t \in DOMAIN p.rankings THEN TeamNum[t] ELSE IdNum[t]

NewTeam(num) == [team_num |-> num, region |-> None, profile_fetched |-> FALSE]

\* Mutant: the whole row of the team is replaced.
MergeTeam_WholeRow(t, num) == NewTeam(num)

\* session.merge(): only the columns given are written.
MergeTeam(t, num) ==
    IF t \in DOMAIN teams THEN [teams[t] EXCEPT !.team_num = num] ELSE NewTeam(num)

\* Mutant: a team without a final ranking gets no row of its own.
MergedTeams_Ranked(p) ==
    [t \in DOMAIN teams \cup (Scored(p) \cap DOMAIN p.rankings) |->
        IF t \in Scored(p) THEN MergeTeam(t, NumAt(p, t)) ELSE teams[t]]

MergedTeams(p) ==
    [t \in DOMAIN teams \cup Scored(p) |->
        IF t \in Scored(p) THEN MergeTeam(t, NumAt(p, t)) ELSE teams[t]]

-----------------------------------------------------------------------------
(* The process *)

\* reset_state(); which events are to do is module Pipeline's concern.
ResetState ==
    /\ pc = "none" /\ now < MaxRecords
    /\ pc' = "batches"
    /\ todo' \in SUBSET Events \ {{}}
    /\ UNCHANGED <<seen, ratings, now, teams, results, summary>>

\* process_matches() and record_event_results() for the next event.
RecordEventResults ==
    /\ pc = "batches" /\ todo # {} /\ now < MaxRecords
    /\ LET e == Min(todo)
       IN  \E p \in Payloads[e] : \E rated \in CalcTs(p) :
              /\ ratings' = rated
              /\ teams' = MergedTeams(p)
              /\ results' = [results EXCEPT ![e] =
                    [t \in DOMAIN @ \cup Scored(p) |->
                        IF t \in Scored(p) THEN EventResult(p, rated, t) ELSE @[t]]]
              /\ seen' = seen \cup Scored(p)
              /\ todo' = todo \ {e}
    /\ now' = now + 1
    /\ UNCHANGED <<pc, summary>>

\* get_teams_missing_profile().
MissingProfile(t) == t \in DOMAIN teams => ~teams[t].profile_fetched

\* TeamProfile.from_json() and record_team_profiles().
Profile(t) == [team_num |-> TeamNum[t], region |-> Region[t], profile_fetched |-> TRUE]

\* A batch ends: the profiles that are missing and can be fetched.
FetchMissingTeamProfiles ==
    /\ pc = "batches" /\ seen # {}
    /\ \E fetched \in SUBSET {t \in seen : MissingProfile(t)} :
          teams' = [t \in DOMAIN teams \cup fetched |->
              IF t \in fetched THEN Profile(t) ELSE teams[t]]
    /\ seen' = {}
    /\ UNCHANGED <<pc, todo, ratings, now, results, summary>>

-----------------------------------------------------------------------------
(* The season's summary *)

EventsOf(t) == {e \in Events : t \in DOMAIN results[e]}

\* max(rows, key): an event of S whose row of the team has the most of a column.
Most(S, t, column) ==
    CHOOSE e \in S : \A f \in S : results[f][t][column] <= results[e][t][column]

\* Mutant: order_by(created_at.desc()).
Latest_Oldest(t) ==
    CHOOSE e \in EventsOf(t) :
        \A f \in EventsOf(t) : results[e][t].created_at <= results[f][t].created_at

\* The event of the row created last.
Latest(t) == Most(EventsOf(t), t, "created_at")

\* The season-best skills score; None when the team never ran skills.
BestSkills(t) ==
    LET ran == {e \in EventsOf(t) : results[e][t].skills_total # None}
    IN  IF ran = {} THEN None ELSE results[Most(ran, t, "skills_total")][t].skills_total

Season(t, scope) ==
    LET Sum(f) == SumFunction([e \in EventsOf(t) |-> results[e][t][scope][f]])
    IN  Record(Sum("matches"), Sum("wins"), Sum("losses"), Sum("draws"))

SomeEvent(t, flag) == \E e \in EventsOf(t) : results[e][t][flag]

\* The teams a refresh summarises, and the maps it ranks them by.
Entrants == {t \in Teams : EventsOf(t) # {}}
TeamNums == [t \in Entrants |-> teams[t].team_num]
TeamRegions == [t \in Entrants |-> teams[t].region]
Exposed == [t \in Entrants |-> results[Latest(t)][t].ts_exposed]
Skills == [t \in Entrants |-> BestSkills(t)]
SkillsTeams == {t \in Entrants : Skills[t] # None}
NotQualed(flag) == {t \in SkillsTeams : ~SomeEvent(t, flag)}

\* _assign_skills_ranks() sets the columns of the teams that have a score; the
\* merge of the row keeps what the column held for the others.
SkillsRank(t, ranks, column) ==
    IF t \in SkillsTeams THEN Get(ranks, t, None)
    ELSE IF t \in DOMAIN summary THEN summary[t][column] ELSE None

SeasonSummary(t) ==
    [team_num |-> TeamNums[t],
     events_count |-> Cardinality(EventsOf(t)),
     qual |-> Season(t, "qual"),
     elim |-> Season(t, "elim"),
     total |-> Season(t, "total"),
     ts_exposed |-> Exposed[t],
     ts_rank |-> Ranked(Entrants, Exposed, TeamNums)[t],
     region_ts_rank |->
        Get(RankedByRegion(Entrants, TeamRegions, None, Exposed, TeamNums), t, None),
     percentile_ts |-> Percentiles(Entrants, Exposed)[t],
     skills_total |-> Skills[t],
     skills_global_rank |->
        SkillsRank(t, Ranked(SkillsTeams, Skills, TeamNums), "skills_global_rank"),
     skills_region_rank |->
        SkillsRank(t, RankedByRegion(SkillsTeams, TeamRegions, None, Skills, TeamNums),
                   "skills_region_rank"),
     unqualed_worlds_skills_global_rank |->
        SkillsRank(t, Ranked(NotQualed("qualed_worlds"), Skills, TeamNums),
                   "unqualed_worlds_skills_global_rank"),
     unqualed_regionals_skills_region_rank |->
        SkillsRank(t, RankedByRegion(NotQualed("qualed_regionals"), TeamRegions, None,
                                     Skills, TeamNums),
                   "unqualed_regionals_skills_region_rank"),
     qualed_worlds |-> SomeEvent(t, "qualed_worlds"),
     qualed_regionals |-> SomeEvent(t, "qualed_regionals")]

RefreshTeamSeasonSummary ==
    /\ pc = "batches" /\ todo = {} /\ seen = {}
    /\ summary' = [t \in DOMAIN summary \cup Entrants |->
                      IF t \in Entrants THEN SeasonSummary(t) ELSE summary[t]]
    /\ pc' = "refreshed"
    /\ UNCHANGED <<todo, seen, ratings, now, teams, results>>

\* The process exits, or dies between two calls; its memory is gone.
Exit ==
    /\ pc # "none"
    /\ pc' = "none" /\ todo' = {} /\ seen' = {} /\ ratings' = Empty
    /\ UNCHANGED <<now, teams, results, summary>>

Next ==
    \/ ResetState
    \/ RecordEventResults
    \/ FetchMissingTeamProfiles
    \/ RefreshTeamSeasonSummary
    \/ Exit

Spec == Init /\ [][Next]_vars

-----------------------------------------------------------------------------
(* Properties *)

Rank == Nat \ {0}
WinLossDraw == [matches : Nat, wins : Nat, losses : Nat, draws : Nat]

TeamRow == [team_num : Int, region : Regions \cup {None}, profile_fetched : BOOLEAN]

ResultRow ==
    [qual : WinLossDraw, elim : WinLossDraw, total : WinLossDraw,
     ts_exposed : Exposures, skills_total : Nat \cup {None},
     qualed_worlds : BOOLEAN, qualed_regionals : BOOLEAN, created_at : Nat \ {0}]

SummaryRow ==
    [team_num : Int, events_count : Nat \ {0},
     qual : WinLossDraw, elim : WinLossDraw, total : WinLossDraw,
     ts_exposed : Exposures, ts_rank : Rank, region_ts_rank : Rank \cup {None},
     percentile_ts : 0..Cardinality(Teams), skills_total : Nat \cup {None},
     skills_global_rank : Rank \cup {None},
     skills_region_rank : Rank \cup {None},
     unqualed_worlds_skills_global_rank : Rank \cup {None},
     unqualed_regionals_skills_region_rank : Rank \cup {None},
     qualed_worlds : BOOLEAN, qualed_regionals : BOOLEAN]

\* A partial function from teams to rows.
IsTable(table, Row) == DOMAIN table \subseteq Teams /\ table \in [DOMAIN table -> Row]

\* The types of the tables, and the join of refresh_team_season_summary()
\* drops no row: every team with a result has its row in teams.
TypeOK ==
    /\ pc \in {"none", "batches", "refreshed"}
    /\ todo \subseteq Events /\ seen \subseteq Teams
    /\ IsTable(ratings, Exposures)
    /\ now \in 0..MaxRecords
    /\ IsTable(teams, TeamRow)
    /\ DOMAIN results = Events /\ \A e \in Events : IsTable(results[e], ResultRow)
    /\ IsTable(summary, SummaryRow)
    /\ Entrants \subseteq DOMAIN teams

AddsUp(record) == record.matches = record.wins + record.losses + record.draws

\* The teams whose rows the last call for an event wrote.
Newest(rows) ==
    {t \in DOMAIN rows : \A u \in DOMAIN rows : rows[u].created_at <= rows[t].created_at}

\* tournament_stats.py:90-125: every win in an elimination match of an event is
\* somebody's loss - a partner or opponent without a final ranking included -
\* and the summary's season record still adds up after any mix of partial,
\* withdrawn and re-fetched events.
RecordsBalance ==
    /\ \A e \in Events :
          LET Sum(f) == SumFunction([t \in Newest(results[e]) |-> results[e][t].elim[f]])
          IN  Sum("wins") = Sum("losses") /\ Sum("draws") % 4 = 0
    /\ \A t \in DOMAIN summary :
          /\ AddsUp(summary[t].qual) /\ AddsUp(summary[t].elim)
          /\ summary[t].total = Plus(summary[t].qual, summary[t].elim)

Summarised == DOMAIN summary
Runners == {t \in Summarised : summary[t].skills_total # None}

\* rank orders the teams of S as value does, and is different for each.
Orders(S, value, rank) ==
    \A t, u \in S : t # u =>
        /\ summary[t][rank] # summary[u][rank]
        /\ summary[t][value] > summary[u][value] => summary[t][rank] < summary[u][rank]

Placed(column) == {t \in Summarised : summary[t][column] # None}

\* db.py:535-644: the leaderboards of a season agree with the numbers they
\* rank and with each other, whatever earlier refreshes left in the rows:
\* TrueSkill ranks are 1..n without ties, region ranks are not above them,
\* an unqualified team only moves up, past the qualified ones, and percentiles
\* follow the exposures with ties at the place of the best.
RanksConsistent ==
    /\ Orders(Summarised, "ts_exposed", "ts_rank")
    /\ \A t \in Summarised : summary[t].ts_rank <= Cardinality(Summarised)
    /\ Orders(Runners, "skills_total", "skills_global_rank")
    /\ \A t \in Placed("region_ts_rank") : summary[t].region_ts_rank <= summary[t].ts_rank
    /\ \A t, u \in Placed("region_ts_rank") :
          teams[t].region = teams[u].region /\ summary[t].ts_rank < summary[u].ts_rank
              => summary[t].region_ts_rank < summary[u].region_ts_rank
    /\ \A t \in Runners :
          /\ summary[t].qualed_worlds <=>
                summary[t].unqualed_worlds_skills_global_rank = None
          /\ ~summary[t].qualed_worlds =>
                summary[t].unqualed_worlds_skills_global_rank =
                summary[t].skills_global_rank -
                    Cardinality({u \in Runners :
                        /\ summary[u].qualed_worlds
                        /\ summary[u].skills_global_rank < summary[t].skills_global_rank})
    /\ \A t, u \in Summarised :
          /\ summary[t].ts_exposed = summary[u].ts_exposed =>
                summary[t].percentile_ts = summary[u].percentile_ts
          /\ summary[t].ts_exposed > summary[u].ts_exposed =>
                summary[t].percentile_ts > summary[u].percentile_ts
          /\ summary[t].percentile_ts <= Hundred(Cardinality(Summarised))
          /\ summary[t].ts_rank = 1 =>
                summary[t].percentile_ts = Hundred(Cardinality(Summarised))

\* README.md:99 and tournament_stats.py:158: while a process runs, the rating of
\* every team it has rated is the snapshot in the row created last, however old
\* the event of that row, and the summary it writes shows that rating.
LatestSnapshot ==
    \A t \in DOMAIN ratings :
        /\ EventsOf(t) # {}
        /\ results[Latest(t)][t].ts_exposed = ratings[t]
        /\ pc = "refreshed" => summary[t].ts_exposed = ratings[t]

\* README.md:98 and db.py:329: a profile is fetched once, so recording results
\* must not touch what it said; a team ranked in its region stays ranked there.
PlacedForGood ==
    [][/\ \A t \in DOMAIN teams : teams[t].profile_fetched =>
             /\ t \in DOMAIN teams' /\ teams'[t].profile_fetched
             /\ teams'[t].region = teams[t].region
       /\ \A t \in Placed("region_ts_rank") :
             /\ t \in DOMAIN summary'
             /\ summary'[t].region_ts_rank # None]_vars
=============================================================================
