----------------------------- MODULE SeasonRanks -----------------------------
(***************************************************************************)
(* The ranking rules refresh_team_season_summary() of db.py applies to a   *)
(* season's teams: sorted() by (-value, team_num) and enumerate(), over    *)
(* all teams, a region's teams or the teams that have not qualified yet;   *)
(* and percentiles in which ties share the place of the best of them.      *)
(***************************************************************************)
EXTENDS Integers, FiniteSets

\* u sorts before t under the key (-value, num).
SortsBefore(value, num, u, t) ==
    \/ value[u] > value[t]
    \/ value[u] = value[t] /\ num[u] < num[t]

\* Mutant: the key is the value alone, so ties get the same rank.
Ranked_Ties(S, value, num) ==
    [t \in S |-> 1 + Cardinality({u \in S : value[u] > value[t]})]

\* ranked(): the place of every team of S in the sorted list, from 1.
Ranked(S, value, num) ==
    [t \in S |-> 1 + Cardinality({u \in S : SortsBefore(value, num, u, t)})]

\* The teams of a region ranked among themselves; no region, no rank.
RankedByRegion(S, region, none, value, num) ==
    [t \in {u \in S : region[u] # none} |->
        Ranked({u \in S : region[u] = region[t]}, value, num)[t]]

\* _percentiles(), in units of 100 / (n - 1): the places below a team's best.
\* The only team of a season gets 100, here one unit.
Hundred(n) == IF n = 1 THEN 1 ELSE n - 1
Percentiles(S, value) ==
    [t \in S |-> Hundred(Cardinality(S)) - Cardinality({u \in S : value[u] > value[t]})]

\* dict.get(): None for a team that is not in the map.
Get(map, t, none) == IF t \in DOMAIN map THEN map[t] ELSE none
=============================================================================
