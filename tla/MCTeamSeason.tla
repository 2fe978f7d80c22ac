---------------------------- MODULE MCTeamSeason ----------------------------
EXTENDS TeamSeason, TLC

CONSTANTS A, B

MCTeams == 1..4
MCTeamNum == [t \in MCTeams |-> 10 * t]
MCIdNum == [t \in MCTeams |-> 10 * (5 - t) + 1]
MCRegion == [t \in MCTeams |-> CASE t \in {1, 2} -> A [] t = 3 -> B [] OTHER -> None]
MCEvents == {1, 2}

Row(w, l, d) == [wins |-> w, losses |-> l, ties |-> d]
Match(num, round, red, blue, scores, started) ==
    [num |-> num, round |-> round, red |-> red, blue |-> blue,
     red_score |-> scores[1], blue_score |-> scores[2], started |-> started]
NoRuns == [t \in {} |-> 0]

\* Everybody level, odd teams ahead, and high numbers ahead.
MCOutcomes == {[t \in MCTeams |-> 0], [t \in MCTeams |-> t % 2],
               [t \in MCTeams |-> t \div 3]}

\* The elimination final has not started and its slots are not filled.
FirstDay ==
    [rankings |-> [t \in 1..3 |-> Row(t, 1, 0)],
     matches |-> {Match(1, "qual", {1, 2}, {3, 4}, <<5, 3>>, TRUE),
                  Match(2, "elim", {1, 2}, {3, 4}, <<7, 9>>, TRUE),
                  Match(3, "elim", {1}, {}, <<0, 0>>, FALSE)},
     driver |-> 1 :> 5 @@ 3 :> 5, programming |-> 2 :> 5,
     awards |-> {}]

\* Team 4 has withdrawn from the rankings; team 1's skills run is withdrawn.
LastDay ==
    [rankings |-> [t \in 1..3 |-> Row(t, 1, 1)],
     matches |-> {Match(2, "elim", {1, 2}, {3, 4}, <<7, 9>>, TRUE),
                  Match(3, "elim", {1, 3}, {2, 4}, <<4, 4>>, TRUE)},
     driver |-> 3 :> 5, programming |-> 2 :> 7,
     awards |-> {[team |-> 3, qualifies |-> "worlds"],
                 [team |-> 2, qualifies |-> "regionals"]}]

\* An event without a played match, and one with practice only.
Scheduled ==
    [rankings |-> [t \in 1..4 |-> Row(0, 0, 0)],
     matches |-> {Match(1, "qual", {1, 2}, {3, 4}, <<0, 0>>, FALSE)},
     driver |-> 4 :> 6, programming |-> NoRuns, awards |-> {}]
Final ==
    [rankings |-> [t \in {1, 4} |-> Row(1, 0, 0)],
     matches |-> {Match(1, "elim", {1, 4}, {2, 3}, <<6, 2>>, TRUE)},
     driver |-> 1 :> 4 @@ 4 :> 6, programming |-> NoRuns,
     awards |-> {[team |-> 1, qualifies |-> "worlds"]}]

MCPayloads == [e \in MCEvents |-> IF e = 1 THEN {FirstDay, LastDay}
                                           ELSE {Scheduled, Final}]
=============================================================================
