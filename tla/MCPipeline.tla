----------------------------- MODULE MCPipeline -----------------------------
(* Small instances of Pipeline for TLC. *)
EXTENDS Pipeline, TLC

CONSTANTS e1, e2, e3, e4

\* Two seasons one after the other.  e1 is a league that stays in progress
\* while e2 and e3, tournaments of the same season, are played; e4 opens the
\* next season.
MCEvents == {e1, e2, e3, e4}
MCEventStart == e1 :> 0 @@ e2 :> 1 @@ e3 :> 2 @@ e4 :> 2
MCEventEnd == e1 :> 2 @@ e2 :> 1 @@ e3 :> 2 @@ e4 :> 3
MCEventSeason == e1 :> 1 @@ e2 :> 1 @@ e3 :> 1 @@ e4 :> 2

\* One more version per unit of time from the start on, the last at the end;
\* nothing has been played yet at the moment a longer event starts.
MCVexData ==
    [e \in MCEvents |-> [t \in 0..MaxTime |->
        IF t < MCEventStart[e] THEN 0
        ELSE IF MCEventEnd[e] = MCEventStart[e] THEN 1
        ELSE (IF t < MCEventEnd[e] THEN t ELSE MCEventEnd[e]) - MCEventStart[e]]]

MCSeasons == {1, 2}
MCSeasonListed == 1 :> 0 @@ 2 :> 2
MCSeasonMarker == 1 :> 2 @@ 2 :> 4

Symmetry == Permutations(Runs)
=============================================================================
