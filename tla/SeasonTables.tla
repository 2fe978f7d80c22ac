---------------------------- MODULE SeasonTables ----------------------------
(***************************************************************************)
(* What ingestion promises whoever reads the dataset about the rows of a   *)
(* season, without saying how it gets them: results only grow, the summary *)
(* is what the results were at a refresh, and an archive moves every       *)
(* season but the latest one to the history in one step.                   *)
(*                                                                         *)
(* The pipeline (module Pipeline) implements it; the API (module Api) runs *)
(* beside any behaviour of it.                                             *)
(***************************************************************************)
EXTENDS Integers

CONSTANT Seasons

VARIABLES
    results,        \* per season, the version of its rows; 0 is no row
    summary,        \* the version the live rows were computed from
    history         \* the version of the archived rows

vars == <<results, summary, history>>

Init ==
    /\ results = [s \in Seasons |-> 0]
    /\ summary = [s \in Seasons |-> 0]
    /\ history = [s \in Seasons |-> 0]

\* The season the live table is for.
IsLatest(s) == summary[s] > 0 /\ \A t \in Seasons : summary[t] > 0 => t <= s

\* The results of a season reach a later version.
Record(s) ==
    /\ results'[s] \in Nat /\ results'[s] > results[s]
    /\ results' = [results EXCEPT ![s] = results'[s]]
    /\ UNCHANGED <<summary, history>>

\* A season without results has nothing to summarise.
Refresh(s) ==
    /\ results[s] > 0
    /\ summary' = [summary EXCEPT ![s] = results[s]]
    /\ UNCHANGED <<results, history>>

Archive ==
    /\ history' = [s \in Seasons |->
                     IF summary[s] > 0 /\ ~IsLatest(s) THEN summary[s] ELSE history[s]]
    /\ summary' = [s \in Seasons |-> IF IsLatest(s) THEN summary[s] ELSE 0]
    /\ UNCHANGED results

Next ==
    \/ \E s \in Seasons : Record(s) \/ Refresh(s)
    \/ Archive

Spec == Init /\ [][Next]_vars
=============================================================================
