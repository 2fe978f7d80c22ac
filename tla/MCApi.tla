-------------------------------- MODULE MCApi --------------------------------
(* Small instances of Api for TLC. *)
EXTENDS Api, TLC

CONSTANTS t1, t2, r1, r2

MCLabel == t1 :> 1 @@ t2 :> 1

Of(kind, season) == [kind |-> kind, season |-> season]

\* Tokens come and go: two of one label with one client, one with two clients.
MCTokens ==
    {[clients |-> {r1}, presented |-> {t1, t2}, managed |-> {t1, t2},
      routes |-> {Of("runs", NoSeason)},
      maxVersion |-> 1 :> 0 @@ 2 :> 0, maxRuns |-> 1],
     [clients |-> {r1, r2}, presented |-> {t1}, managed |-> {t1},
      routes |-> {Of("seasons", NoSeason), Of("latest_run", NoSeason)},
      maxVersion |-> 1 :> 0 @@ 2 :> 0, maxRuns |-> 1]}

\* Two clients fill and push out the cache while the dataset changes.
MCFills ==
    {[clients |-> {r1, r2}, presented |-> {t1}, managed |-> {},
      routes |-> {Of("runs", NoSeason), Of("latest_run", NoSeason)},
      maxVersion |-> 1 :> 0 @@ 2 :> 0, maxRuns |-> 2],
     [clients |-> {r1, r2}, presented |-> {t1}, managed |-> {},
      routes |-> {Of("team", 1), Of("awards", 1)},
      maxVersion |-> 1 :> 1 @@ 2 :> 1, maxRuns |-> 0]}

\* One client reads a season that is played, archived and backfilled while a
\* second one opens.
MCReads ==
    [clients : {{r1}}, presented : {{t1}}, managed : {{}},
     routes : {{Of("seasons", NoSeason), Of("team", 1)},
               {Of("current_list", NoSeason), Of("list", 1)},
               {Of("current_team", NoSeason), Of("pick_list", 1)},
               {Of("trend", 1), Of("awards", 1)}},
     maxVersion : {1 :> 2 @@ 2 :> 1}, maxRuns : {0}]

MCScenarios == MCTokens \cup MCFills \cup MCReads
=============================================================================
