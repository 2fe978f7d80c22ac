--------------------------- MODULE PipelineProofs ---------------------------
(***************************************************************************)
(* Theorems about Pipeline, for every set of events, seasons and runs, any *)
(* batch size, any number of runs executing at the same time.              *)
(***************************************************************************)
EXTENDS Pipeline, FiniteSetTheorems, TLAPS

-----------------------------------------------------------------------------
(* Types *)

\* The locals of a run that has not started, or is gone, are well typed.
LEMMA NoLocalType == NoLocal \in LocalState
BY BoundsAssumption DEF NoLocal, LocalState, NoVersions, Versions

\* Assigning local variables keeps the record of locals well typed.
LEMMA LocalSnapshot ==
    ASSUME NEW l \in LocalState, NEW t \in 0..MaxTime, NEW S \in SUBSET Events
    PROVE  [l EXCEPT !.now = t, !.processed = S] \in LocalState
BY DEF LocalState

\* The sets of events a run keeps.
LEMMA LocalSets ==
    ASSUME NEW l \in LocalState, NEW S \in SUBSET Events
    PROVE  /\ [l EXCEPT !.inProgress = S] \in LocalState
           /\ [l EXCEPT !.todo = S] \in LocalState
           /\ [l EXCEPT !.scored = S] \in LocalState
BY DEF LocalState

\* The lower bound and the count a run keeps.
LEMMA LocalNumbers ==
    ASSUME NEW l \in LocalState, NEW n \in Nat
    PROVE  /\ [l EXCEPT !.start = n] \in LocalState
           /\ [l EXCEPT !.events_processed = n] \in LocalState
BY DEF LocalState

\* What FetchBatch assigns: a batch, the rest, and the data fetched.
LEMMA LocalBatch ==
    ASSUME NEW l \in LocalState, NEW S \in SUBSET Events, NEW T \in SUBSET Events,
           NEW f \in Versions
    PROVE  [l EXCEPT !.batch = S, !.todo = T, !.fetched = f] \in LocalState
BY DEF LocalState

\* Replacing the locals of one run keeps the function of all locals typed.
LEMMA LocalUpdate ==
    ASSUME TypeOK, NEW r \in Runs, NEW l \in LocalState,
           local' = [local EXCEPT ![r] = l]
    PROVE  local' \in [Runs -> LocalState]
BY DEF TypeOK

\* A season's row set is a function of the stored versions.
LEMMA ResultsType ==
    ASSUME TypeOK, NEW s
    PROVE  Results(s) \in Versions
BY DEF TypeOK, Results, Versions

\* What ending a run leaves of its types, whatever the status written.
LEMMA ExitType ==
    ASSUME TypeOK, NEW r \in Runs, NEW status \in {"succeeded", "failed"},
           Exit(r, status)
    PROVE  TypeOK'
<1>1. local[r].events_processed \in Nat
  BY DEF TypeOK, LocalState
<1> QED BY <1>1, NoLocalType DEF TypeOK, Exit, tables

\* What starting a run leaves of its types, for either kind of run.
LEMMA StartType ==
    ASSUME TypeOK, NEW r \in Runs, NEW s \in Seasons, NEW entire \in BOOLEAN,
           StartRefreshRun(r, s, entire)
    PROVE  TypeOK'
<1>1. [NoLocal EXCEPT !.season = s, !.entire = entire] \in LocalState
  BY NoLocalType DEF NoLocal, LocalState
<1>2. local' \in [Runs -> LocalState]
  BY <1>1 DEF TypeOK, StartRefreshRun
<1> QED BY <1>2 DEF TypeOK, StartRefreshRun, tables, InTry

\* Moving the stale seasons keeps both season tables typed.
LEMMA ArchiveType ==
    ASSUME TypeOK, ArchiveSeasons
    PROVE  /\ summary' \in [Seasons -> Versions]
           /\ history' \in [Seasons -> Versions]
BY DEF TypeOK, ArchiveSeasons, NoVersions, Versions

\* Every action keeps the types, one step per action.
LEMMA TypeStep == TypeOK /\ [Next]_vars => TypeOK'
<1> SUFFICES ASSUME TypeOK, [Next]_vars PROVE TypeOK'
  OBVIOUS
<1>1. CASE Tick
  BY <1>1, BoundsAssumption DEF TypeOK, Tick, tables
<1>2. CASE ArchiveCommand
  BY <1>2, ArchiveType DEF TypeOK, ArchiveCommand, ArchiveSeasons
<1>3. ASSUME NEW r \in Runs, StartIncremental(r) PROVE TypeOK'
  BY <1>3, StartType DEF StartIncremental
<1>4. ASSUME NEW r \in Runs, StartBackfill(r) PROVE TypeOK'
  BY <1>4, StartType, SeasonsAssumption DEF StartBackfill
<1>l. ASSUME NEW r \in Runs PROVE local[r] \in LocalState
  BY DEF TypeOK
<1>5. ASSUME NEW r \in Runs, GetProcessedEventIds(r) PROVE TypeOK'
  <2>1. local' = [local EXCEPT ![r] =
                     [local[r] EXCEPT !.now = now, !.processed = events]]
    BY <1>5, <1>l DEF GetProcessedEventIds, TypeOK
  <2>2. local' \in [Runs -> LocalState]
    BY <1>l, <2>1, LocalSnapshot, LocalUpdate DEF TypeOK
  <2> QED BY <1>5, <2>2 DEF TypeOK, GetProcessedEventIds, tables, InTry
<1>6. ASSUME NEW r \in Runs, GetInProgressEventIds(r) PROVE TypeOK'
  <2> DEFINE S == InProgress(local[r].now)
  <2>1. local' = [local EXCEPT ![r] = [local[r] EXCEPT !.inProgress = S]]
    BY <1>6 DEF GetInProgressEventIds, TypeOK
  <2>2. S \in SUBSET Events
    BY DEF TypeOK, InProgress
  <2> HIDE DEF S
  <2>3. local' \in [Runs -> LocalState]
    BY <1>l, <2>1, <2>2, LocalSets, LocalUpdate
  <2> QED BY <1>6, <2>3 DEF TypeOK, GetInProgressEventIds, tables, InTry
<1>7. ASSUME NEW r \in Runs, GetLastUpdatedEventStart(r) PROVE TypeOK'
  <2> DEFINE start == IF lastProcessed = NoEvent THEN ConfigEventStart
                                                 ELSE EventStart[lastProcessed]
  <2>1. lastProcessed # NoEvent => lastProcessed \in Events
    BY DEF TypeOK
  <2>2. start \in Nat
    BY <2>1, EventsAssumption, ConfigAssumption
  <2>3. local' = [local EXCEPT ![r] = [local[r] EXCEPT !.start = start]]
    BY <1>7 DEF GetLastUpdatedEventStart, TypeOK
  <2> HIDE DEF start
  <2>4. local' \in [Runs -> LocalState]
    BY <1>l, <2>2, <2>3, LocalNumbers, LocalUpdate
  <2> QED BY <1>7, <2>4 DEF TypeOK, GetLastUpdatedEventStart, tables, InTry
<1>8. ASSUME NEW r \in Runs, GetOldestInProgressEventStart(r) PROVE TypeOK'
  <2>1. PICK start \in {local[r].start} \cup
                       {EventStart[e] : e \in InProgress(local[r].now)} :
            local' = [local EXCEPT ![r].start = start]
    BY <1>8 DEF GetOldestInProgressEventStart
  <2>2. local[r].start \in Nat
    BY <1>l DEF LocalState
  <2>3. start \in Nat
    BY <2>1, <2>2, EventsAssumption DEF TypeOK, InProgress
  <2>4. local' = [local EXCEPT ![r] = [local[r] EXCEPT !.start = start]]
    BY <2>1 DEF TypeOK
  <2>5. local' \in [Runs -> LocalState]
    BY <1>l, <2>3, <2>4, LocalNumbers, LocalUpdate
  <2> QED BY <1>8, <2>5 DEF TypeOK, GetOldestInProgressEventStart, tables, InTry
<1>9. ASSUME NEW r \in Runs, FetchEvents(r) PROVE TypeOK'
  <2> DEFINE todo == {e \in Listed(r) : \/ e \notin local[r].processed
                                        \/ e \in local[r].inProgress}
  <2>1. local' = [local EXCEPT ![r] = [local[r] EXCEPT !.todo = todo]]
    BY <1>9 DEF FetchEvents, TypeOK
  <2>2. todo \in SUBSET Events
    BY DEF Listed
  <2>3. pc' \in [Runs -> InTry \cup {"new", "exited"}]
    BY <1>9 DEF FetchEvents, TypeOK, InTry
  <2> HIDE DEF todo
  <2>4. local' \in [Runs -> LocalState]
    BY <1>l, <2>1, <2>2, LocalSets, LocalUpdate
  <2> QED BY <1>9, <2>3, <2>4 DEF TypeOK, FetchEvents, tables
<1>10. ASSUME NEW r \in Runs, FetchBatch(r) PROVE TypeOK'
  <2>1. PICK b \in FirstBatches(local[r].todo) :
            local' = [local EXCEPT ![r] = [@ EXCEPT
                        !.batch = b, !.todo = local[r].todo \ b,
                        !.fetched = [e \in Events |-> IF e \in b THEN VexData[e][now]
                                                                 ELSE 0]]]
    BY <1>10 DEF FetchBatch, FetchEventData
  <2> DEFINE fetched == [e \in Events |-> IF e \in b THEN VexData[e][now] ELSE 0]
  <2>2. local[r].todo \subseteq Events
    BY <1>l DEF LocalState
  <2>3. b \in SUBSET Events /\ local[r].todo \ b \in SUBSET Events
    BY <2>2 DEF FirstBatches
  <2>6. ASSUME NEW e \in Events PROVE VexData[e][now] \in Nat
    BY VexDataAssumption DEF TypeOK
  <2>4. fetched \in Versions
    BY <2>6 DEF Versions
  <2> DEFINE todo == local[r].todo \ b
  <2>7. local' = [local EXCEPT ![r] = [local[r] EXCEPT
                    !.batch = b, !.todo = todo, !.fetched = fetched]]
    BY <2>1
  <2> HIDE DEF fetched, todo
  <2>8. [local[r] EXCEPT !.batch = b, !.todo = todo, !.fetched = fetched]
            \in LocalState
    BY <1>l, <2>3, <2>4, LocalBatch DEF todo
  <2>5. local' \in [Runs -> LocalState]
    BY <2>7, <2>8, LocalUpdate
  <2> QED BY <1>10, <2>5 DEF TypeOK, FetchBatch, tables, InTry
<1>11. ASSUME NEW r \in Runs, RecordEventResults(r) PROVE TypeOK'
  <2> DEFINE scored(e) == local[r].scored \cup {e}
  <2>1. PICK e \in Pending(r) :
            /\ events' = events \cup {e}
            /\ lastProcessed' = e
            /\ results' = IF local[r].fetched[e] = 0 THEN results
                          ELSE [results EXCEPT ![e] = local[r].fetched[e]]
            /\ local' = [local EXCEPT ![r] = [local[r] EXCEPT !.scored = scored(e)]]
            /\ pc' = [pc EXCEPT ![r] = IF Pending(r) = {e} THEN "profiles" ELSE "record"]
    BY <1>11 DEF RecordEventResults, ProcessMatches, TypeOK
  <2>2. /\ local[r].batch \subseteq Events
        /\ local[r].scored \subseteq Events
        /\ local[r].fetched \in [Events -> Nat]
    BY <1>l DEF LocalState, Versions
  <2>3. e \in Events /\ local[r].fetched[e] \in Nat /\ scored(e) \in SUBSET Events
    BY <2>2 DEF Pending
  <2>4. results' \in Versions
    BY <2>1, <2>3 DEF TypeOK, Versions
  <2>5. /\ events' \subseteq Events
        /\ lastProcessed' \in events'
        /\ pc' \in [Runs -> InTry \cup {"new", "exited"}]
    BY <2>1, <2>3 DEF TypeOK, InTry
  <2> HIDE DEF scored
  <2>6. local' \in [Runs -> LocalState]
    BY <1>l, <2>1, <2>3, LocalSets, LocalUpdate
  <2> QED BY <1>11, <2>4, <2>5, <2>6 DEF TypeOK, RecordEventResults
<1>12. ASSUME NEW r \in Runs, FetchMissingTeamProfiles(r) PROVE TypeOK'
  <2> DEFINE n == local[r].events_processed + Cardinality(local[r].batch)
  <2>1. local' = [local EXCEPT ![r] = [local[r] EXCEPT !.events_processed = n]]
    BY <1>12 DEF FetchMissingTeamProfiles, TypeOK
  <2>2. local[r].batch \subseteq Events /\ local[r].events_processed \in Nat
    BY <1>l DEF LocalState
  <2>3. Cardinality(local[r].batch) \in Nat
    BY <2>2, EventsAssumption, FS_Subset, FS_CardinalityType
  <2>4. n \in Nat
    BY <2>2, <2>3
  <2> HIDE DEF n
  <2>5. local' \in [Runs -> LocalState]
    BY <1>l, <2>1, <2>4, LocalNumbers, LocalUpdate
  <2> QED BY <1>12, <2>5 DEF TypeOK, FetchMissingTeamProfiles, tables, InTry
<1>13. ASSUME NEW r \in Runs, UpdateRefreshRunProgress(r) PROVE TypeOK'
  <2>1. local[r].events_processed \in Nat
    BY <1>l DEF LocalState
  <2> QED BY <1>13, <2>1 DEF TypeOK, UpdateRefreshRunProgress, tables, InTry
<1>14. ASSUME NEW r \in Runs, RefreshTeamSeasonSummary(r) PROVE TypeOK'
  BY <1>14, ResultsType DEF TypeOK, RefreshTeamSeasonSummary, InTry
<1>15. ASSUME NEW r \in Runs, ArchiveCompletedSeasons(r) PROVE TypeOK'
  BY <1>15, ArchiveType DEF TypeOK, ArchiveCompletedSeasons, ArchiveSeasons, InTry
<1>16. ASSUME NEW r \in Runs, CompleteRefreshRun(r) PROVE TypeOK'
  BY <1>16, ExitType DEF CompleteRefreshRun
<1>17. ASSUME NEW r \in Runs, FailRefreshRun(r) PROVE TypeOK'
  BY <1>17, ExitType DEF FailRefreshRun
<1>18. ASSUME NEW r \in Runs, Crash(r) PROVE TypeOK'
  BY <1>18, NoLocalType DEF TypeOK, Crash, tables
<1>19. CASE UNCHANGED vars
  BY <1>19 DEF TypeOK, vars, tables
<1> QED
  BY <1>1, <1>2, <1>3, <1>4, <1>5, <1>6, <1>7, <1>8, <1>9, <1>10, <1>11, <1>12,
     <1>13, <1>14, <1>15, <1>16, <1>17, <1>18, <1>19
  DEF Next, Step

\* Every variable keeps its type: the tables, the run rows and the locals of
\* every run (update_stats.py, db.py).
THEOREM TypeCorrect == Spec => []TypeOK
<1>1. Init => TypeOK
  BY NoLocalType, BoundsAssumption
  DEF Init, TypeOK, EmptySeasonTable, NoVersions, Versions, InTry
<1> QED BY <1>1, TypeStep, PTL DEF Spec
-----------------------------------------------------------------------------
(* The order in which a run scores                                         *)

\* Where a run has not been handed any event yet, and where it has none left.
BeforeLoop == {"new", "exited", "processed_ids", "in_progress_ids",
               "last_updated", "oldest", "fetch_events"}
AfterLoop == {"refresh", "archive", "complete"}

Fresh(r) ==
    pc[r] \in BeforeLoop =>
        local[r].batch = {} /\ local[r].todo = {} /\ local[r].scored = {}

\* A new batch is taken, and the loop is left, only when nothing is pending.
Drained(r) ==
    /\ pc[r] \in {"fetch_batch", "profiles", "progress"} \cup AfterLoop => Pending(r) = {}
    /\ pc[r] \in AfterLoop => local[r].todo = {}

\* Scored events first, then the current batch, then the rest.
InOrder(r) ==
    /\ \A x \in local[r].scored, y \in Pending(r) \cup local[r].todo :
          EventStart[x] <= EventStart[y]
    /\ \A x \in Pending(r), y \in local[r].todo : EventStart[x] <= EventStart[y]

\* A run only handles events its query returned, and records what it scores.
Handled(r) ==
    /\ \A e \in Pending(r) \cup local[r].todo :
          EventSeason[e] = local[r].season /\ EventStart[e] <= local[r].now
    /\ local[r].processed \subseteq events
    /\ local[r].scored \subseteq events

RunOrder(r) == Fresh(r) /\ Drained(r) /\ InOrder(r) /\ Handled(r)

\* The steps of one run leave what is known of the others alone.
LEMMA OrderFrame ==
    ASSUME NEW q \in Runs, RunOrder(q), events \subseteq events',
           local'[q] = local[q], pc'[q] = pc[q]
    PROVE  RunOrder(q)'
BY DEF RunOrder, Fresh, Drained, InOrder, Handled, Pending

\* A run that starts or ends has nothing in its hands.
LEMMA OrderIdle ==
    ASSUME NEW r \in Runs, pc'[r] \in BeforeLoop, events' = events,
           local'[r].batch = {}, local'[r].todo = {}, local'[r].scored = {},
           local'[r].processed \subseteq events
    PROVE  RunOrder(r)'
BY DEF RunOrder, Fresh, Drained, InOrder, Handled, Pending, BeforeLoop, AfterLoop

\* The pieces of a run's locals that the next steps are about, as sets.
LEMMA LocalSetsOf ==
    ASSUME TypeOK, NEW r \in Runs
    PROVE  /\ local[r] \in LocalState
           /\ local[r].batch \subseteq Events
           /\ local[r].todo \subseteq Events
           /\ local[r].scored \subseteq Events
           /\ local[r].now \in 0..MaxTime
           /\ local[r].start \in Nat
BY DEF TypeOK, LocalState

\* A run's own steps keep what is known of its order, one case per action.
LEMMA OrderOwnStep ==
    ASSUME TypeOK, NEW r \in Runs, RunOrder(r), Step(r) \/ Crash(r) \/ FailRefreshRun(r)
    PROVE  RunOrder(r)' /\ events \subseteq events'
<1> USE LocalSetsOf
<1>1. CASE GetProcessedEventIds(r)
  <2>1. local'[r] = [local[r] EXCEPT !.now = now, !.processed = events]
    BY <1>1 DEF GetProcessedEventIds, TypeOK
  <2>2. /\ local'[r].processed = events
        /\ local'[r].batch = local[r].batch
        /\ local'[r].todo = local[r].todo
        /\ local'[r].scored = local[r].scored
    BY <2>1 DEF LocalState
  <2>3. pc[r] = "processed_ids" /\ pc'[r] = "in_progress_ids" /\ events' = events
    BY <1>1 DEF GetProcessedEventIds, TypeOK, tables
  <2> QED BY <2>2, <2>3, OrderIdle DEF RunOrder, Fresh, BeforeLoop
<1>2. CASE GetInProgressEventIds(r)
  <2>1. local'[r] = [local[r] EXCEPT !.inProgress = InProgress(local[r].now)]
    BY <1>2 DEF GetInProgressEventIds, TypeOK
  <2>2. /\ local'[r].processed = local[r].processed
        /\ local'[r].batch = local[r].batch
        /\ local'[r].todo = local[r].todo
        /\ local'[r].scored = local[r].scored
    BY <2>1 DEF LocalState
  <2>3. /\ pc[r] = "in_progress_ids" /\ pc'[r] \in {"fetch_events", "last_updated"}
        /\ events' = events
    BY <1>2 DEF GetInProgressEventIds, TypeOK, tables
  <2> QED BY <2>2, <2>3, OrderIdle DEF RunOrder, Fresh, Handled, BeforeLoop
<1>3. CASE GetLastUpdatedEventStart(r) \/ GetOldestInProgressEventStart(r)
  <2>1. PICK start : local'[r] = [local[r] EXCEPT !.start = start]
    BY <1>3 DEF GetLastUpdatedEventStart, GetOldestInProgressEventStart, TypeOK
  <2>2. /\ local'[r].processed = local[r].processed
        /\ local'[r].batch = local[r].batch
        /\ local'[r].todo = local[r].todo
        /\ local'[r].scored = local[r].scored
    BY <2>1 DEF LocalState
  <2>3. /\ pc[r] \in BeforeLoop /\ pc'[r] \in BeforeLoop
        /\ events' = events
    BY <1>3 DEF GetLastUpdatedEventStart, GetOldestInProgressEventStart, TypeOK,
                tables, BeforeLoop
  <2> QED BY <2>2, <2>3, OrderIdle DEF RunOrder, Fresh, Handled
<1>4. CASE FetchEvents(r)
  <2> DEFINE todo == {e \in Listed(r) : \/ e \notin local[r].processed
                                        \/ e \in local[r].inProgress}
  <2>1. local'[r] = [local[r] EXCEPT !.todo = todo]
    BY <1>4 DEF FetchEvents, TypeOK
  <2>2. /\ local'[r].todo = todo
        /\ local'[r].batch = local[r].batch
        /\ local'[r].scored = local[r].scored
        /\ local'[r].processed = local[r].processed
        /\ local'[r].season = local[r].season
        /\ local'[r].now = local[r].now
    BY <2>1 DEF LocalState
  <2>3. /\ pc[r] = "fetch_events"
        /\ pc'[r] = IF todo = {} THEN "complete" ELSE "fetch_batch"
        /\ events' = events
    BY <1>4 DEF FetchEvents, TypeOK, tables
  <2>4. \A e \in todo : EventSeason[e] = local[r].season /\ EventStart[e] <= local[r].now
    BY DEF Listed
  <2>5. local[r].batch = {} /\ local[r].scored = {}
    BY <2>3 DEF RunOrder, Fresh, BeforeLoop
  <2> HIDE DEF todo
  <2> QED
    BY <2>2, <2>3, <2>4, <2>5
    DEF RunOrder, Fresh, Drained, InOrder, Handled, Pending, BeforeLoop, AfterLoop
<1>5. CASE FetchBatch(r)
  <2>1. PICK b \in FirstBatches(local[r].todo) :
            local' = [local EXCEPT ![r] = [@ EXCEPT
                        !.batch = b, !.todo = local[r].todo \ b,
                        !.fetched = [e \in Events |-> IF e \in b THEN VexData[e][now]
                                                                 ELSE 0]]]
    BY <1>5 DEF FetchBatch, FetchEventData
  <2>2. /\ local'[r].batch = b
        /\ local'[r].todo = local[r].todo \ b
        /\ local'[r].scored = local[r].scored
        /\ local'[r].processed = local[r].processed
        /\ local'[r].season = local[r].season
        /\ local'[r].now = local[r].now
    BY <2>1 DEF LocalState, TypeOK
  <2>3. /\ b \subseteq local[r].todo
        /\ \A x \in b, y \in local[r].todo \ b : EventStart[x] <= EventStart[y]
    BY DEF FirstBatches
  <2>4. pc'[r] = "record" /\ events' = events
    BY <1>5 DEF FetchBatch, TypeOK, tables
  <2> QED
    BY <2>2, <2>3, <2>4
    DEF RunOrder, Fresh, Drained, InOrder, Handled, Pending, BeforeLoop, AfterLoop
<1>6. CASE RecordEventResults(r)
  <2>1. PICK e \in Pending(r) :
            /\ \A other \in Pending(r) : EventStart[e] <= EventStart[other]
            /\ events' = events \cup {e}
            /\ local' = [local EXCEPT ![r].scored = @ \cup {e}]
            /\ pc' = [pc EXCEPT ![r] = IF Pending(r) = {e} THEN "profiles" ELSE "record"]
    BY <1>6 DEF RecordEventResults
  <2>2. /\ local'[r].scored = local[r].scored \cup {e}
        /\ local'[r].batch = local[r].batch
        /\ local'[r].todo = local[r].todo
        /\ local'[r].processed = local[r].processed
        /\ local'[r].season = local[r].season
        /\ local'[r].now = local[r].now
    BY <2>1 DEF LocalState, TypeOK
  <2>3. pc'[r] = IF Pending(r) = {e} THEN "profiles" ELSE "record"
    BY <2>1 DEF TypeOK
  <2>4. Pending(r)' = Pending(r) \ {e}
    BY <2>2 DEF Pending
  <2>5. Fresh(r)' /\ Drained(r)'
    BY <2>3, <2>4 DEF Fresh, Drained, BeforeLoop, AfterLoop
  <2>6. InOrder(r)'
    BY <2>1, <2>2, <2>4 DEF RunOrder, InOrder
  <2>7. Handled(r)'
    BY <2>1, <2>2, <2>4 DEF RunOrder, Handled
  <2> QED BY <2>1, <2>5, <2>6, <2>7 DEF RunOrder
<1>7. CASE FetchMissingTeamProfiles(r)
  <2>1. local'[r] = [local[r] EXCEPT !.events_processed =
                        local[r].events_processed + Cardinality(local[r].batch)]
    BY <1>7 DEF FetchMissingTeamProfiles, TypeOK
  <2>2. /\ local'[r].batch = local[r].batch
        /\ local'[r].todo = local[r].todo
        /\ local'[r].scored = local[r].scored
        /\ local'[r].processed = local[r].processed
        /\ local'[r].season = local[r].season
        /\ local'[r].now = local[r].now
    BY <2>1 DEF LocalState
  <2>3. pc[r] = "profiles" /\ pc'[r] = "progress" /\ events' = events
    BY <1>7 DEF FetchMissingTeamProfiles, TypeOK, tables
  <2> QED
    BY <2>2, <2>3
    DEF RunOrder, Fresh, Drained, InOrder, Handled, Pending, BeforeLoop, AfterLoop
<1>8. CASE UpdateRefreshRunProgress(r) \/ RefreshTeamSeasonSummary(r)
           \/ ArchiveCompletedSeasons(r)
  <2>1. local' = local /\ events' = events
    BY <1>8 DEF UpdateRefreshRunProgress, RefreshTeamSeasonSummary,
                ArchiveCompletedSeasons, ArchiveSeasons, tables
  <2>2. \/ pc[r] = "progress" /\ pc'[r] = IF local[r].todo = {} THEN "refresh"
                                                              ELSE "fetch_batch"
        \/ pc[r] \in AfterLoop /\ pc'[r] \in AfterLoop
    BY <1>8 DEF UpdateRefreshRunProgress, RefreshTeamSeasonSummary,
                ArchiveCompletedSeasons, TypeOK, AfterLoop
  <2> QED
    BY <2>1, <2>2
    DEF RunOrder, Fresh, Drained, InOrder, Handled, Pending, BeforeLoop, AfterLoop
<1>9. CASE CompleteRefreshRun(r) \/ FailRefreshRun(r) \/ Crash(r)
  <2>1. local'[r] = NoLocal /\ pc'[r] = "exited" /\ events' = events
    BY <1>9 DEF CompleteRefreshRun, FailRefreshRun, Crash, Exit, TypeOK, tables
  <2> QED BY <2>1, OrderIdle DEF NoLocal, BeforeLoop
<1> QED
  BY <1>1, <1>2, <1>3, <1>4, <1>5, <1>6, <1>7, <1>8, <1>9 DEF Step

\* A run starts with nothing in its hands.
LEMMA OrderStart ==
    ASSUME TypeOK, NEW r \in Runs, NEW s \in Seasons, NEW entire \in BOOLEAN,
           StartRefreshRun(r, s, entire)
    PROVE  RunOrder(r)' /\ events' = events
<1>1. local'[r] = [NoLocal EXCEPT !.season = s, !.entire = entire]
  BY DEF StartRefreshRun, TypeOK
<1>2. pc'[r] = "processed_ids" /\ events' = events
  BY DEF StartRefreshRun, TypeOK, tables
<1> QED BY <1>1, <1>2, OrderIdle DEF NoLocal, BeforeLoop

\* An action of one run changes the locals and the place of that run only.
LEMMA OthersUnchanged ==
    ASSUME TypeOK, NEW r \in Runs, NEW q \in Runs, q # r,
           \/ StartIncremental(r) \/ StartBackfill(r) \/ Step(r)
           \/ FailRefreshRun(r) \/ Crash(r)
    PROVE  local'[q] = local[q] /\ pc'[q] = pc[q]
<1>1. CASE StartIncremental(r) \/ StartBackfill(r)
  BY <1>1 DEF StartIncremental, StartBackfill, StartRefreshRun, TypeOK
<1>2. CASE FailRefreshRun(r) \/ Crash(r) \/ CompleteRefreshRun(r)
  BY <1>2 DEF FailRefreshRun, Crash, CompleteRefreshRun, Exit, TypeOK
<1>3. CASE GetProcessedEventIds(r) \/ GetInProgressEventIds(r)
  BY <1>3 DEF GetProcessedEventIds, GetInProgressEventIds, TypeOK
<1>4. CASE GetLastUpdatedEventStart(r) \/ GetOldestInProgressEventStart(r)
  BY <1>4 DEF GetLastUpdatedEventStart, GetOldestInProgressEventStart, TypeOK
<1>5. CASE FetchEvents(r) \/ FetchBatch(r)
  BY <1>5 DEF FetchEvents, FetchBatch, TypeOK
<1>6. CASE RecordEventResults(r) \/ FetchMissingTeamProfiles(r)
  BY <1>6 DEF RecordEventResults, FetchMissingTeamProfiles, TypeOK
<1>7. CASE UpdateRefreshRunProgress(r) \/ RefreshTeamSeasonSummary(r)
           \/ ArchiveCompletedSeasons(r)
  BY <1>7 DEF UpdateRefreshRunProgress, RefreshTeamSeasonSummary,
              ArchiveCompletedSeasons, TypeOK
<1> QED BY <1>1, <1>2, <1>3, <1>4, <1>5, <1>6, <1>7 DEF Step

OrderInv == TypeOK /\ \A r \in Runs : RunOrder(r)

\* The inductive step for the scoring order.
LEMMA OrderStep == OrderInv /\ [Next]_vars => OrderInv'
<1> SUFFICES ASSUME OrderInv, [Next]_vars PROVE \A q \in Runs : RunOrder(q)'
  BY TypeStep DEF OrderInv
<1> USE DEF OrderInv
<1>1. CASE Tick \/ ArchiveCommand \/ UNCHANGED vars
  <2>1. UNCHANGED <<events, pc, local>>
    BY <1>1 DEF Tick, ArchiveCommand, ArchiveSeasons, vars, tables
  <2> QED BY <2>1, OrderFrame
<1>2. ASSUME NEW r \in Runs,
             \/ StartIncremental(r) \/ StartBackfill(r) \/ Step(r)
             \/ FailRefreshRun(r) \/ Crash(r)
      PROVE  \A q \in Runs : RunOrder(q)'
  <2>1. RunOrder(r)' /\ events \subseteq events'
    <3>1. CASE StartIncremental(r)
      BY <3>1, OrderStart DEF StartIncremental
    <3>2. CASE StartBackfill(r)
      BY <3>2, OrderStart, SeasonsAssumption DEF StartBackfill
    <3> QED BY <1>2, <3>1, <3>2, OrderOwnStep
  <2> QED BY <1>2, <2>1, OthersUnchanged, OrderFrame
<1> QED BY <1>1, <1>2 DEF Next

\* The scoring order holds before anything has run.
LEMMA OrderInit == Init => OrderInv
<1> SUFFICES ASSUME Init PROVE OrderInv
  OBVIOUS
<1>1. TypeOK
  BY NoLocalType, BoundsAssumption DEF Init, TypeOK, EmptySeasonTable, NoVersions, Versions, InTry
<1>2. ASSUME NEW r \in Runs PROVE RunOrder(r)
  BY DEF Init, NoLocal, RunOrder, Fresh, Drained, InOrder, Handled, Pending,
         BeforeLoop, AfterLoop
<1> QED BY <1>1, <1>2 DEF OrderInv

\* The scoring order, strengthened, is an invariant.
LEMMA OrderInvariant == Spec => []OrderInv
BY OrderInit, OrderStep, PTL DEF Spec

\* Across batch boundaries a run scores in chronological order: the TrueSkill
\* belief of update_events() never goes back in time within a run.
THEOREM ScoringIsChronological == Spec => []ScoredInChronologicalOrder
<1>1. OrderInv => ScoredInChronologicalOrder
  BY DEF OrderInv, RunOrder, InOrder, ScoredInChronologicalOrder
<1> QED BY <1>1, OrderInvariant, PTL

-----------------------------------------------------------------------------
(* The checkpoint                                                          *)

InLoop == {"fetch_batch", "record", "profiles", "progress"}

\* The start an incremental run is about to query from misses nothing.
StartCovers(r) ==
    /\ pc[r] \in {"oldest", "fetch_events"}
    /\ ~local[r].entire
    /\ Newest(local[r].season)
    => \A x \in Events :
          /\ EventSeason[x] = local[r].season
          /\ ConfigEventStart <= EventStart[x]
          /\ EventStart[x] < local[r].start
          => x \in events

\* Whatever is in the scope of a run is recorded or still in its hands.
TodoCovers(r) ==
    /\ pc[r] \in InLoop \cup AfterLoop
    /\ local[r].entire \/ Newest(local[r].season)
    => InScope(local[r].season, local[r].entire, local[r].now)
          \subseteq events \cup Pending(r) \cup local[r].todo

Covers(r) == StartCovers(r) /\ TodoCovers(r)

\* A season that is the newest after more events were recorded was it before.
LEMMA NewestAntitone ==
    ASSUME events \subseteq events', NEW s, Newest(s)'
    PROVE  Newest(s)
BY DEF Newest

\* What other runs record leaves the coverage of a run alone.
LEMMA CoversFrame ==
    ASSUME NEW q \in Runs, Covers(q), events \subseteq events',
           local'[q] = local[q], pc'[q] = pc[q]
    PROVE  Covers(q)'
<1>1. StartCovers(q)'
  BY NewestAntitone DEF Covers, StartCovers
<1>2. TodoCovers(q)'
  BY NewestAntitone DEF Covers, TodoCovers, Pending, InScope
<1> QED BY <1>1, <1>2 DEF Covers

\* Recording an event: nothing of the newest season is missing before it.
LEMMA RecordedInOrder ==
    ASSUME TypeOK, NEW r \in Runs, RunOrder(r), Covers(r), RecordEventResults(r)
    PROVE  \E e \in Events :
              /\ events' = events \cup {e}
              /\ Newest(EventSeason[e]) =>
                    \A x \in Events :
                        /\ EventSeason[x] = EventSeason[e]
                        /\ ConfigEventStart <= EventStart[x]
                        /\ EventStart[x] < EventStart[e]
                        => x \in events
<1>1. PICK e \in Pending(r) :
          /\ \A other \in Pending(r) : EventStart[e] <= EventStart[other]
          /\ events' = events \cup {e}
  BY DEF RecordEventResults
<1>2. /\ e \in Events
      /\ EventSeason[e] = local[r].season
      /\ EventStart[e] <= local[r].now
  BY <1>1, LocalSetsOf DEF Pending, RunOrder, Handled
<1>3. ASSUME Newest(EventSeason[e]), NEW x \in Events,
             EventSeason[x] = EventSeason[e],
             ConfigEventStart <= EventStart[x],
             EventStart[x] < EventStart[e]
      PROVE  x \in events
  <2>1. /\ EventStart[x] \in Nat /\ EventStart[e] \in Nat /\ local[r].now \in Nat
        /\ \A y \in Pending(r) \cup local[r].todo : EventStart[y] \in Nat
    BY <1>2, EventsAssumption, LocalSetsOf DEF Pending
  <2>2. x \in InScope(local[r].season, local[r].entire, local[r].now)
    BY <1>2, <1>3, <2>1, ConfigAssumption DEF InScope
  <2>3. pc[r] \in InLoop
    BY DEF RecordEventResults, InLoop
  <2>4. x \in events \cup Pending(r) \cup local[r].todo
    BY <1>2, <1>3, <2>2, <2>3 DEF Covers, TodoCovers
  <2>5. x \notin Pending(r) /\ x \notin local[r].todo
    BY <1>1, <1>3, <2>1 DEF RunOrder, InOrder
  <2> QED BY <2>4, <2>5
<1> QED BY <1>1, <1>2, <1>3

\* A run's own steps keep its coverage: from the checkpoint, through the list,
\* to the recorded events.
LEMMA CoversOwnStep ==
    ASSUME SeasonsDisjoint, TypeOK, NoHoleBehindCheckpoint,
           NEW r \in Runs, RunOrder(r), Covers(r),
           Step(r) \/ Crash(r) \/ FailRefreshRun(r)
    PROVE  Covers(r)'
<1> USE LocalSetsOf
<1>1. CASE GetProcessedEventIds(r) \/ GetInProgressEventIds(r)
  <2>1. pc'[r] \notin InLoop \cup AfterLoop /\ pc'[r] # "oldest"
    BY <1>1 DEF GetProcessedEventIds, GetInProgressEventIds, TypeOK, InLoop, AfterLoop
  <2>2. pc'[r] = "fetch_events" => local'[r].entire
    <3>1. CASE GetProcessedEventIds(r)
      BY <3>1 DEF GetProcessedEventIds, TypeOK
    <3>2. CASE GetInProgressEventIds(r)
      <4>1. local'[r] = [local[r] EXCEPT !.inProgress = InProgress(local[r].now)]
        BY <3>2 DEF GetInProgressEventIds, TypeOK
      <4>2. local'[r].entire = local[r].entire
        BY <4>1 DEF LocalState
      <4> QED BY <3>2, <4>2 DEF GetInProgressEventIds, TypeOK
    <3> QED BY <1>1, <3>1, <3>2
  <2> QED BY <2>1, <2>2 DEF Covers, StartCovers, TodoCovers
<1>2. CASE GetLastUpdatedEventStart(r)
  <2> DEFINE start == IF lastProcessed = NoEvent THEN ConfigEventStart
                                                 ELSE EventStart[lastProcessed]
  <2>1. local'[r] = [local[r] EXCEPT !.start = start]
    BY <1>2 DEF GetLastUpdatedEventStart, TypeOK
  <2>2. local'[r].start = start /\ local'[r].season = local[r].season
    BY <2>1 DEF LocalState
  <2>3. pc'[r] = "oldest" /\ events' = events
    BY <1>2 DEF GetLastUpdatedEventStart, TypeOK, tables
  <2>4. ASSUME Newest(local[r].season), NEW x \in Events,
               EventSeason[x] = local[r].season,
               ConfigEventStart <= EventStart[x], EventStart[x] < start
        PROVE  x \in events
    <3>1. EventStart[x] \in Nat /\ ConfigEventStart \in Nat /\ start \in Nat
      BY EventsAssumption, ConfigAssumption DEF TypeOK
    <3>2. lastProcessed \in events /\ lastProcessed \in Events
          /\ start = EventStart[lastProcessed]
      BY <2>4, <3>1 DEF TypeOK
    <3>3. EventSeason[lastProcessed] <= local[r].season
      BY <2>4, <3>2 DEF Newest
    <3>4. EventSeason[lastProcessed] \in Nat /\ EventSeason[x] \in Nat
      BY <3>2, EventsAssumption, SeasonsAssumption
    <3>5. EventSeason[lastProcessed] = local[r].season
      BY <2>4, <3>1, <3>2, <3>3, <3>4 DEF SeasonsDisjoint
    <3> QED BY <2>4, <3>2, <3>5 DEF NoHoleBehindCheckpoint
  <2> HIDE DEF start
  <2> QED
    BY <2>2, <2>3, <2>4 DEF Covers, StartCovers, TodoCovers, Newest, InLoop, AfterLoop
<1>3. CASE GetOldestInProgressEventStart(r)
  <2>1. PICK start \in {local[r].start} \cup
                       {EventStart[e] : e \in InProgress(local[r].now)} :
            /\ start <= local[r].start
            /\ local' = [local EXCEPT ![r].start = start]
    BY <1>3 DEF GetOldestInProgressEventStart
  <2>2. start \in Nat
    BY <2>1, EventsAssumption DEF TypeOK, InProgress
  <2>3. /\ local'[r].start = start
        /\ local'[r].season = local[r].season
        /\ local'[r].entire = local[r].entire
    BY <2>1 DEF LocalState, TypeOK
  <2>4. pc[r] = "oldest" /\ pc'[r] = "fetch_events" /\ events' = events
    BY <1>3 DEF GetOldestInProgressEventStart, TypeOK, tables
  <2>5. \A x \in Events : EventStart[x] < start => EventStart[x] < local[r].start
    BY <2>1, <2>2, EventsAssumption
  <2> QED
    BY <2>3, <2>4, <2>5 DEF Covers, StartCovers, TodoCovers, Newest, InLoop, AfterLoop
<1>4. CASE FetchEvents(r)
  <2> DEFINE todo == {e \in Listed(r) : \/ e \notin local[r].processed
                                        \/ e \in local[r].inProgress}
  <2>1. local'[r] = [local[r] EXCEPT !.todo = todo]
    BY <1>4 DEF FetchEvents, TypeOK
  <2>2. /\ local'[r].todo = todo
        /\ local'[r].season = local[r].season
        /\ local'[r].entire = local[r].entire
        /\ local'[r].now = local[r].now
    BY <2>1 DEF LocalState
  <2>3. /\ pc[r] = "fetch_events" /\ pc'[r] \in {"complete", "fetch_batch"}
        /\ events' = events
    BY <1>4 DEF FetchEvents, TypeOK, tables
  <2>4. ASSUME local[r].entire \/ Newest(local[r].season),
               NEW x \in InScope(local[r].season, local[r].entire, local[r].now)
        PROVE  x \in events \cup todo
    <3>1. CASE x \in Listed(r)
      BY <3>1 DEF RunOrder, Handled
    <3>2. CASE x \notin Listed(r)
      <4>1. ~local[r].entire /\ ~(EventStart[x] >= local[r].start)
        BY <2>4, <3>2 DEF InScope, Listed
      <4>2. EventStart[x] < local[r].start
        BY <2>4, <4>1, EventsAssumption DEF InScope
      <4> QED
        BY <2>3, <2>4, <4>1, <4>2, EventsAssumption, ConfigAssumption
        DEF InScope, Covers, StartCovers
    <3> QED BY <3>1, <3>2
  <2> HIDE DEF todo
  <2> QED
    BY <2>2, <2>3, <2>4 DEF Covers, StartCovers, TodoCovers, Newest, InScope
<1>5. CASE FetchBatch(r)
  <2>1. PICK b \in FirstBatches(local[r].todo) :
            local' = [local EXCEPT ![r] = [@ EXCEPT
                        !.batch = b, !.todo = local[r].todo \ b,
                        !.fetched = [e \in Events |-> IF e \in b THEN VexData[e][now]
                                                                 ELSE 0]]]
    BY <1>5 DEF FetchBatch, FetchEventData
  <2>2. /\ local'[r].batch = b
        /\ local'[r].todo = local[r].todo \ b
        /\ local'[r].scored = local[r].scored
        /\ local'[r].season = local[r].season
        /\ local'[r].entire = local[r].entire
        /\ local'[r].now = local[r].now
    BY <2>1 DEF LocalState, TypeOK
  <2>3. pc[r] = "fetch_batch" /\ pc'[r] = "record" /\ events' = events
    BY <1>5 DEF FetchBatch, TypeOK, tables
  <2>4. Pending(r) = {} /\ local[r].scored \subseteq events
    BY <2>3 DEF RunOrder, Drained, Handled
  <2>5. local[r].todo \subseteq events \cup Pending(r)' \cup local'[r].todo
    BY <2>2, <2>4 DEF Pending
  <2> QED
    BY <2>2, <2>3, <2>4, <2>5
    DEF Covers, StartCovers, TodoCovers, Newest, InScope, InLoop
<1>6. CASE RecordEventResults(r)
  <2>1. PICK e \in Pending(r) :
            /\ events' = events \cup {e}
            /\ local' = [local EXCEPT ![r].scored = @ \cup {e}]
    BY <1>6 DEF RecordEventResults
  <2>2. /\ local'[r].scored = local[r].scored \cup {e}
        /\ local'[r].batch = local[r].batch
        /\ local'[r].todo = local[r].todo
        /\ local'[r].season = local[r].season
        /\ local'[r].entire = local[r].entire
        /\ local'[r].now = local[r].now
    BY <2>1 DEF LocalState, TypeOK
  <2>3. pc[r] = "record" /\ pc'[r] \in {"profiles", "record"}
    BY <1>6 DEF RecordEventResults, TypeOK
  <2>4. events \cup Pending(r) \subseteq events' \cup Pending(r)'
    BY <2>1, <2>2 DEF Pending
  <2>5. Newest(local[r].season)' => Newest(local[r].season)
    BY <2>1, <2>2, NewestAntitone DEF Newest
  <2> QED
    BY <2>2, <2>3, <2>4, <2>5
    DEF Covers, StartCovers, TodoCovers, Newest, InScope, InLoop
<1>7. CASE FetchMissingTeamProfiles(r)
  <2>1. local'[r] = [local[r] EXCEPT !.events_processed =
                        local[r].events_processed + Cardinality(local[r].batch)]
    BY <1>7 DEF FetchMissingTeamProfiles, TypeOK
  <2>2. /\ local'[r].batch = local[r].batch
        /\ local'[r].todo = local[r].todo
        /\ local'[r].scored = local[r].scored
        /\ local'[r].season = local[r].season
        /\ local'[r].entire = local[r].entire
        /\ local'[r].now = local[r].now
    BY <2>1 DEF LocalState
  <2>3. pc[r] = "profiles" /\ pc'[r] = "progress" /\ events' = events
    BY <1>7 DEF FetchMissingTeamProfiles, TypeOK, tables
  <2> QED
    BY <2>2, <2>3
    DEF Covers, StartCovers, TodoCovers, Newest, InScope, Pending, InLoop
<1>8. CASE UpdateRefreshRunProgress(r) \/ RefreshTeamSeasonSummary(r)
           \/ ArchiveCompletedSeasons(r)
  <2>1. local' = local /\ events' = events
    BY <1>8 DEF UpdateRefreshRunProgress, RefreshTeamSeasonSummary,
                ArchiveCompletedSeasons, ArchiveSeasons, tables
  <2>2. /\ pc[r] \in InLoop \cup AfterLoop
        /\ pc'[r] \in {"refresh", "fetch_batch", "archive", "complete"}
    BY <1>8 DEF UpdateRefreshRunProgress, RefreshTeamSeasonSummary,
                ArchiveCompletedSeasons, TypeOK, InLoop, AfterLoop
  <2> QED
    BY <2>1, <2>2
    DEF Covers, StartCovers, TodoCovers, Newest, InScope, Pending
<1>9. CASE CompleteRefreshRun(r) \/ FailRefreshRun(r) \/ Crash(r)
  <2>1. pc'[r] = "exited"
    BY <1>9 DEF CompleteRefreshRun, FailRefreshRun, Crash, Exit, TypeOK
  <2> QED BY <2>1 DEF Covers, StartCovers, TodoCovers, InLoop, AfterLoop
<1> QED
  BY <1>1, <1>2, <1>3, <1>4, <1>5, <1>6, <1>7, <1>8, <1>9 DEF Step

\* Only recording an event changes which events are recorded.
LEMMA OnlyRecordRecords ==
    ASSUME TypeOK, [Next]_vars
    PROVE  events' = events \/ \E r \in Runs : RecordEventResults(r)
<1>1. CASE Tick \/ ArchiveCommand \/ UNCHANGED vars
  BY <1>1 DEF Tick, ArchiveCommand, ArchiveSeasons, vars, tables
<1>2. ASSUME NEW r \in Runs, StartIncremental(r) \/ StartBackfill(r)
      PROVE  events' = events
  BY <1>2 DEF StartIncremental, StartBackfill, StartRefreshRun, tables
<1>3. ASSUME NEW r \in Runs, FailRefreshRun(r) \/ Crash(r) PROVE events' = events
  BY <1>3 DEF FailRefreshRun, Crash, Exit, tables
<1>4. ASSUME NEW r \in Runs, Step(r), ~RecordEventResults(r) PROVE events' = events
  BY <1>4
  DEF Step, GetProcessedEventIds, GetInProgressEventIds, GetLastUpdatedEventStart,
      GetOldestInProgressEventStart, FetchEvents, FetchBatch,
      FetchMissingTeamProfiles, UpdateRefreshRunProgress, RefreshTeamSeasonSummary,
      ArchiveCompletedSeasons, ArchiveSeasons, CompleteRefreshRun, Exit, tables
<1> QED BY <1>1, <1>2, <1>3, <1>4 DEF Next

\* The only step that could leave a hole records in order, hence leaves none.
LEMMA NoHoleStep ==
    ASSUME OrderInv, NoHoleBehindCheckpoint, \A r \in Runs : Covers(r), [Next]_vars
    PROVE  NoHoleBehindCheckpoint'
<1>1. CASE events' = events
  BY <1>1 DEF NoHoleBehindCheckpoint, Newest
<1>2. ASSUME NEW r \in Runs, RecordEventResults(r)
      PROVE  NoHoleBehindCheckpoint'
  <2>1. PICK e \in Events :
              /\ events' = events \cup {e}
              /\ Newest(EventSeason[e]) =>
                    \A x \in Events :
                        /\ EventSeason[x] = EventSeason[e]
                        /\ ConfigEventStart <= EventStart[x]
                        /\ EventStart[x] < EventStart[e]
                        => x \in events
    BY <1>2, RecordedInOrder DEF OrderInv
  <2>2. ASSUME NEW y \in events', Newest(EventSeason[y])'
        PROVE  Newest(EventSeason[y])
    BY <2>1, <2>2, NewestAntitone DEF Newest
  <2> QED BY <2>1, <2>2 DEF NoHoleBehindCheckpoint
<1> QED BY <1>1, <1>2, OnlyRecordRecords DEF OrderInv

\* The inductive invariant behind the three theorems on completeness.
CoversInv == OrderInv /\ NoHoleBehindCheckpoint /\ \A r \in Runs : Covers(r)

\* The inductive step for the coverage of all runs and the checkpoint.
LEMMA CoversStep ==
    ASSUME SeasonsDisjoint, CoversInv, [Next]_vars
    PROVE  CoversInv'
<1> USE DEF CoversInv
<1>1. OrderInv' /\ NoHoleBehindCheckpoint'
  BY OrderStep, NoHoleStep
<1>2. CASE Tick \/ ArchiveCommand \/ UNCHANGED vars
  <2>1. UNCHANGED <<events, pc, local>>
    BY <1>2 DEF Tick, ArchiveCommand, ArchiveSeasons, vars, tables
  <2> QED BY <1>1, <2>1, CoversFrame
<1>3. ASSUME NEW r \in Runs,
             \/ StartIncremental(r) \/ StartBackfill(r) \/ Step(r)
             \/ FailRefreshRun(r) \/ Crash(r)
      PROVE  \A q \in Runs : Covers(q)'
  <2>1. Covers(r)' /\ events \subseteq events'
    <3>1. CASE StartIncremental(r) \/ StartBackfill(r)
      <4>1. pc'[r] = "processed_ids" /\ events' = events
        BY <3>1 DEF StartIncremental, StartBackfill, StartRefreshRun, OrderInv,
                    TypeOK, tables
      <4> QED BY <4>1 DEF Covers, StartCovers, TodoCovers, InLoop, AfterLoop
    <3> QED BY <1>3, <3>1, CoversOwnStep, OrderOwnStep DEF OrderInv
  <2> QED BY <1>3, <2>1, OthersUnchanged, CoversFrame DEF OrderInv
<1> QED BY <1>1, <1>2, <1>3 DEF Next

\* Nothing is recorded and nothing is covered at first.
LEMMA CoversInit == Init => CoversInv
<1> SUFFICES ASSUME Init PROVE CoversInv
  OBVIOUS
<1>1. \A r \in Runs : Covers(r)
  BY DEF Init, Covers, StartCovers, TodoCovers, InLoop, AfterLoop
<1>2. NoHoleBehindCheckpoint
  BY DEF Init, NoHoleBehindCheckpoint
<1> QED BY <1>1, <1>2, OrderInit DEF CoversInv

\* As long as seasons do not overlap, the checkpoint never skips an event of
\* the newest season, whatever runs overlap, fail or are killed, and when
\* (get_last_updated_event_start(), the batches of update_events()).
THEOREM CheckpointIsSound ==
    ASSUME SeasonsDisjoint
    PROVE  Spec => []NoHoleBehindCheckpoint
<1>1. Init => CoversInv
  BY CoversInit
<1>2. CoversInv /\ [Next]_vars => CoversInv'
  BY CoversStep
<1>3. CoversInv => NoHoleBehindCheckpoint
  BY DEF CoversInv
<1> QED BY <1>1, <1>2, <1>3, PTL DEF Spec

-----------------------------------------------------------------------------
(* What success means                                                      *)

\* Only complete_refresh_run() reports success.
LEMMA OnlyCompleteSucceeds ==
    ASSUME TypeOK, [Next]_vars, NEW r \in Runs, Succeeds(r)
    PROVE  CompleteRefreshRun(r)
<1>1. rows[r].status = "running" /\ rows'[r].status = "succeeded" /\ rows' # rows
  BY DEF Succeeds
<1>2. ~UNCHANGED vars /\ ~Tick /\ ~ArchiveCommand
  BY <1>1 DEF vars, Tick, ArchiveCommand
<1>3. ASSUME NEW q \in Runs,
             \/ StartIncremental(q) \/ StartBackfill(q) \/ Step(q)
             \/ FailRefreshRun(q) \/ Crash(q)
      PROVE  CompleteRefreshRun(r)
  <2>1. ~Crash(q) /\ ~StartIncremental(q) /\ ~StartBackfill(q)
    <3>1. ASSUME NEW s, NEW entire, StartRefreshRun(q, s, entire) PROVE FALSE
      <4>1. rows' = [rows EXCEPT ![q] = [status |-> "running", events_processed |-> 0]]
        BY <3>1 DEF StartRefreshRun
      <4> QED BY <1>1, <4>1 DEF TypeOK
    <3>2. ~Crash(q)
      BY <1>1 DEF Crash
    <3> QED BY <3>1, <3>2 DEF StartIncremental, StartBackfill
  <2>2. ~FailRefreshRun(q)
    BY <1>1 DEF FailRefreshRun, Exit, TypeOK
  <2>3. ~UpdateRefreshRunProgress(q)
    BY <1>1 DEF UpdateRefreshRunProgress, TypeOK
  <2>4. CompleteRefreshRun(q)
    BY <1>1, <1>3, <2>1, <2>2, <2>3
    DEF Step, GetProcessedEventIds, GetInProgressEventIds, GetLastUpdatedEventStart,
        GetOldestInProgressEventStart, FetchEvents, FetchBatch, RecordEventResults,
        FetchMissingTeamProfiles, RefreshTeamSeasonSummary, ArchiveCompletedSeasons
  <2>5. q = r
    BY <1>1, <2>4 DEF CompleteRefreshRun, Exit, TypeOK
  <2> QED BY <2>4, <2>5
<1> QED BY <1>2, <1>3 DEF Next

\* As long as seasons do not overlap, a run that reports success has left no
\* event of its scope unrecorded, whatever the other runs did meanwhile.
THEOREM SuccessIsComplete ==
    ASSUME SeasonsDisjoint
    PROVE  Spec => SuccessLeavesNoGap
<1>1. Init => CoversInv
  BY CoversInit
<1>2. CoversInv /\ [Next]_vars => CoversInv'
  BY CoversStep
<1>3. ASSUME CoversInv, [Next]_vars, NEW r \in Runs, Succeeds(r),
             local[r].entire \/ Newest(local[r].season)
      PROVE  InScope(local[r].season, local[r].entire, local[r].now) \subseteq events
  <2>1. pc[r] = "complete"
    BY <1>3, OnlyCompleteSucceeds DEF CoversInv, OrderInv, CompleteRefreshRun
  <2>2. Pending(r) = {} /\ local[r].todo = {}
    BY <1>3, <2>1 DEF CoversInv, OrderInv, RunOrder, Drained, AfterLoop
  <2> QED BY <1>3, <2>1, <2>2 DEF CoversInv, Covers, TodoCovers, AfterLoop
<1>4. CoversInv /\ [Next]_vars =>
        (\A r \in Runs : Succeeds(r) =>
            LET l == local[r]
            IN  l.entire \/ Newest(l.season) =>
                    InScope(l.season, l.entire, l.now) \subseteq events)
  BY <1>3
<1> QED BY <1>1, <1>2, <1>4, PTL DEF Spec, SuccessLeavesNoGap

-----------------------------------------------------------------------------
(* Refinement                                                              *)

\* As long as seasons do not overlap, the pipeline implements the abstract
\* ledger: recording an event is an Ingest, every other step a stutter.
THEOREM PipelineImplementsLedger ==
    ASSUME SeasonsDisjoint
    PROVE  Spec => ImplementsLedger
<1>1. Init => CoversInv
  BY CoversInit
<1>2. CoversInv /\ [Next]_vars => CoversInv'
  BY CoversStep
<1>3. Init => Ledger!Init
  BY DEF Init, Ledger!Init
<1>4. ASSUME CoversInv, [Next]_vars
      PROVE  [Ledger!Next]_events
  <2>1. ASSUME NEW r \in Runs, RecordEventResults(r)
        PROVE  Ledger!Next
    <3>1. PICK e \in Events :
              /\ events' = events \cup {e}
              /\ Newest(EventSeason[e]) =>
                    \A x \in Events :
                        /\ EventSeason[x] = EventSeason[e]
                        /\ ConfigEventStart <= EventStart[x]
                        /\ EventStart[x] < EventStart[e]
                        => x \in events
      BY <1>4, <2>1, RecordedInOrder DEF CoversInv, OrderInv
    <3>2. \A x \in Events : EventStart[x] >= ConfigEventStart <=>
                            ConfigEventStart <= EventStart[x]
      BY EventsAssumption, ConfigAssumption
    <3>3. Ledger!Ingest(e)
      BY <3>1, <3>2 DEF Ledger!Ingest, Ledger!Newest, Ledger!Predecessors, Newest
    <3> QED BY <3>3 DEF Ledger!Next
  <2> QED BY <1>4, <2>1, OnlyRecordRecords DEF CoversInv, OrderInv
<1> QED BY <1>1, <1>2, <1>3, <1>4, PTL DEF Spec, ImplementsLedger, Ledger!Spec

\* The contract is worth implementing: whatever records events in the order the
\* ledger asks for leaves no hole behind the checkpoint, seasons that overlap
\* included (that they do not is needed by the pipeline, to follow the order).
THEOREM LedgerIsSound == Ledger!Spec => []NoHoleBehindCheckpoint
<1> DEFINE LInv == events \subseteq Events /\ NoHoleBehindCheckpoint
<1>1. Ledger!Init => LInv
  BY DEF Ledger!Init, NoHoleBehindCheckpoint
<1>2. ASSUME LInv, [Ledger!Next]_events
      PROVE  LInv'
  <2>1. CASE events' = events
    BY <1>2, <2>1 DEF NoHoleBehindCheckpoint, Newest
  <2>2. CASE Ledger!Next
    <3>1. PICK new \in Events : Ledger!Ingest(new)
      BY <2>2 DEF Ledger!Next
    <3>2. events' = events \cup {new} /\ events' \subseteq Events
      BY <1>2, <3>1 DEF Ledger!Ingest
    <3>3. SUFFICES ASSUME NEW e \in events', Newest(EventSeason[e])',
                          NEW x \in Events,
                          EventSeason[x] = EventSeason[e],
                          ConfigEventStart <= EventStart[x],
                          EventStart[x] < EventStart[e]
                   PROVE  x \in events'
      BY <3>2 DEF NoHoleBehindCheckpoint
    <3>4. Newest(EventSeason[e])
      BY <3>2, <3>3 DEF Newest
    <3>5. CASE e \in events
      BY <1>2, <3>2, <3>3, <3>4, <3>5 DEF NoHoleBehindCheckpoint
    <3>6. CASE e = new
      <4>1. Ledger!Newest(EventSeason[new])
        BY <3>4, <3>6 DEF Newest, Ledger!Newest
      <4>2. Ledger!Predecessors(new) \subseteq events
        BY <3>1, <4>1 DEF Ledger!Ingest
      <4>3. EventStart[x] >= ConfigEventStart
        BY <3>3, EventsAssumption, ConfigAssumption
      <4> QED BY <3>2, <3>3, <3>6, <4>2, <4>3 DEF Ledger!Predecessors
    <3> QED BY <3>2, <3>5, <3>6
  <2> QED BY <1>2, <2>1, <2>2
<1>3. LInv => NoHoleBehindCheckpoint
  OBVIOUS
<1> QED BY <1>1, <1>2, <1>3, PTL DEF Ledger!Spec

-----------------------------------------------------------------------------
(* The progress row                                                        *)

\* Where what is counted, in memory and in the row, is what was scored.
Settled == {"fetch_batch"} \cup AfterLoop

\* The row counts the batches that are finished: the current one is handed out
\* apart from what is scored and to do, and counted when it is left.
Counted(r) ==
    LET l == local[r]
        n == rows[r].events_processed
    IN  /\ Cardinality(l.batch) <= EventBatchSize
        /\ l.todo \cap (l.batch \cup l.scored) = {}
        /\ pc[r] \in BeforeLoop \ {"new", "exited"} =>
              n = 0 /\ l.events_processed = 0
        /\ pc[r] \in Settled =>
              n = Cardinality(l.scored) /\ l.events_processed = n
        /\ pc[r] \in {"record", "profiles"} =>
              n = Cardinality(l.scored \ l.batch) /\ l.events_processed = n
        /\ pc[r] = "progress" =>
              /\ l.events_processed = Cardinality(l.scored)
              /\ n + Cardinality(l.batch) = Cardinality(l.scored)

\* Sets of events are finite, and splitting one adds up.
LEMMA EventCounts ==
    ASSUME NEW S \in SUBSET Events, NEW T \in SUBSET Events
    PROVE  /\ IsFiniteSet(S) /\ Cardinality(S) \in Nat
           /\ Cardinality(S) = Cardinality(S \ T) + Cardinality(S \cap T)
           /\ Cardinality(S \ T) \in Nat
           /\ Cardinality(S \cap T) \in Nat
           /\ Cardinality(S \cap T) <= Cardinality(T)
<1>1. IsFiniteSet(S) /\ IsFiniteSet(T)
  BY EventsAssumption, FS_Subset
<1>2. IsFiniteSet(S \ T) /\ IsFiniteSet(S \cap T)
  BY <1>1, FS_Subset
<1>3. Cardinality(S \ T) = Cardinality(S) - Cardinality(S \cap T)
  BY <1>1, FS_Difference
<1>4. Cardinality(S \cap T) <= Cardinality(T)
  <2>1. S \cap T \in SUBSET T
    OBVIOUS
  <2> QED BY <1>1, <2>1, FS_Subset
<1> QED BY <1>1, <1>2, <1>3, <1>4, FS_CardinalityType

\* What is counted of a run depends on its place, its row and its locals.
LEMMA CountFrame ==
    ASSUME NEW q \in Runs, Counted(q), pc'[q] = pc[q], local'[q] = local[q],
           rows'[q] = rows[q]
    PROVE  Counted(q)'
BY DEF Counted

\* A run that starts or ends has nothing in its hands to count.
LEMMA CountIdle ==
    ASSUME NEW r \in Runs, pc'[r] \in BeforeLoop,
           local'[r].batch = {}, local'[r].todo = {},
           pc'[r] \notin {"new", "exited"} =>
              local'[r].events_processed = 0 /\ rows'[r].events_processed = 0
    PROVE  Counted(r)'
<1>1. Cardinality({}) = 0
  BY FS_EmptySet
<1> QED BY <1>1, ConfigAssumption DEF Counted, BeforeLoop, AfterLoop, Settled

\* The steps of one run do not touch the rows of another.
LEMMA OtherRowsUnchanged ==
    ASSUME TypeOK, NEW r \in Runs, NEW q \in Runs, q # r,
           \/ StartIncremental(r) \/ StartBackfill(r) \/ Step(r)
           \/ FailRefreshRun(r) \/ Crash(r)
    PROVE  rows'[q] = rows[q]
<1>1. CASE StartIncremental(r) \/ StartBackfill(r)
  BY <1>1 DEF StartIncremental, StartBackfill, StartRefreshRun, TypeOK
<1>2. CASE FailRefreshRun(r) \/ Crash(r) \/ CompleteRefreshRun(r)
  BY <1>2 DEF FailRefreshRun, Crash, CompleteRefreshRun, Exit, TypeOK
<1>3. CASE UpdateRefreshRunProgress(r)
  BY <1>3 DEF UpdateRefreshRunProgress, TypeOK
<1> QED
  BY <1>1, <1>2, <1>3
  DEF Step, GetProcessedEventIds, GetInProgressEventIds, GetLastUpdatedEventStart,
      GetOldestInProgressEventStart, FetchEvents, FetchBatch, RecordEventResults,
      FetchMissingTeamProfiles, RefreshTeamSeasonSummary, ArchiveCompletedSeasons

\* A run's own steps keep its row and its memory in step.
LEMMA CountOwnStep ==
    ASSUME OrderInv, NEW r \in Runs, Counted(r),
           Step(r) \/ Crash(r) \/ FailRefreshRun(r)
    PROVE  Counted(r)'
<1> USE DEF OrderInv
<1>t. /\ local[r] \in LocalState
      /\ local[r].batch \in SUBSET Events
      /\ local[r].scored \in SUBSET Events
      /\ local[r].todo \in SUBSET Events
      /\ local[r].events_processed \in Nat
      /\ rows[r].events_processed \in Nat
  BY DEF TypeOK, LocalState
<1>1. CASE \/ GetProcessedEventIds(r) \/ GetInProgressEventIds(r)
           \/ GetLastUpdatedEventStart(r) \/ GetOldestInProgressEventStart(r)
  <2>1. /\ local'[r].batch = local[r].batch
        /\ local'[r].todo = local[r].todo
        /\ local'[r].events_processed = local[r].events_processed
    BY <1>1, <1>t DEF GetProcessedEventIds, GetInProgressEventIds,
       GetLastUpdatedEventStart, GetOldestInProgressEventStart, TypeOK, LocalState
  <2>2. /\ pc[r] \in BeforeLoop \ {"new", "exited"}
        /\ pc'[r] \in BeforeLoop \ {"new", "exited"}
        /\ rows' = rows
    BY <1>1 DEF GetProcessedEventIds, GetInProgressEventIds, TypeOK, BeforeLoop,
       GetLastUpdatedEventStart, GetOldestInProgressEventStart
  <2> QED BY <2>1, <2>2, CountIdle DEF Counted, RunOrder, Fresh
<1>2. CASE FetchEvents(r)
  <2> DEFINE T == local'[r].todo
  <2>1. /\ local'[r].batch = local[r].batch
        /\ local'[r].scored = local[r].scored
        /\ local'[r].events_processed = local[r].events_processed
    BY <1>2, <1>t DEF FetchEvents, TypeOK, LocalState
  <2>2. /\ pc[r] = "fetch_events"
        /\ pc'[r] \in {"complete", "fetch_batch"}
        /\ rows' = rows
    BY <1>2 DEF FetchEvents, TypeOK
  <2>3. local[r].batch = {} /\ local[r].scored = {}
    BY <2>2 DEF RunOrder, Fresh, BeforeLoop
  <2>4. Cardinality({}) = 0
    BY FS_EmptySet
  <2> QED BY <2>1, <2>2, <2>3, <2>4, ConfigAssumption
          DEF Counted, BeforeLoop, AfterLoop, Settled
<1>3. CASE FetchBatch(r)
  <2>1. PICK b \in FirstBatches(local[r].todo) :
            /\ local'[r].batch = b
            /\ local'[r].todo = local[r].todo \ b
            /\ local'[r].scored = local[r].scored
            /\ local'[r].events_processed = local[r].events_processed
    BY <1>3, <1>t DEF FetchBatch, TypeOK, LocalState
  <2>2. pc[r] = "fetch_batch" /\ pc'[r] = "record" /\ rows' = rows
    BY <1>3 DEF FetchBatch, TypeOK
  <2>3. b \subseteq local[r].todo /\ Cardinality(b) <= EventBatchSize
    BY DEF FirstBatches
  <2>4. local[r].scored \ b = local[r].scored
    BY <2>3 DEF Counted
  <2> QED BY <2>1, <2>2, <2>3, <2>4 DEF Counted, BeforeLoop, AfterLoop, Settled
<1>4. CASE RecordEventResults(r)
  <2>1. PICK e \in Pending(r) :
            local' = [local EXCEPT ![r].scored = @ \cup {e}]
    BY <1>4 DEF RecordEventResults
  <2>2. /\ local'[r].batch = local[r].batch
        /\ local'[r].todo = local[r].todo
        /\ local'[r].scored = local[r].scored \cup {e}
        /\ local'[r].events_processed = local[r].events_processed
    BY <2>1, <1>t DEF TypeOK, LocalState
  <2>3. pc[r] = "record" /\ pc'[r] \in {"record", "profiles"} /\ rows' = rows
    BY <1>4 DEF RecordEventResults, TypeOK
  <2>4. e \in local[r].batch
    BY DEF Pending
  <2>5. local'[r].scored \ local'[r].batch = local[r].scored \ local[r].batch
    BY <2>2, <2>4
  <2> QED BY <2>2, <2>3, <2>4, <2>5 DEF Counted, BeforeLoop, AfterLoop, Settled
<1>5. CASE FetchMissingTeamProfiles(r)
  <2>1. /\ local'[r].batch = local[r].batch
        /\ local'[r].todo = local[r].todo
        /\ local'[r].scored = local[r].scored
        /\ local'[r].events_processed =
              local[r].events_processed + Cardinality(local[r].batch)
    BY <1>5, <1>t DEF FetchMissingTeamProfiles, TypeOK, LocalState
  <2>2. pc[r] = "profiles" /\ pc'[r] = "progress" /\ rows' = rows
    BY <1>5 DEF FetchMissingTeamProfiles, TypeOK
  <2>3. local[r].scored \cap local[r].batch = local[r].batch
    BY <2>2 DEF RunOrder, Drained, Pending
  <2>4. Cardinality(local[r].scored) =
           Cardinality(local[r].scored \ local[r].batch) + Cardinality(local[r].batch)
    BY <1>t, <2>3, EventCounts
  <2> QED BY <2>1, <2>2, <2>4 DEF Counted, BeforeLoop, AfterLoop, Settled
<1>6. CASE UpdateRefreshRunProgress(r)
  <2>1. /\ pc[r] = "progress" /\ pc'[r] \in {"refresh", "fetch_batch"}
        /\ local' = local
        /\ rows'[r].events_processed = local[r].events_processed
    BY <1>6 DEF UpdateRefreshRunProgress, TypeOK
  <2> QED BY <2>1 DEF Counted, BeforeLoop, AfterLoop, Settled
<1>7. CASE RefreshTeamSeasonSummary(r) \/ ArchiveCompletedSeasons(r)
  <2>1. /\ pc[r] \in AfterLoop /\ pc'[r] \in AfterLoop
        /\ local' = local /\ rows' = rows
    BY <1>7 DEF RefreshTeamSeasonSummary, ArchiveCompletedSeasons, AfterLoop, TypeOK
  <2> QED BY <2>1 DEF Counted, BeforeLoop, AfterLoop, Settled
<1>8. CASE CompleteRefreshRun(r) \/ FailRefreshRun(r) \/ Crash(r)
  <2>1. local'[r] = NoLocal /\ pc'[r] = "exited"
    BY <1>8 DEF CompleteRefreshRun, FailRefreshRun, Crash, Exit, TypeOK
  <2> QED BY <2>1, CountIdle DEF NoLocal, BeforeLoop
<1> QED
  BY <1>1, <1>2, <1>3, <1>4, <1>5, <1>6, <1>7, <1>8 DEF Step

\* A run starts with an empty row.
LEMMA CountStart ==
    ASSUME TypeOK, NEW r \in Runs, StartIncremental(r) \/ StartBackfill(r)
    PROVE  Counted(r)'
<1>1. PICK s \in Seasons, entire \in BOOLEAN : StartRefreshRun(r, s, entire)
  BY SeasonsAssumption DEF StartIncremental, StartBackfill
<1>2. local'[r] = [NoLocal EXCEPT !.season = s, !.entire = entire]
  BY <1>1 DEF StartRefreshRun, TypeOK
<1>3. pc'[r] = "processed_ids" /\ rows'[r].events_processed = 0
  BY <1>1 DEF StartRefreshRun, TypeOK
<1> QED BY <1>2, <1>3, CountIdle DEF NoLocal, BeforeLoop

CountInv == OrderInv /\ \A r \in Runs : Counted(r)

\* The inductive step for the progress row.
LEMMA CountStep == CountInv /\ [Next]_vars => CountInv'
<1> SUFFICES ASSUME CountInv, [Next]_vars PROVE \A q \in Runs : Counted(q)'
  BY OrderStep DEF CountInv
<1> USE DEF CountInv
<1>1. CASE Tick \/ ArchiveCommand \/ UNCHANGED vars
  <2>1. UNCHANGED <<pc, local, rows>>
    BY <1>1 DEF Tick, ArchiveCommand, vars
  <2> QED BY <2>1, CountFrame
<1>2. ASSUME NEW r \in Runs,
             \/ StartIncremental(r) \/ StartBackfill(r) \/ Step(r)
             \/ FailRefreshRun(r) \/ Crash(r)
      PROVE  \A q \in Runs : Counted(q)'
  <2>1. Counted(r)'
    BY <1>2, CountStart, CountOwnStep DEF OrderInv
  <2>2. ASSUME NEW q \in Runs, q # r PROVE Counted(q)'
    BY <1>2, <2>2, OthersUnchanged, OtherRowsUnchanged, CountFrame DEF OrderInv
  <2> QED BY <2>1, <2>2
<1> QED BY <1>1, <1>2 DEF Next

\* Nothing is counted before anything has run.
LEMMA CountInit == Init => CountInv
<1> SUFFICES ASSUME Init, NEW r \in Runs PROVE Counted(r)
  BY OrderInit DEF CountInv
<1>1. /\ local[r].batch = {} /\ local[r].todo = {}
      /\ pc[r] = "new"
  BY DEF Init, NoLocal
<1>2. Cardinality(local[r].batch) <= EventBatchSize
  BY <1>1, FS_EmptySet, ConfigAssumption
<1> QED BY <1>1, <1>2 DEF Counted, BeforeLoop, AfterLoop, Settled

\* However a run ends, its row never claims more than it scored, and is at most
\* one batch behind: what is left behind by a kill can be trusted.
THEOREM ProgressIsAccurate == Spec => []ProgressAccurate
<1>1. CountInv => ProgressAccurate
  <2> SUFFICES ASSUME CountInv, NEW r \in Active
               PROVE  /\ rows[r].events_processed <= Cardinality(local[r].scored)
                      /\ Cardinality(local[r].scored)
                            <= rows[r].events_processed + EventBatchSize
    BY DEF ProgressAccurate
  <2>1. /\ local[r].batch \in SUBSET Events
        /\ local[r].scored \in SUBSET Events
        /\ rows[r].events_processed \in Nat
        /\ r \in Runs
        /\ pc[r] \in InTry
    BY DEF CountInv, OrderInv, TypeOK, LocalState, Active
  <2>2. Counted(r) /\ Fresh(r)
    BY <2>1 DEF CountInv, OrderInv, RunOrder
  <2>3. /\ Cardinality(local[r].scored) \in Nat
        /\ Cardinality(local[r].batch) \in Nat
        /\ Cardinality(local[r].scored \ local[r].batch) \in Nat
        /\ Cardinality(local[r].scored)
              >= Cardinality(local[r].scored \ local[r].batch)
        /\ Cardinality(local[r].scored)
              <= Cardinality(local[r].scored \ local[r].batch)
                 + Cardinality(local[r].batch)
    <3> DEFINE S == local[r].scored
               B == local[r].batch
    <3>1. /\ Cardinality(S) \in Nat
          /\ Cardinality(S) = Cardinality(S \ B) + Cardinality(S \cap B)
          /\ Cardinality(S \ B) \in Nat
          /\ Cardinality(S \cap B) \in Nat
          /\ Cardinality(S \cap B) <= Cardinality(B)
      BY <2>1, EventCounts
    <3>2. Cardinality(B) \in Nat
      BY <2>1, EventCounts
    <3> QED BY <3>1, <3>2
  <2>4. CASE pc[r] \in BeforeLoop
    <3>1. local[r].scored = {}
      BY <2>2, <2>4 DEF Fresh
    <3>2. Cardinality(local[r].scored) = 0
      BY <3>1, FS_EmptySet
    <3>3. rows[r].events_processed = 0
      BY <2>1, <2>2, <2>4 DEF Counted, InTry
    <3> QED BY <3>2, <3>3, ConfigAssumption
  <2>5. CASE pc[r] \in Settled
    BY <2>1, <2>2, <2>5, ConfigAssumption DEF Counted
  <2>6. CASE pc[r] \in {"record", "profiles"}
    BY <2>1, <2>2, <2>3, <2>6, ConfigAssumption DEF Counted
  <2>7. CASE pc[r] = "progress"
    BY <2>1, <2>2, <2>3, <2>7, ConfigAssumption DEF Counted
  <2> QED BY <2>1, <2>4, <2>5, <2>6, <2>7 DEF InTry, BeforeLoop, Settled, AfterLoop
<1> QED BY <1>1, CountInit, CountStep, PTL DEF Spec
=============================================================================
