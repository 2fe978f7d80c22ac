\* Two runs overlap, and every run that has started ends.
SPECIFICATION FairSpec
CONSTANTS
    e1 = e1
    e2 = e2
    e3 = e3
    e4 = e4
    NoEvent = NoEvent
    Events <- MCEvents
    EventStart <- MCEventStart
    EventEnd <- MCEventEnd
    EventSeason <- MCEventSeason
    VexData <- MCVexData
    Seasons <- MCSeasons
    SeasonListed <- MCSeasonListed
    SeasonMarker <- MCSeasonMarker
    Runs = {r1, r2}
    BackfillSeasons = {1}
    ConfigSeasonId = 0
    ConfigEventStart = 0
    EventBatchSize = 2
    MaxTime = 3
    MaxActive = 2
PROPERTIES
    SuccessKeepsScored
    ImplementsLedger
    RunsEnd
