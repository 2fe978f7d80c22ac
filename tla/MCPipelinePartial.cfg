\* An event that ends before the next run stays partial.
SPECIFICATION Spec
CONSTANTS
    e1 = e1
    e2 = e2
    e3 = e3
    e4 = e4
    NoEvent = NoEvent
    Events <- MCEvents
    EventStart <- MCEventStart
    EventEnd <- MCEventEnd
    EventSeason <- MCEventSeason
    VexData <- MCVexData
    Seasons <- MCSeasons
    SeasonListed <- MCSeasonListed
    SeasonMarker <- MCSeasonMarker
    Runs = {r1, r2, r3}
    BackfillSeasons = {}
    ConfigSeasonId = 0
    ConfigEventStart = 0
    EventBatchSize = 2
    MaxTime = 3
    MaxActive = 1
SYMMETRY Symmetry
PROPERTY
    SuccessLeavesNothingPartial
