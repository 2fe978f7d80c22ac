\* Three requests, two at a time, and up to two things that go wrong.
SPECIFICATION FairSpec
CONSTANTS
    Tasks = {t1, t2, t3}
    MaxInFlight = 2
    MaxFailures = 2
    MaxDrivers = 5
    None = None
INVARIANTS
    TypeOK
    OneDriverPerBreakdown
    DriversAccountedFor
PROPERTIES
    FreshContextKept
    EveryFetchEnds
CHECK_DEADLOCK FALSE
