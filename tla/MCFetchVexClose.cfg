\* One of two requests fails while the other is still under way.
SPECIFICATION Spec
CONSTANTS
    Tasks = {t1, t2}
    MaxInFlight = 2
    MaxFailures = 1
    MaxDrivers = 3
    None = None
INVARIANT
    CloseAfterAllFetches
CHECK_DEADLOCK FALSE
