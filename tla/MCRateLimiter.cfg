\* Three coroutines and a bucket with a burst allowance of half a request.
SPECIFICATION FairSpec
CONSTANTS
    Callers = {c1, c2, c3}
    Cost = 4
    Capacity = 6
INVARIANTS
    TypeOK
    Paced
    SleepSuffices
PROPERTIES
    EveryCallerServed
