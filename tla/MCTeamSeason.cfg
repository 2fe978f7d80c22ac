\* Two events whose payloads change between two fetches, four teams.
SPECIFICATION Spec
CONSTANTS
    A = A
    B = B
    None = None
    Teams <- MCTeams
    TeamNum <- MCTeamNum
    IdNum <- MCIdNum
    Regions = {A, B}
    Region <- MCRegion
    Events <- MCEvents
    Payloads <- MCPayloads
    Exposures = {0, 1}
    Outcomes <- MCOutcomes
    MaxRecords = 3
INVARIANTS
    TypeOK
    RecordsBalance
    RanksConsistent
    LatestSnapshot
PROPERTIES
    PlacedForGood
CHECK_DEADLOCK FALSE
