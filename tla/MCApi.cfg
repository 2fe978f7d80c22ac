\* Two requests at a time, a cache of one entry, a token that is minted and
\* revoked, a rollover and a backfill.
SPECIFICATION FairSpec
CONSTANTS
    t1 = t1
    t2 = t2
    r1 = r1
    r2 = r2
    Requests = {r1, r2}
    Tokens = {t1, t2}
    Label <- MCLabel
    Seasons = {1, 2}
    Scenarios <- MCScenarios
    TTL = 2
    MaxEntries = 1
INVARIANTS
    TypeOK
    CacheBounded
    RevokedTokenGetsNothing
    ActiveTokenNotRefused
    SeasonListComplete
    OwedSeasonFound
    PageNotBehindTotal
PROPERTIES
    RevocationIsFinal
    AnswersBecomeCurrent
