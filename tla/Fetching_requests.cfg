SPECIFICATION FetchSpec
CONSTANTS
    Fetcher = {t1, t2}
    Host = {h1, h2}
    Source = {h1}
    MinInterval = 1
    MaxInterval = 2
    Backoff = 1
    MaxRetries = 2
    MaxRequests = 2
    VerdictLimit = 1
    Horizon = 1
    Nobody = Nobody
INVARIANTS
    FetchTypeOK
    SlotsApart
    VerdictFresh
PROPERTIES
    Advances
    FetchEnds
