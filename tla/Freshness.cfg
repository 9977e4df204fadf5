SPECIFICATION Spec
CONSTANTS
    Requests = {r1, r2}
    Nobody = Nobody
    TTL = 1
    Lag = 0
    MaxTime = 4
    MaxVersion = 2
    LastNews = 1
    MaxRenewals = 1
    MaxRestarts = 1
    Disks = {TRUE, FALSE}
    Validators = {"never", "since"}
    Lengths <- SameOrNot
    UpstreamFails = TRUE
    StoreFails = TRUE
SYMMETRY Symmetry
CHECK_DEADLOCK FALSE
INVARIANT TypeOK
PROPERTIES AskedInTime StaleIfAsked
