SPECIFICATION Spec
CONSTANTS
    Requests = {r1}
    Nobody = Nobody
    TTL = 1
    Lag = 1
    MaxTime = 9
    MaxVersion = 2
    LastNews = 2
    MaxRenewals = 0
    MaxRestarts = 0
    Disks = {FALSE}
    Validators = {"since"}
    Lengths <- Different
    UpstreamFails = FALSE
    StoreFails = FALSE
CHECK_DEADLOCK FALSE
PROPERTY RevalidationFinds
