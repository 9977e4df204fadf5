SPECIFICATION FairSpec
CONSTANTS
    Sizes <- Lengths
    Numbers <- Written
    MaxInt = 6
    Caches = {TRUE, FALSE}
    MaxBlock = 2
    MaxFaults = 2
INVARIANTS TypeOK SendsSelection RefusesOnlyEmpty HonoursSelection WarmsWhole CompleteIsWhole PipeInStep TeeTransparent
PROPERTIES NothingHangs Warms DownloadEnds
