SPECIFICATION FairSpec
CONSTANTS
    Requests = {r1, r2}
    NoReq = NoReq
    Packages = {k1, k2}
    Metadata = {}
    MaxVersion = 1
    SizeOf <- Sizes
    MaxSpools = 1
    Methods = {"GET", "HEAD"}
    RangeKinds = {"full", "outside"}
    DiskEnabled = TRUE
    S3ReadsMayFail = TRUE
    EdgesMayLag = TRUE
INVARIANTS SpoolLimit NoSpoolLeak
PROPERTY AllAnswered
