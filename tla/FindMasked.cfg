SPECIFICATION Spec
CONSTANTS
    Requests = {r1, r2, r3}
    NoReq = NoReq
    Packages = {k1}
    Metadata = {}
    MaxVersion = 1
    SizeOf <- Sizes
    MaxSpools = 2
    Methods = {"GET", "HEAD"}
    RangeKinds = {"full"}
    DiskEnabled = TRUE
    S3ReadsMayFail = FALSE
    EdgesMayLag = FALSE
PROPERTY LaterRequestsHit
