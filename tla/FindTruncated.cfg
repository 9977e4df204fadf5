SPECIFICATION Spec
CONSTANTS
    Requests = {r1, r2}
    NoReq = NoReq
    Packages = {}
    Metadata = {k1}
    MaxVersion = 2
    SizeOf <- Sizes
    MaxSpools = 2
    Methods = {"GET"}
    RangeKinds = {"full"}
    DiskEnabled = TRUE
    S3ReadsMayFail = FALSE
    EdgesMayLag = FALSE
INVARIANT DiskHoldsWholeObjects
