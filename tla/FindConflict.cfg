SPECIFICATION Spec
CONSTANTS
    Requests = {r1}
    NoReq = NoReq
    Packages = {k1}
    Metadata = {}
    MaxVersion = 2
    SizeOf <- Sizes
    MaxSpools = 2
    Methods = {"GET"}
    RangeKinds = {"full"}
    DiskEnabled = TRUE
    S3ReadsMayFail = TRUE
    EdgesMayLag = FALSE
PROPERTY PackagesKeepSize
