SPECIFICATION Spec
CONSTANTS
    Requests = {r1, r2, r3}
    NoReq = NoReq
    Packages = {}
    Metadata = {k1}
    MaxVersion = 2
    SizeOf <- Sizes
    MaxSpools = 2
    Methods = {"GET", "HEAD"}
    RangeKinds = {"full"}
    DiskEnabled = TRUE
    S3ReadsMayFail = FALSE
    EdgesMayLag = TRUE
SYMMETRY Symmetry
INVARIANTS TypeOK OneFetchPerKey WaitsForLiveFlight BucketIsNewest CoalescedServed
PROPERTIES S3NeverRegresses ImplementsPromise
