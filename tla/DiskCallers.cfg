SPECIFICATION Spec
CONSTANTS
    k1 = k1
    k2 = k2
    Workers = {w1, w2, w3}
    Keys = {k1, k2}
    Versions <- TwoVersions
    SizeOf <- Sizes
    Budgets = {"fixed", "auto"}
    Capacity = 2
    DiskSize = 5
    Reserve = 2
    MaxOps = 3
    MaxCrashes = 1
CHECK_DEADLOCK FALSE
SYMMETRY Symmetry
INVARIANTS TypeOK WholeUnlessCrowded UsedIsIndexed CapRespected ReserveKept NoOrphans
PROPERTY ImplementsPromise
