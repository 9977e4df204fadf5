SPECIFICATION Spec
CONSTANTS
    k1 = k1
    k2 = k2
    Workers = {w1, w2}
    Keys = {k1, k2}
    Versions <- TwoVersions
    SizeOf <- Sizes
    Budgets = {"fixed"}
    Capacity = 3
    DiskSize = 5
    Reserve = 2
    MaxOps = 4
    MaxCrashes = 0
CHECK_DEADLOCK FALSE
SYMMETRY Symmetry
INVARIANT InstalledWhole
