SPECIFICATION Spec
CONSTANTS
    r1 = r1
    r2 = r2
    u1 = u1
    u2 = u2
    Requests = {r1, r2}
    MaxServed = 2
    MaxSaveFaults = 1
    MaxRestarts = 1
    Uploads = {u1, u2}
    LastKey = 2
    MaxSize = 2
    MaxStores = 2
    MaxListFaults = 1
    MaxCrashes = 1
SYMMETRY Symmetry
CONSTRAINT Followed
CHECK_DEADLOCK FALSE
INVARIANTS MetricsTypeOK UsageTypeOK FileIsLastSave PeakExact UnsavedIsDirty UsageExact
PROPERTY SavedNeverRegresses
