SPECIFICATION Spec
CONSTANTS
    Readers = {r1, r2}
    QueueSize = 3
    MaxRetry = 2
    Requests <- AllRequests
    None = None
    Absent = Absent
    Partial = Partial
    SaveInterval = 1
    KeepCount = 2
    BestFrom = 2
    MaxIterations = 4
    Losses = {1, 2}
INVARIANTS TypeOK SlotsHeld SnapshotExact BestKept IntervalKept
SYMMETRY ReaderSymmetry
CHECK_DEADLOCK FALSE
