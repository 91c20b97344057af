SPECIFICATION FairSpec
CONSTANTS
    p1 = p1
    p2 = p2
    Caller = Caller
    Destroyer = Destroyer
    NoThread = NoThread
    Zero = Zero
    Providers = {p1, p2}
    PoolCount = 2
    ElemCount = 3
    Blocking = TRUE
    Runs = 2
    Demand = 3
INVARIANTS TypeOK RingHoldsStream OneProvider PoolsOutliveProvider
PROPERTIES FillFeedsCaller
CHECK_DEADLOCK FALSE
