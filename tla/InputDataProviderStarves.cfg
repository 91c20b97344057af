SPECIFICATION FairSpec
CONSTANTS
    p1 = p1
    p2 = p2
    Caller = Caller
    Destroyer = Destroyer
    NoThread = NoThread
    Zero = Zero
    Providers = {p1}
    PoolCount = 1
    ElemCount = 2
    Blocking = FALSE
    Runs = 1
    Demand = 3
PROPERTIES RunsFed
CHECK_DEADLOCK FALSE
