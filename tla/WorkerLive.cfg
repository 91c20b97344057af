SPECIFICATION FairSpec
CONSTANTS
    r = r
    b = b
    n = n
    h = h
    NoJob = NoJob
    Jobs = {n, r}
    Kind <- KindOf
    GpuCount = 2
    JcCount = 1
    DopCount = 2
    Tensors = 1
    MaxPasses = 0
    Spurious = FALSE
INVARIANTS RunReplyMeansDone
PROPERTIES JobTaken TaskTaken
CHECK_DEADLOCK FALSE
