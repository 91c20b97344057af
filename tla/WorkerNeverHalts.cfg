SPECIFICATION FairSpec
CONSTANTS
    r = r
    b = b
    n = n
    h = h
    NoJob = NoJob
    Jobs = {h}
    Kind <- KindOf
    GpuCount = 1
    JcCount = 1
    DopCount = 1
    Tensors = 1
    MaxPasses = 0
    Spurious = FALSE
PROPERTIES HaltEndsThreads
CHECK_DEADLOCK FALSE
